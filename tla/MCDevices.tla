----------------------------- MODULE MCDevices -----------------------------
(* The timers run: TimerDpc, and beside it the devices that have no run of *)
(* their own, each on a small instance.  A behaviour is one part's; the    *)
(* others stay as they are created.                                        *)
EXTENDS MCTimerDpc, XmaProcessor, Apu, TLC

(* The packets the executors draw from: of each opcode, those that reach a  *)
(* different branch of its handlers.                                        *)
Type3(op, data) == [op |-> op, base |-> 0, one |-> FALSE, pred |-> FALSE, data |-> data]
Type0(base, one, data) == [Type3("TYPE0", data) EXCEPT !.base = base, !.one = one]
Predicated(p) == [p EXCEPT !.pred = TRUE]
Constant(type, index, values) == Type3("SET_CONSTANT", <<[type |-> type, index |-> index]>> \o values)
Evt(e, samples) == [event |-> e, samples |-> samples]
Indirect(packets) == Type3("INDIRECT_BUFFER", <<0, packets>>)
Query(q, end) == Type3("VIZ_QUERY", <<[query |-> q, end |-> end]>>)
Predicate(enable, inverted) ==
  Type3("SET_PREDICATION", <<[enable |-> enable, query |-> 1, inverted |-> inverted]>>)

MCPacket == <<
  Type0(0, FALSE, <<1, 0>>), Type0(1, TRUE, <<0, 1>>), Type0(2, FALSE, <<1, 1>>),
  Type0(4, FALSE, <<9>>), Type0(4, TRUE, <<0, 2>>), Type0(5, FALSE, <<1>>), Type0(5, FALSE, <<0>>),
  Type0(6, FALSE, <<7>>), Type0(11, FALSE, <<2, 1>>),
  Type3("TYPE2", <<>>), Type3("NOP", <<>>), Type3("INTERRUPT", <<>>), Type3("WAIT_REG_MEM", <<0, 0, 0, 1, 1>>),
  Type3("REG_RMW", <<1, 1, 0>>), Type3("REG_RMW", <<0, 0, 1>>),
  Constant("alu", 1, <<1, 1>>), Constant("fetch", 0, <<1, 1>>), Constant("bool", 0, <<1>>),
  Constant("bool", 1, <<1>>), Constant("loop", 1, <<1, 1>>),
  Type3("LOAD_ALU_CONSTANT", <<[pixel |-> TRUE, index |-> 1, size |-> 1], 1>>),
  Type3("LOAD_ALU_CONSTANT", <<[pixel |-> FALSE, index |-> 0, size |-> 2], 0>>),
  Type3("LOAD_BOOL_CONSTANT", <<0, 1>>), Type3("LOAD_LOOP_CONSTANT", <<1, 0>>),
  Type3("DRAW_INDX", <<8, 3, 0>>), Type3("DRAW_INDX", <<11, 3>>), Type3("DRAW_INDX", <<9, 3>>),
  Type3("DRAW_INDX_2", <<[prim |-> 1, vertices |-> 5]>>), Type3("DRAW_INDX_AUTO", <<4, 2>>),
  Predicated(Type3("DRAW_INDX_AUTO", <<6, 5>>)), Type3("DRAW_INDX_AUTO", <<3, 4>>),
  Type3("DRAW_INDX_BIN", <<8, 3>>), Type3("DRAW_INDX_IMMD", <<0, 3, 0>>),
  Type3("MEM_WRITE", <<0, 2, 3>>), Type3("MEM_WRITE", <<0>>),
  Type3("COND_WRITE", <<[function |-> "=", from |-> "mem", to |-> "reg"], 0, 2, 0, 1>>),
  Type3("COND_WRITE", <<[function |-> "<", from |-> "reg", to |-> "mem"], 0, 1, 1>>),
  Type3("EVENT_WRITE", <<Evt("SWAP", 0)>>), Type3("EVENT_WRITE", <<Evt("CACHE_FLUSH", 0)>>),
  Type3("EVENT_WRITE", <<Evt("ZPASS_DONE", 1)>>), Type3("EVENT_WRITE", <<Evt("VS_DONE", 0)>>),
  Type3("EVENT_WRITE", <<Evt("PS_DONE", 0)>>),
  Type3("EVENT_WRITE_SHD", <<Evt("ZPASS_DONE", 0), 0, 3, 4>>), Type3("EVENT_WRITE_SHD", <<Evt("SWAP", 0), 1, 3>>),
  Type3("EVENT_WRITE_SHD", <<Evt("SWAP", 0)>>),
  Type3("SURFACE_SYNC", <<"color">>), Type3("SURFACE_SYNC", <<"depth">>),
  Query(1, FALSE), Query(1, TRUE), Predicate(TRUE, FALSE), Predicate(TRUE, TRUE), Predicate(FALSE, FALSE),
  Type3("IM_LOAD", <<"pixel", 1>>), Type3("IM_LOAD_IMMEDIATE", <<"vertex", 2, 1>>),
  Type3("SET_BIN", <<[half |-> "mask hi", value |-> 1]>>), Type3("COPY_DW", <<"reg", 0, "mem", 0>>),
  Type3("COPY_DW", <<"mem", 1, 1>>),
  Type3("SCRATCH_RAM_WRITE", <<1, 1>>), Type3("SCRATCH_RAM_READ", <<1, 2>>),
  Indirect(<<Constant("fetch", 0, <<2>>), Type3("DRAW_INDX_AUTO", <<3, 0>>)>>),
  Indirect(<<Indirect(<<Type3("EVENT_WRITE", <<Evt("SWAP", 0)>>), Type0(0, FALSE, <<1>>)>>)>>),
  Indirect(<<Indirect(<<Indirect(<<Type0(0, FALSE, <<1>>)>>)>>)>>),
  Indirect(<<Query(1, FALSE), Type3("EVENT_WRITE", <<Evt("ZPASS_DONE", 0)>>), Predicate(TRUE, FALSE)>>) >>

VARIABLE part               \* the part this behaviour is about

MCStream == {[codec |-> "xma", packets |-> 2, read |-> 2, loops |-> 1],
             [codec |-> "pcm3", packets |-> 2, read |-> 0, loops |-> 0]}

VARIABLES side, direct_shares, stub_shares, seen
packets == <<side, direct_shares, stub_shares, seen>>
Executors == INSTANCE PacketExecutors WITH kMaxIBDepth <- 2, MAX_OCCLUSION_QUERIES <- 2,
                                           HasConditionalRendering <- FALSE,
                                           Packet <- MCPacket, MaxPackets <- 3

VARIABLES handle, live, holders, flags, history
vulkan == <<handle, live, holders, flags, history>>
Vulkan == INSTANCE VulkanLifecycle WITH MaxSessions <- 2

Rest(k) ==                   \* the other parts do not move
  /\ UNCHANGED part
  /\ k # 1 => UNCHANGED vars
  /\ k # 2 => UNCHANGED apu_vars
  /\ k # 3 => UNCHANGED packets
  /\ k # 4 => UNCHANGED vulkan
  /\ k # 5 => UNCHANGED xma_vars

SuiteInit ==
  /\ Init /\ ApuInit /\ Executors!Init /\ Vulkan!Init /\ XmaInit
  /\ part \in {"timers", "apu", "packets", "vulkan", "xma"}
SuiteNext ==
  \/ part = "timers" /\ Next /\ Rest(1)
  \/ part = "apu" /\ ApuNext /\ Rest(2)
  \/ part = "packets" /\ Executors!Next /\ Rest(3)
  \/ part = "vulkan" /\ Vulkan!Next /\ Rest(4)
  \/ part = "xma" /\ XmaNext /\ Rest(5)

svars == <<part, vars, apu_vars, packets, vulkan, xma_vars>>
SuiteSpec == SuiteInit /\ [][SuiteNext]_svars

Symmetry == Permutations(Pass)

\* Each part keeps the types of its variables.
PartsTypeOK == TypeOK /\ ApuOK /\ (part = "vulkan" => Vulkan!TypeOK) /\ XmaOK
(* The three executors of a packet keep the same shares; a plain session of  *)
(* the device, one surface and no failure, gives it nothing that is gone and *)
(* leaves nothing of what was made for it but one layout; and the buffers,   *)
(* outputs and voices of the XMA contexts stay in step.                      *)
DevicesKept ==
  /\ part = "packets" => Executors!TestsSeeTheRing
  /\ part = "vulkan" => Vulkan!PlainIsDefined /\ Vulkan!NothingLeft /\ Vulkan!OneSwapchain
  /\ XmaKept
=============================================================================
