------------------------------ MODULE Packets ------------------------------
(***************************************************************************)
(* gpu/xenos/command_processor.cpp, what a PM4 packet does: the state of a *)
(* command processor as a record, its registers with their side effects,   *)
(* draws and resolves, and the handlers the ring runs packets through.     *)
(* A packet is [op, base, one, pred, data], data its payload words.        *)
(* Ranges are small: constants, fetch slots, queries, memory words.        *)
(***************************************************************************)
EXTENDS Integers, Sequences, SequencesExt

CONSTANTS kMaxIBDepth, MAX_OCCLUSION_QUERIES, HasConditionalRendering

\* The registers with a side effect or a meaning of their own; 0 and 1 have none.
VS_PROGRAM == 2        PS_PROGRAM == 3       VGT_DRAW_INITIATOR == 4
RB_COPY_CONTROL == 5   VGT_IMMED_DATA == 6   SCRATCH_REG0 == 7
PA_SC_VIZ_QUERY == 10  VGT_OUTPUT_PATH == 11 RB_COPY_DEST_BASE == 12
Reg == 0 .. 12
Size == 2                   \* constants of a kind, words of memory, guest queries
Slot == 0 .. Size - 1
Zero == [i \in Slot |-> 0]

\* The draw initiator as a register holds it: 8 + n is an indexed primitive.
Primitive == <<"triangles", "rects", "quads", "lineloop", "quadstrip", "patches">>
PrimitiveOf(v) == Primitive[(v % 8) + 1]
Command(prim, indexed, vertices, indices) ==
  [prim |-> PrimitiveOf(prim), indexed |-> indexed, vertices |-> vertices, indices |-> indices]

Fresh ==
  [reg |-> [r \in Reg |-> 0], mem |-> [a \in Slot |-> a + 1],
   vs |-> Zero, ps |-> Zero, fetch |-> Zero, texture |-> Zero, bools |-> Zero, loops |-> Zero,
   streams |-> Zero, shaders |-> <<0, 0>>, state |-> <<0, 0>>, microcode |-> <<>>,
   predication |-> [active |-> FALSE, query |-> 0, inverted |-> FALSE, hw |-> FALSE],
   query |-> [pool |-> FALSE, active |-> FALSE, id |-> 0, next |-> 0, slot |-> Zero,
              results |-> Zero, valid |-> [q \in Slot |-> FALSE]],
   scratch |-> Zero, bins |-> [b \in {"mask lo", "mask hi", "select lo", "select hi"} |-> 0],
   drawn |-> <<>>, in_frame |-> FALSE, frame_complete |-> FALSE, draws |-> 0,
   resolved |-> <<>>, interrupts |-> 0, flushes |-> 0, crashed |-> FALSE]

\* The verdict of the query predication names, when it has one: nothing seen,
\* or something when the condition is inverted.
Fails(s) ==
  LET q == s.predication.query
  IN s.predication.active /\ s.query.valid[q] /\ (s.query.results[q] > 0) = s.predication.inverted
Skipped(s, p) == p.pred /\ Fails(s)

\* What execute_draw hands to Vulkan: patches become triangles (level n gives n * n
\* of them, two for each of a quad's cells), rects and quads triangle lists of
\* as many vertices, loops and quad strips the nearest topology.
Expanded(s, c) ==
  CASE c.prim = "patches" /\ s.reg[VGT_OUTPUT_PATH] > 0 ->
         [c EXCEPT !.prim = "triangles", !.indexed = FALSE,
                   !.vertices = 3 * s.reg[VGT_OUTPUT_PATH] * s.reg[VGT_OUTPUT_PATH]
                                * (IF c.vertices < 3 THEN 1 ELSE c.vertices \div 3)]
    [] c.prim = "rects" -> [c EXCEPT !.prim = "triangles", !.indexed = FALSE, !.vertices = 6 * (@ \div 3)]
    [] c.prim = "quads" -> [c EXCEPT !.prim = "triangles", !.indexed = FALSE, !.vertices = 6 * (@ \div 4)]
    [] c.prim = "lineloop" -> [c EXCEPT !.prim = "linestrip"]
    [] c.prim = "quadstrip" -> [c EXCEPT !.prim = "trianglestrip"]
    [] OTHER -> c

\* A rect list without a whole rect comes back from expand_rect_list as it went
\* in, and execute_draw calls itself with it until the stack is gone.
NeverExpands(c) == c.prim = "rects" /\ c.vertices < 3

ExecuteDraw(s, c) ==
  IF Fails(s) /\ ~s.predication.hw THEN s
  ELSE IF NeverExpands(c) THEN [s EXCEPT !.crashed = TRUE]
  ELSE [s EXCEPT !.in_frame = TRUE, !.draws = @ + 1,
                 !.drawn = Append(@, [cmd |-> Expanded(s, c), shaders |-> s.shaders,
                                      streams |-> s.streams, texture |-> s.texture,
                                      constants |-> <<s.vs, s.ps, s.bools, s.loops>>])]

\* update_shaders, and update_textures with update_vertex_buffers
UpdateShaders(s) == [s EXCEPT !.shaders = <<s.reg[VS_PROGRAM], s.reg[PS_PROGRAM]>>]
UpdateStreams(s) == [s EXCEPT !.streams = s.fetch]
Draw(s, c) == ExecuteDraw(UpdateShaders(s), c)
DrawStreams(s, c) == ExecuteDraw(UpdateStreams(UpdateShaders(s)), c)

EndOfFrame(s) == [s EXCEPT !.frame_complete = TRUE, !.in_frame = FALSE, !.draws = 0]

\* RB_COPY_CONTROL 1 clears, anything else resolves to RB_COPY_DEST_BASE, where
\* there is one, and presents the frame that is open.
ExecuteResolve(s) ==
  CASE s.reg[RB_COPY_CONTROL] = 1 -> [s EXCEPT !.resolved = Append(@, "clear")]
    [] s.reg[RB_COPY_CONTROL] # 1 /\ s.reg[RB_COPY_DEST_BASE] = 0 -> s
    [] OTHER -> LET t == [s EXCEPT !.resolved = Append(@, s.reg[RB_COPY_DEST_BASE])]
                IN IF s.in_frame THEN EndOfFrame(t) ELSE t

OnRegisterWrite(s, r, v) ==
  CASE r = VS_PROGRAM -> [s EXCEPT !.state[1] = v]
    [] r = PS_PROGRAM -> [s EXCEPT !.state[2] = v]
    [] r = VGT_DRAW_INITIATOR -> ExecuteDraw(s, Command(v, v >= 8, s.reg[VGT_IMMED_DATA], 0))
    [] r = RB_COPY_CONTROL -> ExecuteResolve(s)
    [] OTHER -> s
WriteRegister(s, r, v) ==
  OnRegisterWrite(IF r \in Reg THEN [s EXCEPT !.reg[r] = v] ELSE s, r, v)
\* The values of a type 0 packet, to consecutive registers or all to one.
WriteAll(s, base, values, step) ==
  FoldLeft(LAMBDA t, i : WriteRegister(t, base + (step * (i - 1)), values[i]), s,
           [i \in 1 .. Len(values) |-> i])

Store(s, a, v) == IF a \in Slot THEN [s EXCEPT !.mem[a] = v] ELSE s
StoreAll(s, a, values) ==
  [s EXCEPT !.mem = [i \in Slot |-> IF (i - a) + 1 \in 1 .. Len(values) THEN values[(i - a) + 1] ELSE @[i]]]
Interrupt(s) == [s EXCEPT !.interrupts = @ + 1]

\* SET_CONSTANT: data[1] is [type, index], the values follow. limit holds how
\* many constants of each type this processor keeps.
SetConstant(s, p, limit) ==
  LET at(i) == (i - p.data[1].index) + 2
      put(f, first, n) == [i \in Slot |-> IF i < n /\ at(i + first) \in 2 .. Len(p.data)
                                          THEN p.data[at(i + first)] ELSE f[i]]
  IN CASE p.data[1].type = "alu" -> [s EXCEPT !.vs = put(@, 0, Size), !.ps = put(@, Size, limit.pixel)]
       [] p.data[1].type = "fetch" -> [s EXCEPT !.fetch = put(@, 0, Size), !.texture = put(@, 0, limit.texture)]
       [] p.data[1].type = "bool" -> [s EXCEPT !.bools = put(@, 0, limit.bools)]
       [] p.data[1].type = "loop" -> [s EXCEPT !.loops = put(@, 0, Size)]
Whole == [pixel |-> Size, texture |-> 1, bools |-> Size]

\* LOAD_ALU_CONSTANT, LOAD_BOOL_CONSTANT, LOAD_LOOP_CONSTANT: from memory. The
\* first counts in its own word; the others take as many as the payload is long.
Load(s, f, start, src, n) ==
  [i \in Slot |-> IF i - start \in 0 .. n - 1 /\ src + (i - start) \in Slot THEN s.mem[src + (i - start)]
                  ELSE IF i - start \in 0 .. n - 1 THEN 0 ELSE f[i]]
LoadAlu(s, p) ==
  IF p.data[1].pixel THEN [s EXCEPT !.ps = Load(s, @, p.data[1].index, p.data[2], p.data[1].size)]
  ELSE [s EXCEPT !.vs = Load(s, @, p.data[1].index, p.data[2], p.data[1].size)]
LoadBool(s, p) == [s EXCEPT !.bools = Load(s, @, p.data[1], p.data[2], Len(p.data) - 1)]
LoadLoop(s, p) == [s EXCEPT !.loops = Load(s, @, p.data[1], p.data[2], Len(p.data) - 1)]

\* A query that ends keeps what Vulkan counted (the event's samples).
Counted(s, samples) ==
  [s EXCEPT !.query.active = FALSE, !.query.results[s.query.id] = samples, !.query.valid[s.query.id] = TRUE]

EventWrite(s, p) ==
  LET e == p.data[1].event
  IN CASE e = "SWAP" -> Interrupt(EndOfFrame(s))
       [] e = "CACHE_FLUSH" -> [s EXCEPT !.flushes = @ + 1]
       [] e = "ZPASS_DONE" ->
            WriteRegister(IF s.query.active THEN Counted(s, p.data[1].samples) ELSE s, SCRATCH_REG0, 1)
       [] e = "VS_DONE" -> WriteRegister(s, SCRATCH_REG0 + 1, 1)
       [] e = "PS_DONE" -> Interrupt(WriteRegister(s, SCRATCH_REG0 + 2, 1))
       [] OTHER -> s

EventWriteShd(s, p) ==
  LET e == p.data[1].event
      t == IF Len(p.data) < 3 THEN s
           ELSE IF e = "ZPASS_DONE" /\ s.query.active
           THEN Interrupt(StoreAll(Counted(s, p.data[1].samples), p.data[2],
                                   IF Len(p.data) >= 4 THEN <<p.data[1].samples, 0>> ELSE <<p.data[1].samples>>))
           ELSE Interrupt(StoreAll(s, p.data[2], SubSeq(p.data, 3, IF Len(p.data) >= 4 THEN 4 ELSE 3)))
  IN IF e = "SWAP" THEN EndOfFrame(t) ELSE t

VizQuery(s, p) ==
  LET q == p.data[1].query
  IN IF p.data[1].end
     THEN WriteRegister([s EXCEPT !.query.active = FALSE, !.query.pool = TRUE], PA_SC_VIZ_QUERY, s.reg[PA_SC_VIZ_QUERY] % 8)
     ELSE WriteRegister([s EXCEPT !.query = [@ EXCEPT !.pool = TRUE, !.active = TRUE, !.id = q, !.valid[q] = FALSE,
                                             !.slot[q] = s.query.next % MAX_OCCLUSION_QUERIES,
                                             !.next = (@ + 1) % MAX_OCCLUSION_QUERIES]],
                        PA_SC_VIZ_QUERY, 8 + q)

SetPredication(s, p) ==
  IF ~p.data[1].enable THEN [s EXCEPT !.predication.active = FALSE]
  ELSE [s EXCEPT !.predication = [active |-> TRUE, query |-> p.data[1].query, inverted |-> p.data[1].inverted,
                                  hw |-> HasConditionalRendering /\ s.query.pool]]

SurfaceSync(s, p) ==
  CASE p.data[1] = "color" -> ExecuteResolve(s)
    [] p.data[1] = "depth" -> [s EXCEPT !.resolved = Append(@, "depth")]
    [] OTHER -> s

\* The word a packet reads: of memory, or a register (zero outside both).
Read(s, space, a) ==
  CASE space = "mem" /\ a \in Slot -> s.mem[a]
    [] space = "reg" /\ a \in Reg -> s.reg[a]
    [] OTHER -> 0
Write(s, space, a, v) == IF space = "mem" THEN Store(s, a, v) ELSE WriteRegister(s, a, v)
Holds(function, x, reference) ==
  CASE function = "always" -> TRUE
    [] function = "<" -> x < reference
    [] function = "=" -> x = reference
    [] function = ">" -> x > reference
    [] OTHER -> FALSE
CondWrite(s, p) ==
  IF Holds(p.data[1].function, Read(s, p.data[1].from, p.data[2]), p.data[3])
  THEN Write(s, p.data[1].to, p.data[4], IF Len(p.data) >= 5 THEN p.data[5] ELSE 0)
  ELSE s
\* COPY_DW of three words goes to a register.
CopyDw(s, p) ==
  LET v == Read(s, p.data[1], p.data[2])
  IN IF Len(p.data) >= 4 THEN Write(s, p.data[3], p.data[4], v) ELSE WriteRegister(s, p.data[3], v)

\* REG_RMW: (register and mask) or bits, on bytes of one bit each.
Rmw(s, p) ==
  WriteRegister(s, p.data[1], IF p.data[3] = 1 THEN 1 ELSE IF p.data[2] = 1 THEN s.reg[p.data[1]] ELSE 0)

\* IM_LOAD stages microcode out of memory and points the program register at
\* it; IM_LOAD_IMMEDIATE stages what the packet holds and points nothing.
ImLoad(s, p) ==
  LET n == IF Len(p.data) >= 3 /\ p.data[3] > 0 THEN p.data[3] ELSE Size
  IN WriteRegister([s EXCEPT !.microcode = [i \in 1 .. n |-> Read(s, "mem", p.data[2] + i - 1)]],
                   IF p.data[1] = "pixel" THEN PS_PROGRAM ELSE VS_PROGRAM, p.data[2])
ImLoadImmediate(s, p) ==
  [s EXCEPT !.microcode = SubSeq(p.data, 3, 2 + (IF p.data[2] < Len(p.data) - 2 THEN p.data[2] ELSE Len(p.data) - 2))]

\* The shortest payload a handler accepts.
Least(op) ==
  CASE op \in {"DRAW_INDX", "DRAW_INDX_BIN", "DRAW_INDX_AUTO", "MEM_WRITE", "INDIRECT_BUFFER", "IM_LOAD",
               "IM_LOAD_IMMEDIATE", "SCRATCH_RAM_WRITE", "SCRATCH_RAM_READ"} -> 2
    [] op \in {"DRAW_INDX_IMMD", "COPY_DW"} -> 3
    [] op = "COND_WRITE" -> 4
    [] op \in {"NOP", "INTERRUPT", "REG_RMW", "TYPE0", "TYPE2"} -> 0
    [] OTHER -> 1

\* A packet of the ring or of an indirect buffer (depth of them deep), whose
\* packets all run, also behind one that completes the frame.
RECURSIVE Execute(_, _, _)
Execute(s, p, depth) ==
  IF s.crashed \/ Skipped(s, p) \/ Len(p.data) < Least(p.op) THEN s
  ELSE CASE p.op = "TYPE0" -> WriteAll(s, p.base, p.data, IF p.one THEN 0 ELSE 1)
         [] p.op = "INTERRUPT" -> Interrupt(s)
         [] p.op = "REG_RMW" -> Rmw(s, p)
         [] p.op = "LOAD_ALU_CONSTANT" -> LoadAlu(s, p)
         [] p.op = "LOAD_BOOL_CONSTANT" -> LoadBool(s, p)
         [] p.op = "LOAD_LOOP_CONSTANT" -> LoadLoop(s, p)
         [] p.op = "SET_CONSTANT" -> SetConstant(s, p, Whole)
         [] p.op \in {"DRAW_INDX", "DRAW_INDX_BIN"} ->
              DrawStreams(s, Command(p.data[1], p.data[1] >= 8, 0, p.data[2]))
         [] p.op = "DRAW_INDX_2" -> Draw(s, Command(p.data[1].prim, FALSE, p.data[1].vertices, 0))
         [] p.op = "DRAW_INDX_AUTO" -> DrawStreams(s, Command(p.data[2], FALSE, p.data[1], 0))
         [] p.op = "DRAW_INDX_IMMD" -> Draw(s, Command(p.data[1], TRUE, 0, p.data[2]))
         [] p.op = "MEM_WRITE" -> StoreAll(s, p.data[1], Tail(p.data))
         [] p.op = "COND_WRITE" -> CondWrite(s, p)
         [] p.op = "EVENT_WRITE" -> EventWrite(s, p)
         [] p.op = "EVENT_WRITE_SHD" -> EventWriteShd(s, p)
         [] p.op = "SURFACE_SYNC" -> SurfaceSync(s, p)
         [] p.op = "VIZ_QUERY" -> VizQuery(s, p)
         [] p.op = "SET_PREDICATION" -> SetPredication(s, p)
         [] p.op = "IM_LOAD" -> ImLoad(s, p)
         [] p.op = "IM_LOAD_IMMEDIATE" -> ImLoadImmediate(s, p)
         [] p.op = "SET_BIN" -> [s EXCEPT !.bins[p.data[1].half] = p.data[1].value]
         [] p.op = "COPY_DW" -> CopyDw(s, p)
         [] p.op = "SCRATCH_RAM_WRITE" -> [s EXCEPT !.scratch[p.data[1]] = p.data[2]]
         [] p.op = "SCRATCH_RAM_READ" -> WriteRegister(s, p.data[2], s.scratch[p.data[1]])
         [] p.op = "INDIRECT_BUFFER" ->
              IF depth >= kMaxIBDepth THEN s
              ELSE FoldLeft(LAMBDA t, q : Execute(t, q, depth + 1), s, p.data[2])
         [] OTHER -> s               \* NOP, WAIT_FOR_IDLE, ME_INIT, CONTEXT_UPDATE, WAIT_REG_MEM
=============================================================================
