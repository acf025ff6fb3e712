-------------------------- MODULE PacketExecutors --------------------------
(***************************************************************************)
(* Four executors of PM4 packets live in the tree. The ring's (Packets) is *)
(* the one a game's packets run through. The tests hand theirs to a second *)
(* one in the same class (process_ring_buffer and the *_direct handlers),  *)
(* or, in a build without Vulkan, to the two of gpu/stub/gpu_stub.cpp.     *)
(* Here each packet runs through all four; what a test sees must be what   *)
(* the ring does, for every packet not known to be executed otherwise.     *)
(***************************************************************************)
EXTENDS Packets

CONSTANTS Packet, MaxPackets        \* Packet: a tuple of packets

VARIABLES side, direct_shares, stub_shares, seen
pvars == <<side, direct_shares, stub_shares, seen>>

\* handle_draw_indx_direct and handle_draw_indx_auto_direct leave the vertex streams alone.
DirectDrawIndx(s, p) == Draw(s, Command(p.data[1], p.data[1] >= 8, 0, p.data[2]))
DirectDrawAuto(s, p) == Draw(s, Command(p.data[2], FALSE, p.data[1], 0))

MutDirectType0(s, p) == WriteAll(s, p.base, p.data, 1)     \* forgets the mode
\* The direct handlers of queries know no slots and no register.
DirectVizQuery(s, p) ==
  IF p.data[1].end THEN [s EXCEPT !.query.active = FALSE]
  ELSE [s EXCEPT !.query.active = TRUE, !.query.id = p.data[1].query]
DirectPredication(s, p) ==
  IF ~p.data[1].enable THEN [s EXCEPT !.predication.active = FALSE]
  ELSE [s EXCEPT !.predication = [@ EXCEPT !.active = TRUE, !.query = p.data[1].query,
                                           !.inverted = p.data[1].inverted]]
DirectEventShd(s, p) ==
  LET t == StoreAll(s, p.data[2], SubSeq(p.data, 3, IF Len(p.data) >= 4 THEN 4 ELSE 3))
  IN IF Len(p.data) < 3 THEN s ELSE IF p.data[1].event = "SWAP" THEN EndOfFrame(t) ELSE t
\* A type 0 packet to one register writes its first word twice.
DirectType0(s, p) ==
  IF p.one THEN WriteAll(WriteRegister(s, p.base, p.data[1]), p.base, p.data, 0)
  ELSE WriteAll(s, p.base, p.data, 1)

Direct(s, p) ==
  IF s.crashed \/ Skipped(s, p) \/ Len(p.data) < Least(p.op) THEN s
  ELSE CASE p.op = "TYPE0" -> DirectType0(s, p)
         [] p.op = "INTERRUPT" -> Interrupt(s)
         [] p.op = "REG_RMW" -> Rmw(s, p)
         [] p.op = "SET_CONSTANT" -> SetConstant(s, p, Whole)
         [] p.op = "DRAW_INDX" -> DirectDrawIndx(s, p)
         [] p.op \in {"DRAW_INDX_AUTO", "DRAW_INDX_BIN"} -> DirectDrawAuto(s, p)
         [] p.op = "MEM_WRITE" -> StoreAll(s, p.data[1], Tail(p.data))
         [] p.op = "EVENT_WRITE" -> IF p.data[1].event = "SWAP" THEN EndOfFrame(s) ELSE s
         [] p.op = "EVENT_WRITE_SHD" -> DirectEventShd(s, p)
         [] p.op = "VIZ_QUERY" -> DirectVizQuery(s, p)
         [] p.op = "SET_PREDICATION" -> DirectPredication(s, p)
         [] p.op = "SET_BIN" -> [s EXCEPT !.bins[p.data[1].half] = p.data[1].value]
         [] p.op = "SCRATCH_RAM_WRITE" -> [s EXCEPT !.scratch[p.data[1]] = p.data[2]]
         [] p.op = "SCRATCH_RAM_READ" -> WriteRegister(s, p.data[2], s.scratch[p.data[1]])
         [] OTHER -> s

\* The stub's class: no predication, no draws, no one-register writes, register
\* writes with no effect but on the program addresses, half the constants.
StubKeeps == [pixel |-> 0, texture |-> 0, bools |-> 1]
StubWrite(s, r, v) ==
  LET t == IF r \in Reg THEN [s EXCEPT !.reg[r] = v] ELSE s
  IN CASE r = VS_PROGRAM -> [t EXCEPT !.state[1] = v]
       [] r = PS_PROGRAM -> [t EXCEPT !.state[2] = v]
       [] OTHER -> t
StubWriteAll(s, p) ==
  FoldLeft(LAMBDA t, i : StubWrite(t, p.base + i - 1, p.data[i]), s, [i \in 1 .. Len(p.data) |-> i])
StubRmw(s, p) ==
  StubWrite(s, p.data[1], IF p.data[3] = 1 THEN 1 ELSE IF p.data[2] = 1 THEN s.reg[p.data[1]] ELSE 0)

StubDirect(s, p) ==
  IF Len(p.data) < Least(p.op) THEN s
  ELSE CASE p.op = "TYPE0" -> StubWriteAll(s, p)
         [] p.op = "REG_RMW" -> StubRmw(s, p)
         [] p.op = "SET_CONSTANT" -> SetConstant(s, p, StubKeeps)
         [] p.op = "EVENT_WRITE" -> IF p.data[1].event = "SWAP" THEN EndOfFrame(s) ELSE s
         [] OTHER -> s
Stub(s, p) ==
  IF p.op = "MEM_WRITE" /\ Len(p.data) >= 2 THEN StoreAll(s, p.data[1], Tail(p.data)) ELSE StubDirect(s, p)

\* The packets of an indirect buffer as the other executors would be given them.
RECURSIVE Flat(_)
Flat(p) == IF p.op = "INDIRECT_BUFFER" THEN FoldLeft(LAMBDA u, q : u \o Flat(q), <<>>, p.data[2]) ELSE <<p>>
RECURSIVE Depth(_)
Depth(p) ==
  IF p.op # "INDIRECT_BUFFER" THEN 0
  ELSE 1 + FoldLeft(LAMBDA d, q : IF Depth(q) > d THEN Depth(q) ELSE d, 0, p.data[2])
Triggers == {VGT_DRAW_INITIATOR, RB_COPY_CONTROL}

\* What the direct handlers execute as the ring does. Left out: constants and
\* shaders loaded from memory, copies, conditional writes, queries, immediate
\* and binned draws (taken for automatic ones, or dropped), surface syncs,
\* events other than a swap, buffers nested too deep, and a triggering
\* register written more than once in one packet.
DirectShares(p) ==
  /\ \A i \in 1 .. Len(Flat(p)) :
       LET q == Flat(p)[i]
       IN /\ q.op \in {"TYPE0", "TYPE2", "NOP", "INTERRUPT", "WAIT_FOR_IDLE", "WAIT_REG_MEM", "REG_RMW",
                       "SET_CONSTANT", "DRAW_INDX", "DRAW_INDX_AUTO", "MEM_WRITE", "EVENT_WRITE",
                       "EVENT_WRITE_SHD", "SET_PREDICATION", "SET_BIN", "SCRATCH_RAM_WRITE",
                       "SCRATCH_RAM_READ"}
          /\ q.op = "TYPE0" => ~(q.one /\ q.base \in Triggers)
          /\ q.op = "EVENT_WRITE" => q.data[1].event = "SWAP"
          /\ q.op = "EVENT_WRITE_SHD" => Len(q.data) >= 3
  /\ Depth(p) <= kMaxIBDepth
\* What the stub executes as the ring does, draws apart: a part of that, and
\* of the constants those it keeps.
StubShares(p) ==
  /\ p.op \in {"TYPE0", "TYPE2", "NOP", "WAIT_FOR_IDLE", "WAIT_REG_MEM", "REG_RMW", "SET_CONSTANT",
               "EVENT_WRITE", "SET_BIN", "DRAW_INDX", "DRAW_INDX_AUTO"}
  /\ p.op = "TYPE0" => ~p.one
  /\ p.op = "EVENT_WRITE" => p.data[1].event = "SWAP"

\* What the tests look at. The vertex streams a draw binds and the interrupts
\* an event raises are the ring's alone.
Observed(s) ==
  [reg |-> s.reg, mem |-> s.mem, constants |-> <<s.vs, s.ps, s.fetch, s.texture, s.bools, s.loops>>,
   state |-> s.state, bins |-> s.bins, scratch |-> s.scratch, resolved |-> s.resolved,
   predication |-> s.predication, frame |-> <<s.in_frame, s.draws>>, crashed |-> s.crashed,
   drawn |-> [i \in 1 .. Len(s.drawn) |-> [s.drawn[i] EXCEPT !.streams = Zero]]]
ObservedOnStub(s) ==
  [reg |-> s.reg, vs |-> s.vs, fetch |-> s.fetch, bools |-> s.bools[0], loops |-> s.loops, state |-> s.state]

Sides == {"ring", "direct", "stub", "stub direct"}
\* Each executor is made for its first packet.
Of(x) == IF x \in DOMAIN side THEN side[x] ELSE Fresh
Init ==
  /\ side = <<>>
  /\ direct_shares = TRUE /\ stub_shares = TRUE /\ seen = 0

\* The ring's process() starts from frame_complete_ clear: it stops behind the
\* packet that sets it, and is called again. The tests' loop goes on.
Run ==
  /\ seen < MaxPackets
  /\ seen' = seen + 1
  /\ \E n \in 1 .. Len(Packet) :
       LET p == Packet[n]
           flat(f(_, _), s) == FoldLeft(f, s, Flat(p))
       IN /\ side' = [x \in Sides |->
                        CASE x = "ring" -> Execute([Of(x) EXCEPT !.frame_complete = FALSE], p, 0)
                          [] x = "direct" -> flat(Direct, Of(x))
                          [] x = "stub" -> Stub([Of(x) EXCEPT !.frame_complete = FALSE], p)
                          [] x = "stub direct" -> StubDirect(Of(x), p)]
          /\ direct_shares' = (direct_shares /\ DirectShares(p))
          /\ stub_shares' = (stub_shares /\ StubShares(p) /\ ~side'["ring"].crashed)

Next == Run

(***************************************************************************)
(* What a test sees of the packets it runs is what the ring would have     *)
(* done with them, in a Vulkan build (the direct handlers) and without     *)
(* (both of the stub's), nested indirect buffers included, as long as it   *)
(* keeps to the packets the executors share.                               *)
(***************************************************************************)
TestsSeeTheRing ==
  /\ direct_shares /\ seen > 0 => Observed(Of("direct")) = Observed(Of("ring"))
  /\ stub_shares /\ seen > 0 => \A x \in {"stub", "stub direct"} : ObservedOnStub(Of(x)) = ObservedOnStub(Of("ring"))
=============================================================================
