------------------------- MODULE GuestAtomicsProofs -------------------------
(***************************************************************************)
(* Proof that no store is lost behind a reservation, for any number of     *)
(* guest threads, of other writers and of accesses.                        *)
(*                                                                         *)
(* The argument: while a thread's link stands, its reservation is the      *)
(* link's range or gone; a write that started after the link was made      *)
(* overlaps it, so its notification finds that reservation and clears it;  *)
(* and between the check of a conditional store and its end no link is     *)
(* left that a write could complete over.                                  *)
(*                                                                         *)
(* Then the blocks that the threads run (JitCache): each lies whole before *)
(* the write pointer, where a new one does not reach it, unless all are    *)
(* deleted; and a thread that holds a block holds one that is there.       *)
(*                                                                         *)
(* And the code the translator makes of a shader (ShaderTranslator): it is *)
(* well formed at every moment but for the labels of the loops still open, *)
(* which get theirs in the order they wait in.                             *)
(***************************************************************************)
EXTENDS GuestAtomics, JitCache, SequenceTheorems, WellFoundedInduction, NaturalsInduction, TLAPS

\* Threads are the ids in the contexts, other writers have none, and an access
\* is of some bytes.
Ids == GuestThread \subseteq Nat /\ GuestThread \cap Host = {} /\ MAX_THREADS \in Nat /\ Nothing \notin Access

Slot == 0 .. (MAX_THREADS - 1)
Ops == {"none", "load", "cond", "fail", "notify", "notify cond"}

Types ==
  /\ doing \in [Actor -> [op : Ops, r : Access \cup {Nothing}]]
  /\ reservations_ \in [Slot -> Access \cup {Nothing}]
  /\ linked \in [GuestThread -> Access \cup {Nothing}]
  /\ passed \in [Actor -> SUBSET GuestThread]
  /\ lost \subseteq GuestThread

\* Where an instruction is, its range is an access, and its thread has a slot.
Inside ==
  /\ \A a \in Actor : doing[a].op # "none" => doing[a].r \in Access
  /\ \A t \in GuestThread : doing[t].op # "none" => t \in Slot

\* A link stands between instructions, or while its thread writes, and the
\* thread's reservation is of its range or gone.
Links ==
  \A t \in GuestThread : linked[t] # Nothing =>
    /\ doing[t].op \in {"none", "notify"} /\ t \in Slot
    /\ reservations_[t] \in {Nothing, linked[t]}

\* A write has passed only links of others, that it overlaps.
Passed ==
  \A a \in Actor : \A t \in passed[a] :
    /\ a # t /\ linked[t] \cap doing[a].r # {}
    /\ doing[a].op \in {"notify", "notify cond"}

\* A lost link has no reservation, and no conditional store about to be made.
LostKnown ==
  \A t \in lost : /\ doing[t].op \notin {"load", "cond"}
                  /\ t \in Slot /\ reservations_[t] = Nothing

IInv == Types /\ Inside /\ Links /\ Passed /\ LostKnown

LEMMA InitIInv == ASSUME Ids, AtomicsInit PROVE IInv
<1>1. Types BY DEF AtomicsInit, Types, Ids, AtRest, Ops, Slot
<1>2. Inside /\ Links /\ Passed /\ LostKnown BY DEF AtomicsInit, Inside, Links, Passed, LostKnown, AtRest, Actor
<1>. QED BY <1>1, <1>2 DEF IInv

-----------------------------------------------------------------------------
(* Steps                                                                    *)

\* An actor's step leaves the others where they are.
LEMMA BeginsIs ==
  ASSUME Types, NEW a \in Actor, NEW op \in Ops, NEW r \in Access \cup {Nothing}, Begins(a, op, r)
  PROVE  /\ doing' \in [Actor -> [op : Ops, r : Access \cup {Nothing}]]
         /\ doing'[a].op = op /\ doing'[a].r = r
         /\ \A b \in Actor \ {a} : doing'[b] = doing[b]
BY DEF Types, Begins

\* A thread that begins a reservation or a conditional store has no link.
LEMMA Unlinks ==
  ASSUME Types, NEW t \in GuestThread, Unlink(t)
  PROVE  /\ linked' \in [GuestThread -> Access \cup {Nothing}] /\ passed' \in [Actor -> SUBSET GuestThread]
         /\ linked'[t] = Nothing /\ \A u \in GuestThread \ {t} : linked'[u] = linked[u]
         /\ \A b \in Actor : passed'[b] = passed[b] \ {t}
BY DEF Types, Unlink

LEMMA LoadReserveStep ==
  ASSUME Ids, IInv, NEW t \in GuestThread, NEW r \in Access, LoadReserve(t, r)
  PROVE  IInv'
<1>1. t \in Actor /\ doing[t].op = "none" /\ t \in Slot /\ "load" \in Ops
  BY DEF LoadReserve, Does, Executes, Actor, Ids, Slot, Ops
<1>2. /\ doing' \in [Actor -> [op : Ops, r : Access \cup {Nothing}]]
      /\ doing'[t].op = "load" /\ doing'[t].r = r
      /\ \A b \in Actor \ {t} : doing'[b] = doing[b]
  BY <1>1, BeginsIs DEF LoadReserve, IInv
<1>3. /\ linked' \in [GuestThread -> Access \cup {Nothing}] /\ passed' \in [Actor -> SUBSET GuestThread]
      /\ linked'[t] = Nothing /\ \A u \in GuestThread \ {t} : linked'[u] = linked[u]
      /\ \A b \in Actor : passed'[b] = passed[b] \ {t}
  BY Unlinks DEF LoadReserve, IInv
<1>4. lost' = lost \ {t} /\ reservations_' = reservations_ BY DEF LoadReserve
<1>5. GuestThread \subseteq Actor BY DEF Actor
<1>6. Types' BY <1>2, <1>3, <1>4 DEF IInv, Types
<1>7. Inside' BY <1>1, <1>2, <1>5 DEF IInv, Inside
<1>8. Links' BY <1>2, <1>3, <1>4, <1>5 DEF IInv, Links
<1>9. Passed'
  <2>1. ASSUME NEW a \in Actor, NEW u \in passed'[a]
        PROVE  a # u /\ linked'[u] \cap doing'[a].r # {} /\ doing'[a].op \in {"notify", "notify cond"}
    <3>1. u \in passed[a] /\ u # t /\ u \in GuestThread BY <1>3, <2>1 DEF IInv, Types
    <3>2. a # t BY <1>1, <3>1 DEF IInv, Passed
    <3>. QED BY <1>2, <1>3, <3>1, <3>2 DEF IInv, Passed
  <2>. QED BY <2>1 DEF Passed
<1>10. LostKnown' BY <1>2, <1>4, <1>5 DEF IInv, LostKnown, Types
<1>. QED BY <1>6, <1>7, <1>8, <1>9, <1>10 DEF IInv

LEMMA ReserveStep ==
  ASSUME Ids, IInv, NEW t \in GuestThread, Reserve(t)
  PROVE  IInv'
<1>1. t \in Actor /\ doing[t].op = "load" /\ t \in Slot /\ t < MAX_THREADS /\ doing[t].r \in Access
  BY DEF Reserve, Does, Actor, Ids, Slot, IInv, Inside
<1>2. /\ doing' \in [Actor -> [op : Ops, r : Access \cup {Nothing}]]
      /\ doing'[t].op = "none" /\ doing'[t].r = Nothing
      /\ \A b \in Actor \ {t} : doing'[b] = doing[b]
  <2>1. "none" \in Ops /\ Nothing \in Access \cup {Nothing} BY DEF Ops
  <2>. QED BY <1>1, <2>1, BeginsIs DEF Reserve, IInv
<1>3. /\ reservations_' = [reservations_ EXCEPT ![t] = doing[t].r]
      /\ linked' = [linked EXCEPT ![t] = doing[t].r] /\ UNCHANGED <<passed, lost>>
  BY <1>1 DEF Reserve, SetReservation
<1>4. /\ reservations_' \in [Slot -> Access \cup {Nothing}] /\ linked' \in [GuestThread -> Access \cup {Nothing}]
      /\ reservations_'[t] = doing[t].r /\ linked'[t] = doing[t].r
      /\ \A u \in Slot \ {t} : reservations_'[u] = reservations_[u]
      /\ \A u \in GuestThread \ {t} : linked'[u] = linked[u]
  BY <1>1, <1>3 DEF IInv, Types
<1>5. linked[t] = Nothing BY <1>1 DEF IInv, Links
<1>6. GuestThread \subseteq Actor BY DEF Actor
<1>7. Types' BY <1>2, <1>3, <1>4 DEF IInv, Types
<1>8. Inside' BY <1>2, <1>6 DEF IInv, Inside
<1>9. Links' BY <1>1, <1>2, <1>4, <1>6 DEF IInv, Links
<1>10. Passed'
  <2>1. ASSUME NEW a \in Actor, NEW u \in passed[a]
        PROVE  a # u /\ linked'[u] \cap doing'[a].r # {} /\ doing'[a].op \in {"notify", "notify cond"}
    <3>1. u \in GuestThread /\ a # t BY <1>1, <2>1 DEF IInv, Types, Passed
    <3>2. u # t BY <1>5, <2>1 DEF IInv, Passed, Nothing
    <3>. QED BY <1>2, <1>4, <3>1, <3>2 DEF IInv, Passed
  <2>. QED BY <1>3, <2>1 DEF Passed
<1>11. LostKnown'
  <2>1. \A u \in lost : u # t /\ u \in Slot /\ u \in Actor BY <1>1, <1>6 DEF IInv, LostKnown, Types
  <2>. QED BY <1>2, <1>3, <1>4, <2>1 DEF IInv, LostKnown
<1>. QED BY <1>7, <1>8, <1>9, <1>10, <1>11 DEF IInv

\* The check passes only over a link nothing was written on since.
LEMMA StoreConditionalStep ==
  ASSUME Ids, IInv, NEW t \in GuestThread, NEW r \in Access, StoreConditional(t, r)
  PROVE  IInv'
<1> DEFINE op == IF CheckReservation(t, r) THEN "cond" ELSE "fail"
<1>1. t \in Actor /\ doing[t].op = "none" /\ t \in Slot /\ op \in Ops
  <2>1. op \in Ops BY DEF Ops
  <2>2. doing[t].op = "none" /\ t < MAX_THREADS BY DEF StoreConditional, Does, Executes
  <2>. QED BY <2>1, <2>2 DEF Actor, Ids, Slot
<1>2. /\ doing' \in [Actor -> [op : Ops, r : Access \cup {Nothing}]]
      /\ doing'[t].op = op /\ doing'[t].r = r
      /\ \A b \in Actor \ {t} : doing'[b] = doing[b]
  BY <1>1, BeginsIs DEF StoreConditional, IInv
<1>3. /\ linked' \in [GuestThread -> Access \cup {Nothing}] /\ passed' \in [Actor -> SUBSET GuestThread]
      /\ linked'[t] = Nothing /\ \A u \in GuestThread \ {t} : linked'[u] = linked[u]
      /\ \A b \in Actor : passed'[b] = passed[b] \ {t}
  BY Unlinks DEF StoreConditional, IInv
<1>4. lost' = lost /\ reservations_' = reservations_ BY DEF StoreConditional
<1>5. GuestThread \subseteq Actor BY DEF Actor
<1>6. Types' BY <1>2, <1>3, <1>4 DEF IInv, Types
<1>7. Inside' BY <1>1, <1>2, <1>5 DEF IInv, Inside
<1>8. Links' BY <1>2, <1>3, <1>4, <1>5 DEF IInv, Links
<1>9. Passed'
  <2>1. ASSUME NEW a \in Actor, NEW u \in passed'[a]
        PROVE  a # u /\ linked'[u] \cap doing'[a].r # {} /\ doing'[a].op \in {"notify", "notify cond"}
    <3>1. u \in passed[a] /\ u # t /\ u \in GuestThread BY <1>3, <2>1 DEF IInv, Types
    <3>2. a # t BY <1>1, <3>1 DEF IInv, Passed
    <3>. QED BY <1>2, <1>3, <3>1, <3>2 DEF IInv, Passed
  <2>. QED BY <2>1 DEF Passed
<1>10. LostKnown'
  <2>1. t \in lost => op = "fail" BY DEF IInv, LostKnown, CheckReservation, Ids
  <2>. QED BY <1>2, <1>4, <1>5, <2>1 DEF IInv, LostKnown, Types
<1>. QED BY <1>6, <1>7, <1>8, <1>9, <1>10 DEF IInv

\* A write that begins has passed the links it overlaps.
LEMMA WriteBegins ==
  ASSUME Ids, IInv, NEW a \in Actor, NEW r \in Access, NEW op \in {"notify", "notify cond"},
         Begins(a, op, r), passed' = [passed EXCEPT ![a] = LinksOn(a, r)],
         UNCHANGED <<reservations_, linked, lost>>, a \in GuestThread => a \in Slot,
         a \in GuestThread /\ linked[a] # Nothing => op = "notify"
  PROVE  IInv'
<1>1. /\ doing' \in [Actor -> [op : Ops, r : Access \cup {Nothing}]]
      /\ doing'[a].op = op /\ doing'[a].r = r
      /\ \A b \in Actor \ {a} : doing'[b] = doing[b]
  <2>1. op \in Ops BY DEF Ops
  <2>. QED BY <2>1, BeginsIs DEF IInv
<1>2. GuestThread \subseteq Actor /\ LinksOn(a, r) \in SUBSET GuestThread BY DEF Actor, LinksOn
<1>3. Types' BY <1>1, <1>2 DEF IInv, Types
<1>4. Inside' BY <1>1, <1>2 DEF IInv, Inside
<1>5. Links' BY <1>1, <1>2 DEF IInv, Links
<1>6. Passed'
  <2>1. \A u \in LinksOn(a, r) : a # u /\ linked[u] \cap r # {} BY DEF LinksOn
  <2>2. /\ passed'[a] = LinksOn(a, r) /\ \A b \in Actor \ {a} : passed'[b] = passed[b]
    BY DEF IInv, Types
  <2>3. ASSUME NEW b \in Actor, NEW u \in passed'[b]
        PROVE  b # u /\ linked[u] \cap doing'[b].r # {} /\ doing'[b].op \in {"notify", "notify cond"}
    <3>1. CASE b = a BY <1>1, <2>1, <2>2, <2>3, <3>1
    <3>2. CASE b # a
      <4>1. u \in passed[b] /\ doing'[b] = doing[b] BY <1>1, <2>2, <2>3, <3>2
      <4>. QED BY <4>1 DEF IInv, Passed
    <3>. QED BY <3>1, <3>2
  <2>. QED BY <2>3 DEF Passed
<1>7. LostKnown' BY <1>1, <1>2 DEF IInv, LostKnown, Types
<1>. QED BY <1>3, <1>4, <1>5, <1>6, <1>7 DEF IInv

LEMMA CondWriteStep ==
  ASSUME Ids, IInv, NEW t \in GuestThread, CondWrite(t)
  PROVE  IInv'
<1>1. t \in Actor /\ doing[t].op = "cond" /\ doing[t].r \in Access /\ t \in Slot
  BY DEF CondWrite, Does, Actor, IInv, Inside
<1>2. linked[t] = Nothing BY <1>1 DEF IInv, Links
<1>. QED BY <1>1, <1>2, WriteBegins DEF CondWrite

LEMMA WriteStep ==
  ASSUME Ids, IInv, NEW a \in Actor, NEW r \in Access, Write(a, r)
  PROVE  IInv'
<1>1. a \in GuestThread => a \in Slot BY DEF Write, Executes, Ids, Slot
<1>. QED BY <1>1, WriteBegins DEF Write

\* Completing, a write finds the reservation behind every link it has passed.
LEMMA NotifyWriteStep ==
  ASSUME Ids, IInv, NEW a \in Actor, NotifyWrite(a)
  PROVE  IInv'
<1> DEFINE r == doing[a].r
<1>1. PICK op \in {"none", "fail"}, q \in {r, Nothing} :
        Begins(a, op, q) /\ (op = "fail" => q = r)
  BY DEF NotifyWrite
<1>2. doing[a].op \in {"notify", "notify cond"} /\ r \in Access
  BY DEF NotifyWrite, Does, IInv, Inside
<1>3. /\ doing' \in [Actor -> [op : Ops, r : Access \cup {Nothing}]]
      /\ doing'[a].op = op /\ doing'[a].r = q
      /\ \A b \in Actor \ {a} : doing'[b] = doing[b]
  <2>1. op \in Ops /\ q \in Access \cup {Nothing} BY <1>2 DEF Ops
  <2>. QED BY <1>1, <2>1, BeginsIs DEF IInv
<1>4. doing[a].op = "notify" => op = "none"
  BY <1>1, <1>3 DEF NotifyWrite, Begins, Does, IInv, Types
<1>5. /\ reservations_' = Invalidated(r) /\ lost' = lost \cup passed[a]
      /\ passed' = [passed EXCEPT ![a] = {}] /\ linked' = linked
  BY DEF NotifyWrite
<1>6. /\ reservations_' \in [Slot -> Access \cup {Nothing}]
      /\ \A u \in Slot : /\ reservations_'[u] \in {Nothing, reservations_[u]}
                         /\ reservations_[u] \cap r # {} => reservations_'[u] = Nothing
  BY <1>5 DEF IInv, Types, Invalidated
<1>7. /\ GuestThread \subseteq Actor /\ passed'[a] = {}
      /\ \A b \in Actor \ {a} : passed'[b] = passed[b]
  BY <1>5 DEF IInv, Types, Actor
<1> HIDE DEF r
<1>8. Types' BY <1>3, <1>5, <1>6 DEF IInv, Types
<1>9. Inside' BY <1>1, <1>2, <1>3, <1>7 DEF IInv, Inside
<1>10. Links'
  <2>1. ASSUME NEW t \in GuestThread, linked[t] # Nothing
        PROVE  /\ doing'[t].op \in {"none", "notify"} /\ t \in Slot
               /\ reservations_'[t] \in {Nothing, linked[t]}
    <3>1. doing[t].op \in {"none", "notify"} /\ t \in Slot /\ reservations_[t] \in {Nothing, linked[t]}
      BY <2>1 DEF IInv, Links
    <3>. QED BY <1>2, <1>3, <1>4, <1>6, <1>7, <3>1
  <2>. QED BY <1>5, <2>1 DEF Links
<1>11. Passed' BY <1>3, <1>5, <1>7 DEF IInv, Passed
<1>12. LostKnown'
  <2>1. ASSUME NEW t \in lost
        PROVE  doing'[t].op \notin {"load", "cond"} /\ t \in Slot /\ reservations_'[t] = Nothing
    <3>1. doing[t].op \notin {"load", "cond"} /\ t \in Slot /\ reservations_[t] = Nothing /\ t \in Actor
      BY <1>7 DEF IInv, LostKnown, Types
    <3>. QED BY <1>3, <1>6, <3>1
  <2>2. ASSUME NEW t \in passed[a]
        PROVE  doing'[t].op \notin {"load", "cond"} /\ t \in Slot /\ reservations_'[t] = Nothing
    <3>1. t \in GuestThread /\ a # t /\ linked[t] \cap r # {} BY DEF IInv, Types, Passed, r
    <3>2. linked[t] # Nothing BY <3>1 DEF Nothing
    <3>3. doing[t].op \in {"none", "notify"} /\ t \in Slot /\ reservations_[t] \in {Nothing, linked[t]}
      BY <3>1, <3>2 DEF IInv, Links
    <3>. QED BY <1>3, <1>6, <1>7, <3>1, <3>3
  <2>. QED BY <1>5, <2>1, <2>2 DEF LostKnown
<1>. QED BY <1>8, <1>9, <1>10, <1>11, <1>12 DEF IInv

LEMMA StoreConditionalEndStep ==
  ASSUME Ids, IInv, NEW t \in GuestThread, StoreConditionalEnd(t)
  PROVE  IInv'
<1>1. t \in Actor /\ doing[t].op = "fail" /\ t \in Slot /\ t < MAX_THREADS
  BY DEF StoreConditionalEnd, Does, Actor, IInv, Inside, Slot, Ids
<1>2. /\ doing' \in [Actor -> [op : Ops, r : Access \cup {Nothing}]]
      /\ doing'[t].op = "none" /\ doing'[t].r = Nothing
      /\ \A b \in Actor \ {t} : doing'[b] = doing[b]
  <2>1. "none" \in Ops /\ Nothing \in Access \cup {Nothing} BY DEF Ops
  <2>. QED BY <1>1, <2>1, BeginsIs DEF StoreConditionalEnd, IInv
<1>3. /\ reservations_' = [reservations_ EXCEPT ![t] = Nothing]
      /\ lost' = lost \ {t} /\ UNCHANGED <<linked, passed>>
  BY <1>1 DEF StoreConditionalEnd, ClearReservation, SetReservation
<1>4. /\ reservations_' \in [Slot -> Access \cup {Nothing}]
      /\ \A u \in Slot : reservations_'[u] \in {Nothing, reservations_[u]}
  BY <1>1, <1>3 DEF IInv, Types
<1>5. GuestThread \subseteq Actor BY DEF Actor
<1>6. Types' BY <1>2, <1>3, <1>4 DEF IInv, Types
<1>7. Inside' BY <1>2, <1>5 DEF IInv, Inside
<1>8. Links' BY <1>2, <1>3, <1>4, <1>5 DEF IInv, Links
<1>9. Passed' BY <1>1, <1>2, <1>3 DEF IInv, Passed
<1>10. LostKnown' BY <1>2, <1>3, <1>4, <1>5 DEF IInv, LostKnown, Types
<1>. QED BY <1>6, <1>7, <1>8, <1>9, <1>10 DEF IInv

LEMMA Silent == ASSUME IInv, UNCHANGED gvars PROVE IInv'
BY DEF gvars, IInv, Types, Inside, Links, Passed, LostKnown

LEMMA Inductive == ASSUME Ids PROVE AtomicsSpec => []IInv
<1>1. AtomicsInit => IInv BY InitIInv
<1>2. IInv /\ [AtomicsNext]_gvars => IInv'
  <2>. SUFFICES ASSUME IInv, [AtomicsNext]_gvars PROVE IInv' OBVIOUS
  <2>1. ASSUME NEW t \in GuestThread, NEW r \in Access, LoadReserve(t, r) \/ StoreConditional(t, r)
        PROVE  IInv'
    BY <2>1, LoadReserveStep, StoreConditionalStep
  <2>2. ASSUME NEW t \in GuestThread, Reserve(t) \/ CondWrite(t) \/ StoreConditionalEnd(t)
        PROVE  IInv'
    BY <2>2, ReserveStep, CondWriteStep, StoreConditionalEndStep
  <2>3. ASSUME NEW a \in Actor, NotifyWrite(a) PROVE IInv' BY <2>3, NotifyWriteStep
  <2>4. ASSUME NEW a \in Actor, NEW r \in Access, Write(a, r) PROVE IInv' BY <2>4, WriteStep
  <2>5. CASE UNCHANGED gvars BY <2>5, Silent
  <2>. QED BY <2>1, <2>2, <2>3, <2>4, <2>5 DEF AtomicsNext
<1>. QED BY <1>1, <1>2, PTL DEF AtomicsSpec

-----------------------------------------------------------------------------
(* Results                                                                  *)

\* A conditional store is never made over another's store that began and ended
\* since the thread's load-and-reserve: for any threads, writers and accesses.
THEOREM StoresKept == ASSUME Ids PROVE AtomicsSpec => []NoStoreLost
<1>1. IInv => NoStoreLost BY DEF IInv, LostKnown, NoStoreLost, Does
<1>. QED BY <1>1, Inductive, PTL

\* Every variable of the reservations keeps its type.
THEOREM TypeCorrect == ASSUME Ids PROVE AtomicsSpec => []AtomicsOK
<1>1. IInv => AtomicsOK BY DEF IInv, Types, AtomicsOK
<1>. QED BY <1>1, Inductive, PTL
-----------------------------------------------------------------------------
(* JitCache: the compiled blocks                                            *)

\* Past the dispatcher there is room for a block of any length, and the guest's
\* code branches into itself or just past it.
Kinds == {"none", "load", "op", "b", "bc", "sc", "rfi"}
Insns == [op : Kinds, to : 0 .. Len(Program)]
Room ==
  /\ MAX_BLOCK_INSTRUCTIONS \in Nat \ {0} /\ Hot \in Nat
  /\ Cells \in Nat /\ Dispatcher \in Nat /\ Dispatcher + CodeSize(MAX_BLOCK_INSTRUCTIONS) <= Cells
  /\ Program \in Seq(Insns) /\ \A p \in Patches : p.at \in DOMAIN Program /\ p.insn \in Insns

CompiledBlock ==
  [start_addr : 1 .. Len(Program), end_addr : Nat, code : Nat, is_idle_loop : BOOLEAN,
   execution_count : 0 .. Hot + 1, text : Seq(Insns)]

JTypes ==
  /\ code \in [1 .. Len(Program) -> Insns]
  /\ code_write_ptr_ \in 0 .. Cells /\ DOMAIN cache = 0 .. Cells - 1
  /\ host \in [HostThread -> {"loop", "found", "lost"}]
  /\ ctx_pc \in [HostThread -> 0 .. Len(Program) + MAX_BLOCK_INSTRUCTIONS]
  /\ next \in [HostThread -> [pc : Nat, after : Kinds]]
\* The blocks lie before the write pointer, each with its code in its place.
Placed(b, before, cells) ==
  /\ b \in CompiledBlock
  /\ Len(b.text) \in 1 .. MAX_BLOCK_INSTRUCTIONS /\ b.end_addr = b.start_addr + Len(b.text)
  /\ b.code + CodeSize(Len(b.text)) <= before
  /\ \A k \in 0 .. Len(b.text) - 1 : b.code + k \in DOMAIN cells /\ cells[b.code + k] = <<k, Body(b)>>
Blocks ==
  /\ \A b \in block_map_ : Placed(b, code_write_ptr_, cache)
  /\ \A b, c \in block_map_ : b.start_addr = c.start_addr => b = c
\* A thread that holds a block holds one that is there.
Holds == \A t \in HostThread : host[t] = "found" => \E b \in block_map_ : b.start_addr = ctx_pc[t]
Follows ==
  \A t \in HostThread :
    \/ ctx_pc[t] = next[t].pc
    \/ /\ next[t].after = "sc"
       /\ ctx_pc[t] \in ((next[t].pc - MAX_BLOCK_INSTRUCTIONS) + 1) .. (next[t].pc - 1)

JInv == JTypes /\ Blocks /\ Holds /\ Follows

LEMMA LeastOf ==
  ASSUME NEW U \in SUBSET Nat, U # {}
  PROVE  \E x \in U : \A y \in U : x <= y
<1>1. PICK x \in U : \A y \in U : ~(<<y, x>> \in OpToRel(<, Nat))
  BY NatLessThanWellFounded, WFMin
<1>2. \A y \in U : ~(y < x) BY <1>1 DEF OpToRel
<1> QED BY <1>2

LEMMA MinIn == ASSUME NEW U \in SUBSET Nat, U # {} PROVE Min(U) \in U
BY LeastOf DEF Min

LEMMA Size == ASSUME Room, NEW a PROVE BlockSize(a) \in 1 .. MAX_BLOCK_INSTRUCTIONS
<1> DEFINE ends == {n \in 1 .. MAX_BLOCK_INSTRUCTIONS : Ends(Read((a + n) - 1))}
<1>1. ends \in SUBSET Nat /\ ends \subseteq 1 .. MAX_BLOCK_INSTRUCTIONS BY DEF Room
<1>2. ends # {} => Min(ends) \in ends BY <1>1, MinIn
<1>3. BlockSize(a) = IF ends = {} THEN MAX_BLOCK_INSTRUCTIONS ELSE Min(ends) BY DEF BlockSize
<1> HIDE DEF ends
<1>4. MAX_BLOCK_INSTRUCTIONS \in 1 .. MAX_BLOCK_INSTRUCTIONS BY DEF Room
<1>. QED BY <1>1, <1>2, <1>3, <1>4

LEMMA Programmed == ASSUME Room PROVE Len(Program) \in Nat /\ MAX_BLOCK_INSTRUCTIONS \in Nat
BY DEF Room

LEMMA SeqIn == ASSUME NEW S, NEW n \in Nat, NEW s \in [1 .. n -> S] PROVE s \in Seq(S)
BY SeqDef, Zenon

LEMMA LenOf == ASSUME NEW S, NEW n \in Nat, NEW s \in [1 .. n -> S] PROVE Len(s) = n
<1>1. s \in Seq(S) BY SeqDef, Zenon
<1>2. DOMAIN s = 1 .. n /\ DOMAIN s = 1 .. Len(s) /\ Len(s) \in Nat BY <1>1
<1>. QED BY <1>2

LEMMA ReadIs == ASSUME Room, JTypes, NEW a PROVE Read(a) \in Insns
<1>1. Op("none") \in Insns
  <2>1. 0 \in 0 .. Len(Program) BY Programmed
  <2>. QED BY <2>1 DEF Op, Insns, Kinds
<1>2. a \in DOMAIN code => code[a] \in Insns BY DEF JTypes
<1>. QED BY <1>1, <1>2 DEF Read, Addr

\* A block that is compiled.
LEMMA CompiledIs ==
  ASSUME Room, JTypes, NEW a \in 1 .. Len(Program), NEW place \in Nat
  PROVE  /\ Compiled(a, place) \in CompiledBlock
         /\ Compiled(a, place).start_addr = a /\ Compiled(a, place).code = place
         /\ Len(Compiled(a, place).text) = BlockSize(a)
         /\ Compiled(a, place).end_addr = a + BlockSize(a)
<1> DEFINE n == BlockSize(a)
           text == [k \in 1 .. n |-> Read((a + k) - 1)]
<1>1. n \in 1 .. MAX_BLOCK_INSTRUCTIONS /\ n \in Nat BY Size DEF Room
<1>2. text \in [1 .. n -> Insns] BY ReadIs
<1>3. Compiled(a, place) = [start_addr |-> a, end_addr |-> a + n, code |-> place, is_idle_loop |-> detect_idle_loop(a, n),
                            execution_count |-> 0, text |-> text]
  BY DEF Compiled
<1>4. detect_idle_loop(a, n) \in BOOLEAN BY DEF detect_idle_loop
<1> HIDE DEF n, text
<1>5. text \in Seq(Insns) /\ Len(text) = n
  <2>1. text \in [1 .. n -> Insns] /\ n \in Nat BY <1>1, <1>2
  <2>2. text \in Seq(Insns) BY <2>1, SeqDef, Zenon
  <2>3. Len(text) = n BY <2>1, LenOf
  <2>. QED BY <2>2, <2>3
<1>6. a \in Nat /\ a + n \in Nat /\ 0 \in 0 .. Hot + 1 BY <1>1 DEF Room
<1>7. [start_addr |-> a, end_addr |-> a + n, code |-> place, is_idle_loop |-> detect_idle_loop(a, n),
       execution_count |-> 0, text |-> text] \in CompiledBlock
  BY <1>4, <1>5, <1>6 DEF CompiledBlock
<1>. QED BY <1>3, <1>5, <1>7 DEF n

LEMMA PlaceFits ==
  ASSUME Room, JTypes, NEW n \in 1 .. MAX_BLOCK_INSTRUCTIONS
  PROVE  /\ PlaceOf(n) \in Nat /\ PlaceOf(n) + CodeSize(n) <= Cells
         /\ PlaceOf(n) = IF ~Fits(code_write_ptr_, n) THEN Dispatcher ELSE code_write_ptr_
BY DEF PlaceOf, Fits, CodeSize, Room, JTypes

\* Every block the lookup of a thread could have given it.
LEMMA BlockIs ==
  ASSUME JInv, NEW t \in HostThread, host[t] = "found"
  PROVE  BlockOf(t) \in block_map_ /\ BlockOf(t).start_addr = ctx_pc[t] /\ Placed(BlockOf(t), code_write_ptr_, cache)
BY DEF JInv, Holds, Blocks, BlockOf, BlockAt

LEMMA InitJInv == ASSUME Room, JitInit PROVE JInv
<1>1. code \in [1 .. Len(Program) -> Insns] BY DEF JitInit, Room
<1>2. Len(Program) \in Nat BY DEF Room
<1>3. JTypes
  <2>1. code_write_ptr_ = 0 /\ DOMAIN cache = 0 .. Cells - 1 /\ 0 \in 0 .. Cells BY DEF JitInit, Blank, Room
  <2>2. host \in [HostThread -> {"loop", "found", "lost"}] BY DEF JitInit
  <2>5. next \in [HostThread -> [pc : Nat, after : Kinds]]
    <3>1. [pc |-> 1, after |-> "none"] \in [pc : Nat, after : Kinds] BY DEF Kinds
    <3>. QED BY <3>1 DEF JitInit
  <2>3. 1 \in 0 .. Len(Program) + MAX_BLOCK_INSTRUCTIONS BY <1>2 DEF Room
  <2>4. ctx_pc \in [HostThread -> 0 .. Len(Program) + MAX_BLOCK_INSTRUCTIONS] BY <2>3 DEF JitInit
  <2>. QED BY <1>1, <2>1, <2>2, <2>4, <2>5 DEF JTypes
<1>4. Blocks /\ Holds BY DEF JitInit, Blocks, Holds
<1>5. Follows BY DEF JitInit, Follows
<1>. QED BY <1>3, <1>4, <1>5 DEF JInv
-----------------------------------------------------------------------------
LEMMA LookupStep == ASSUME JInv, NEW t \in HostThread, Lookup(t) PROVE JInv'
<1>1. /\ host' = [host EXCEPT ![t] = "found"] /\ \E block \in block_map_ : block.start_addr = ctx_pc[t]
      /\ UNCHANGED <<code, block_map_, code_write_ptr_, cache, ctx_pc, next>>
  BY DEF Lookup
<1>2. JTypes' BY <1>1 DEF JInv, JTypes
<1>3. Blocks' BY <1>1 DEF JInv, Blocks
<1>4. Holds' BY <1>1 DEF JInv, JTypes, Holds
<1>5. Follows' BY <1>1 DEF JInv, Follows
<1>. QED BY <1>2, <1>3, <1>4, <1>5 DEF JInv

LEMMA CompileStep == ASSUME Room, JInv, NEW t \in HostThread, compile_block(t) PROVE JInv'
<1> DEFINE a == ctx_pc[t]
           n == BlockSize(a)
           full == ~Fits(code_write_ptr_, n)
           at == PlaceOf(n)
           block == Compiled(a, at)
           kept == IF full THEN {} ELSE block_map_
           old == IF full THEN Blank ELSE cache
<1>1. JTypes /\ Blocks /\ Holds /\ Follows BY DEF JInv
<1>2. a \in 1 .. Len(Program) /\ n \in 1 .. MAX_BLOCK_INSTRUCTIONS BY <1>1, Size DEF compile_block, Addr, JTypes
<1>3. /\ at \in Nat /\ at + CodeSize(n) <= Cells
      /\ at = IF full THEN Dispatcher ELSE code_write_ptr_
  BY <1>1, <1>2, PlaceFits
<1>4. /\ block \in CompiledBlock /\ block.start_addr = a /\ block.code = at
      /\ Len(block.text) = n /\ block.end_addr = a + n
  BY <1>1, <1>2, <1>3, CompiledIs
<1>5. /\ \A b \in block_map_ : b.start_addr # a
      /\ block_map_' = {block} \cup kept
      /\ code_write_ptr_' = at + CodeSize(n)
      /\ cache' = Written(old, [block EXCEPT !.code = at])
      /\ host' = [IF full THEN Freed ELSE host EXCEPT ![t] = "found"]
      /\ UNCHANGED <<code, ctx_pc, next>>
  BY <1>3 DEF compile_block
<1> HIDE DEF n, at, block, full
<1>6. [block EXCEPT !.code = at] = block BY <1>4 DEF CompiledBlock
<1>7. DOMAIN old = 0 .. Cells - 1 BY <1>1 DEF JTypes, Blank
<1>8. /\ DOMAIN cache' = 0 .. Cells - 1
      /\ \A c \in 0 .. Cells - 1 : cache'[c] = IF c \in at .. (at + n) - 1 THEN <<c - at, Body(block)>> ELSE old[c]
  <2>1. cache' = Written(old, block) BY <1>5, <1>6
  <2> HIDE DEF old
  <2>. QED BY <1>4, <1>7, <2>1 DEF Written
<1>9. JTypes'
  <2>1. code_write_ptr_' \in 0 .. Cells BY <1>2, <1>3, <1>5 DEF CodeSize, Room
  <2>2. host' \in [HostThread -> {"loop", "found", "lost"}]
    <3>1. Freed \in [HostThread -> {"loop", "found", "lost"}] BY <1>1 DEF Freed, JTypes
    <3>2. host \in [HostThread -> {"loop", "found", "lost"}] BY <1>1 DEF JTypes
    <3>. QED BY <1>5, <3>1, <3>2
  <2>. QED BY <1>1, <1>5, <1>8, <2>1, <2>2 DEF JTypes
<1> HIDE DEF old
<1>15. n \in Nat /\ n >= 1 /\ Cells \in Nat /\ at + n + 1 <= Cells
  <2>1. n \in 1 .. MAX_BLOCK_INSTRUCTIONS /\ at \in Nat BY <1>2, <1>3
  <2>2. n \in Nat /\ n >= 1 BY <2>1, Programmed
  <2>3. at + (n + 1) <= Cells /\ Cells \in Nat BY <1>3 DEF CodeSize, Room
  <2>. QED BY <2>1, <2>2, <2>3
<1>10. Placed(block, code_write_ptr_', cache')
  <2>1. \A k \in 0 .. n - 1 : at + k \in 0 .. Cells - 1 /\ at + k \in at .. (at + n) - 1 /\ (at + k) - at = k
    BY <1>3, <1>15
  <2>2. \A k \in 0 .. n - 1 : at + k \in DOMAIN cache' /\ cache'[at + k] = <<k, Body(block)>> BY <1>8, <2>1
  <2>3. code_write_ptr_' = block.code + CodeSize(Len(block.text)) /\ code_write_ptr_' \in Int
    BY <1>3, <1>4, <1>5, <1>15 DEF CodeSize
  <2>. QED BY <1>2, <1>4, <2>2, <2>3 DEF Placed
<1>11. ASSUME NEW b \in kept PROVE Placed(b, code_write_ptr_', cache')
  <2>1. ~full /\ Placed(b, code_write_ptr_, cache) /\ old = cache /\ at = code_write_ptr_ BY <1>1, <1>3, <1>11 DEF Blocks, old
  <2>2. b.code \in Nat /\ Len(b.text) \in Nat BY <2>1 DEF Placed, CompiledBlock
  <2>3. \A k \in 0 .. Len(b.text) - 1 : b.code + k < at BY <2>1, <2>2, <1>3 DEF Placed, CodeSize
  <2>4. \A k \in 0 .. Len(b.text) - 1 : b.code + k \in 0 .. Cells - 1 /\ cache[b.code + k] = <<k, Body(b)>>
    BY <1>1, <2>1 DEF Placed, JTypes
  <2>5. \A k \in 0 .. Len(b.text) - 1 : b.code + k \notin at .. (at + n) - 1 BY <1>15, <1>3, <2>2, <2>3
  <2>6. \A k \in 0 .. Len(b.text) - 1 : b.code + k \in DOMAIN cache' /\ cache'[b.code + k] = <<k, Body(b)>>
    BY <1>8, <2>1, <2>4, <2>5
  <2>7. b.code + CodeSize(Len(b.text)) <= code_write_ptr_' BY <1>15, <1>3, <1>5, <2>1, <2>2 DEF Placed, CodeSize
  <2>. QED BY <2>1, <2>6, <2>7 DEF Placed
<1>12. Blocks'
  <2>1. \A b, c \in kept : b.start_addr = c.start_addr => b = c BY <1>1 DEF Blocks
  <2>2. \A b \in kept : b.start_addr # a BY <1>5
  <2>3. \A b \in block_map_' : Placed(b, code_write_ptr_', cache') BY <1>5, <1>10, <1>11
  <2>. QED BY <1>4, <1>5, <2>1, <2>2, <2>3 DEF Blocks
<1>13. Holds'
  <2>1. ASSUME NEW u \in HostThread, host'[u] = "found" PROVE \E b \in block_map_' : b.start_addr = ctx_pc'[u]
    <3>1. CASE u = t BY <1>4, <1>5, <3>1
    <3>2. CASE u # t
      <4>1. Freed[u] # "found" BY DEF Freed, Holding
      <4>2. ~full /\ host[u] = "found" BY <1>1, <1>5, <2>1, <3>2, <4>1 DEF JTypes, Freed
      <4>. QED BY <1>1, <1>5, <4>2 DEF Holds
    <3>. QED BY <3>1, <3>2
  <2>. QED BY <2>1 DEF Holds
<1>14. Follows' BY <1>1, <1>5 DEF Follows
<1>. QED BY <1>9, <1>12, <1>13, <1>14 DEF JInv

LEMMA RunStep == ASSUME Room, JInv, NEW t \in HostThread, Run(t) PROVE JInv'
<1> DEFINE block == BlockOf(t)
           raised == Min({block.execution_count + 1, Hot + 1})
           Raise(b) == IF b.start_addr = block.start_addr
                       THEN [b EXCEPT !.execution_count = Min({b.execution_count + 1, Hot + 1})] ELSE b
<1>1. JTypes /\ Blocks /\ Holds /\ Follows BY DEF JInv
<1>2. /\ host[t] = "found" /\ host' = [host EXCEPT ![t] = "loop"]
      /\ block_map_' = {Raise(b) : b \in block_map_}
      /\ \E taken \in BOOLEAN :
           /\ ctx_pc' = [ctx_pc EXCEPT ![t] = LeftAt(block, taken)]
           /\ next' = [next EXCEPT ![t] = [pc |-> Goes(block, taken), after |-> Last(block.text).op]]
      /\ UNCHANGED <<code, code_write_ptr_, cache>>
  BY DEF Run, Holding
<1>3. block \in CompiledBlock /\ Len(block.text) \in 1 .. MAX_BLOCK_INSTRUCTIONS
      /\ block.end_addr = block.start_addr + Len(block.text)
  BY <1>2, BlockIs DEF Placed
<1>4. /\ Last(block.text).op \in Kinds /\ Last(block.text).to \in 0 .. Len(Program)
      /\ block.start_addr \in 1 .. Len(Program) /\ Len(Program) \in Nat
  <2>1. block.text \in Seq(Insns) /\ Len(block.text) \in 1 .. Len(block.text) BY <1>3 DEF CompiledBlock
  <2>2. Last(block.text) \in Insns BY <2>1 DEF Last
  <2>. QED BY <1>3, <2>2 DEF Insns, CompiledBlock, Room
<1> HIDE DEF block
<1>5. PICK taken \in BOOLEAN :
           /\ ctx_pc' = [ctx_pc EXCEPT ![t] = LeftAt(block, taken)]
           /\ next' = [next EXCEPT ![t] = [pc |-> Goes(block, taken), after |-> Last(block.text).op]]
  BY <1>2
<1>6. /\ Goes(block, taken) \in Nat /\ Goes(block, taken) \in 0 .. Len(Program) + MAX_BLOCK_INSTRUCTIONS
      /\ LeftAt(block, taken) \in 0 .. Len(Program) + MAX_BLOCK_INSTRUCTIONS
      /\ \/ LeftAt(block, taken) = Goes(block, taken)
         \/ /\ Last(block.text).op = "sc"
            /\ LeftAt(block, taken) \in ((Goes(block, taken) - MAX_BLOCK_INSTRUCTIONS) + 1) .. (Goes(block, taken) - 1)
  <2>1. MAX_BLOCK_INSTRUCTIONS \in Nat BY DEF Room
  <2>. QED BY <1>3, <1>4, <2>1, SMTT(30) DEF Goes, LeftAt
<1>7. ASSUME NEW b \in block_map_
      PROVE  /\ Placed(Raise(b), code_write_ptr_, cache) /\ Raise(b).start_addr = b.start_addr
             /\ Raise(b).code = b.code /\ Raise(b).text = b.text
  <2>1. Placed(b, code_write_ptr_, cache) /\ b \in CompiledBlock BY <1>1 DEF Blocks, Placed
  <2>2. Min({b.execution_count + 1, Hot + 1}) \in 0 .. Hot + 1
    <3>1. b.execution_count \in 0 .. Hot + 1 /\ Hot \in Nat BY <2>1 DEF CompiledBlock, Room
    <3>2. Min({b.execution_count + 1, Hot + 1}) \in {b.execution_count + 1, Hot + 1} BY <3>1, MinIn
    <3>3. Min({b.execution_count + 1, Hot + 1}) <= Hot + 1
      <4>1. \E x \in {b.execution_count + 1, Hot + 1} : \A y \in {b.execution_count + 1, Hot + 1} : x <= y
        BY <3>1, LeastOf
      <4>. QED BY <4>1 DEF Min
    <3>. QED BY <3>1, <3>2, <3>3
  <2>3. /\ Raise(b) \in CompiledBlock /\ Raise(b).start_addr = b.start_addr /\ Raise(b).end_addr = b.end_addr
        /\ Raise(b).code = b.code /\ Raise(b).text = b.text
    BY <2>1, <2>2 DEF CompiledBlock
  <2>. QED BY <2>1, <2>3 DEF Placed, Body
<1>8. JTypes'
  <2>1. next' \in [HostThread -> [pc : Nat, after : Kinds]] BY <1>1, <1>4, <1>5, <1>6 DEF JTypes
  <2>2. ctx_pc' \in [HostThread -> 0 .. Len(Program) + MAX_BLOCK_INSTRUCTIONS] BY <1>1, <1>5, <1>6 DEF JTypes
  <2>. QED BY <1>1, <1>2, <2>1, <2>2 DEF JTypes
<1>9. Blocks'
  <2> HIDE DEF Raise
  <2>1. \A b \in block_map_' : \E c \in block_map_ : b = Raise(c) BY <1>2
  <2>2. \A b \in block_map_ : Placed(Raise(b), code_write_ptr_', cache') BY <1>2, <1>7
  <2>3. \A b, c \in block_map_ : Raise(b).start_addr = Raise(c).start_addr => b = c BY <1>1, <1>7 DEF Blocks
  <2>. QED BY <2>1, <2>2, <2>3 DEF Blocks
<1>10. Holds'
  <2>1. ASSUME NEW u \in HostThread, host'[u] = "found" PROVE \E b \in block_map_' : b.start_addr = ctx_pc'[u]
    <3>1. u # t /\ host[u] = "found" /\ ctx_pc'[u] = ctx_pc[u] BY <1>1, <1>2, <1>5, <2>1 DEF JTypes
    <3>2. PICK b \in block_map_ : b.start_addr = ctx_pc[u] BY <1>1, <3>1 DEF Holds
    <3>3. Raise(b) \in block_map_' BY <1>2
    <3>. QED BY <1>7, <3>1, <3>2, <3>3
  <2>. QED BY <2>1 DEF Holds
<1>11. Follows'
  <2>1. ASSUME NEW u \in HostThread
        PROVE \/ ctx_pc'[u] = next'[u].pc
              \/ /\ next'[u].after = "sc"
                 /\ ctx_pc'[u] \in ((next'[u].pc - MAX_BLOCK_INSTRUCTIONS) + 1) .. (next'[u].pc - 1)
    <3>1. CASE u # t BY <1>1, <1>5, <3>1 DEF Follows, JTypes
    <3>2. CASE u = t
      <4>1. ctx_pc'[u] = LeftAt(block, taken) /\ next'[u].pc = Goes(block, taken) /\ next'[u].after = Last(block.text).op
        BY <1>1, <1>5, <3>2 DEF JTypes
      <4>. QED BY <1>6, <4>1
    <3>. QED BY <3>1, <3>2
  <2>. QED BY <2>1 DEF Follows
<1>. QED BY <1>8, <1>9, <1>10, <1>11 DEF JInv

LEMMA ThreadStep == ASSUME Room, JInv, NEW t \in HostThread, SkipIdle(t) \/ Lost(t) PROVE JInv'
<1>1. JTypes /\ Blocks /\ Holds /\ Follows BY DEF JInv
<1>2. /\ host' = [host EXCEPT ![t] = "loop"] /\ UNCHANGED <<code, block_map_, code_write_ptr_, cache>>
      /\ \/ UNCHANGED <<ctx_pc, next>>
         \/ ctx_pc' = [ctx_pc EXCEPT ![t] = 0] /\ next' = [next EXCEPT ![t] = [pc |-> 0, after |-> "none"]]
  BY DEF SkipIdle, Lost
<1>3. 0 \in 0 .. Len(Program) + MAX_BLOCK_INSTRUCTIONS BY DEF Room
<1>4. JTypes'
  <2>1. ctx_pc' \in [HostThread -> 0 .. Len(Program) + MAX_BLOCK_INSTRUCTIONS] BY <1>1, <1>2, <1>3 DEF JTypes
  <2>2. next' \in [HostThread -> [pc : Nat, after : Kinds]]
    <3>1. [pc |-> 0, after |-> "none"] \in [pc : Nat, after : Kinds] BY DEF Kinds
    <3>. QED BY <1>1, <1>2, <3>1 DEF JTypes
  <2>. QED BY <1>1, <1>2, <2>1, <2>2 DEF JTypes
<1>5. Blocks' BY <1>1, <1>2 DEF Blocks
<1>6. Holds' BY <1>1, <1>2 DEF Holds, JTypes
<1>7. Follows' BY <1>1, <1>2 DEF Follows, JTypes
<1>. QED BY <1>4, <1>5, <1>6, <1>7 DEF JInv

LEMMA FlushStep == ASSUME Room, JInv, flush_cache PROVE JInv'
<1>1. JTypes /\ Follows BY DEF JInv
<1>2. /\ block_map_' = {} /\ code_write_ptr_' = Dispatcher /\ host' = Freed /\ cache' = Blank
      /\ UNCHANGED <<code, ctx_pc, next>>
  BY DEF flush_cache
<1>3. \A u \in HostThread : host'[u] # "found" BY <1>2 DEF Freed, Holding
<1>4. JTypes'
  <2>1. Dispatcher \in 0 .. Cells BY DEF Room, CodeSize
  <2>2. Freed \in [HostThread -> {"loop", "found", "lost"}] BY <1>1 DEF Freed, JTypes
  <2>3. DOMAIN Blank = 0 .. Cells - 1 BY DEF Blank
  <2>. QED BY <1>1, <1>2, <2>1, <2>2, <2>3 DEF JTypes
<1>. QED BY <1>1, <1>2, <1>3, <1>4 DEF JInv, Blocks, Holds, Follows

LEMMA ModifyStep == ASSUME Room, JInv, NEW p \in Patches, Modify(p.at, p.insn) PROVE JInv'
<1>1. /\ code' = [code EXCEPT ![p.at] = p.insn] /\ p.insn \in Insns
      /\ UNCHANGED <<block_map_, code_write_ptr_, cache, host, ctx_pc, next>>
  BY DEF Modify, Room
<1>2. JTypes' BY <1>1 DEF JInv, JTypes
<1>3. Blocks' BY <1>1 DEF JInv, Blocks
<1>. QED BY <1>1, <1>2, <1>3 DEF JInv, Holds, Follows

LEMMA JNext == ASSUME Room, JInv, [JitNext]_(jvars) PROVE JInv'
<1>1. CASE UNCHANGED jvars
  <2>1. UNCHANGED <<code, block_map_, code_write_ptr_, cache, host, ctx_pc, next>> BY <1>1 DEF jvars
  <2>2. JTypes' BY <2>1 DEF JInv, JTypes
  <2>3. Blocks' BY <2>1 DEF JInv, Blocks
  <2>. QED BY <2>1, <2>2, <2>3 DEF JInv, Holds, Follows
<1>. QED BY <1>1, LookupStep, CompileStep, RunStep, ThreadStep, FlushStep, ModifyStep DEF JitNext

\* A thread finds the code compiled for the address it jumps to, and its program
\* counter is the guest program's, but for the place a system call is left at,
\* for any program, patches and threads (jit_compiler.cpp:4087).
THEOREM BlocksRun == ASSUME Room PROVE JitSpec => [](JitOK /\ RunsTheProgram)
<1>1. JitInit => JInv BY InitJInv
<1>2. JInv /\ [JitNext]_(jvars) => JInv' BY JNext
<1>3. ASSUME JInv PROVE JitOK /\ RunsTheProgram
  <2>1. JTypes /\ Blocks /\ Follows BY <1>3 DEF JInv
  <2>2. \A b \in block_map_ : b.code \in 0 .. Cells - 1 /\ b.execution_count \in 0 .. Hot + 1
    BY <2>1 DEF Blocks, Placed, CompiledBlock, CodeSize, JTypes, Room
  <2>3. Len(code) = Len(Program)
    <3>1. code \in [1 .. Len(Program) -> Insns] /\ Len(Program) \in Nat BY <2>1 DEF JTypes, Room
    <3>. QED BY <3>1, LenOf
  <2>4. JitOK BY <2>1, <2>2, <2>3 DEF JitOK, Blocks, JTypes
  <2>5. \A t \in Holding : InCache(BlockOf(t)) BY <1>3, BlockIs DEF Holding, Placed, InCache
  <2>. QED BY <2>1, <2>4, <2>5 DEF RunsTheProgram, Follows
<1>. QED BY <1>1, <1>2, <1>3, PTL DEF JitSpec

-----------------------------------------------------------------------------
(* ShaderTranslator: the function made of a shader, here spirv              *)

CONSTANTS Clause, MaxCf, MaxDepth
VARIABLES type, spirv, next_id_, loop_stack, count, ended
T == INSTANCE ShaderTranslator WITH code <- spirv

Element == [op : {"label", "branch", "cond", "selection", "loop", "return", "kill", "op"}, ids : Seq(Nat)]
Labelled(c, x, p) == p \in DOMAIN c /\ c[p].op = "label" /\ c[p].ids[1] = x
NamedIn(c, x) == \E i \in DOMAIN c : \E j \in DOMAIN c[i].ids : c[i].ids[j] = x
Branches(c, i) == c[i].op \in {"branch", "cond"}
\* The constructs around position i, of a declaration at m, and the innermost loop.
Around(c, i, m) ==
  /\ m \in DOMAIN c /\ c[m].op \in {"selection", "loop"} /\ m < i
  /\ \A p \in DOMAIN c : Labelled(c, c[m].ids[1], p) => i < p
Innermost(c, i, l) ==
  /\ Around(c, i, l) /\ c[l].op = "loop"
  /\ \A m \in DOMAIN c : Around(c, i, m) /\ c[m].op = "loop" => m <= l
\* The ids in S have no label yet; the last gets its first. t's label is, or will
\* be, no later than u's.
NotAfter(c, S, t, u) ==
  \/ \E p \in DOMAIN c : Labelled(c, t, p) /\ \A q \in DOMAIN c : Labelled(c, u, q) => p <= q
  \/ \E x, y \in DOMAIN S : S[x] = t /\ S[y] = u /\ y <= x
Back(c, i, t) ==
  \E l \in DOMAIN c :
    /\ Innermost(c, i, l) /\ Labelled(c, t, l - 1)
    /\ \E q \in DOMAIN c : q < i /\ Labelled(c, c[l].ids[2], q)
Leaves(c, i, t) == \E l \in DOMAIN c : Innermost(c, i, l) /\ t \in {c[l].ids[1], c[l].ids[2]}
Behind(c, i, t) == \E p \in DOMAIN c : p < i /\ Labelled(c, t, p)
\* A branch at i goes back only to the head of the innermost loop, from behind its
\* continue block, and forward out of no construct but by the loop's own exits.
Jump(c, S, i, t) ==
  /\ Behind(c, i, t) => Back(c, i, t)
  /\ ~Behind(c, i, t) => \A m \in DOMAIN c : Around(c, i, m) => NotAfter(c, S, t, c[m].ids[1]) \/ Leaves(c, i, t)

Shapes(c) ==
  \A i \in DOMAIN c :
    /\ c[i].op \in {"label", "selection"} => Len(c[i].ids) = 1
    /\ c[i].op = "loop" => Len(c[i].ids) = 2 /\ i - 1 \in DOMAIN c /\ c[i - 1].op = "label"
Follow(c) ==
  /\ Len(c) >= 1 /\ c[1].op = "label"
  /\ \A i \in DOMAIN c : i + 1 \in DOMAIN c =>
       /\ c[i + 1].op = "label" <=> c[i].op \in T!Terminators
       /\ c[i].op = "selection" => c[i + 1].op = "cond"
       /\ c[i].op = "loop" => c[i + 1].op = "branch"
Once(c, S) ==
  /\ \A x, y \in DOMAIN S : S[x] = S[y] => x = y
  /\ \A x \in DOMAIN S : \A p \in DOMAIN c : ~Labelled(c, S[x], p)
  /\ \A p, q \in DOMAIN c : c[p].op = "label" /\ c[q].op = "label" /\ c[p].ids[1] = c[q].ids[1] => p = q
  /\ \A x : NamedIn(c, x) => (\E p \in DOMAIN c : Labelled(c, x, p)) \/ (\E k \in DOMAIN S : S[k] = x)
Jumps(c, S) == \A i \in DOMAIN c : Branches(c, i) => \A j \in DOMAIN c[i].ids : Jump(c, S, i, c[i].ids[j])
\* Code c follows the rules, but that the ids in S have no label yet and will get
\* theirs from the last to the first.
Well(c, S) == c \in Seq(Element) /\ S \in Seq(Nat) /\ Shapes(c) /\ Follow(c) /\ Once(c, S) /\ Jumps(c, S)

(* One element more.                                                        *)
Suits(c, e) ==
  /\ e.op = "label" <=> c[Len(c)].op \in T!Terminators
  /\ c[Len(c)].op = "selection" => e.op = "cond"
  /\ c[Len(c)].op = "loop" => e.op = "branch"
  /\ e.op \in {"label", "selection"} => Len(e.ids) = 1
  /\ e.op = "loop" => Len(e.ids) = 2 /\ c[Len(c)].op = "label"

LEMMA Appended ==
  ASSUME NEW c \in Seq(Element), NEW e \in Element
  PROVE  /\ Append(c, e) \in Seq(Element) /\ Len(c) \in Nat /\ DOMAIN c = 1..Len(c)
         /\ DOMAIN Append(c, e) = 1..(Len(c) + 1) /\ Len(Append(c, e)) = Len(c) + 1
         /\ Append(c, e)[Len(c) + 1] = e /\ \A i \in DOMAIN c : Append(c, e)[i] = c[i]
         /\ \A i \in DOMAIN c : c[i] \in Element /\ c[i].ids \in Seq(Nat)
<1>1. \A i \in DOMAIN c : c[i] \in Element
  BY ElementOfSeq
<1>2. \A x \in Element : x.ids \in Seq(Nat)
  BY DEF Element
<1>3. Len(c) \in Nat /\ DOMAIN c = 1..Len(c)
  BY LenProperties
<1> QED
  BY <1>1, <1>2, <1>3, AppendProperties

LEMMA ShapesKept ==
  ASSUME NEW c \in Seq(Element), NEW e \in Element, Shapes(c), Follow(c), Suits(c, e)
  PROVE  Shapes(Append(c, e)) /\ Follow(Append(c, e))
<1> DEFINE d == Append(c, e)
<1>0. /\ Len(c) \in Nat /\ DOMAIN c = 1..Len(c) /\ DOMAIN d = 1..(Len(c) + 1) /\ Len(d) = Len(c) + 1
      /\ d[Len(c) + 1] = e /\ \A i \in DOMAIN c : d[i] = c[i]
  BY Appended
<1> HIDE DEF d
<1>1. Shapes(d)
  <2> SUFFICES ASSUME NEW i \in DOMAIN d
               PROVE  /\ d[i].op \in {"label", "selection"} => Len(d[i].ids) = 1
                      /\ d[i].op = "loop" => Len(d[i].ids) = 2 /\ i - 1 \in DOMAIN d /\ d[i - 1].op = "label"
    BY DEF Shapes
  <2>1. CASE i = Len(c) + 1
    BY <1>0, <2>1 DEF Suits, Follow
  <2>2. CASE i \in DOMAIN c
    BY <1>0, <2>2 DEF Shapes
  <2> QED
    BY <1>0, <2>1, <2>2
<1>2. Follow(d)
  <2>1. Len(d) >= 1 /\ d[1].op = "label"
    BY <1>0 DEF Follow
  <2>2. ASSUME NEW i \in DOMAIN d, i + 1 \in DOMAIN d
        PROVE  /\ d[i + 1].op = "label" <=> d[i].op \in T!Terminators
               /\ d[i].op = "selection" => d[i + 1].op = "cond"
               /\ d[i].op = "loop" => d[i + 1].op = "branch"
    <3>1. CASE i + 1 = Len(c) + 1
      BY <1>0, <2>2, <3>1 DEF Suits, Follow
    <3>2. CASE i + 1 \in DOMAIN c
      <4>1. i \in DOMAIN c /\ d[i] = c[i] /\ d[i + 1] = c[i + 1]
        BY <1>0, <2>2, <3>2
      <4> QED
        BY <3>2, <4>1 DEF Follow
    <3> QED
      BY <1>0, <2>2, <3>1, <3>2
  <2> QED
    BY <2>1, <2>2 DEF Follow
<1> QED
  BY <1>1, <1>2 DEF d

\* What is around a position does not depend on what comes after it.
LEMMA SameAround ==
  ASSUME NEW c \in Seq(Element), NEW e \in Element, NEW i \in DOMAIN c
  PROVE  /\ \A m : Around(Append(c, e), i, m) <=> Around(c, i, m)
         /\ \A l : Innermost(Append(c, e), i, l) <=> Innermost(c, i, l)
         /\ \A t : Behind(Append(c, e), i, t) <=> Behind(c, i, t)
         /\ \A t : Back(c, i, t) => Back(Append(c, e), i, t)
         /\ \A t : Leaves(c, i, t) => Leaves(Append(c, e), i, t)
<1> DEFINE d == Append(c, e)
<1>0. /\ Len(c) \in Nat /\ DOMAIN c = 1..Len(c) /\ DOMAIN d = 1..(Len(c) + 1)
      /\ d[Len(c) + 1] = e /\ \A k \in DOMAIN c : d[k] = c[k]
  BY Appended
<1> HIDE DEF d
<1>1. \A k : k < i /\ k \in DOMAIN d => k \in DOMAIN c /\ d[k] = c[k]
  BY <1>0
<1>2. \A x, p : p \in DOMAIN c => (Labelled(d, x, p) <=> Labelled(c, x, p))
  BY <1>0 DEF Labelled
<1>3. ASSUME NEW m PROVE Around(d, i, m) <=> Around(c, i, m)
  <2>1. ASSUME m \in DOMAIN c
        PROVE  (\A p \in DOMAIN d : Labelled(d, d[m].ids[1], p) => i < p)
                 <=> (\A p \in DOMAIN c : Labelled(c, c[m].ids[1], p) => i < p)
    <3>1. i < Len(c) + 1 /\ d[m] = c[m] /\ \A p \in DOMAIN d : p \in DOMAIN c \/ p = Len(c) + 1
      BY <1>0, <2>1
    <3> QED
      BY <1>0, <1>2, <3>1
  <2> QED
    BY <1>0, <1>1, <2>1 DEF Around
<1>4. \A m : Around(d, i, m) => m \in DOMAIN c /\ d[m] = c[m]
  BY <1>0, <1>3 DEF Around
<1>5. ASSUME NEW l PROVE Innermost(d, i, l) <=> Innermost(c, i, l)
  <2>1. Around(d, i, l) /\ d[l].op = "loop" <=> Around(c, i, l) /\ c[l].op = "loop"
    BY <1>3, <1>4
  <2>2. (\A m \in DOMAIN d : Around(d, i, m) /\ d[m].op = "loop" => m <= l)
          <=> (\A m \in DOMAIN c : Around(c, i, m) /\ c[m].op = "loop" => m <= l)
    BY <1>0, <1>3, <1>4
  <2> QED
    BY <2>1, <2>2 DEF Innermost
<1>6. ASSUME NEW t PROVE Behind(d, i, t) <=> Behind(c, i, t)
  BY <1>0, <1>1, <1>2 DEF Behind
<1>7. ASSUME NEW t, Back(c, i, t) PROVE Back(d, i, t)
  <2>1. PICK l \in DOMAIN c : /\ Innermost(c, i, l) /\ Labelled(c, t, l - 1)
                              /\ \E q \in DOMAIN c : q < i /\ Labelled(c, c[l].ids[2], q)
    BY <1>7 DEF Back
  <2>2. l - 1 \in DOMAIN c
    BY <2>1 DEF Labelled
  <2> QED
    BY <1>0, <1>2, <1>5, <2>1, <2>2 DEF Back
<1>8. ASSUME NEW t, Leaves(c, i, t) PROVE Leaves(d, i, t)
  BY <1>0, <1>5, <1>8 DEF Leaves
<1> QED
  BY <1>3, <1>5, <1>6, <1>7, <1>8 DEF d

(* Three ways to go on: an element that is no label, an id to be placed,    *)
(* and the label of the id that is placed next.                             *)
LEMMA Emitted ==
  ASSUME NEW c, NEW S, Well(c, S), NEW e \in Element, Suits(c, e), e.op # "label",
         \A j \in DOMAIN e.ids : \/ \E p \in DOMAIN c : Labelled(c, e.ids[j], p)
                                 \/ \E k \in DOMAIN S : S[k] = e.ids[j],
         e.op \in {"branch", "cond"} =>
           \A j \in DOMAIN e.ids : Jump(Append(c, e), S, Len(c) + 1, e.ids[j])
  PROVE  Well(Append(c, e), S)
<1> DEFINE d == Append(c, e)
<1>0. c \in Seq(Element) /\ S \in Seq(Nat) /\ Shapes(c) /\ Follow(c) /\ Once(c, S) /\ Jumps(c, S)
  BY DEF Well
<1>1. /\ d \in Seq(Element) /\ Len(c) \in Nat /\ DOMAIN c = 1..Len(c) /\ DOMAIN d = 1..(Len(c) + 1)
      /\ d[Len(c) + 1] = e /\ \A i \in DOMAIN c : d[i] = c[i]
  BY <1>0, Appended
<1>2. Shapes(d) /\ Follow(d)
  BY <1>0, ShapesKept
<1>j. ASSUME e.op \in {"branch", "cond"} PROVE \A j \in DOMAIN e.ids : Jump(d, S, Len(c) + 1, e.ids[j])
  BY <1>j
<1>a. \A i \in DOMAIN c :
        /\ \A m : Around(d, i, m) <=> Around(c, i, m)
        /\ \A t : Behind(d, i, t) <=> Behind(c, i, t)
        /\ \A t : Back(c, i, t) => Back(d, i, t)
        /\ \A t : Leaves(c, i, t) => Leaves(d, i, t)
  BY <1>0, SameAround
<1> HIDE DEF d
<1>3. \A x, p : Labelled(d, x, p) <=> Labelled(c, x, p)
  BY <1>1 DEF Labelled
<1>4. Once(d, S)
  <2>1. \A x, y \in DOMAIN S : S[x] = S[y] => x = y
    BY <1>0 DEF Once
  <2>2. \A x \in DOMAIN S : \A p \in DOMAIN d : ~Labelled(d, S[x], p)
    <3>1. \A x \in DOMAIN S : \A p : ~Labelled(c, S[x], p)
      BY <1>0 DEF Once, Labelled
    <3> QED
      BY <1>3, <3>1
  <2>3. \A p, q \in DOMAIN d : d[p].op = "label" /\ d[q].op = "label" /\ d[p].ids[1] = d[q].ids[1] => p = q
    <3>1. \A p \in DOMAIN d : d[p].op = "label" => p \in DOMAIN c /\ c[p] = d[p]
      BY <1>1
    <3> QED
      BY <1>0, <3>1 DEF Once
  <2>4. ASSUME NEW x, NamedIn(d, x)
        PROVE (\E p \in DOMAIN d : Labelled(d, x, p)) \/ (\E k \in DOMAIN S : S[k] = x)
    <3>1. PICK i \in DOMAIN d : \E j \in DOMAIN d[i].ids : d[i].ids[j] = x
      BY <2>4 DEF NamedIn
    <3>2. CASE i \in DOMAIN c
      <4>1. NamedIn(c, x)
        BY <1>1, <3>1, <3>2 DEF NamedIn
      <4> QED
        BY <1>0, <1>1, <1>3, <4>1 DEF Once
    <3>3. CASE i = Len(c) + 1
      BY <1>1, <1>3, <3>1, <3>3
    <3> QED
      BY <1>1, <3>2, <3>3
  <2> QED
    BY <2>1, <2>2, <2>3, <2>4 DEF Once
<1>5. \A t, u : NotAfter(c, S, t, u) => NotAfter(d, S, t, u)
  BY <1>1, <1>3 DEF NotAfter, Labelled
<1>6. ASSUME NEW i \in DOMAIN d, Branches(d, i), NEW j \in DOMAIN d[i].ids
      PROVE  Jump(d, S, i, d[i].ids[j])
  <2>1. CASE i = Len(c) + 1
    BY <1>1, <1>6, <1>j, <2>1 DEF Branches
  <2>2. CASE i \in DOMAIN c
    <3> DEFINE t == c[i].ids[j]
    <3>1. Jump(c, S, i, t) /\ d[i].ids[j] = t
      BY <1>0, <1>1, <1>6, <2>2 DEF Jumps, Branches
    <3> HIDE DEF t
    <3>2. \A m : Around(c, i, m) => m \in DOMAIN c /\ m \in DOMAIN d /\ d[m] = c[m]
      BY <1>1 DEF Around
    <3>3. \A m \in DOMAIN d : Around(d, i, m) => Around(c, i, m) /\ m \in DOMAIN c /\ d[m] = c[m]
      BY <1>a, <2>2, <3>2
    <3>4. Behind(d, i, t) => Back(d, i, t)
      BY <1>a, <2>2, <3>1 DEF Jump
    <3>5. ASSUME ~Behind(d, i, t), NEW m \in DOMAIN d, Around(d, i, m)
          PROVE  NotAfter(d, S, t, d[m].ids[1]) \/ Leaves(d, i, t)
      <4>1. ~Behind(c, i, t)
        BY <1>a, <2>2, <3>5
      <4>2. NotAfter(c, S, t, c[m].ids[1]) \/ Leaves(c, i, t)
        BY <3>1, <3>3, <3>5, <4>1 DEF Jump
      <4> QED
        BY <1>a, <1>5, <2>2, <3>3, <3>5, <4>2
    <3> QED
      BY <3>1, <3>4, <3>5 DEF Jump
  <2> QED
    BY <1>1, <2>1, <2>2
<1> QED
  BY <1>0, <1>1, <1>2, <1>4, <1>6 DEF Well, Jumps, d

LEMMA LabelIsNamed ==
  ASSUME NEW c \in Seq(Element), Shapes(c), NEW x, NEW p, Labelled(c, x, p)
  PROVE  NamedIn(c, x)
<1>1. p \in DOMAIN c /\ Len(c[p].ids) = 1 /\ c[p].ids[1] = x
  BY DEF Labelled, Shapes
<1>2. c[p] \in Element
  BY <1>1, ElementOfSeq, LenProperties
<1>3. 1 \in DOMAIN c[p].ids
  BY <1>1, <1>2, LenProperties DEF Element
<1> QED
  BY <1>1, <1>3 DEF NamedIn

LEMMA Promised ==
  ASSUME NEW c, NEW S, Well(c, S), NEW x \in Nat, ~NamedIn(c, x), \A k \in DOMAIN S : S[k] # x
  PROVE  Well(c, Append(S, x))
<1> DEFINE R == Append(S, x)
<1>0. c \in Seq(Element) /\ S \in Seq(Nat) /\ Shapes(c) /\ Follow(c) /\ Once(c, S) /\ Jumps(c, S)
  BY DEF Well
<1>1. /\ R \in Seq(Nat) /\ Len(S) \in Nat /\ DOMAIN S = 1..Len(S) /\ DOMAIN R = 1..(Len(S) + 1)
      /\ R[Len(S) + 1] = x /\ \A k \in DOMAIN S : R[k] = S[k]
  BY <1>0, AppendProperties, LenProperties
<1> HIDE DEF R
<1>2. \A p : ~Labelled(c, x, p)
  BY <1>0, LabelIsNamed
<1>3. Once(c, R)
  <2>1. \A k \in DOMAIN R : k \in DOMAIN S \/ (k = Len(S) + 1 /\ R[k] = x)
    BY <1>1
  <2>2. \A k, l \in DOMAIN R : R[k] = R[l] => k = l
    BY <1>0, <1>1, <2>1 DEF Once
  <2>3. \A k \in DOMAIN R : \A p \in DOMAIN c : ~Labelled(c, R[k], p)
    BY <1>0, <1>1, <1>2, <2>1 DEF Once
  <2>4. \A k \in DOMAIN S : k \in DOMAIN R
    BY <1>1
  <2>5. \A z : NamedIn(c, z) => (\E p \in DOMAIN c : Labelled(c, z, p)) \/ (\E k \in DOMAIN R : R[k] = z)
    BY <1>0, <1>1, <2>4 DEF Once
  <2> QED
    BY <1>0, <2>2, <2>3, <2>5 DEF Once
<1>4. \A t, u : NotAfter(c, S, t, u) => NotAfter(c, R, t, u)
  BY <1>1 DEF NotAfter
<1>5. \A i, t : Jump(c, S, i, t) => Jump(c, R, i, t)
  BY <1>4 DEF Jump
<1>6. Jumps(c, R)
  BY <1>0, <1>5 DEF Jumps
<1> QED
  BY <1>0, <1>1, <1>3, <1>6 DEF Well, R

LEMMA LabelGiven ==
  ASSUME NEW c, NEW S \in Seq(Nat), NEW t \in Nat, Well(c, Append(S, t)), c[Len(c)].op \in T!Terminators
  PROVE  Well(Append(c, T!Label(t)), S)
<1> DEFINE R == Append(S, t)  e == T!Label(t)  d == Append(c, e)
<1>0. c \in Seq(Element) /\ R \in Seq(Nat) /\ Shapes(c) /\ Follow(c) /\ Once(c, R) /\ Jumps(c, R)
  BY DEF Well
<1>e. e \in Element /\ e.op = "label" /\ Len(e.ids) = 1 /\ e.ids[1] = t /\ DOMAIN e.ids = {1}
  BY DEF T!Label, Element
<1>1. /\ d \in Seq(Element) /\ Len(c) \in Nat /\ DOMAIN c = 1..Len(c) /\ DOMAIN d = 1..(Len(c) + 1)
      /\ d[Len(c) + 1] = e /\ \A i \in DOMAIN c : d[i] = c[i]
  BY <1>0, <1>e, Appended
<1>f. Suits(c, e)
  BY <1>e DEF Suits, T!Terminators
<1>2. Shapes(d) /\ Follow(d)
  BY <1>0, <1>e, <1>f, ShapesKept
<1>a. \A i \in DOMAIN c :
        /\ \A m : Around(d, i, m) <=> Around(c, i, m)
        /\ \A u : Behind(d, i, u) <=> Behind(c, i, u)
        /\ \A u : Back(c, i, u) => Back(d, i, u)
        /\ \A u : Leaves(c, i, u) => Leaves(d, i, u)
  BY <1>0, <1>e, SameAround
<1>s. /\ Len(S) \in Nat /\ DOMAIN S = 1..Len(S) /\ DOMAIN R = 1..(Len(S) + 1)
      /\ R[Len(S) + 1] = t /\ \A k \in DOMAIN S : R[k] = S[k]
  BY AppendProperties, LenProperties
<1> HIDE DEF d, e, R
<1>3. \A x, p : Labelled(d, x, p) <=> Labelled(c, x, p) \/ (x = t /\ p = Len(c) + 1)
  <2> SUFFICES ASSUME NEW x, NEW p PROVE Labelled(d, x, p) <=> Labelled(c, x, p) \/ (x = t /\ p = Len(c) + 1)
    OBVIOUS
  <2>1. CASE p \in DOMAIN c
    BY <1>1, <2>1 DEF Labelled
  <2>2. CASE p = Len(c) + 1
    BY <1>1, <1>e, <2>2 DEF Labelled
  <2>3. CASE p \notin DOMAIN d
    BY <1>1, <2>3 DEF Labelled
  <2> QED
    BY <1>1, <2>1, <2>2, <2>3
<1>t. \A p : ~Labelled(c, t, p)
  <2>1. Len(S) + 1 \in DOMAIN R
    BY <1>s
  <2>2. \A p \in DOMAIN c : ~Labelled(c, R[Len(S) + 1], p)
    BY <1>0, <2>1, Zenon DEF Once
  <2> QED
    BY <1>s, <2>2 DEF Labelled
<1>4. Once(d, S)
  <2>1. \A x, y \in DOMAIN S : S[x] = S[y] => x = y
    BY <1>0, <1>s DEF Once
  <2>2. \A x \in DOMAIN S : S[x] # t /\ \A p \in DOMAIN d : ~Labelled(d, S[x], p)
    <3>1. \A x \in DOMAIN S : S[x] # t
      BY <1>0, <1>s, SMTT(30) DEF Once
    <3>2. \A x \in DOMAIN S : \A p : ~Labelled(c, S[x], p)
      BY <1>0, <1>s DEF Once, Labelled
    <3> QED
      BY <1>3, <3>1, <3>2
  <2>3. \A p, q \in DOMAIN d : d[p].op = "label" /\ d[q].op = "label" /\ d[p].ids[1] = d[q].ids[1] => p = q
    <3> SUFFICES ASSUME NEW p \in DOMAIN d, NEW q \in DOMAIN d, NEW x, Labelled(d, x, p), Labelled(d, x, q)
                 PROVE  p = q
      BY DEF Labelled
    <3>1. CASE x = t
      BY <1>3, <1>t, <3>1
    <3>2. CASE x # t
      <4>1. Labelled(c, x, p) /\ Labelled(c, x, q)
        BY <1>3, <3>2
      <4> QED
        BY <1>0, <4>1 DEF Once, Labelled
    <3> QED
      BY <3>1, <3>2
  <2>4. ASSUME NEW x, NamedIn(d, x)
        PROVE (\E p \in DOMAIN d : Labelled(d, x, p)) \/ (\E k \in DOMAIN S : S[k] = x)
    <3>1. CASE x = t
      BY <1>1, <1>3, <3>1
    <3>2. CASE x # t
      <4>1. NamedIn(c, x)
        BY <1>1, <1>e, <2>4, <3>2 DEF NamedIn
      <4>2. CASE \E p \in DOMAIN c : Labelled(c, x, p)
        BY <1>1, <1>3, <4>2
      <4>3. CASE \E k \in DOMAIN R : R[k] = x
        BY <1>s, <3>2, <4>3
      <4> QED
        BY <1>0, <4>1, <4>2, <4>3 DEF Once
    <3> QED
      BY <3>1, <3>2
  <2> QED
    BY <2>1, <2>2, <2>3, <2>4 DEF Once
<1>5. ASSUME NEW v, NEW u, NotAfter(c, R, v, u) PROVE NotAfter(d, S, v, u)
  <2>1. ASSUME NEW p \in DOMAIN c, Labelled(c, v, p), \A q \in DOMAIN c : Labelled(c, u, q) => p <= q
        PROVE  NotAfter(d, S, v, u)
    <3>1. Labelled(d, v, p) /\ p \in DOMAIN d /\ p <= Len(c) + 1
      BY <1>1, <1>3, <2>1
    <3>2. \A q \in DOMAIN d : Labelled(d, u, q) => p <= q
      BY <1>1, <1>3, <2>1, <3>1 DEF Labelled
    <3> QED
      BY <3>1, <3>2 DEF NotAfter
  <2>2. ASSUME NEW x \in DOMAIN R, NEW y \in DOMAIN R, R[x] = v, R[y] = u, y <= x
        PROVE  NotAfter(d, S, v, u)
    <3>1. CASE x \in DOMAIN S
      <4>1. y \in DOMAIN S
        BY <1>s, <2>2, <3>1
      <4> QED
        BY <1>s, <2>2, <3>1, <4>1 DEF NotAfter
    <3>2. CASE x = Len(S) + 1
      <4>1. v = t /\ Labelled(d, v, Len(c) + 1) /\ Len(c) + 1 \in DOMAIN d
        BY <1>1, <1>3, <1>s, <2>2, <3>2
      <4>2. \A q \in DOMAIN d : Labelled(d, u, q) => q = Len(c) + 1
        <5>1. \A q : ~Labelled(c, u, q)
          BY <1>0, <2>2 DEF Once, Labelled
        <5> QED
          BY <1>3, <5>1
      <4>3. \A q \in DOMAIN d : Labelled(d, u, q) => Len(c) + 1 <= q
        BY <1>1, <4>2
      <4> QED
        BY <4>1, <4>3 DEF NotAfter
    <3> QED
      BY <1>s, <2>2, <3>1, <3>2
  <2> QED
    BY <1>5, <2>1, <2>2 DEF NotAfter
<1>6. ASSUME NEW i \in DOMAIN d, Branches(d, i), NEW j \in DOMAIN d[i].ids
      PROVE  Jump(d, S, i, d[i].ids[j])
  <2>1. i \in DOMAIN c
    BY <1>1, <1>6, <1>e DEF Branches
  <2> DEFINE u == c[i].ids[j]
  <2>2. Jump(c, R, i, u) /\ d[i].ids[j] = u
    BY <1>0, <1>1, <1>6, <2>1 DEF Jumps, Branches
  <2> HIDE DEF u
  <2>3. \A m \in DOMAIN d : Around(d, i, m) => Around(c, i, m) /\ m \in DOMAIN c /\ d[m] = c[m]
    BY <1>1, <1>a, <2>1 DEF Around
  <2>4. Behind(d, i, u) => Back(d, i, u)
    BY <1>a, <2>1, <2>2 DEF Jump
  <2>5. ASSUME ~Behind(d, i, u), NEW m \in DOMAIN d, Around(d, i, m)
        PROVE  NotAfter(d, S, u, d[m].ids[1]) \/ Leaves(d, i, u)
    <3>1. ~Behind(c, i, u)
      BY <1>a, <2>1, <2>5
    <3>2. NotAfter(c, R, u, c[m].ids[1]) \/ Leaves(c, i, u)
      BY <2>2, <2>3, <2>5, <3>1 DEF Jump
    <3> QED
      BY <1>5, <1>a, <2>1, <2>3, <2>5, <3>2
  <2> QED
    BY <2>2, <2>4, <2>5 DEF Jump
<1> QED
  BY <1>1, <1>2, <1>4, <1>6 DEF Well, Jumps, d, e

(* Blocks.                                                                  *)
\* The last block is open: it has no terminator yet, and no merge waits for one.
Ready(c) == c[Len(c)].op \notin T!Terminators \cup {"selection", "loop"}
Fine(c, n, S) ==
  /\ n \in Nat /\ Well(c, S) /\ Ready(c)
  /\ \A x : NamedIn(c, x) => x < n
  /\ \A k \in DOMAIN S : S[k] < n
Fit(s, S) == s = [code |-> s.code, next |-> s.next] /\ Fine(s.code, s.next, S)
\* d is c with more code, and no more loops.
More(c, n, d, k) ==
  /\ n <= k /\ Len(c) <= Len(d)
  /\ \A i \in DOMAIN c : i \in DOMAIN d /\ d[i] = c[i]
  /\ \A i \in DOMAIN d : d[i].op = "loop" => i \in DOMAIN c
Longer(s, r) == More(s.code, s.next, r.code, r.next)

LEMMA Made ==
  ASSUME NEW c, NEW n, NEW d, NEW k, NEW S, NEW s, NEW r, s = [code |-> c, next |-> n],
         r = [code |-> d, next |-> k], Fine(d, k, S), More(c, n, d, k)
  PROVE  Fit(r, S) /\ Longer(s, r)
<1>1. s.code = c /\ s.next = n /\ r.code = d /\ r.next = k
  OBVIOUS
<1> QED
  BY <1>1, Zenon DEF Fit, Longer

LEMMA Elements ==
  ASSUME NEW x \in Nat, NEW y \in Nat
  PROVE  {T!Label(x), T!Branch(x), T!BranchConditional(x, y), T!SelectionMerge(x), T!LoopMerge(x, y),
          T!ReturnVoid, T!Kill, T!Op} \subseteq Element
BY DEF T!Label, T!Branch, T!BranchConditional, T!SelectionMerge, T!LoopMerge, T!ReturnVoid, T!Kill, T!Op,
       Element

LEMMA SplitLast ==
  ASSUME NEW c \in Seq(Element), NEW u \in Seq(Element), NEW e \in Element
  PROVE  c \o Append(u, e) = Append(c \o u, e)
<1>1. Append(u, e) = u \o <<e>> /\ <<e>> \in Seq(Element)
  BY AppendIsConcat
<1>2. c \o u \in Seq(Element)
  BY ConcatProperties
<1>3. Append(c \o u, e) = (c \o u) \o <<e>>
  BY <1>2, AppendIsConcat
<1> QED
  BY <1>1, <1>3, ConcatAssociative

LEMMA OneByOne ==
  ASSUME NEW c \in Seq(Element), NEW a \in Element, NEW b \in Element
  PROVE  c \o <<a>> = Append(c, a) /\ c \o <<a, b>> = Append(Append(c, a), b)
<1>1. c \o <<a>> = Append(c, a)
  BY AppendIsConcat
<1>2. <<a>> \in Seq(Element) /\ <<a, b>> = Append(<<a>>, b)
  BY SMT
<1> QED
  BY <1>1, <1>2, SplitLast

LEMMA NamesAreIds ==
  ASSUME NEW c \in Seq(Element), NEW x, NamedIn(c, x)
  PROVE  x \in Nat
<1>1. PICK i \in DOMAIN c : \E j \in DOMAIN c[i].ids : c[i].ids[j] = x
  BY DEF NamedIn
<1>2. c[i].ids \in Seq(Nat)
  <2>1. c[i] \in Element
    BY ElementOfSeq, LenProperties
  <2> QED
    BY <2>1 DEF Element
<1>3. \A j \in DOMAIN c[i].ids : c[i].ids[j] \in Nat
  BY <1>2, ElementOfSeq, LenProperties
<1> QED
  BY <1>1, <1>3

LEMMA Names ==
  ASSUME NEW c \in Seq(Element), NEW e \in Element
  PROVE  \A x : NamedIn(Append(c, e), x) => NamedIn(c, x) \/ \E j \in DOMAIN e.ids : e.ids[j] = x
<1> DEFINE d == Append(c, e)
<1>1. DOMAIN c = 1..Len(c) /\ DOMAIN d = 1..(Len(c) + 1) /\ d[Len(c) + 1] = e /\ \A i \in DOMAIN c : d[i] = c[i]
      /\ Len(c) \in Nat
  BY Appended
<1> HIDE DEF d
<1>2. ASSUME NEW x, NamedIn(d, x) PROVE NamedIn(c, x) \/ \E j \in DOMAIN e.ids : e.ids[j] = x
  <2>1. PICK i \in DOMAIN d : \E j \in DOMAIN d[i].ids : d[i].ids[j] = x
    BY <1>2 DEF NamedIn
  <2>2. i \in DOMAIN c \/ i = Len(c) + 1
    BY <1>1
  <2> QED
    BY <1>1, <2>1, <2>2 DEF NamedIn
<1> QED
  BY <1>2 DEF d

\* A branch to an id that is to be placed leaves every construct that is open for
\* its merge or goes no further, if no id placed before is a merge.
LEMMA JumpTo ==
  ASSUME NEW c, NEW S, Well(c, S), NEW e \in Element, e.op # "label", NEW x \in DOMAIN S,
         \A y \in DOMAIN S : x < y => ~NamedIn(c, S[y])
  PROVE  Jump(Append(c, e), S, Len(c) + 1, S[x])
<1> DEFINE d == Append(c, e)  i == Len(c) + 1
<1>0. c \in Seq(Element) /\ S \in Seq(Nat) /\ Shapes(c) /\ Once(c, S)
  BY DEF Well
<1>1. /\ Len(c) \in Nat /\ DOMAIN c = 1..Len(c) /\ DOMAIN d = 1..(Len(c) + 1)
      /\ d[Len(c) + 1] = e /\ \A k \in DOMAIN c : d[k] = c[k] /\ c[k].ids \in Seq(Nat)
  BY <1>0, Appended
<1> HIDE DEF d
<1>2. \A z, p : Labelled(d, z, p) <=> Labelled(c, z, p)
  BY <1>1 DEF Labelled
<1>3. \A p : ~Labelled(c, S[x], p)
  BY <1>0 DEF Once, Labelled
<1>4. ~Behind(d, i, S[x])
  BY <1>2, <1>3 DEF Behind
<1>5. ASSUME NEW m \in DOMAIN d, Around(d, i, m) PROVE NotAfter(d, S, S[x], d[m].ids[1])
  <2>1. m \in DOMAIN c /\ d[m] = c[m] /\ c[m].op \in {"selection", "loop"}
    BY <1>1, <1>5 DEF Around
  <2>2. 1 \in DOMAIN c[m].ids
    <3>1. (Len(c[m].ids) = 1 \/ Len(c[m].ids) = 2) /\ c[m].ids \in Seq(Nat)
      <4>1. c[m].op = "selection" \/ c[m].op = "loop"
        BY <2>1
      <4> QED
        BY <1>0, <1>1, <2>1, <4>1 DEF Shapes
    <3> QED
      BY <3>1, LenProperties
  <2>3. NamedIn(c, c[m].ids[1])
    BY <2>1, <2>2 DEF NamedIn
  <2>4. \A p \in DOMAIN c : ~Labelled(c, c[m].ids[1], p)
    <3> SUFFICES ASSUME NEW p \in DOMAIN c, Labelled(c, c[m].ids[1], p) PROVE FALSE
      OBVIOUS
    <3>1. Labelled(d, d[m].ids[1], p) /\ p \in DOMAIN d
      BY <1>1, <1>2, <2>1
    <3>2. i < p
      BY <1>5, <3>1 DEF Around
    <3> QED
      BY <1>1, <3>2
  <2>5. PICK y \in DOMAIN S : S[y] = c[m].ids[1]
    BY <1>0, <2>3, <2>4 DEF Once
  <2>6. ~(x < y) /\ x \in Nat /\ y \in Nat
    BY <1>0, <2>3, <2>5, LenProperties
  <2>7. y <= x
    BY <2>6
  <2> QED
    BY <2>1, <2>5, <2>7 DEF NotAfter
<1> QED
  BY <1>4, <1>5 DEF Jump, d

LEMMA Shorter ==
  ASSUME NEW b \in Seq(Element), NEW c \in Seq(Element), NEW d \in Seq(Element),
         NEW n \in Nat, NEW k \in Nat, NEW l \in Nat, More(b, n, c, k), More(c, k, d, l)
  PROVE  More(b, n, d, l)
<1>1. Len(b) \in Nat /\ Len(c) \in Nat /\ Len(d) \in Nat
  BY LenProperties
<1> QED
  BY <1>1 DEF More

LEMMA OneLonger ==
  ASSUME NEW c \in Seq(Element), NEW e \in Element, NEW n \in Nat, NEW k \in Nat, n <= k, e.op # "loop"
  PROVE  More(c, n, Append(c, e), k)
BY Appended DEF More

LEMMA Parts ==
  ASSUME NEW c, NEW n, NEW s, s = [code |-> c, next |-> n]
  PROVE  s.code = c /\ s.next = n /\ s = [code |-> s.code, next |-> s.next]
OBVIOUS

LEMMA WrittenOut ==
  ASSUME NEW c, NEW n, NEW s, s = [code |-> c, next |-> n], NEW x
  PROVE  T!Emit(s, x) = [code |-> c \o x, next |-> n]
<1>1. s \in [{"code", "next"} -> {c, n}] /\ s.code = c /\ s.next = n
  BY SMT
<1>2. T!Emit(s, x) = [s EXCEPT !["code"] = s.code \o x]
  BY DEF T!Emit
<1> QED
  BY <1>1, <1>2

LEMMA Given ==
  ASSUME NEW c, NEW n, NEW s, s = [code |-> c, next |-> n], NEW k
  PROVE  T!Alloc(s, k) = [code |-> c, next |-> n + k]
<1>1. s \in [{"code", "next"} -> {c, n}] /\ s.code = c /\ s.next = n
  BY SMT
<1>2. T!Alloc(s, k) = [s EXCEPT !["next"] = s.next + k]
  BY DEF T!Alloc
<1> QED
  BY <1>1, <1>2

LEMMA OpFits ==
  ASSUME NEW s, NEW S, Fit(s, S)
  PROVE  Fit(T!Emit(s, <<T!Op>>), S) /\ Longer(s, T!Emit(s, <<T!Op>>))
<1> DEFINE c == s.code  d == Append(c, T!Op)
<1>1. Well(c, S) /\ c \in Seq(Element) /\ s.next \in Nat /\ Ready(c)
  BY DEF Fit, Fine, Well
<1>2. T!Op \in Element /\ T!Op.op = "op" /\ DOMAIN T!Op.ids = {} /\ T!Op.ids = <<>>
  BY Elements DEF T!Op
<1>3. Suits(c, T!Op)
  BY <1>1, <1>2 DEF Suits, Ready
<1>4. Well(d, S)
  BY <1>1, <1>2, <1>3, Emitted
<1>5. \A x : NamedIn(d, x) => x < s.next
  BY <1>1, <1>2, Names DEF Fit, Fine
<1>6. Ready(d)
  BY <1>1, <1>2, Appended DEF Ready, T!Terminators
<1>7. T!Emit(s, <<T!Op>>) = [code |-> d, next |-> s.next] /\ s = [code |-> c, next |-> s.next]
  <2>1. s = [code |-> s.code, next |-> s.next]
    BY DEF Fit
  <2>2. \A x : T!Emit(s, x) = [code |-> s.code \o x, next |-> s.next]
    BY <2>1, WrittenOut, Zenon
  <2>3. c \o <<T!Op>> = d
    BY <1>1, <1>2, OneByOne
  <2> QED
    BY <2>1, <2>2, <2>3
<1>8. More(c, s.next, d, s.next)
  BY <1>1, <1>2, OneLonger
<1>9. Fine(d, s.next, S)
  BY <1>1, <1>4, <1>5, <1>6 DEF Fit, Fine
<1> HIDE DEF c, d
<1> QED
  BY <1>7, <1>8, <1>9, Made

\* A block of its own under a condition: its merge is placed after it.
Opening(n) == <<T!SelectionMerge(n + 1), T!BranchConditional(n, n + 1), T!Label(n)>>
LEMMA OpensBlock ==
  ASSUME NEW s, NEW S, Fit(s, S), NEW r,
         r = [code |-> s.code \o Opening(s.next), next |-> s.next + 2]
  PROVE  Fit(r, Append(S, s.next + 1)) /\ Longer(s, r)
<1> DEFINE c == s.code  n == s.next  m == n + 1  S1 == Append(S, m)  S2 == Append(S1, n)
           sel == T!SelectionMerge(m)  br == T!BranchConditional(n, m)  lab == T!Label(n)
           c1 == Append(c, sel)  c2 == Append(c1, br)  c3 == Append(c2, lab)
<1>1. /\ Well(c, S) /\ c \in Seq(Element) /\ S \in Seq(Nat) /\ n \in Nat /\ m \in Nat /\ Ready(c)
      /\ (\A x : NamedIn(c, x) => x < n) /\ \A k \in DOMAIN S : S[k] < n
  BY DEF Fit, Fine, Well
<1>2. sel \in Element /\ br \in Element /\ lab \in Element
  BY <1>1, Elements
<1>o. /\ sel.op = "selection" /\ br.op = "cond" /\ lab.op = "label"
      /\ DOMAIN sel.ids = {1} /\ Len(sel.ids) = 1 /\ sel.ids[1] = m
      /\ DOMAIN br.ids = {1, 2} /\ br.ids[1] = n /\ br.ids[2] = m
      /\ DOMAIN lab.ids = {1} /\ lab.ids[1] = n
  BY DEF T!SelectionMerge, T!BranchConditional, T!Label
<1>3. c1 \in Seq(Element) /\ c2 \in Seq(Element) /\ c3 \in Seq(Element) /\ S1 \in Seq(Nat) /\ S2 \in Seq(Nat)
  BY <1>1, <1>2, AppendProperties
<1>4. /\ Len(S) \in Nat /\ DOMAIN S = 1..Len(S) /\ DOMAIN S1 = 1..(Len(S) + 1) /\ S1[Len(S) + 1] = m
      /\ \A k \in DOMAIN S : S1[k] = S[k]
  BY <1>1, AppendProperties, LenProperties
<1>5. /\ DOMAIN S2 = 1..(Len(S) + 2) /\ S2[Len(S) + 2] = n /\ S2[Len(S) + 1] = m
      /\ \A k \in DOMAIN S1 : S2[k] = S1[k]
  <2>1. /\ DOMAIN S2 = 1..(Len(S1) + 1) /\ S2[Len(S1) + 1] = n /\ \A k \in 1..Len(S1) : S2[k] = S1[k]
    BY <1>1, <1>3, AppendProperties, LenProperties
  <2>2. Len(S1) = Len(S) + 1
    BY <1>1, AppendProperties
  <2> QED
    BY <1>4, <2>1, <2>2
<1>6. c \o Opening(n) = c3
  <2>1. <<sel, br>> \in Seq(Element) /\ <<sel, br, lab>> = Append(<<sel, br>>, lab)
    BY <1>2
  <2>2. c \o <<sel, br>> = c2
    BY <1>1, <1>2, OneByOne
  <2>3. c \o <<sel, br, lab>> = Append(c \o <<sel, br>>, lab)
    <3>1. c \o Append(<<sel, br>>, lab) = Append(c \o <<sel, br>>, lab)
      BY <1>1, <1>2, <2>1, SplitLast
    <3> QED
      BY <2>1, <3>1, Zenon
  <2> QED
    BY <2>2, <2>3 DEF Opening
<1>7. Len(c) \in Nat /\ Len(c1) = Len(c) + 1 /\ c1[Len(c1)] = sel /\ Len(c2) = Len(c1) + 1 /\ c2[Len(c2)] = br
      /\ Len(c3) = Len(c2) + 1 /\ c3[Len(c3)] = lab
  BY <1>1, <1>2, <1>3, Appended
<1>n. s = [code |-> c, next |-> n] /\ r = [code |-> c3, next |-> n + 2]
  BY <1>6 DEF Fit
<1> HIDE DEF c, n, m, sel, br, lab, c1, c2, c3, S1, S2
<1> m = n + 1
  BY DEF m
<1>8. Well(c, S1)
  <2>1. ~NamedIn(c, m) /\ \A k \in DOMAIN S : S[k] # m
    <3>1. ~(m < n) /\ \A k \in DOMAIN S : S[k] < n
      BY <1>1
    <3> QED
      BY <1>1, <3>1
  <2> QED
    BY <1>1, <2>1, Promised DEF S1
<1>9. Well(c1, S1)
  <2>1. Suits(c, sel)
    BY <1>1, <1>o DEF Suits, Ready
  <2>2. \A j \in DOMAIN sel.ids : \E k \in DOMAIN S1 : S1[k] = sel.ids[j]
    BY <1>4, <1>o
  <2> QED
    BY <1>1, <1>2, <1>8, <1>o, <2>1, <2>2, Emitted DEF c1
<1>10. \A x : NamedIn(c1, x) => x < n \/ x = m
  BY <1>1, <1>2, <1>o, Names DEF c1
<1>11. Well(c1, S2)
  <2>1. ~NamedIn(c1, n) /\ \A k \in DOMAIN S1 : S1[k] # n
    <3>1. ~NamedIn(c1, n)
      BY <1>1, <1>10
    <3>2. ASSUME NEW k \in DOMAIN S1 PROVE S1[k] # n
      BY <1>1, <1>4
    <3> QED
      BY <3>1, <3>2
  <2> QED
    BY <1>1, <1>9, <2>1, Promised DEF S2
<1>12. Well(c2, S2)
  <2>1. Suits(c1, br)
    BY <1>7, <1>o DEF Suits, T!Terminators
  <2>2. \A j \in DOMAIN br.ids : \E k \in DOMAIN S2 : S2[k] = br.ids[j]
    <3>1. Len(S) + 2 \in DOMAIN S2 /\ Len(S) + 1 \in DOMAIN S2
      BY <1>4, <1>5
    <3> QED
      BY <1>5, <1>o, <3>1
  <2>3. Jump(Append(c1, br), S2, Len(c1) + 1, n)
    <3>1. Len(S) + 2 \in DOMAIN S2 /\ \A y \in DOMAIN S2 : ~(Len(S) + 2 < y)
      BY <1>4, <1>5
    <3>2. Jump(Append(c1, br), S2, Len(c1) + 1, S2[Len(S) + 2])
      BY <1>2, <1>11, <1>o, <3>1, JumpTo
    <3> QED
      BY <1>5, <3>2
  <2>4. Jump(Append(c1, br), S2, Len(c1) + 1, m)
    <3>1. Len(S) + 1 \in DOMAIN S2 /\ \A y \in DOMAIN S2 : Len(S) + 1 < y => y = Len(S) + 2
      BY <1>4, <1>5
    <3>2. \A y \in DOMAIN S2 : Len(S) + 1 < y => ~NamedIn(c1, S2[y])
      BY <1>1, <1>5, <1>10, <3>1, SMTT(30)
    <3>3. Jump(Append(c1, br), S2, Len(c1) + 1, S2[Len(S) + 1])
      BY <1>2, <1>11, <1>o, <3>1, <3>2, JumpTo
    <3> QED
      BY <1>5, <3>3
  <2>5. \A j \in DOMAIN br.ids : Jump(Append(c1, br), S2, Len(c1) + 1, br.ids[j])
    BY <1>o, <2>3, <2>4
  <2> QED
    BY <1>2, <1>11, <1>o, <2>1, <2>2, <2>5, Emitted DEF c2
<1>13. Well(c3, S1)
  BY <1>1, <1>3, <1>7, <1>12, <1>o, LabelGiven DEF c3, lab, S2, T!Terminators
<1>14. \A x : NamedIn(c3, x) => x < n + 2
  <2>1. \A x : NamedIn(c2, x) => x < n \/ x = m \/ x = n
    <3>1. \A x : NamedIn(c2, x) => NamedIn(c1, x) \/ \E j \in DOMAIN br.ids : br.ids[j] = x
      BY <1>2, <1>3, Names DEF c2
    <3>2. \A j \in DOMAIN br.ids : br.ids[j] = n \/ br.ids[j] = m
      BY <1>o
    <3> QED
      BY <1>10, <3>1, <3>2
  <2>2. \A x : NamedIn(c3, x) => x < n \/ x = m \/ x = n
    BY <1>2, <1>3, <1>o, <2>1, Names DEF c3
  <2>3. ASSUME NEW x, NamedIn(c3, x) PROVE x < n + 2
    <3>1. CASE x = m \/ x = n
      BY <1>1, <3>1
    <3>2. CASE x < n /\ NamedIn(c3, x)
      <4>1. x \in Nat
        BY <1>3, <3>2, NamesAreIds
      <4> QED
        BY <1>1, <3>2, <4>1
    <3> QED
      BY <2>2, <2>3, <3>1, <3>2
  <2> QED
    BY <2>3
<1>15. \A k \in DOMAIN S1 : S1[k] < n + 2
  BY <1>1, <1>4
<1>16. Ready(c3)
  BY <1>7, <1>o DEF Ready, T!Terminators
<1>17. More(c, n, c3, n + 2)
  <2>1. More(c, n, c1, n)
    BY <1>1, <1>2, <1>o, OneLonger DEF c1
  <2>2. More(c1, n, c2, n)
    <3>1. br.op # "loop" /\ n <= n
      BY <1>1, <1>o
    <3> QED
      BY <1>1, <1>2, <1>3, <3>1, OneLonger DEF c2
  <2>3. More(c2, n, c3, n + 2)
    <3>1. lab.op # "loop" /\ n <= n + 2 /\ n + 2 \in Nat
      BY <1>1, <1>o
    <3> QED
      BY <1>1, <1>2, <1>3, <3>1, OneLonger DEF c3
  <2> QED
    BY <1>1, <1>3, <2>1, <2>2, <2>3, Shorter
<1>18. Fine(c3, n + 2, S1)
  BY <1>1, <1>13, <1>14, <1>15, <1>16 DEF Fine
<1> QED
  BY <1>17, <1>18, <1>n, Made DEF S1, m

\* A block ends, and its merge is placed.
LEMMA ClosesBlock ==
  ASSUME NEW s, NEW S \in Seq(Nat), NEW m \in Nat, Fit(s, Append(S, m)),
         NEW e \in {T!Branch(m), T!ReturnVoid, T!Kill}
  PROVE  Fit(T!Emit(s, <<e, T!Label(m)>>), S) /\ Longer(s, T!Emit(s, <<e, T!Label(m)>>))
<1> DEFINE c == s.code  n == s.next  R == Append(S, m)  lab == T!Label(m)  c1 == Append(c, e)  c2 == Append(c1, lab)
<1>1. /\ Well(c, R) /\ c \in Seq(Element) /\ R \in Seq(Nat) /\ n \in Nat /\ Ready(c)
      /\ (\A x : NamedIn(c, x) => x < n) /\ \A k \in DOMAIN R : R[k] < n
  BY DEF Fit, Fine, Well
<1>2. e \in Element /\ lab \in Element
  BY Elements
<1>o. /\ lab.op = "label" /\ DOMAIN lab.ids = {1} /\ lab.ids[1] = m
      /\ e.op \in {"branch", "return", "kill"} /\ \A j \in DOMAIN e.ids : e.ids[j] = m
  BY DEF T!Branch, T!ReturnVoid, T!Kill, T!Label
<1>3. /\ DOMAIN S = 1..Len(S) /\ Len(S) \in Nat /\ DOMAIN R = 1..(Len(S) + 1) /\ R[Len(S) + 1] = m
      /\ \A k \in DOMAIN S : R[k] = S[k]
  BY AppendProperties, LenProperties
<1>4. c1 \in Seq(Element) /\ c2 \in Seq(Element)
  BY <1>1, <1>2, AppendProperties
<1>5. Len(c) \in Nat /\ c1[Len(c1)] = e /\ c2[Len(c2)] = lab
  BY <1>1, <1>2, <1>4, Appended
<1>6. c \o <<e, lab>> = c2
  BY <1>1, <1>2, OneByOne
<1>n. s = [code |-> c, next |-> n] /\ T!Emit(s, <<e, lab>>) = [code |-> c2, next |-> n]
  <2>1. s = [code |-> s.code, next |-> s.next]
    BY DEF Fit
  <2>2. \A x : T!Emit(s, x) = [code |-> s.code \o x, next |-> s.next]
    BY <2>1, WrittenOut, Zenon
  <2> QED
    BY <1>6, <2>1, <2>2
<1> HIDE DEF c, n, R, lab, c1, c2
<1>7. Well(c1, R)
  <2>1. Suits(c, e)
    BY <1>1, <1>o DEF Suits, Ready
  <2>2. \A j \in DOMAIN e.ids : \E k \in DOMAIN R : R[k] = e.ids[j]
    BY <1>3, <1>o
  <2>3. Len(S) + 1 \in DOMAIN R /\ \A y \in DOMAIN R : ~(Len(S) + 1 < y)
    BY <1>3
  <2>4. Jump(Append(c, e), R, Len(c) + 1, R[Len(S) + 1])
    BY <1>1, <1>2, <1>o, <2>3, JumpTo
  <2>5. \A j \in DOMAIN e.ids : Jump(Append(c, e), R, Len(c) + 1, e.ids[j])
    BY <1>3, <1>o, <2>4
  <2> QED
    BY <1>1, <1>2, <1>o, <2>1, <2>2, <2>5, Emitted DEF c1
<1>8. Well(c2, S)
  <2>1. c1[Len(c1)].op \in T!Terminators
    BY <1>5, <1>o DEF T!Terminators
  <2> QED
    BY <1>7, <2>1, LabelGiven DEF c2, lab, R
<1>9. \A x : NamedIn(c2, x) => x < n
  <2>1. m < n
    BY <1>1, <1>3
  <2>2. \A x : NamedIn(c1, x) => x < n
    <3>1. \A x : NamedIn(c1, x) => NamedIn(c, x) \/ \E j \in DOMAIN e.ids : e.ids[j] = x
      BY <1>1, <1>2, Names DEF c1
    <3> QED
      BY <1>1, <1>o, <2>1, <3>1
  <2> QED
    BY <1>2, <1>4, <1>o, <2>1, <2>2, Names DEF c2
<1>10. \A k \in DOMAIN S : S[k] < n
  BY <1>1, <1>3
<1>11. Ready(c2)
  BY <1>5, <1>o DEF Ready, T!Terminators
<1>12. More(c, n, c2, n)
  <2>1. More(c, n, c1, n)
    BY <1>1, <1>2, <1>o, OneLonger DEF c1
  <2>2. More(c1, n, c2, n)
    <3>1. lab.op # "loop" /\ n <= n
      BY <1>1, <1>o
    <3> QED
      BY <1>1, <1>2, <1>4, <3>1, OneLonger DEF c2
  <2> QED
    BY <1>1, <1>4, <2>1, <2>2, Shorter
<1>13. Fine(c2, n, S)
  BY <1>1, <1>8, <1>9, <1>10, <1>11 DEF Fine
<1> QED
  BY <1>12, <1>13, <1>n, Made DEF lab

LEMMA LongerStill ==
  ASSUME NEW s, NEW r, NEW t, NEW S, NEW R, NEW P, Fit(s, S), Fit(r, R), Fit(t, P), Longer(s, r), Longer(r, t)
  PROVE  Longer(s, t)
<1>1. /\ s.code \in Seq(Element) /\ r.code \in Seq(Element) /\ t.code \in Seq(Element)
      /\ s.next \in Nat /\ r.next \in Nat /\ t.next \in Nat
  BY DEF Fit, Fine, Well
<1>2. More(s.code, s.next, r.code, r.next) /\ More(r.code, r.next, t.code, t.next)
  BY DEF Longer
<1>3. More(s.code, s.next, t.code, t.next)
  BY <1>1, <1>2, Shorter
<1> QED
  BY <1>3 DEF Longer

LEMMA AsLong == ASSUME NEW s, NEW S, Fit(s, S) PROVE Longer(s, s)
<1>1. s.next \in Nat /\ s.code \in Seq(Element) /\ Len(s.code) \in Nat
  BY LenProperties DEF Fit, Fine, Well
<1> QED
  BY <1>1 DEF Longer, More

LEMMA KillFits ==
  ASSUME NEW s, NEW S, Fit(s, S)
  PROVE  Fit(T!EmitKill(s), S) /\ Longer(s, T!EmitKill(s))
<1> DEFINE c == s.code  n == s.next  m == n + 1
           end == <<T!Kill, T!Label(m)>>
<1> SUFFICES ASSUME NEW r, r = [code |-> c \o Opening(n), next |-> n + 2]
             PROVE  Fit(T!EmitKill(s), S) /\ Longer(s, T!EmitKill(s))
  OBVIOUS
<1>1. c \in Seq(Element) /\ S \in Seq(Nat) /\ n \in Nat /\ m \in Nat /\ s = [code |-> c, next |-> n]
  BY DEF Fit, Fine, Well
<1>2. Fit(r, Append(S, m)) /\ Longer(s, r)
  BY OpensBlock
<1>3. Fit(T!Emit(r, end), S) /\ Longer(r, T!Emit(r, end))
  BY <1>1, <1>2, ClosesBlock
<1>4. CASE type = "pixel"
  <2>1. T!EmitKill(s) = T!Emit(T!Alloc(s, 2), <<T!SelectionMerge(m), T!BranchConditional(n, m),
                                                T!Label(n), T!Kill, T!Label(m)>>)
    BY <1>4 DEF T!EmitKill
  <2>2. <<T!SelectionMerge(m), T!BranchConditional(n, m), T!Label(n), T!Kill, T!Label(m)>> = Opening(n) \o end
    BY DEF Opening
  <2>3. Opening(n) \in Seq(Element) /\ end \in Seq(Element)
    BY <1>1, Elements DEF Opening
  <2>4. c \o (Opening(n) \o end) = (c \o Opening(n)) \o end
    <3> HIDE DEF c, n, end
    <3> QED
      BY <1>1, <2>3, ConcatAssociative
  <2>5. T!Alloc(s, 2) = [code |-> c, next |-> n + 2]
    BY <1>1, Given, Zenon
  <2>6. T!EmitKill(s) = [code |-> c \o (Opening(n) \o end), next |-> n + 2]
    <3>1. PICK a : a = T!Alloc(s, 2)
      OBVIOUS
    <3> HIDE DEF c, n, m, end
    <3>2. T!Emit(a, Opening(n) \o end) = [code |-> c \o (Opening(n) \o end), next |-> n + 2]
      <4>1. a = [code |-> c, next |-> n + 2]
        BY <2>5, <3>1
      <4> QED
        BY <4>1, WrittenOut, Zenon
    <3>3. T!EmitKill(s) = T!Emit(a, Opening(n) \o end)
      BY <2>1, <2>2, <3>1 DEF m, end
    <3> QED
      BY <3>2, <3>3
  <2>7. T!Emit(r, end) = [code |-> (c \o Opening(n)) \o end, next |-> n + 2]
    <3> HIDE DEF c, n, end
    <3> QED
      BY WrittenOut, Zenon
  <2>8. T!EmitKill(s) = T!Emit(r, end)
    BY <2>4, <2>6, <2>7
  <2> QED
    BY <1>2, <1>3, <2>8, LongerStill
<1>5. CASE type # "pixel"
  BY <1>5, AsLong DEF T!EmitKill
<1> QED
  BY <1>4, <1>5

LEMMA OperationFits ==
  ASSUME NEW s, NEW S, Fit(s, S), NEW inst
  PROVE  Fit(T!Operation(s, inst), S) /\ Longer(s, T!Operation(s, inst))
<1>1. ASSUME NEW r, Fit(r, S)
      PROVE  Fit(T!VectorOp(r, inst), S) /\ Longer(r, T!VectorOp(r, inst))
  <2> DEFINE t == T!Emit(r, <<T!Op>>)
  <2>1. Fit(t, S) /\ Longer(r, t)
    BY <1>1, OpFits
  <2>2. Fit(T!EmitKill(t), S) /\ Longer(t, T!EmitKill(t))
    BY <2>1, KillFits
  <2>3. T!VectorOp(r, inst) = IF "vector" \in inst.kill THEN T!EmitKill(t) ELSE t
    BY DEF T!VectorOp
  <2> HIDE DEF t
  <2>4. Longer(r, T!EmitKill(t))
    BY <1>1, <2>1, <2>2, LongerStill
  <2> QED
    BY <2>1, <2>2, <2>3, <2>4
<1>2. ASSUME NEW r, Fit(r, S)
      PROVE  Fit(T!ScalarOp(r, inst), S) /\ Longer(r, T!ScalarOp(r, inst))
  <2> DEFINE t == T!Emit(r, <<T!Op>>)
  <2>1. Fit(t, S) /\ Longer(r, t)
    BY <1>2, OpFits
  <2>2. Fit(T!EmitKill(t), S) /\ Longer(t, T!EmitKill(t))
    BY <2>1, KillFits
  <2>3. T!ScalarOp(r, inst) = IF "scalar" \in inst.kill THEN T!EmitKill(t) ELSE t
    BY DEF T!ScalarOp
  <2> HIDE DEF t
  <2>4. Longer(r, T!EmitKill(t))
    BY <1>2, <2>1, <2>2, LongerStill
  <2> QED
    BY <2>1, <2>2, <2>3, <2>4
<1>3. T!Operation(s, inst) = T!ScalarOp(T!VectorOp(s, inst), inst)
  BY DEF T!Operation
<1> DEFINE v == T!VectorOp(s, inst)
<1>4. Fit(v, S) /\ Longer(s, v)
  BY <1>1
<1> HIDE DEF v
<1>5. Fit(T!ScalarOp(v, inst), S) /\ Longer(v, T!ScalarOp(v, inst))
  BY <1>2, <1>4
<1>6. Longer(s, T!ScalarOp(v, inst))
  BY <1>4, <1>5, LongerStill
<1> QED
  BY <1>3, <1>5, <1>6 DEF v

\* A condition computed, and the block under it.
Under(s) == T!Emit(T!Alloc(s, 2), <<T!Op, T!SelectionMerge(s.next + 1),
                                    T!BranchConditional(s.next, s.next + 1), T!Label(s.next)>>)
LEMMA UnderFits ==
  ASSUME NEW s, NEW S, Fit(s, S)
  PROVE  Fit(Under(s), Append(S, s.next + 1)) /\ Longer(s, Under(s))
<1> DEFINE c == s.code  n == s.next  t == T!Emit(s, <<T!Op>>)
           r == [code |-> t.code \o Opening(t.next), next |-> t.next + 2]
<1>1. c \in Seq(Element) /\ S \in Seq(Nat) /\ n \in Nat /\ n + 1 \in Nat /\ s = [code |-> c, next |-> n]
  BY DEF Fit, Fine, Well
<1>2. Fit(t, S) /\ Longer(s, t)
  BY OpFits
<1>3. t = [code |-> c \o <<T!Op>>, next |-> n]
  <2>1. \A x : T!Emit(s, x) = [code |-> c \o x, next |-> n]
    BY <1>1, WrittenOut, Zenon
  <2> QED
    BY <2>1
<1>4. t.code = c \o <<T!Op>> /\ t.next = n
  BY <1>3
<1>5. Fit(r, Append(S, t.next + 1)) /\ Longer(t, r)
  BY <1>2, OpensBlock
<1>6. Under(s) = r
  <2>1. T!Alloc(s, 2) = [code |-> c, next |-> n + 2]
    BY <1>1, Given, Zenon
  <2>2. <<T!Op, T!SelectionMerge(n + 1), T!BranchConditional(n, n + 1), T!Label(n)>> = <<T!Op>> \o Opening(n)
    BY DEF Opening
  <2>3. Opening(n) \in Seq(Element) /\ <<T!Op>> \in Seq(Element)
    BY <1>1, Elements DEF Opening
  <2>4. c \o (<<T!Op>> \o Opening(n)) = (c \o <<T!Op>>) \o Opening(n)
    BY <1>1, <2>3, ConcatAssociative, SMTT(30)
  <2>5. Under(s) = [code |-> c \o (<<T!Op>> \o Opening(n)), next |-> n + 2]
    <3>1. Under(s) = T!Emit(T!Alloc(s, 2), <<T!Op>> \o Opening(n))
      BY <2>2 DEF Under
    <3>2. PICK a : a = T!Alloc(s, 2)
      OBVIOUS
    <3>3. Under(s) = T!Emit(a, <<T!Op>> \o Opening(n))
      BY <3>1, <3>2
    <3> HIDE DEF c, n
    <3>4. T!Emit(a, <<T!Op>> \o Opening(n)) = [code |-> c \o (<<T!Op>> \o Opening(n)), next |-> n + 2]
      <4>1. a = [code |-> c, next |-> n + 2]
        BY <2>1, <3>2
      <4> QED
        BY <4>1, WrittenOut, Zenon
    <3> QED
      BY <3>3, <3>4
  <2> QED
    BY <1>4, <2>4, <2>5
<1>7. Longer(s, r)
  BY <1>2, <1>5, LongerStill
<1> QED
  BY <1>4, <1>5, <1>6, <1>7

LEMMA InstructionFits ==
  ASSUME NEW s, NEW S, Fit(s, S), NEW inst
  PROVE  Fit(T!Instruction(s, inst), S) /\ Longer(s, T!Instruction(s, inst))
<1> DEFINE o == T!Opened(s, inst)  p == T!Operation(o, inst)  m == s.next + 1
<1>0. T!Instruction(s, inst) = T!Closed(p, inst, m) /\ S \in Seq(Nat) /\ m \in Nat
  BY DEF T!Instruction, Fit, Fine, Well
<1>1. CASE inst.predicated
  <2>1. o = Under(s)
    BY <1>1 DEF T!Opened, Under
  <2>2. Fit(o, Append(S, m)) /\ Longer(s, o)
    BY <2>1, UnderFits
  <2> HIDE DEF o
  <2>3. Fit(p, Append(S, m)) /\ Longer(o, p)
    BY <2>2, OperationFits
  <2> HIDE DEF p, m
  <2> DEFINE q == T!Emit(p, <<T!Branch(m), T!Label(m)>>)
  <2>4. Fit(q, S) /\ Longer(p, q)
    BY <1>0, <2>3, ClosesBlock
  <2>5. T!Instruction(s, inst) = q
    BY <1>0, <1>1 DEF T!Closed
  <2> HIDE DEF q
  <2>6. Longer(s, p)
    BY <2>2, <2>3, LongerStill
  <2> QED
    BY <2>3, <2>4, <2>5, <2>6, LongerStill
<1>2. CASE ~inst.predicated
  <2>1. o = s
    BY <1>2 DEF T!Opened
  <2>2. T!Instruction(s, inst) = p
    BY <1>0, <1>2 DEF T!Closed
  <2> QED
    BY <2>1, <2>2, OperationFits
<1> QED
  BY <1>1, <1>2

(* Induction, for clauses of any length.                                    *)
LEMMA AllNumbers ==
  ASSUME NEW G, 0 \in G, \A n \in Nat : n \in G => n + 1 \in G
  PROVE  Nat \subseteq G
<1> DEFINE B == Nat \ G
<1> SUFFICES ASSUME B # {} PROVE FALSE
  OBVIOUS
<1>1. PICK n \in B : \A k \in B : ~(<<k, n>> \in OpToRel(<, Nat))
  BY NatLessThanWellFounded, WFMin
<1>2. n \in Nat /\ n # 0 /\ n - 1 \in Nat /\ n - 1 < n
  <2>1. n \in Nat /\ n \notin G
    OBVIOUS
  <2>2. n # 0
    BY <2>1
  <2> QED
    BY <2>1, <2>2
<1>3. <<n - 1, n>> \in OpToRel(<, Nat)
  BY <1>2 DEF OpToRel
<1>4. n - 1 \in G
  BY <1>1, <1>2, <1>3
<1>5. (n - 1) + 1 = n
  BY <1>2
<1> QED
  BY <1>1, <1>2, <1>4, <1>5

LEMMA ClauseFits ==
  ASSUME NEW s, NEW S, Fit(s, S), NEW clause, Len(clause) \in Nat
  PROVE  Fit(T!ExecClause(s, clause), S) /\ Longer(s, T!ExecClause(s, clause))
<1> DEFINE N == Len(clause)
           Step(f, n) == f = [i \in 0..n |-> IF i = 0 THEN s ELSE T!Instruction(f[i - 1], clause[i])]
           G == {n \in Nat : \E f : Step(f, n)}
<1>1. 0 \in G
  <2>1. Step([i \in 0..0 |-> s], 0)
    OBVIOUS
  <2> HIDE DEF Step
  <2> QED
    BY <2>1
<1>2. ASSUME NEW n \in Nat, n \in G PROVE n + 1 \in G
  <2>1. PICK f : Step(f, n)
    BY <1>2
  <2> DEFINE g == [i \in 0..(n + 1) |-> IF i = n + 1 THEN T!Instruction(f[n], clause[n + 1]) ELSE f[i]]
  <2>2. ASSUME NEW i \in 0..(n + 1)
        PROVE  g[i] = IF i = 0 THEN s ELSE T!Instruction(g[i - 1], clause[i])
    <3>1. CASE i = n + 1
      <4>1. g[i] = T!Instruction(f[n], clause[i]) /\ g[i - 1] = f[n] /\ i # 0
        BY <3>1
      <4> QED
        BY <4>1
    <3>2. CASE i \in 0..n
      <4>1. g[i] = f[i] /\ f[i] = IF i = 0 THEN s ELSE T!Instruction(f[i - 1], clause[i])
        BY <2>1, <3>2
      <4>2. i # 0 => g[i - 1] = f[i - 1]
        BY <3>2
      <4> QED
        BY <4>1, <4>2
    <3> QED
      BY <3>1, <3>2
  <2>3. g = [i \in 0..(n + 1) |-> g[i]]
    OBVIOUS
  <2> HIDE DEF g
  <2>4. Step(g, n + 1)
    BY <2>2, <2>3
  <2> HIDE DEF Step
  <2> QED
    BY <2>4
<1>3. N \in G
  BY <1>1, <1>2, AllNumbers
<1> DEFINE after == CHOOSE f : Step(f, N)
<1>4. Step(after, N)
  BY <1>3
<1>5. T!ExecClause(s, clause) = after[N]
  BY DEF T!ExecClause
<1> HIDE DEF after, G
<1> DEFINE H == {n \in Nat : n <= N => Fit(after[n], S) /\ Longer(s, after[n])}
<1>6. 0 \in H
  <2>1. after[0] = s
    BY <1>4
  <2> QED
    BY <2>1, AsLong
<1>7. ASSUME NEW n \in Nat, n \in H PROVE n + 1 \in H
  <2> SUFFICES ASSUME n + 1 <= N PROVE Fit(after[n + 1], S) /\ Longer(s, after[n + 1])
    OBVIOUS
  <2>1. after[n + 1] = T!Instruction(after[n], clause[n + 1])
    BY <1>4
  <2>2. Fit(after[n], S) /\ Longer(s, after[n])
    BY <1>7
  <2> HIDE DEF Step
  <2>3. Fit(after[n + 1], S) /\ Longer(after[n], after[n + 1])
    BY <2>1, <2>2, InstructionFits
  <2> QED
    BY <2>2, <2>3, LongerStill
<1>8. N \in H
  BY <1>6, <1>7, AllNumbers
<1> QED
  BY <1>5, <1>8

LEMMA GuardedFits ==
  ASSUME NEW s, NEW S, Fit(s, S), NEW clause, Len(clause) \in Nat
  PROVE  Fit(T!Guarded(s, clause), S) /\ Longer(s, T!Guarded(s, clause))
<1> DEFINE m == s.next + 1  t == Under(s)  x == T!ExecClause(t, clause)
           q == T!Emit(x, <<T!Branch(m), T!Label(m)>>)
<1>0. S \in Seq(Nat) /\ m \in Nat
  BY DEF Fit, Fine, Well
<1>1. Fit(t, Append(S, m)) /\ Longer(s, t)
  BY UnderFits
<1>2. T!Guarded(s, clause) = q
  BY DEF T!Guarded, Under
<1> HIDE DEF m, t
<1>3. Fit(x, Append(S, m)) /\ Longer(t, x)
  BY <1>1, ClauseFits
<1> HIDE DEF x
<1>4. Fit(q, S) /\ Longer(x, q)
  BY <1>0, <1>3, ClosesBlock
<1> HIDE DEF q
<1>5. Longer(s, x)
  BY <1>1, <1>3, LongerStill
<1> QED
  BY <1>2, <1>3, <1>4, <1>5, LongerStill

(* Fine but for the last block, which may have ended.                       *)
Sound(c, n, S) ==
  /\ n \in Nat /\ Well(c, S)
  /\ \A x : NamedIn(c, x) => x < n
  /\ \A k \in DOMAIN S : S[k] < n

LEMMA Waits ==
  ASSUME NEW c, NEW n, NEW S, Sound(c, n, S), NEW x \in Nat, ~NamedIn(c, x), \A k \in DOMAIN S : S[k] # x,
         NEW k \in Nat, n <= k, x < k
  PROVE  Sound(c, k, Append(S, x))
<1>1. /\ n \in Nat /\ c \in Seq(Element) /\ S \in Seq(Nat) /\ Well(c, S)
      /\ (\A y : NamedIn(c, y) => y < n) /\ \A y \in DOMAIN S : S[y] < n
  BY DEF Sound, Well
<1>2. Well(c, Append(S, x))
  BY <1>1, Promised
<1>3. ASSUME NEW y, NamedIn(c, y) PROVE y < k
  BY <1>1, <1>3, NamesAreIds
<1>4. ASSUME NEW y \in DOMAIN Append(S, x) PROVE Append(S, x)[y] < k
  <2>1. /\ DOMAIN S = 1..Len(S) /\ Len(S) \in Nat /\ DOMAIN Append(S, x) = 1..(Len(S) + 1)
        /\ Append(S, x)[Len(S) + 1] = x /\ \A z \in DOMAIN S : Append(S, x)[z] = S[z] /\ S[z] \in Nat
    BY <1>1, AppendProperties, LenProperties, ElementOfSeq
  <2> QED
    BY <1>1, <2>1
<1> QED
  BY <1>2, <1>3, <1>4 DEF Sound

LEMMA Adds ==
  ASSUME NEW c, NEW n, NEW S, Sound(c, n, S), NEW e \in Element, Suits(c, e), e.op # "label",
         \A j \in DOMAIN e.ids : \/ \E p \in DOMAIN c : Labelled(c, e.ids[j], p)
                                 \/ \E k \in DOMAIN S : S[k] = e.ids[j],
         e.op \in {"branch", "cond"} =>
           \A j \in DOMAIN e.ids : Jump(Append(c, e), S, Len(c) + 1, e.ids[j])
  PROVE  Sound(Append(c, e), n, S)
<1>1. n \in Nat /\ c \in Seq(Element) /\ Well(c, S) /\ Shapes(c)
  BY DEF Sound, Well
<1>2. Well(Append(c, e), S)
  BY <1>1, Emitted
<1>3. ASSUME NEW j \in DOMAIN e.ids PROVE e.ids[j] < n
  <2>1. CASE \E p \in DOMAIN c : Labelled(c, e.ids[j], p)
    <3>1. NamedIn(c, e.ids[j])
      BY <1>1, <2>1, LabelIsNamed
    <3> QED
      BY <3>1 DEF Sound
  <2>2. CASE \E k \in DOMAIN S : S[k] = e.ids[j]
    BY <2>2 DEF Sound
  <2> QED
    BY <2>1, <2>2
<1>4. ASSUME NEW x, NamedIn(Append(c, e), x) PROVE x < n
  <2>1. NamedIn(c, x) \/ \E j \in DOMAIN e.ids : e.ids[j] = x
    BY <1>1, <1>4, Names
  <2> QED
    BY <1>3, <2>1 DEF Sound
<1> QED
  BY <1>1, <1>2, <1>4 DEF Sound

LEMMA Straight ==
  ASSUME NEW c, NEW n, NEW S, Sound(c, n, S), Ready(c)
  PROVE  Sound(Append(c, T!Op), n, S) /\ Ready(Append(c, T!Op))
<1>1. T!Op \in Element /\ T!Op.op = "op" /\ DOMAIN T!Op.ids = {} /\ c \in Seq(Element)
  <2>1. T!Op \in Element
    BY Elements
  <2> QED
    BY <2>1 DEF T!Op, Sound, Well
<1>2. Suits(c, T!Op)
  BY <1>1 DEF Suits, Ready
<1>3. Ready(Append(c, T!Op))
  BY <1>1, Appended DEF Ready, T!Terminators
<1> QED
  BY <1>1, <1>2, <1>3, Adds

LEMMA BranchesTo ==
  ASSUME NEW c, NEW n, NEW S \in Seq(Nat), NEW x \in Nat, Sound(c, n, Append(S, x)),
         c[Len(c)].op \notin T!Terminators \cup {"selection"}
  PROVE  /\ Sound(Append(c, T!Branch(x)), n, Append(S, x))
         /\ Append(c, T!Branch(x))[Len(Append(c, T!Branch(x)))].op \in T!Terminators
<1> DEFINE e == T!Branch(x)  R == Append(S, x)
<1>1. e \in Element /\ e.op = "branch" /\ DOMAIN e.ids = {1} /\ e.ids[1] = x
  BY Elements DEF T!Branch
<1>2. c \in Seq(Element) /\ Well(c, R)
  BY DEF Sound, Well
<1>3. Len(S) \in Nat /\ DOMAIN R = 1..(Len(S) + 1) /\ R[Len(S) + 1] = x
  BY AppendProperties, LenProperties
<1>4. Len(S) + 1 \in DOMAIN R /\ \A y \in DOMAIN R : ~(Len(S) + 1 < y)
  BY <1>3
<1> HIDE DEF e, R
<1>5. Suits(c, e)
  BY <1>1 DEF Suits
<1>6. Jump(Append(c, e), R, Len(c) + 1, R[Len(S) + 1])
  BY <1>1, <1>2, <1>4, JumpTo
<1>7. Sound(Append(c, e), n, R)
  <2>1. \A j \in DOMAIN e.ids : \E k \in DOMAIN R : R[k] = e.ids[j]
    BY <1>1, <1>3, <1>4
  <2>2. \A j \in DOMAIN e.ids : Jump(Append(c, e), R, Len(c) + 1, e.ids[j])
    BY <1>1, <1>3, <1>6
  <2>3. Sound(c, n, R)
    BY DEF R
  <2> QED
    BY <1>1, <1>5, <2>1, <2>2, <2>3, Adds
<1>8. Append(c, e)[Len(Append(c, e))] = e
  BY <1>1, <1>2, Appended
<1> QED
  BY <1>1, <1>7, <1>8 DEF e, R, T!Terminators

LEMMA Places ==
  ASSUME NEW c, NEW n, NEW S \in Seq(Nat), NEW x \in Nat, Sound(c, n, Append(S, x)),
         c[Len(c)].op \in T!Terminators
  PROVE  /\ Sound(Append(c, T!Label(x)), n, S) /\ Ready(Append(c, T!Label(x)))
         /\ Append(c, T!Label(x))[Len(Append(c, T!Label(x)))] = T!Label(x)
<1> DEFINE e == T!Label(x)  R == Append(S, x)
<1>1. e \in Element /\ e.op = "label" /\ DOMAIN e.ids = {1} /\ e.ids[1] = x
  BY Elements DEF T!Label
<1>2. c \in Seq(Element) /\ Well(c, R) /\ n \in Nat
  BY DEF Sound, Well
<1>3. Len(S) \in Nat /\ DOMAIN S = 1..Len(S) /\ DOMAIN R = 1..(Len(S) + 1) /\ R[Len(S) + 1] = x /\ \A k \in DOMAIN S : R[k] = S[k]
  BY AppendProperties, LenProperties
<1>4. Well(Append(c, e), S)
  BY <1>2, LabelGiven DEF e, R
<1>5. Append(c, e)[Len(Append(c, e))] = e
  BY <1>1, <1>2, Appended
<1>6. (\A k \in DOMAIN R : R[k] < n) /\ \A y : NamedIn(c, y) => y < n
  BY DEF Sound
<1> HIDE DEF e, R
<1>7. x < n /\ \A k \in DOMAIN S : S[k] < n
  BY <1>3, <1>6
<1>8. ASSUME NEW y, NamedIn(Append(c, e), y) PROVE y < n
  <2>1. NamedIn(c, y) \/ \E j \in DOMAIN e.ids : e.ids[j] = y
    BY <1>1, <1>2, <1>8, Names
  <2> QED
    BY <1>1, <1>6, <1>7, <2>1
<1>9. Sound(Append(c, e), n, S)
  BY <1>2, <1>4, <1>7, <1>8 DEF Sound
<1>10. Ready(Append(c, e))
  BY <1>1, <1>5 DEF Ready, T!Terminators
<1> QED
  BY <1>5, <1>9, <1>10 DEF e

(* The loops that are open, outermost first: the merge and the continue     *)
(* block of each wait for their labels in that order, and at[d] is where    *)
(* the d-th declares them. No other declaration waits for its merge.        *)
Info == [header : Nat, merge : Nat, continue : Nat]
Outer(c, S, L, at) ==
  /\ L \in Seq(Info) /\ Len(S) = 2 * Len(L)
  /\ \A d \in DOMAIN L :
       /\ S[2 * d - 1] = L[d].merge /\ S[2 * d] = L[d].continue
       /\ at[d] \in DOMAIN c /\ c[at[d]] = T!LoopMerge(L[d].merge, L[d].continue)
       /\ Labelled(c, L[d].header, at[d] - 1)
       /\ \A e \in DOMAIN L : d < e => at[d] < at[e]
  /\ \A m \in DOMAIN c : c[m].op = "loop" =>
       (\E p \in DOMAIN c : Labelled(c, c[m].ids[1], p)) \/ \E d \in DOMAIN L : m = at[d]
Nested(c, S, L) == \E at : Outer(c, S, L, at)

LEMMA NestedStill ==
  ASSUME NEW s, NEW r, NEW S, NEW L, Fit(s, S), Fit(r, S), Longer(s, r), Nested(s.code, S, L)
  PROVE  Nested(r.code, S, L)
<1> DEFINE c == s.code  d == r.code
<1>1. PICK at : Outer(c, S, L, at)
  BY DEF Nested
<1>2. /\ \A i \in DOMAIN c : i \in DOMAIN d /\ d[i] = c[i]
      /\ \A i \in DOMAIN d : d[i].op = "loop" => i \in DOMAIN c
  BY DEF Longer, More
<1> HIDE DEF c, d
<1>3. \A x, p : Labelled(c, x, p) => Labelled(d, x, p)
  BY <1>2 DEF Labelled
<1>4. ASSUME NEW k \in DOMAIN L
      PROVE  /\ S[2 * k - 1] = L[k].merge /\ S[2 * k] = L[k].continue
             /\ at[k] \in DOMAIN d /\ d[at[k]] = T!LoopMerge(L[k].merge, L[k].continue)
             /\ Labelled(d, L[k].header, at[k] - 1)
             /\ \A e \in DOMAIN L : k < e => at[k] < at[e]
  BY <1>1, <1>2, <1>3, Zenon DEF Outer
<1>5. ASSUME NEW m \in DOMAIN d, d[m].op = "loop"
      PROVE  (\E p \in DOMAIN d : Labelled(d, d[m].ids[1], p)) \/ \E k \in DOMAIN L : m = at[k]
  <2>1. m \in DOMAIN c /\ d[m] = c[m]
    BY <1>2, <1>5
  <2>2. CASE \E p \in DOMAIN c : Labelled(c, c[m].ids[1], p)
    BY <1>2, <1>3, <2>1, <2>2
  <2> QED
    BY <1>1, <1>5, <2>1, <2>2 DEF Outer
<1>6. Outer(d, S, L, at)
  BY <1>1, <1>4, <1>5, Zenon DEF Outer
<1> QED
  BY <1>6 DEF Nested, d

\* What comes after, the innermost loop is the last one open.
LEMMA InnerLoop ==
  ASSUME NEW c \in Seq(Element), NEW S, NEW L, NEW at, Outer(c, S, L, at), L # <<>>,
         NEW d \in Seq(Element), NEW n, NEW k, More(c, n, d, k), NEW i \in Nat, Len(c) < i,
         \A p : ~Labelled(d, L[Len(L)].merge, p)
  PROVE  /\ Innermost(d, i, at[Len(L)]) /\ Labelled(d, L[Len(L)].header, at[Len(L)] - 1)
         /\ at[Len(L)] \in DOMAIN d /\ d[at[Len(L)]].ids[1] = L[Len(L)].merge
         /\ d[at[Len(L)]].ids[2] = L[Len(L)].continue
<1> DEFINE l == at[Len(L)]  info == L[Len(L)]
<1>1. /\ \A x \in DOMAIN c : x \in DOMAIN d /\ d[x] = c[x]
      /\ \A x \in DOMAIN d : d[x].op = "loop" => x \in DOMAIN c
  BY DEF More
<1>2. Len(L) \in Nat /\ Len(L) \in DOMAIN L /\ DOMAIN L = 1..Len(L)
  <2>1. L \in Seq(Info)
    BY DEF Outer
  <2> QED
    BY <2>1, EmptySeq, LenProperties
<1>3. Len(c) \in Nat /\ DOMAIN c = 1..Len(c) /\ DOMAIN d = 1..Len(d) /\ Len(d) \in Nat
  BY LenProperties
<1>4. l \in DOMAIN c /\ c[l] = T!LoopMerge(info.merge, info.continue) /\ Labelled(c, info.header, l - 1)
  BY <1>2 DEF Outer
<1>5. d[l].op = "loop" /\ d[l].ids[1] = info.merge /\ d[l].ids[2] = info.continue
  BY <1>1, <1>4 DEF T!LoopMerge
<1>6. Labelled(d, info.header, l - 1)
  BY <1>1, <1>4 DEF Labelled
<1>7. Around(d, i, l)
  BY <1>1, <1>3, <1>4, <1>5 DEF Around
<1>8. ASSUME NEW m \in DOMAIN d, Around(d, i, m), d[m].op = "loop" PROVE m <= l
  <2>1. m \in DOMAIN c /\ d[m] = c[m]
    BY <1>1, <1>8
  <2>2. ~ \E p \in DOMAIN c : Labelled(c, c[m].ids[1], p)
    <3> SUFFICES ASSUME NEW p \in DOMAIN c, Labelled(c, c[m].ids[1], p) PROVE FALSE
      OBVIOUS
    <3>1. Labelled(d, d[m].ids[1], p) /\ p \in DOMAIN d
      BY <1>1, <2>1 DEF Labelled
    <3> QED
      BY <1>3, <1>8, <3>1 DEF Around
  <2>3. PICK e \in DOMAIN L : m = at[e]
    BY <1>8, <2>1, <2>2 DEF Outer
  <2>4. CASE e = Len(L)
    BY <1>3, <1>4, <2>3, <2>4
  <2>5. CASE e < Len(L)
    <3>1. at[e] < l
      BY <1>2, <2>5 DEF Outer
    <3> QED
      BY <1>3, <1>4, <2>1, <2>3, <3>1
  <2> QED
    BY <1>2, <2>4, <2>5
<1> QED
  BY <1>1, <1>4, <1>5, <1>6, <1>7, <1>8 DEF Innermost

LEMMA UpTo ==
  ASSUME NEW n \in Nat, NEW m \in Int, m <= n + 6
  PROVE  \/ m <= n \/ m = n + 1 \/ m = n + 2 \/ m = n + 3 \/ m = n + 4 \/ m = n + 5 \/ m = n + 6
<1>1. m <= n + 3 \/ m = n + 4 \/ m = n + 5 \/ m = n + 6
  <2>1. m <= n + 5 \/ m = n + 6
    OBVIOUS
  <2>2. m <= n + 5 => m <= n + 4 \/ m = n + 5
    OBVIOUS
  <2>3. m <= n + 4 => m <= n + 3 \/ m = n + 4
    OBVIOUS
  <2> QED
    BY <2>1, <2>2, <2>3, Zenon
<1>2. m <= n + 3 => m <= n \/ m = n + 1 \/ m = n + 2 \/ m = n + 3
  <2>1. m <= n + 3 => m <= n + 2 \/ m = n + 3
    OBVIOUS
  <2>2. m <= n + 2 => m <= n + 1 \/ m = n + 2
    OBVIOUS
  <2>3. m <= n + 1 => m <= n \/ m = n + 1
    OBVIOUS
  <2> QED
    BY <2>1, <2>2, <2>3, Zenon
<1> QED
  BY <1>1, <1>2, Zenon

LEMMA InOrder ==
  ASSUME NEW c \in Seq(Element), NEW u \in Element, NEW v \in Element, NEW w \in Element,
         NEW x \in Element, NEW y \in Element
  PROVE  /\ c \o <<u, v, w>> = Append(Append(Append(c, u), v), w)
         /\ c \o <<u, v, w, x>> = Append(Append(Append(Append(c, u), v), w), x)
         /\ c \o <<u, v, w, x, y>> = Append(Append(Append(Append(Append(c, u), v), w), x), y)
<1>1. c \o <<u, v>> = Append(Append(c, u), v)
  BY OneByOne
<1>2. c \o <<u, v, w>> = Append(c \o <<u, v>>, w)
  <2>1. <<u, v>> \in Seq(Element) /\ <<u, v, w>> = Append(<<u, v>>, w)
    OBVIOUS
  <2>2. c \o Append(<<u, v>>, w) = Append(c \o <<u, v>>, w)
    BY <2>1, SplitLast
  <2> QED
    BY <2>1, <2>2, Zenon
<1>3. c \o <<u, v, w, x>> = Append(c \o <<u, v, w>>, x)
  <2>1. <<u, v, w>> \in Seq(Element) /\ <<u, v, w, x>> = Append(<<u, v, w>>, x)
    OBVIOUS
  <2>2. c \o Append(<<u, v, w>>, x) = Append(c \o <<u, v, w>>, x)
    BY <2>1, SplitLast
  <2> QED
    BY <2>1, <2>2, Zenon
<1>4. c \o <<u, v, w, x, y>> = Append(c \o <<u, v, w, x>>, y)
  <2>1. <<u, v, w, x>> \in Seq(Element) /\ <<u, v, w, x, y>> = Append(<<u, v, w, x>>, y)
    OBVIOUS
  <2>2. c \o Append(<<u, v, w, x>>, y) = Append(c \o <<u, v, w, x>>, y)
    BY <2>1, SplitLast
  <2> QED
    BY <2>1, <2>2, Zenon
<1> QED
  BY <1>1, <1>2, <1>3, <1>4, Zenon

LEMMA FitIsSound ==
  ASSUME NEW s, NEW S, Fit(s, S)
  PROVE  /\ Sound(s.code, s.next, S) /\ Ready(s.code) /\ s.code \in Seq(Element) /\ S \in Seq(Nat)
         /\ s.next \in Nat /\ s = [code |-> s.code, next |-> s.next]
BY DEF Fit, Fine, Sound, Well

LEMMA SoundFits ==
  ASSUME NEW c, NEW n, NEW S, Sound(c, n, S), Ready(c), NEW s, s = [code |-> c, next |-> n]
  PROVE  Fit(s, S)
<1>1. s.code = c /\ s.next = n /\ s = [code |-> s.code, next |-> s.next]
  BY Parts
<1>2. Fine(c, n, S)
  BY DEF Fine, Sound
<1> QED
  BY <1>1, <1>2, Zenon DEF Fit

(* LOOP_END.                                                                *)
LEMMA EndFits ==
  ASSUME NEW s, NEW S, NEW L, Fit(s, S), Nested(s.code, S, L), L # <<>>,
         NEW info, info = L[Len(L)], NEW r,
         r = [code |-> s.code \o <<T!Branch(info.continue), T!Label(info.continue), T!Op,
                                   T!BranchConditional(info.header, info.merge), T!Label(info.merge)>>,
              next |-> s.next]
  PROVE  \E R : Fit(r, R) /\ Nested(r.code, R, SubSeq(L, 1, Len(L) - 1))
<1> DEFINE c == s.code  n == s.next  K == Len(L)  R == SubSeq(S, 1, Len(S) - 2)
           head == info.header  merge == info.merge  cont == info.continue
           S1 == Append(R, merge)  F == SubSeq(L, 1, K - 1)
           e1 == T!Branch(cont)  e2 == T!Label(cont)  e3 == T!Op
           e4 == T!BranchConditional(head, merge)  e5 == T!Label(merge)
           c1 == Append(c, e1)  c2 == Append(c1, e2)  c3 == Append(c2, e3)  c4 == Append(c3, e4)  c5 == Append(c4, e5)
<1>1. PICK at : Outer(c, S, L, at)
  BY DEF Nested
<1>2. /\ Sound(c, n, S) /\ Ready(c) /\ c \in Seq(Element) /\ S \in Seq(Nat) /\ n \in Nat
      /\ s = [code |-> c, next |-> n]
  BY FitIsSound
<1>3. /\ L \in Seq(Info) /\ Len(S) = 2 * K /\ K \in Nat \ {0} /\ DOMAIN L = 1..K /\ K \in DOMAIN L
      /\ info \in Info /\ head \in Nat /\ merge \in Nat /\ cont \in Nat
  <2>1. L \in Seq(Info) /\ Len(S) = 2 * K
    BY <1>1 DEF Outer
  <2>2. K \in Nat \ {0} /\ DOMAIN L = 1..K /\ K \in DOMAIN L
    BY <2>1, EmptySeq, LenProperties
  <2>3. info \in Info
    BY <2>1, <2>2, ElementOfSeq
  <2> QED
    BY <2>1, <2>2, <2>3 DEF Info
<1> HIDE DEF c, n, K, head, merge, cont
<1>4. /\ R \in Seq(Nat) /\ Len(R) = 2 * K - 2 /\ DOMAIN R = 1..(2 * K - 2)
      /\ \A x \in 1..(2 * K - 2) : R[x] = S[x]
  <2>1. \A x \in 1..(Len(S) - 2) : S[x] \in Nat
    <3>1. S \in [1..Len(S) -> Nat] /\ Len(S) \in Nat
      BY <1>2, LenProperties
    <3>2. 1..(Len(S) - 2) \subseteq 1..Len(S)
      BY <3>1
    <3> QED
      BY <3>1, <3>2
  <2>2. 1 \in Int /\ Len(S) - 2 \in Int
    BY <1>3
  <2>3. /\ R \in Seq(Nat) /\ Len(R) = IF 1 <= Len(S) - 2 THEN Len(S) - 2 - 1 + 1 ELSE 0
        /\ \A x \in 1..(Len(S) - 2 - 1 + 1) : R[x] = S[1 + x - 1]
    BY <2>1, <2>2, SubSeqProperties
  <2> QED
    BY <1>3, <2>3, LenProperties
<1> HIDE DEF R
<1>5. S1 \in Seq(Nat) /\ S = Append(S1, cont)
  <2>1. S1 \in Seq(Nat) /\ Len(S1) = 2 * K - 1 /\ S1[2 * K - 1] = merge /\ \A x \in 1..(2 * K - 2) : S1[x] = S[x]
    <3>1. /\ S1 \in Seq(Nat) /\ Len(S1) = Len(R) + 1 /\ S1[Len(R) + 1] = merge
          /\ \A x \in 1..Len(R) : S1[x] = R[x]
      BY <1>3, <1>4, AppendProperties
    <3> QED
      BY <1>3, <1>4, <3>1
  <2> HIDE DEF S1
  <2> DEFINE S2 == Append(S1, cont)
  <2>2. /\ S2 \in Seq(Nat) /\ Len(S2) = 2 * K /\ S2[2 * K] = cont
        /\ \A x \in 1..(2 * K - 1) : S2[x] = S1[x]
    <3>1. /\ S2 \in Seq(Nat) /\ Len(S2) = Len(S1) + 1 /\ S2[Len(S1) + 1] = cont
          /\ \A x \in 1..Len(S1) : S2[x] = S1[x]
      BY <1>3, <2>1, AppendProperties, SMTT(30)
    <3> QED
      BY <1>3, <2>1, <3>1, SMTT(30)
  <2> HIDE DEF S2
  <2>3. S[2 * K - 1] = merge /\ S[2 * K] = cont
    BY <1>1, <1>3 DEF Outer, merge, cont, K
  <2>4. ASSUME NEW x \in 1..Len(S) PROVE S[x] = S2[x]
    <3>1. x \in 1..(2 * K - 2) \/ x = 2 * K - 1 \/ x = 2 * K
      BY <1>3
    <3>2. 2 * K - 1 \in 1..(2 * K - 1) /\ \A y \in 1..(2 * K - 2) : y \in 1..(2 * K - 1)
      BY <1>3
    <3> QED
      BY <2>1, <2>2, <2>3, <3>1, <3>2
  <2>5. S = S2
    BY <1>2, <1>3, <2>2, <2>4, SeqEqual
  <2> QED
    BY <2>1, <2>5 DEF S2
<1>6. {e1, e2, e3, e4, e5} \subseteq Element
  BY <1>3, Elements
<1>7. /\ e4.op = "cond" /\ DOMAIN e4.ids = {1, 2} /\ e4.ids[1] = head /\ e4.ids[2] = merge
      /\ e1.op = "branch" /\ e2.op = "label" /\ e3.op = "op" /\ e5.op = "label" /\ e2.ids[1] = cont /\ e5.ids[1] = merge
  BY DEF T!BranchConditional, T!Branch, T!Label, T!Op
<1>r. r = [code |-> c \o <<e1, e2, e3, e4, e5>>, next |-> n]
  BY DEF c, n, head, merge, cont
<1> HIDE DEF S1, F, e1, e2, e3, e4, e5
<1>8. r = [code |-> c5, next |-> n]
  <2>1. c \o <<e1, e2, e3, e4, e5>> = c5
    BY <1>2, <1>6, InOrder, SMTT(30)
  <2> QED
    BY <1>r, <2>1
<1>9. /\ c1 \in Seq(Element) /\ c2 \in Seq(Element) /\ c3 \in Seq(Element) /\ c4 \in Seq(Element) /\ c5 \in Seq(Element)
  BY <1>2, <1>6, AppendProperties
<1> HIDE DEF c1, c2, c3, c4, c5
<1>10. Sound(c1, n, S) /\ c1[Len(c1)].op \in T!Terminators
  <2>1. c[Len(c)].op \notin T!Terminators \cup {"selection"}
    BY <1>2 DEF Ready
  <2> QED
    BY <1>2, <1>3, <1>5, <2>1, BranchesTo DEF c1, e1
<1>11. Sound(c2, n, S1) /\ Ready(c2) /\ c2[Len(c2)] = e2
  BY <1>3, <1>5, <1>10, Places DEF c2, e2
<1>12. Sound(c3, n, S1) /\ Ready(c3)
  BY <1>11, Straight DEF c3, e3
<1>13. /\ Len(c) \in Nat /\ Len(c2) = Len(c) + 2 /\ Len(c3) = Len(c) + 3 /\ Len(c4) = Len(c) + 4 /\ Len(c5) = Len(c) + 5
       /\ DOMAIN c = 1..Len(c) /\ DOMAIN c2 = 1..(Len(c) + 2) /\ DOMAIN c3 = 1..(Len(c) + 3)
       /\ DOMAIN c4 = 1..(Len(c) + 4) /\ DOMAIN c5 = 1..(Len(c) + 5)
  BY <1>2, <1>6, <1>9, Appended DEF c1, c2, c3, c4, c5
<1>14. /\ (\A i \in DOMAIN c : c3[i] = c[i] /\ c4[i] = c[i] /\ c5[i] = c[i])
       /\ \A i \in {Len(c) + 1, Len(c) + 3, Len(c) + 4} : c5[i].op # "label" /\ c5[i].op # "loop" /\ c4[i].op # "label" /\ c4[i].op # "loop"
       /\ c4[Len(c) + 2] = e2 /\ c5[Len(c) + 2] = e2 /\ c5[Len(c) + 5] = e5
  <2>1. /\ (\A i \in DOMAIN c : c1[i] = c[i]) /\ c1[Len(c) + 1] = e1
    BY <1>2, <1>6, Appended DEF c1
  <2>2. (\A i \in DOMAIN c1 : c2[i] = c1[i]) /\ c2[Len(c) + 2] = e2 /\ DOMAIN c1 = 1..(Len(c) + 1)
    BY <1>2, <1>6, <1>9, Appended DEF c1, c2
  <2>3. (\A i \in DOMAIN c2 : c3[i] = c2[i]) /\ c3[Len(c) + 3] = e3
    BY <1>6, <1>9, <1>13, Appended DEF c3
  <2>4. (\A i \in DOMAIN c3 : c4[i] = c3[i]) /\ c4[Len(c) + 4] = e4
    BY <1>6, <1>9, <1>13, Appended, SMTT(30) DEF c4
  <2>5. (\A i \in DOMAIN c4 : c5[i] = c4[i]) /\ c5[Len(c) + 5] = e5
    BY <1>6, <1>9, <1>13, Appended, SMTT(30) DEF c5
  <2>6. /\ c5[Len(c) + 1] = e1 /\ c5[Len(c) + 3] = e3 /\ c5[Len(c) + 4] = e4
        /\ c4[Len(c) + 1] = e1 /\ c4[Len(c) + 3] = e3 /\ c4[Len(c) + 4] = e4
        /\ c4[Len(c) + 2] = e2 /\ c5[Len(c) + 2] = e2
    <3>1. Len(c) + 1 \in DOMAIN c1 /\ Len(c) + 1 \in DOMAIN c2 /\ Len(c) + 1 \in DOMAIN c3 /\ Len(c) + 1 \in DOMAIN c4
      BY <1>13, <2>2
    <3>2. Len(c) + 2 \in DOMAIN c2 /\ Len(c) + 2 \in DOMAIN c3 /\ Len(c) + 2 \in DOMAIN c4
      BY <1>13
    <3>3. Len(c) + 3 \in DOMAIN c3 /\ Len(c) + 3 \in DOMAIN c4 /\ Len(c) + 4 \in DOMAIN c4
      BY <1>13
    <3> HIDE <1>13
    <3> QED
      BY <2>1, <2>2, <2>3, <2>4, <2>5, <3>1, <3>2, <3>3
  <2>7. ASSUME NEW i \in DOMAIN c PROVE c3[i] = c[i] /\ c4[i] = c[i] /\ c5[i] = c[i]
    <3>1. i \in DOMAIN c1 /\ i \in DOMAIN c2 /\ i \in DOMAIN c3 /\ i \in DOMAIN c4
      BY <1>13, <2>2
    <3> QED
      BY <2>1, <2>2, <2>3, <2>4, <2>5, <3>1
  <2> QED
    BY <1>7, <2>5, <2>6, <2>7
<1>15. More(c, n, c4, n)
  <2>1. ASSUME NEW i \in DOMAIN c4, c4[i].op = "loop" PROVE i \in DOMAIN c
    <3>1. i \in DOMAIN c \/ i = Len(c) + 1 \/ i = Len(c) + 2 \/ i = Len(c) + 3 \/ i = Len(c) + 4
      <4>1. i \in Int /\ 1 <= i /\ i <= Len(c) + 4
        BY <1>13
      <4>2. Len(c) \in Nat /\ DOMAIN c = 1..Len(c)
        BY <1>13
      <4>3. \A m \in Nat, j \in Int :
              1 <= j /\ j <= m + 4 => j \in 1..m \/ j = m + 1 \/ j = m + 2 \/ j = m + 3 \/ j = m + 4
        OBVIOUS
      <4> QED
        BY <4>1, <4>2, <4>3
    <3> QED
      BY <1>7, <1>14, <2>1, <3>1
  <2> QED
    BY <1>2, <1>13, <1>14, <2>1 DEF More
<1>16. (\A p : ~Labelled(c3, merge, p)) /\ \A p : ~Labelled(c4, merge, p)
  <2>1. Once(c3, S1) /\ Len(R) + 1 \in DOMAIN S1 /\ S1[Len(R) + 1] = merge
    BY <1>3, <1>4, <1>12, AppendProperties, LenProperties, SMTT(30) DEF Sound, Well, S1
  <2>2. \A p : ~Labelled(c3, merge, p)
    BY <2>1 DEF Once, Labelled
  <2>3. \A i \in DOMAIN c4 : (i \in DOMAIN c3 /\ c4[i] = c3[i]) \/ c4[i] = e4
    <3>1. (\A i \in DOMAIN c3 : c4[i] = c3[i]) /\ c4[Len(c3) + 1] = e4
      BY <1>6, <1>9, Appended DEF c4
    <3> QED
      BY <1>13, <3>1, SMTT(30)
  <2> QED
    BY <1>7, <2>2, <2>3 DEF Labelled
<1>17. Len(c3) + 1 \in Nat /\ Len(c) < Len(c3) + 1
  BY <1>13
<1> DEFINE l == at[Len(L)]
<1>18. /\ Innermost(c4, Len(c3) + 1, l) /\ Labelled(c4, head, l - 1) /\ l \in DOMAIN c4
       /\ c4[l].ids[1] = merge /\ c4[l].ids[2] = cont
  BY <1>1, <1>2, <1>9, <1>15, <1>16, <1>17, InnerLoop, SMTT(30) DEF head, merge, cont
<1> HIDE DEF l
<1>19. Behind(c4, Len(c3) + 1, head) /\ Back(c4, Len(c3) + 1, head)
  <2>1. l - 1 \in DOMAIN c4 /\ l - 1 < Len(c3) + 1
    <3>1. l - 1 \in DOMAIN c4 /\ l < Len(c3) + 1
      BY <1>18 DEF Labelled, Innermost, Around
    <3> QED
      BY <1>13, <1>18, <3>1
  <2>2. Len(c) + 2 \in DOMAIN c4 /\ Len(c) + 2 < Len(c3) + 1 /\ Labelled(c4, c4[l].ids[2], Len(c) + 2)
    BY <1>7, <1>13, <1>14, <1>18 DEF Labelled
  <2> QED
    BY <1>18, <2>1, <2>2 DEF Behind, Back
<1>20. Jump(c4, S1, Len(c3) + 1, head)
  BY <1>19 DEF Jump
<1>21. Jump(c4, S1, Len(c3) + 1, merge)
  <2>1. Len(R) + 1 \in DOMAIN S1 /\ S1[Len(R) + 1] = merge /\ \A y \in DOMAIN S1 : ~(Len(R) + 1 < y)
    BY <1>3, <1>4, AppendProperties, LenProperties DEF S1
  <2>2. Well(c3, S1)
    BY <1>12 DEF Sound
  <2> QED
    BY <1>6, <1>7, <2>1, <2>2, JumpTo DEF c4
<1>22. Sound(c4, n, S1)
  <2>1. Suits(c3, e4)
    BY <1>7, <1>12 DEF Suits, Ready
  <2>2. \E p \in DOMAIN c3 : Labelled(c3, head, p)
    <3>1. Labelled(c, head, l - 1)
      BY <1>1, <1>3 DEF Outer, l, head, K
    <3> QED
      BY <1>13, <1>14, <3>1 DEF Labelled
  <2>3. \E k \in DOMAIN S1 : S1[k] = merge
    <3>1. Len(R) + 1 \in DOMAIN S1 /\ S1[Len(R) + 1] = merge
      BY <1>3, <1>4, AppendProperties, LenProperties DEF S1
    <3> QED
      BY <3>1
  <2> QED
    BY <1>6, <1>7, <1>12, <1>20, <1>21, <2>1, <2>2, <2>3, Adds DEF c4
<1>23. Sound(c5, n, R) /\ Ready(c5)
  <2>1. c4[Len(c4)].op \in T!Terminators
    BY <1>6, <1>7, <1>9, Appended DEF c4, T!Terminators
  <2> QED
    BY <1>3, <1>4, <1>22, <2>1, Places DEF c5, S1, e5
<1>24. Fit(r, R)
  BY <1>8, <1>23, SoundFits
<1>25. Outer(c5, R, F, at)
  <2>1. F \in Seq(Info) /\ Len(F) = K - 1 /\ DOMAIN F = 1..(K - 1) /\ \A x \in 1..(K - 1) : F[x] = L[x]
    <3>1. \A x \in 1..(K - 1) : L[x] \in Info
      BY <1>3, ElementOfSeq DEF K
    <3>2. 1 \in Int /\ K - 1 \in Int
      BY <1>3
    <3>3. /\ F \in Seq(Info) /\ Len(F) = IF 1 <= K - 1 THEN K - 1 - 1 + 1 ELSE 0
          /\ \A x \in 1..(K - 1 - 1 + 1) : F[x] = L[1 + x - 1]
      BY <3>1, <3>2, SubSeqProperties DEF F
    <3> QED
      BY <1>3, <3>3, LenProperties
  <2>2. \A x, p : Labelled(c, x, p) => Labelled(c5, x, p) /\ p \in DOMAIN c5
    BY <1>13, <1>14 DEF Labelled
  <2>3. ASSUME NEW d \in DOMAIN F
        PROVE  /\ R[2 * d - 1] = F[d].merge /\ R[2 * d] = F[d].continue
               /\ at[d] \in DOMAIN c5 /\ c5[at[d]] = T!LoopMerge(F[d].merge, F[d].continue)
               /\ Labelled(c5, F[d].header, at[d] - 1)
               /\ \A e \in DOMAIN F : d < e => at[d] < at[e]
    <3>1. d \in DOMAIN L /\ F[d] = L[d] /\ 2 * d - 1 \in 1..(2 * K - 2) /\ 2 * d \in 1..(2 * K - 2)
      BY <1>3, <2>1
    <3>2. \A e \in DOMAIN F : e \in DOMAIN L
      BY <1>3, <2>1
    <3>3. /\ S[2 * d - 1] = L[d].merge /\ S[2 * d] = L[d].continue
          /\ at[d] \in DOMAIN c /\ c[at[d]] = T!LoopMerge(L[d].merge, L[d].continue)
          /\ Labelled(c, L[d].header, at[d] - 1)
          /\ \A e \in DOMAIN L : d < e => at[d] < at[e]
      BY <1>1, <3>1, Zenon DEF Outer
    <3>4. R[2 * d - 1] = S[2 * d - 1] /\ R[2 * d] = S[2 * d]
      BY <1>4, <3>1
    <3>5. at[d] \in DOMAIN c5 /\ c5[at[d]] = c[at[d]]
      BY <1>13, <1>14, <3>3
    <3> QED
      BY <2>2, <3>1, <3>2, <3>3, <3>4, <3>5
  <2>4. ASSUME NEW m \in DOMAIN c5, c5[m].op = "loop"
        PROVE  (\E p \in DOMAIN c5 : Labelled(c5, c5[m].ids[1], p)) \/ \E d \in DOMAIN F : m = at[d]
    <3>1. m \in DOMAIN c /\ c5[m] = c[m]
      <4>1. \/ m \in DOMAIN c \/ m = Len(c) + 1 \/ m = Len(c) + 2 \/ m = Len(c) + 3
            \/ m = Len(c) + 4 \/ m = Len(c) + 5
        <5>1. m \in Int /\ 1 <= m /\ m <= Len(c) + 5 /\ Len(c) \in Nat
          BY <1>13
        <5>2. m <= Len(c) + 6 /\ m # Len(c) + 6
          BY <5>1
        <5>4. \/ m <= Len(c) \/ m = Len(c) + 1 \/ m = Len(c) + 2 \/ m = Len(c) + 3
              \/ m = Len(c) + 4 \/ m = Len(c) + 5
          BY <5>1, <5>2, UpTo, Zenon
        <5>3. m <= Len(c) => m \in DOMAIN c
          BY <1>13, <5>1
        <5> QED
          BY <5>3, <5>4, Zenon
      <4> QED
        BY <1>7, <1>14, <2>4, <4>1
    <3>2. (\E p \in DOMAIN c : Labelled(c, c[m].ids[1], p)) \/ \E d \in DOMAIN L : m = at[d]
      BY <1>1, <2>4, <3>1 DEF Outer
    <3>3. CASE \E p \in DOMAIN c : Labelled(c, c[m].ids[1], p)
      BY <2>2, <3>1, <3>3
    <3>4. ASSUME NEW d \in DOMAIN L, m = at[d], d # K
          PROVE  \E e \in DOMAIN F : m = at[e]
      <4>1. d \in DOMAIN F
        BY <1>3, <2>1, <3>4
      <4> QED
        BY <3>4, <4>1
    <3>5. CASE m = at[K]
      <4>1. c5[m].ids[1] = merge
        BY <1>13, <1>14, <1>18, <3>1, <3>5 DEF l, K
      <4>2. Labelled(c5, merge, Len(c) + 5) /\ Len(c) + 5 \in DOMAIN c5
        BY <1>7, <1>13, <1>14 DEF Labelled
      <4> QED
        BY <4>1, <4>2
    <3> QED
      BY <3>2, <3>3, <3>4, <3>5
  <2>5. Len(R) = 2 * Len(F)
    BY <1>3, <1>4, <2>1
  <2> QED
    BY <2>1, <2>3, <2>4, <2>5, Zenon DEF Outer
<1>26. r.code = c5
  BY <1>8, Parts, Zenon
<1> QED
  BY <1>24, <1>25, <1>26 DEF Nested, F, K

LEMMA Values ==
  ASSUME NEW S \in Seq(Nat), NEW x \in Nat
  PROVE  /\ Append(S, x) \in Seq(Nat)
         /\ \A y \in DOMAIN Append(S, x) : Append(S, x)[y] = x \/ \E z \in DOMAIN S : Append(S, x)[y] = S[z]
         /\ \E y \in DOMAIN Append(S, x) : Append(S, x)[y] = x
         /\ \A z \in DOMAIN S : \E y \in DOMAIN Append(S, x) : Append(S, x)[y] = S[z]
<1> DEFINE R == Append(S, x)
<1>1. /\ R \in Seq(Nat) /\ Len(S) \in Nat /\ DOMAIN S = 1..Len(S) /\ DOMAIN R = 1..(Len(S) + 1)
      /\ R[Len(S) + 1] = x /\ \A k \in DOMAIN S : R[k] = S[k]
  BY AppendProperties, LenProperties
<1> HIDE DEF R
<1>2. Len(S) + 1 \in DOMAIN R /\ \A y \in DOMAIN R : y = Len(S) + 1 \/ y \in DOMAIN S
  BY <1>1
<1>3. \A z \in DOMAIN S : z \in DOMAIN R
  BY <1>1
<1> QED
  BY <1>1, <1>2, <1>3, Zenon DEF R

LEMMA TwoMore ==
  ASSUME NEW S \in Seq(Nat), NEW x \in Nat, NEW y \in Nat
  PROVE  /\ Len(S) \in Nat /\ DOMAIN S = 1..Len(S) /\ Len(Append(Append(S, x), y)) = Len(S) + 2
         /\ Append(Append(S, x), y)[Len(S) + 1] = x /\ Append(Append(S, x), y)[Len(S) + 2] = y
         /\ \A z \in DOMAIN S : Append(Append(S, x), y)[z] = S[z]
<1> DEFINE S1 == Append(S, x)  S2 == Append(S1, y)
<1>1. /\ S1 \in Seq(Nat) /\ Len(S) \in Nat /\ DOMAIN S = 1..Len(S) /\ Len(S1) = Len(S) + 1
      /\ S1[Len(S) + 1] = x /\ \A k \in DOMAIN S : S1[k] = S[k]
  BY AppendProperties, LenProperties
<1> HIDE DEF S1
<1>2. /\ Len(S2) = Len(S1) + 1 /\ S2[Len(S1) + 1] = y /\ \A k \in 1..Len(S1) : S2[k] = S1[k]
  BY <1>1, AppendProperties
<1> HIDE DEF S2
<1>3. Len(S) + 1 \in 1..Len(S1) /\ (\A z \in DOMAIN S : z \in 1..Len(S1)) /\ Len(S1) + 1 = Len(S) + 2
  BY <1>1
<1> QED
  BY <1>1, <1>2, <1>3 DEF S1, S2

LEMMA FourWait ==
  ASSUME NEW c, NEW n, NEW S, Sound(c, n, S)
  PROVE  LET S2 == Append(Append(S, n + 1), n + 2) IN
         /\ Append(S, n + 1) \in Seq(Nat) /\ S2 \in Seq(Nat) /\ Append(S2, n + 3) \in Seq(Nat)
         /\ Sound(c, n + 4, Append(Append(S2, n + 3), n))
         /\ \E k \in DOMAIN Append(S2, n + 3) : Append(S2, n + 3)[k] = n + 1
         /\ \E k \in DOMAIN Append(S2, n + 3) : Append(S2, n + 3)[k] = n + 2
<1> DEFINE S1 == Append(S, n + 1)  S2 == Append(S1, n + 2)  S3 == Append(S2, n + 3)  S4 == Append(S3, n)
           k == n + 4
<1>1. /\ n \in Nat /\ n + 1 \in Nat /\ n + 2 \in Nat /\ n + 3 \in Nat /\ k \in Nat /\ S \in Seq(Nat)
      /\ \A x : NamedIn(c, x) => x < n
  BY DEF Sound, Well
<1>2. ~NamedIn(c, n) /\ ~NamedIn(c, n + 1) /\ ~NamedIn(c, n + 2) /\ ~NamedIn(c, n + 3)
  <2>1. ~(n < n) /\ ~(n + 1 < n) /\ ~(n + 2 < n) /\ ~(n + 3 < n)
    BY <1>1
  <2> QED
    BY <1>1, <2>1, Zenon
<1>3. \A z \in DOMAIN S : S[z] # n /\ S[z] # n + 1 /\ S[z] # n + 2 /\ S[z] # n + 3
  <2>1. \A z \in DOMAIN S : S[z] < n
    BY DEF Sound
  <2> QED
    BY <1>1, <2>1
<1>4. /\ n <= k /\ k <= k /\ n < k /\ n + 1 < k /\ n + 2 < k /\ n + 3 < k
      /\ n + 1 # n + 2 /\ n + 1 # n + 3 /\ n + 2 # n + 3 /\ n # n + 1 /\ n # n + 2 /\ n # n + 3
  BY <1>1
<1> HIDE DEF k
<1>5. S1 \in Seq(Nat) /\ S2 \in Seq(Nat) /\ S3 \in Seq(Nat)
  BY <1>1, AppendProperties
<1>6. /\ \A y \in DOMAIN S1 : S1[y] # n /\ S1[y] # n + 2 /\ S1[y] # n + 3
      /\ \E y \in DOMAIN S1 : S1[y] = n + 1
  <2>1. /\ \A y \in DOMAIN S1 : S1[y] = n + 1 \/ \E z \in DOMAIN S : S1[y] = S[z]
        /\ \E y \in DOMAIN S1 : S1[y] = n + 1
    BY <1>1, Values
  <2> HIDE DEF S1
  <2> QED
    BY <1>3, <1>4, <2>1
<1>7. Sound(c, k, S1)
  BY <1>1, <1>2, <1>3, <1>4, Waits
<1> HIDE DEF S1
<1>8. /\ \A y \in DOMAIN S2 : S2[y] # n /\ S2[y] # n + 3
      /\ (\E y \in DOMAIN S2 : S2[y] = n + 1) /\ \E y \in DOMAIN S2 : S2[y] = n + 2
  <2>1. /\ \A y \in DOMAIN S2 : S2[y] = n + 2 \/ \E z \in DOMAIN S1 : S2[y] = S1[z]
        /\ \E y \in DOMAIN S2 : S2[y] = n + 2
        /\ \A z \in DOMAIN S1 : \E y \in DOMAIN S2 : S2[y] = S1[z]
    BY <1>1, <1>5, Values
  <2> HIDE DEF S2
  <2> QED
    BY <1>4, <1>6, <2>1
<1>9. Sound(c, k, S2)
  BY <1>1, <1>2, <1>4, <1>6, <1>7, Waits
<1> HIDE DEF S2
<1>10. /\ \A y \in DOMAIN S3 : S3[y] # n
       /\ (\E y \in DOMAIN S3 : S3[y] = n + 1) /\ \E y \in DOMAIN S3 : S3[y] = n + 2
  <2>1. /\ \A y \in DOMAIN S3 : S3[y] = n + 3 \/ \E z \in DOMAIN S2 : S3[y] = S2[z]
        /\ \A z \in DOMAIN S2 : \E y \in DOMAIN S3 : S3[y] = S2[z]
    BY <1>1, <1>5, Values
  <2> HIDE DEF S3
  <2> QED
    BY <1>4, <1>8, <2>1
<1>11. Sound(c, k, S3)
  BY <1>1, <1>2, <1>4, <1>8, <1>9, Waits
<1> HIDE DEF S3
<1>12. Sound(c, k, S4)
  BY <1>1, <1>2, <1>4, <1>10, <1>11, Waits
<1> QED
  BY <1>5, <1>10, <1>12 DEF S1, S2, S3, k

(* LOOP_START.                                                              *)
LEMMA StartSound ==
  ASSUME NEW c, NEW n, NEW S, Sound(c, n, S), Ready(c)
  PROVE  LET c3 == Append(Append(Append(c, T!Op), T!Branch(n)), T!Label(n))
             c6 == Append(Append(Append(c3, T!LoopMerge(n + 1, n + 2)), T!Branch(n + 3)), T!Label(n + 3))
         IN Sound(c6, n + 4, Append(Append(S, n + 1), n + 2)) /\ Ready(c6)
<1> DEFINE k == n + 4
           S2 == Append(Append(S, n + 1), n + 2)  S3 == Append(S2, n + 3)  S4 == Append(S3, n)
           e1 == T!Op  e2 == T!Branch(n)  e3 == T!Label(n)  e4 == T!LoopMerge(n + 1, n + 2)
           e5 == T!Branch(n + 3)  e6 == T!Label(n + 3)
           c1 == Append(c, e1)  c2 == Append(c1, e2)  c3 == Append(c2, e3)  c4 == Append(c3, e4)
           c5 == Append(c4, e5)  c6 == Append(c5, e6)
<1>1. /\ n \in Nat /\ n + 1 \in Nat /\ n + 2 \in Nat /\ n + 3 \in Nat /\ k \in Nat /\ S \in Seq(Nat)
      /\ c \in Seq(Element)
  BY DEF Sound, Well
<1>2. e4 \in Element
  BY <1>1, Elements
<1>3. /\ e3.op = "label" /\ e4.op = "loop" /\ DOMAIN e4.ids = {1, 2} /\ Len(e4.ids) = 2 /\ e4.ids[1] = n + 1
      /\ e4.ids[2] = n + 2
  BY DEF T!Op, T!Branch, T!Label, T!LoopMerge
<1>4. Sound(c1, n, S) /\ Ready(c1)
  BY Straight
<1> HIDE DEF c1
<1>5. /\ S2 \in Seq(Nat) /\ S3 \in Seq(Nat) /\ Sound(c1, k, S4)
      /\ (\E x \in DOMAIN S3 : S3[x] = n + 1) /\ \E x \in DOMAIN S3 : S3[x] = n + 2
  BY <1>4, FourWait, Zenon
<1> HIDE DEF S2, k
<1>6. Sound(c2, k, S4) /\ c2[Len(c2)].op \in T!Terminators
  <2>1. c1[Len(c1)].op \notin T!Terminators \cup {"selection"}
    BY <1>4 DEF Ready
  <2> QED
    BY <1>1, <1>5, <2>1, BranchesTo
<1> HIDE DEF c2, e2
<1>7. Sound(c3, k, S3) /\ Ready(c3) /\ c3[Len(c3)] = e3
  BY <1>1, <1>5, <1>6, Places
<1> HIDE DEF c3, e3, e4
<1>8. Sound(c4, k, S3)
  <2>1. Suits(c3, e4)
    BY <1>3, <1>7 DEF Suits, T!Terminators
  <2> QED
    BY <1>2, <1>3, <1>5, <1>7, <2>1, Adds
<1>9. c4[Len(c4)] = e4
  <2>1. c3 \in Seq(Element)
    BY <1>7 DEF Sound, Well
  <2> QED
    BY <1>2, <2>1, Appended
<1> HIDE DEF c4
<1>10. Sound(c5, k, S3) /\ c5[Len(c5)].op \in T!Terminators
  <2>1. c4[Len(c4)].op \notin T!Terminators \cup {"selection"}
    BY <1>3, <1>9 DEF T!Terminators
  <2> QED
    BY <1>1, <1>5, <1>8, <2>1, BranchesTo
<1> HIDE DEF c5
<1>11. Sound(c6, k, S2) /\ Ready(c6)
  BY <1>1, <1>5, <1>10, Places
<1> QED
  BY <1>11 DEF c1, c2, c3, c4, c5, k, S2, e2, e3, e4

SixMore(d, c, e1, e2, e3, e4, e5, e6) ==
  /\ d = Append(Append(Append(Append(Append(Append(c, e1), e2), e3), e4), e5), e6)
  /\ d \in Seq(Element) /\ DOMAIN d = 1..(Len(c) + 6) /\ \A i \in DOMAIN c : d[i] = c[i]
  /\ d[Len(c) + 1] = e1 /\ d[Len(c) + 2] = e2 /\ d[Len(c) + 3] = e3
  /\ d[Len(c) + 4] = e4 /\ d[Len(c) + 5] = e5 /\ d[Len(c) + 6] = e6
LEMMA InPlace ==
  ASSUME NEW c \in Seq(Element), NEW e1 \in Element, NEW e2 \in Element, NEW e3 \in Element, NEW e4 \in Element,
         NEW e5 \in Element, NEW e6 \in Element, NEW d, d = c \o <<e1, e2, e3, e4, e5, e6>>
  PROVE  SixMore(d, c, e1, e2, e3, e4, e5, e6)
<1> DEFINE u == <<e1, e2, e3, e4, e5, e6>>  v == <<e1, e2, e3, e4, e5>>
<1>1. u \in Seq(Element) /\ v \in Seq(Element) /\ u = Append(v, e6) /\ Len(u) = 6
  OBVIOUS
<1>2. u[1] = e1 /\ u[2] = e2 /\ u[3] = e3 /\ u[4] = e4 /\ u[5] = e5 /\ u[6] = e6
  OBVIOUS
<1>3. c \o v = Append(Append(Append(Append(Append(c, e1), e2), e3), e4), e5)
  BY InOrder
<1>u. d = c \o u
  OBVIOUS
<1> HIDE DEF u, v
<1>4. c \o Append(v, e6) = Append(c \o v, e6)
  BY <1>1, SplitLast
<1>5. /\ d \in Seq(Element) /\ Len(d) = Len(c) + 6 /\ Len(c) \in Nat /\ DOMAIN c = 1..Len(c)
      /\ \A i \in 1..(Len(c) + 6) : d[i] = IF i <= Len(c) THEN c[i] ELSE u[i - Len(c)]
  BY <1>1, <1>u, ConcatProperties, LenProperties
<1>6. DOMAIN d = 1..(Len(c) + 6)
  BY <1>5, LenProperties
<1>7. \A i \in DOMAIN c : d[i] = c[i]
  BY <1>5
<1>8. ASSUME NEW j \in 1..6 PROVE d[Len(c) + j] = u[j]
  <2>1. Len(c) + j \in 1..(Len(c) + 6) /\ ~(Len(c) + j <= Len(c)) /\ (Len(c) + j) - Len(c) = j
    BY <1>5
  <2> QED
    BY <1>5, <2>1
<1>9. /\ d[Len(c) + 1] = u[1] /\ d[Len(c) + 2] = u[2] /\ d[Len(c) + 3] = u[3]
      /\ d[Len(c) + 4] = u[4] /\ d[Len(c) + 5] = u[5] /\ d[Len(c) + 6] = u[6]
  BY <1>8
<1>10. d = Append(Append(Append(Append(Append(Append(c, e1), e2), e3), e4), e5), e6)
  BY <1>1, <1>3, <1>4, <1>u, Zenon
<1> QED
  BY <1>2, <1>5, <1>6, <1>7, <1>9, <1>10, Zenon DEF SixMore

Starts(s, info, r) ==
  /\ info.header = s.next /\ info.merge = s.next + 1 /\ info.continue = s.next + 2 /\ info \in Info
  /\ r = [code |-> r.code, next |-> s.next + 4]
  /\ r.code = s.code \o <<T!Op, T!Branch(s.next), T!Label(s.next), T!LoopMerge(s.next + 1, s.next + 2),
                            T!Branch(s.next + 3), T!Label(s.next + 3)>>
LEMMA StartFits ==
  ASSUME NEW s, NEW S, NEW L, Fit(s, S), Nested(s.code, S, L), NEW info, NEW r, Starts(s, info, r)
  PROVE  \E R : Fit(r, R) /\ Nested(r.code, R, Append(L, info))
<1> DEFINE c == s.code  c6 == r.code  n == s.next  K == Len(L)  S2 == Append(Append(S, n + 1), n + 2)
           e1 == T!Op  e2 == T!Branch(n)  e3 == T!Label(n)  e4 == T!LoopMerge(n + 1, n + 2)
           e5 == T!Branch(n + 3)  e6 == T!Label(n + 3)
<1>1. PICK at : Outer(c, S, L, at)
  BY DEF Nested
<1>2. /\ Sound(c, n, S) /\ Ready(c) /\ c \in Seq(Element) /\ S \in Seq(Nat) /\ n \in Nat
      /\ n + 1 \in Nat /\ n + 2 \in Nat /\ n + 3 \in Nat
  BY FitIsSound
<1>3. L \in Seq(Info) /\ Len(S) = 2 * K /\ K \in Nat /\ DOMAIN L = 1..K
  <2>1. L \in Seq(Info) /\ Len(S) = 2 * K
    BY <1>1 DEF Outer
  <2> QED
    BY <2>1, LenProperties
<1>4. e1 \in Element /\ e2 \in Element /\ e3 \in Element /\ e4 \in Element /\ e5 \in Element /\ e6 \in Element
  <2>1. e1 \in Element /\ e2 \in Element /\ e3 \in Element
    BY <1>2, Elements
  <2>2. e4 \in Element
    BY <1>2, Elements
  <2>3. e5 \in Element /\ e6 \in Element
    BY <1>2, Elements
  <2> QED
    BY <2>1, <2>2, <2>3
<1>5. /\ e1.op = "op" /\ e2.op = "branch" /\ e3.op = "label" /\ e3.ids[1] = n /\ e5.op = "branch" /\ e6.op = "label"
  BY DEF T!Op, T!Branch, T!Label
<1>r. c6 = c \o <<e1, e2, e3, e4, e5, e6>>
  BY DEF Starts
<1>f. r = [code |-> c6, next |-> n + 4] /\ info.header = n /\ info.merge = n + 1 /\ info.continue = n + 2 /\ info \in Info
  BY DEF Starts
<1> HIDE DEF c, n, c6
<1> HIDE DEF e1, e2, e3, e4, e5, e6
<1>6. /\ c6 = Append(Append(Append(Append(Append(Append(c, e1), e2), e3), e4), e5), e6)
      /\ DOMAIN c6 = 1..(Len(c) + 6) /\ \A i \in DOMAIN c : c6[i] = c[i]
      /\ c6[Len(c) + 1] = e1 /\ c6[Len(c) + 2] = e2 /\ c6[Len(c) + 3] = e3
      /\ c6[Len(c) + 4] = e4 /\ c6[Len(c) + 5] = e5 /\ c6[Len(c) + 6] = e6
  <2>1. SixMore(c6, c, e1, e2, e3, e4, e5, e6)
    BY <1>2, <1>4, <1>r, InPlace
  <2> QED
    BY <2>1, Zenon DEF SixMore
<1>7. Sound(c6, n + 4, S2) /\ Ready(c6)
  <2>1. LET x3 == Append(Append(Append(c, T!Op), T!Branch(n)), T!Label(n))
            x6 == Append(Append(Append(x3, T!LoopMerge(n + 1, n + 2)), T!Branch(n + 3)), T!Label(n + 3))
        IN Sound(x6, n + 4, S2) /\ Ready(x6)
    BY <1>2, StartSound
  <2> QED
    BY <1>6, <2>1 DEF e1, e2, e3, e4, e5, e6
<1>21. Fit(r, S2)
  BY <1>7, <1>f, SoundFits
<1>9. /\ Len(S2) = Len(S) + 2 /\ S2[Len(S) + 1] = n + 1 /\ S2[Len(S) + 2] = n + 2
      /\ DOMAIN S = 1..Len(S) /\ \A z \in DOMAIN S : S2[z] = S[z]
  BY <1>2, TwoMore
<1>l. Len(c) \in Nat /\ DOMAIN c = 1..Len(c)
  BY <1>2, LenProperties
<1> HIDE DEF K, S2
<1> DEFINE A == Len(c) + 4  M == Append(L, info)  ax == [d \in 1..(K + 1) |-> IF d = K + 1 THEN A ELSE at[d]]
<1>8. A \in DOMAIN c6 /\ A - 1 = Len(c) + 3 /\ A - 1 \in DOMAIN c6 /\ A \in Nat /\ \A i \in DOMAIN c : i < A
  BY <1>6, <1>l
<1>22. /\ Len(c) \in Nat /\ DOMAIN c = 1..Len(c) /\ DOMAIN c6 = 1..(Len(c) + 6)
       /\ (\A i \in DOMAIN c : c6[i] = c[i]) /\ c6[Len(c) + 1] = e1 /\ c6[Len(c) + 2] = e2
       /\ c6[Len(c) + 3] = e3 /\ c6[A] = e4 /\ c6[Len(c) + 5] = e5 /\ c6[Len(c) + 6] = e6
  BY <1>6, <1>l
<1>23. Outer(c6, S2, M, ax)
  <2>1. M \in Seq(Info) /\ Len(M) = K + 1 /\ DOMAIN M = 1..(K + 1) /\ M[K + 1] = info /\ \A x \in DOMAIN L : M[x] = L[x]
    BY <1>3, <1>f, AppendProperties, LenProperties DEF K
  <2>2. \A x, p : Labelled(c, x, p) => Labelled(c6, x, p) /\ p \in DOMAIN c6
    BY <1>22 DEF Labelled
  <2>3. \A d \in DOMAIN L : ax[d] = at[d] /\ at[d] \in DOMAIN c /\ at[d] < A
    <3>1. \A d \in DOMAIN L : at[d] \in DOMAIN c
      BY <1>1 DEF Outer
    <3>2. \A d \in DOMAIN L : ax[d] = at[d]
      BY <1>3
    <3> HIDE DEF ax, A
    <3> QED
      BY <1>8, <3>1, <3>2
  <2>4. ax[K + 1] = A
    BY <1>3
  <2> HIDE DEF ax, M
  <2>5. ASSUME NEW d \in DOMAIN M
        PROVE  /\ S2[2 * d - 1] = M[d].merge /\ S2[2 * d] = M[d].continue
               /\ ax[d] \in DOMAIN c6 /\ c6[ax[d]] = T!LoopMerge(M[d].merge, M[d].continue)
               /\ Labelled(c6, M[d].header, ax[d] - 1)
               /\ \A e \in DOMAIN M : d < e => ax[d] < ax[e]
    <3>1. CASE d \in DOMAIN L
      <4>1. /\ S[2 * d - 1] = L[d].merge /\ S[2 * d] = L[d].continue
            /\ at[d] \in DOMAIN c /\ c[at[d]] = T!LoopMerge(L[d].merge, L[d].continue)
            /\ Labelled(c, L[d].header, at[d] - 1)
            /\ \A e \in DOMAIN L : d < e => at[d] < at[e]
        BY <1>1, <3>1, Zenon DEF Outer
      <4>2. S2[2 * d - 1] = S[2 * d - 1] /\ S2[2 * d] = S[2 * d]
        <5>1. 2 * d - 1 \in DOMAIN S /\ 2 * d \in DOMAIN S
          <6>1. d \in Int /\ 1 <= d /\ d <= K /\ K \in Nat /\ DOMAIN S = 1..(2 * K)
            BY <1>3, <1>9, <3>1
          <6> QED
            BY <6>1
        <5> QED
          BY <1>9, <5>1
      <4>3. \A e \in DOMAIN M : e \in DOMAIN L \/ e = K + 1
        BY <1>3, <2>1
      <4>4. at[d] \in DOMAIN c6 /\ c6[at[d]] = c[at[d]]
        BY <1>22, <4>1
      <4> QED
        BY <2>1, <2>2, <2>3, <2>4, <3>1, <4>1, <4>2, <4>3, <4>4
    <3>2. CASE d = K + 1
      <4>1. M[d] = info /\ ax[d] = A
        BY <2>1, <2>4, <3>2
      <4>2. S2[2 * d - 1] = n + 1 /\ S2[2 * d] = n + 2
        <5>1. 2 * d - 1 = Len(S) + 1 /\ 2 * d = Len(S) + 2
          BY <1>3, <3>2
        <5> QED
          BY <1>9, <5>1
      <4>3. A \in DOMAIN c6 /\ A - 1 = Len(c) + 3 /\ A - 1 \in DOMAIN c6
        BY <1>8
      <4>4. Labelled(c6, n, A - 1)
        BY <1>5, <1>22, <4>3 DEF Labelled
      <4>5. \A e \in DOMAIN M : ~(d < e)
        BY <1>3, <2>1, <3>2
      <4> QED
        BY <1>22, <1>f, <4>1, <4>2, <4>3, <4>4, <4>5 DEF e4
    <3> QED
      BY <1>3, <2>1, <3>1, <3>2
  <2>6. ASSUME NEW m \in DOMAIN c6, c6[m].op = "loop"
        PROVE  (\E p \in DOMAIN c6 : Labelled(c6, c6[m].ids[1], p)) \/ \E d \in DOMAIN M : m = ax[d]
    <3>1. m \in DOMAIN c \/ m = A
      <4>1. m \in Int /\ 1 <= m /\ m <= Len(c) + 6 /\ Len(c) \in Nat
        BY <1>22
      <4>2. \/ m <= Len(c) \/ m = Len(c) + 1 \/ m = Len(c) + 2 \/ m = Len(c) + 3 \/ m = A
            \/ m = Len(c) + 5 \/ m = Len(c) + 6
        BY <4>1, UpTo, Zenon
      <4>3. m <= Len(c) => m \in DOMAIN c
        BY <1>22, <4>1
      <4> QED
        BY <1>5, <1>22, <2>6, <4>2, <4>3, Zenon
    <3>2. CASE m \in DOMAIN c
      <4>1. c6[m] = c[m]
        BY <1>22, <3>2
      <4>2. (\E p \in DOMAIN c : Labelled(c, c[m].ids[1], p)) \/ \E d \in DOMAIN L : m = at[d]
        BY <1>1, <2>6, <3>2, <4>1 DEF Outer
      <4>3. \A d \in DOMAIN L : d \in DOMAIN M /\ ax[d] = at[d]
        BY <1>3, <2>1, <2>3
      <4> QED
        BY <2>2, <4>1, <4>2, <4>3
    <3>3. CASE m = A
      <4>1. K + 1 \in DOMAIN M
        BY <1>3, <2>1
      <4> QED
        BY <2>4, <3>3, <4>1
    <3> QED
      BY <3>1, <3>2, <3>3
  <2>7. Len(S2) = 2 * Len(M)
    BY <1>3, <1>9, <2>1
  <2> QED
    BY <2>1, <2>5, <2>6, <2>7, Zenon DEF Outer
<1> QED
  BY <1>21, <1>23 DEF Nested, c6

\* Where a shader starts.
LEMMA EntryFits ==
  /\ Fit([code |-> <<T!Label(0), T!Op>>, next |-> 1], <<>>)
  /\ Nested(<<T!Label(0), T!Op>>, <<>>, <<>>)
<1> DEFINE e == T!Label(0)  c == <<e>>  d == <<e, T!Op>>
<1>1. e \in Element /\ e.op = "label" /\ e.ids = <<0>> /\ T!Op \in Element /\ T!Op.op = "op"
  BY Elements DEF T!Label, T!Op
<1>2. c \in Seq(Element) /\ Len(c) = 1 /\ DOMAIN c = {1} /\ c[1] = e /\ d = Append(c, T!Op)
  <2> HIDE DEF e
  <2> QED
    BY <1>1
<1>3. DOMAIN e.ids = {1} /\ Len(e.ids) = 1 /\ e.ids[1] = 0
  BY <1>1
<1>d. d \in Seq(Element) /\ DOMAIN d = {1, 2} /\ d[1] = e /\ d[2] = T!Op
  <2> HIDE DEF e
  <2> QED
    BY <1>1
<1> HIDE DEF e, c, d
<1>4. \A x : NamedIn(c, x) => x = 0
  BY <1>2, <1>3 DEF NamedIn
<1>5. Labelled(c, 0, 1)
  BY <1>1, <1>2, <1>3 DEF Labelled
<1>6. Once(c, <<>>)
  <2>1. DOMAIN <<>> = {}
    OBVIOUS
  <2>2. \A x : NamedIn(c, x) => \E p \in DOMAIN c : Labelled(c, x, p)
    BY <1>2, <1>4, <1>5
  <2> QED
    BY <1>2, <2>1, <2>2 DEF Once
<1>7. Shapes(c) /\ Follow(c)
  BY <1>1, <1>2, <1>3 DEF Shapes, Follow
<1>8. Jumps(c, <<>>)
  BY <1>1, <1>2 DEF Jumps, Branches
<1>9. Well(c, <<>>)
  BY <1>2, <1>6, <1>7, <1>8 DEF Well
<1>10. Sound(c, 1, <<>>) /\ Ready(c)
  BY <1>1, <1>2, <1>4, <1>9 DEF Sound, Ready, T!Terminators
<1>11. Sound(d, 1, <<>>) /\ Ready(d)
  BY <1>2, <1>10, Straight
<1>12. Fit([code |-> d, next |-> 1], <<>>)
  BY <1>11, SoundFits
<1>13. Outer(d, <<>>, <<>>, <<>>)
  BY <1>1, <1>d DEF Outer
<1> QED
  BY <1>12, <1>13 DEF Nested, d, e

\* RETURN.
LEMMA ReturnFits ==
  ASSUME NEW s, NEW S, Fit(s, S), NEW r, r = T!Emit(T!Alloc(s, 1), <<T!ReturnVoid, T!Label(s.next)>>)
  PROVE  Fit(r, S) /\ Longer(s, r)
<1> DEFINE c == s.code  n == s.next
<1>1. /\ Sound(c, n, S) /\ Ready(c) /\ c \in Seq(Element) /\ S \in Seq(Nat) /\ n \in Nat
      /\ s = [code |-> c, next |-> n]
  BY FitIsSound
<1>2. PICK a : a = T!Alloc(s, 1)
  OBVIOUS
<1>3. r = T!Emit(a, <<T!ReturnVoid, T!Label(n)>>)
  BY <1>2
<1> HIDE DEF c, n
<1>4. a = [code |-> c, next |-> n + 1]
  <2>1. \A k : T!Alloc(s, k) = [code |-> c, next |-> n + k]
    BY <1>1, Given, Zenon
  <2> QED
    BY <1>2, <2>1
<1>5. Sound(c, n + 1, Append(S, n))
  <2>1. ~NamedIn(c, n)
    <3>1. ~(n < n)
      BY <1>1
    <3> QED
      BY <1>1, <3>1, Zenon DEF Sound
  <2>2. \A k \in DOMAIN S : S[k] # n
    <3>1. \A k \in DOMAIN S : S[k] < n
      BY <1>1 DEF Sound
    <3> QED
      BY <1>1, <3>1
  <2>3. n + 1 \in Nat /\ n <= n + 1 /\ n < n + 1
    BY <1>1
  <2> QED
    BY <1>1, <2>1, <2>2, <2>3, Waits
<1>6. Fit(a, Append(S, n))
  BY <1>1, <1>4, <1>5, SoundFits
<1>7. Longer(s, a)
  <2>1. n <= n + 1 /\ Len(c) <= Len(c)
    BY <1>1, LenProperties
  <2>2. More(c, n, c, n + 1)
    BY <2>1 DEF More
  <2>3. a.code = c /\ a.next = n + 1
    BY <1>4, Parts, Zenon
  <2> QED
    BY <2>2, <2>3 DEF Longer, c, n
<1>8. Fit(r, S) /\ Longer(a, r)
  BY <1>1, <1>3, <1>6, ClosesBlock
<1> QED
  BY <1>6, <1>7, <1>8, LongerStill

LEMMA Regroup ==
  ASSUME NEW c \in Seq(Element), NEW x \in Seq(Element), NEW y \in Seq(Element)
  PROVE  (c \o x) \o y = c \o (x \o y)
BY ConcatAssociative

\* COND_JMP outside of loops.
LEMMA JumpFits ==
  ASSUME NEW s, NEW S, Fit(s, S), NEW r,
         r = T!Emit(T!Alloc(s, 2), <<T!Op, T!SelectionMerge(s.next + 1), T!BranchConditional(s.next, s.next + 1),
                                     T!Label(s.next), T!ReturnVoid, T!Label(s.next + 1)>>)
  PROVE  Fit(r, S) /\ Longer(s, r)
<1> DEFINE c == s.code  n == s.next  m == n + 1  t == Under(s)
           x == <<T!Op, T!SelectionMerge(m), T!BranchConditional(n, m), T!Label(n)>>  y == <<T!ReturnVoid, T!Label(m)>>
<1>1. c \in Seq(Element) /\ S \in Seq(Nat) /\ n \in Nat /\ m \in Nat /\ s = [code |-> c, next |-> n]
  BY FitIsSound
<1>2. Fit(t, Append(S, m)) /\ Longer(s, t)
  BY UnderFits
<1>3. Fit(T!Emit(t, y), S) /\ Longer(t, T!Emit(t, y))
  BY <1>1, <1>2, ClosesBlock
<1>4. Longer(s, T!Emit(t, y))
  <2> HIDE DEF t, y
  <2> QED
    BY <1>2, <1>3, LongerStill
<1>5. x \in Seq(Element) /\ y \in Seq(Element)
  <2>1. {T!Op, T!SelectionMerge(m), T!BranchConditional(n, m), T!Label(n), T!ReturnVoid, T!Label(m)} \subseteq Element
    BY <1>1, Elements
  <2> QED
    BY <2>1
<1>6. <<T!Op, T!SelectionMerge(m), T!BranchConditional(n, m), T!Label(n), T!ReturnVoid, T!Label(m)>> = x \o y
  OBVIOUS
<1>7. PICK a : a = T!Alloc(s, 2)
  OBVIOUS
<1>8. r = T!Emit(a, x \o y) /\ t = T!Emit(a, x)
  BY <1>6, <1>7 DEF Under
<1> HIDE DEF c, n, m, t, x, y
<1>9. a = [code |-> c, next |-> n + 2]
  <2>1. \A k : T!Alloc(s, k) = [code |-> c, next |-> n + k]
    BY <1>1, Given, Zenon
  <2> QED
    BY <1>7, <2>1
<1>10. \A z : T!Emit(a, z) = [code |-> c \o z, next |-> n + 2]
  BY <1>9, WrittenOut, Zenon
<1>11. t = [code |-> c \o x, next |-> n + 2] /\ r = [code |-> c \o (x \o y), next |-> n + 2]
  BY <1>8, <1>10
<1>12. \A z : T!Emit(t, z) = [code |-> (c \o x) \o z, next |-> n + 2]
  <2>1. PICK d : d = c \o x
    OBVIOUS
  <2>2. t = [code |-> d, next |-> n + 2]
    BY <1>11, <2>1
  <2>3. \A z : T!Emit(t, z) = [code |-> d \o z, next |-> n + 2]
    BY <2>2, WrittenOut, Zenon
  <2> QED
    BY <2>1, <2>3
<1>13. (c \o x) \o y = c \o (x \o y)
  BY <1>1, <1>5, Regroup, Zenon
<1>14. r = T!Emit(t, y)
  BY <1>11, <1>12, <1>13
<1> QED
  BY <1>3, <1>4, <1>14

\* COND_JMP in a loop: out of it.
LEMMA LeaveFits ==
  ASSUME NEW s, NEW S, NEW L, Fit(s, S), Nested(s.code, S, L), L # <<>>, NEW merge, merge = L[Len(L)].merge, NEW r,
         r = T!Emit(T!Alloc(s, 1), <<T!Op, T!SelectionMerge(s.next), T!BranchConditional(merge, s.next), T!Label(s.next)>>)
  PROVE  Fit(r, S) /\ Longer(s, r)
<1> DEFINE c == s.code  n == s.next  k == n + 1  K == Len(L)  S1 == Append(S, n)
           e1 == T!Op  e2 == T!SelectionMerge(n)  e3 == T!BranchConditional(merge, n)  e4 == T!Label(n)
           c1 == Append(c, e1)  c2 == Append(c1, e2)  c3 == Append(c2, e3)  c4 == Append(c3, e4)
<1>1. PICK at : Outer(c, S, L, at)
  BY DEF Nested
<1>2. /\ Sound(c, n, S) /\ Ready(c) /\ c \in Seq(Element) /\ S \in Seq(Nat) /\ n \in Nat /\ k \in Nat
      /\ s = [code |-> c, next |-> n]
  BY FitIsSound
<1>3. K \in Nat \ {0} /\ K \in DOMAIN L /\ merge \in Nat /\ 2 * K - 1 \in DOMAIN S /\ S[2 * K - 1] = merge
  <2>1. L \in Seq(Info) /\ Len(S) = 2 * K
    BY <1>1 DEF Outer
  <2>2. K \in Nat \ {0} /\ K \in DOMAIN L
    BY <2>1, EmptySeq, LenProperties
  <2>3. L[K] \in Info
    BY <2>1, <2>2, ElementOfSeq, LenProperties
  <2>4. 2 * K - 1 \in DOMAIN S
    <3>1. DOMAIN S = 1..(2 * K)
      BY <1>2, <2>1, LenProperties
    <3> QED
      BY <2>2, <3>1
  <2>5. S[2 * K - 1] = merge
    BY <1>1, <2>2 DEF Outer
  <2> QED
    BY <2>2, <2>3, <2>4, <2>5 DEF Info
<1>4. e1 \in Element /\ e2 \in Element /\ e3 \in Element /\ e4 \in Element
  BY <1>2, <1>3, Elements
<1>5. /\ e1.op = "op" /\ e2.op = "selection" /\ DOMAIN e2.ids = {1} /\ e2.ids[1] = n /\ Len(e2.ids) = 1
      /\ e3.op = "cond" /\ DOMAIN e3.ids = {1, 2} /\ e3.ids[1] = merge /\ e3.ids[2] = n
      /\ e4.op = "label"
  BY DEF T!Op, T!SelectionMerge, T!BranchConditional, T!Label
<1>6. PICK a : a = T!Alloc(s, 1)
  OBVIOUS
<1>7. r = T!Emit(a, <<e1, e2, e3, e4>>)
  BY <1>6
<1>8. S1 \in Seq(Nat) /\ c1 \in Seq(Element) /\ c2 \in Seq(Element) /\ c3 \in Seq(Element) /\ c4 \in Seq(Element)
  BY <1>2, <1>4, AppendProperties
<1> HIDE DEF c, n, K, e1, e2, e3, e4
<1>9. r = [code |-> c4, next |-> k]
  <2>1. \A j : T!Alloc(s, j) = [code |-> c, next |-> n + j]
    BY <1>2, Given, Zenon
  <2>2. a = [code |-> c, next |-> k]
    BY <1>6, <2>1
  <2>3. \A z : T!Emit(a, z) = [code |-> c \o z, next |-> k]
    <3> HIDE DEF k
    <3> QED
      BY <2>2, WrittenOut, Zenon
  <2>4. c \o <<e1, e2, e3, e4>> = c4
    BY <1>2, <1>4, InOrder
  <2> HIDE DEF c4
  <2> QED
    BY <1>7, <2>3, <2>4
<1> HIDE DEF k
<1>10. Sound(c1, n, S) /\ Ready(c1)
  BY <1>2, Straight DEF e1
<1> HIDE DEF c1
<1>11. Sound(c1, k, S1)
  <2>1. ~NamedIn(c1, n)
    <3>1. ~(n < n)
      BY <1>2
    <3> QED
      BY <1>10, <3>1, Zenon DEF Sound
  <2>2. \A j \in DOMAIN S : S[j] # n
    <3>1. \A j \in DOMAIN S : S[j] < n
      BY <1>2 DEF Sound
    <3> QED
      BY <1>2, <3>1
  <2>3. n <= k /\ n < k
    BY <1>2 DEF k
  <2> QED
    BY <1>2, <1>10, <2>1, <2>2, <2>3, Waits
<1>12. /\ (\E j \in DOMAIN S1 : S1[j] = n) /\ \E j \in DOMAIN S1 : S1[j] = merge
  <2>1. /\ (\E j \in DOMAIN S1 : S1[j] = n) /\ \A z \in DOMAIN S : \E j \in DOMAIN S1 : S1[j] = S[z]
    BY <1>2, Values, Zenon
  <2> QED
    BY <1>3, <2>1, Zenon
<1> HIDE DEF S1
<1>13. Sound(c2, k, S1) /\ c2[Len(c2)] = e2
  <2>1. Suits(c1, e2)
    BY <1>5, <1>10 DEF Suits, Ready
  <2>2. Sound(c2, k, S1)
    BY <1>4, <1>5, <1>11, <1>12, <2>1, Adds
  <2>3. c2[Len(c2)] = e2
    BY <1>4, <1>8, Appended
  <2> QED
    BY <2>2, <2>3
<1>14. /\ Len(c) \in Nat /\ Len(c2) = Len(c) + 2 /\ Len(c3) = Len(c) + 3 /\ Len(c4) = Len(c) + 4
       /\ DOMAIN c = 1..Len(c) /\ DOMAIN c2 = 1..(Len(c) + 2)
       /\ DOMAIN c3 = 1..(Len(c) + 3) /\ DOMAIN c4 = 1..(Len(c) + 4)
       /\ DOMAIN c1 = 1..(Len(c) + 1)
  BY <1>2, <1>4, <1>8, Appended DEF c1
<1>15. /\ (\A i \in DOMAIN c : c1[i] = c[i]) /\ c1[Len(c) + 1] = e1 /\ (\A i \in DOMAIN c1 : c2[i] = c1[i]) /\ c2[Len(c) + 2] = e2
       /\ (\A i \in DOMAIN c2 : c3[i] = c2[i]) /\ c3[Len(c) + 3] = e3 /\ (\A i \in DOMAIN c3 : c4[i] = c3[i]) /\ c4[Len(c) + 4] = e4
  <2>1. (\A i \in DOMAIN c : c1[i] = c[i]) /\ c1[Len(c) + 1] = e1
    BY <1>2, <1>4, Appended DEF c1
  <2>2. (\A i \in DOMAIN c1 : c2[i] = c1[i]) /\ c2[Len(c1) + 1] = e2
    BY <1>4, <1>8, Appended
  <2>3. Len(c1) + 1 = Len(c) + 2
    BY <1>2, <1>4, <1>14, Appended DEF c1
  <2> HIDE DEF c2
  <2>4. (\A i \in DOMAIN c2 : c3[i] = c2[i]) /\ c3[Len(c2) + 1] = e3
    BY <1>4, <1>8, Appended
  <2> HIDE DEF c3
  <2>5. (\A i \in DOMAIN c3 : c4[i] = c3[i]) /\ c4[Len(c3) + 1] = e4
    BY <1>4, <1>8, Appended
  <2> HIDE DEF c4
  <2>6. Len(c2) + 1 = Len(c) + 3 /\ Len(c3) + 1 = Len(c) + 4
    BY <1>14
  <2> QED
    BY <2>1, <2>2, <2>3, <2>4, <2>5, <2>6
<1> HIDE DEF c2, c3, c4
<1>16. More(c, n, c3, n) /\ More(c, n, c4, k)
  <2>1. \A i \in DOMAIN c : i \in DOMAIN c1 /\ i \in DOMAIN c2 /\ i \in DOMAIN c3 /\ i \in DOMAIN c4
    BY <1>14
  <2>2. \A i \in DOMAIN c : c3[i] = c[i] /\ c4[i] = c[i]
    BY <1>15, <2>1
  <2>3. \A i \in DOMAIN c3 : c3[i].op = "loop" => i \in DOMAIN c
    <3>1. ASSUME NEW i \in DOMAIN c3 PROVE i \in DOMAIN c \/ c3[i] \in {e1, e2, e3}
      <4>1. i = Len(c) + 3 \/ i \in DOMAIN c2
        BY <1>14
      <4>2. i \in DOMAIN c2 => i = Len(c) + 2 \/ i \in DOMAIN c1
        BY <1>14
      <4>3. i \in DOMAIN c1 => i = Len(c) + 1 \/ i \in DOMAIN c
        BY <1>14
      <4>4. i = Len(c) + 1 => i \in DOMAIN c1 /\ i \in DOMAIN c2
        BY <1>14
      <4>5. i = Len(c) + 2 => i \in DOMAIN c2
        BY <1>14
      <4> QED
        BY <1>15, <4>1, <4>2, <4>3, <4>4, <4>5
    <3> QED
      BY <1>5, <3>1
  <2>4. \A i \in DOMAIN c4 : c4[i].op = "loop" => i \in DOMAIN c
    <3>1. \A i \in DOMAIN c4 : i \in DOMAIN c3 \/ i = Len(c) + 4
      BY <1>14
    <3> QED
      BY <1>5, <1>15, <2>3, <3>1
  <2>5. n <= n /\ n <= k /\ Len(c) <= Len(c3) /\ Len(c) <= Len(c4)
    BY <1>2, <1>14 DEF k
  <2> QED
    BY <2>1, <2>2, <2>3, <2>4, <2>5 DEF More
<1>17. \A p : ~Labelled(c3, merge, p)
  <2>1. \A p : ~Labelled(c2, merge, p)
    <3>1. Once(c2, S1)
      BY <1>13 DEF Sound, Well
    <3> QED
      BY <1>12, <3>1 DEF Once, Labelled
  <2>2. \A i \in DOMAIN c3 : i \in DOMAIN c2 \/ i = Len(c) + 3
    BY <1>14
  <2> QED
    BY <1>5, <1>15, <2>1, <2>2 DEF Labelled
<1>18. Len(c2) + 1 \in Nat /\ Len(c) < Len(c2) + 1
  BY <1>14
<1> DEFINE l == at[Len(L)]
<1>19. Innermost(c3, Len(c2) + 1, l) /\ l \in DOMAIN c3 /\ c3[l].ids[1] = merge
  BY <1>1, <1>2, <1>8, <1>16, <1>17, <1>18, InnerLoop
<1> HIDE DEF l
<1>20. Jump(c3, S1, Len(c2) + 1, merge)
  <2>1. ~Behind(c3, Len(c2) + 1, merge)
    BY <1>17 DEF Behind
  <2>2. Leaves(c3, Len(c2) + 1, merge)
    BY <1>19 DEF Leaves
  <2> QED
    BY <2>1, <2>2 DEF Jump
<1>21. Jump(c3, S1, Len(c2) + 1, n)
  <2>1. Len(S) + 1 \in DOMAIN S1 /\ S1[Len(S) + 1] = n /\ \A y \in DOMAIN S1 : ~(Len(S) + 1 < y)
    BY <1>2, AppendProperties, LenProperties DEF S1
  <2>2. Well(c2, S1)
    BY <1>13 DEF Sound
  <2> QED
    BY <1>4, <1>5, <2>1, <2>2, JumpTo DEF c3
<1>22. Sound(c3, k, S1)
  <2>1. Suits(c2, e3)
    BY <1>5, <1>13 DEF Suits, T!Terminators
  <2> QED
    BY <1>4, <1>5, <1>12, <1>13, <1>20, <1>21, <2>1, Adds DEF c3
<1>23. Sound(c4, k, S) /\ Ready(c4)
  <2>1. c3[Len(c3)].op \in T!Terminators
    BY <1>5, <1>14, <1>15 DEF T!Terminators
  <2> QED
    BY <1>2, <1>22, <2>1, Places DEF c4, e4, S1
<1>24. Fit(r, S)
  BY <1>9, <1>23, SoundFits
<1>25. r.code = c4 /\ r.next = k
  BY <1>9
<1> QED
  BY <1>16, <1>24, <1>25 DEF Longer, c, n

(* The translator's state: the code so far is well formed but for the       *)
(* labels that the open loops wait for; at the end none is missing.         *)
Open == \E S : Fit(T!Now, S) /\ Nested(spirv, S, loop_stack)
Closed == Well(spirv, <<>>) /\ spirv[Len(spirv)].op = "return"
ShaderInv == (~ended => Open) /\ (ended => Closed)

LEMMA Stays ==
  ASSUME NEW S, NEW r, Fit(T!Now, S), Nested(spirv, S, loop_stack), Fit(r, S), Longer(T!Now, r),
         T!Append_(r), loop_stack' = loop_stack
  PROVE  Open'
<1>1. T!Now.code = spirv
  BY DEF T!Now
<1>2. Nested(r.code, S, loop_stack)
  <2>1. Nested(T!Now.code, S, loop_stack)
    BY <1>1
  <2> QED
    BY <2>1, NestedStill, Zenon
<1>3. spirv' = r.code /\ next_id_' = r.next
  BY DEF T!Append_
<1>4. r = [code |-> r.code, next |-> r.next]
  BY FitIsSound, Parts DEF Fit
<1>5. T!Now' = r
  BY <1>3, <1>4 DEF T!Now
<1>6. Fit(T!Now', S) /\ Nested(spirv', S, loop_stack')
  BY <1>2, <1>3, <1>5
<1> QED
  BY <1>6 DEF Open

LEMMA EndCloses ==
  ASSUME NEW s, NEW S, Fit(s, S), NEW L, Nested(s.code, S, L), L = <<>>,
         NEW d, d = s.code \o <<T!Op, T!ReturnVoid>>
  PROVE  Well(d, <<>>) /\ d[Len(d)].op = "return"
<1> DEFINE c == s.code  c1 == Append(c, T!Op)
<1>1. Sound(c, s.next, S) /\ Ready(c) /\ c \in Seq(Element) /\ S \in Seq(Nat)
  BY FitIsSound
<1>2. T!Op \in Element /\ T!ReturnVoid \in Element /\ T!ReturnVoid.op = "return" /\ DOMAIN T!ReturnVoid.ids = {}
  BY Elements DEF T!ReturnVoid
<1>3. S = <<>>
  <2>1. PICK at : Outer(c, S, L, at)
    BY DEF Nested
  <2>2. Len(S) = 0
    BY <2>1 DEF Outer
  <2> QED
    BY <1>1, <2>2
<1>4. d = Append(c1, T!ReturnVoid) /\ c1 \in Seq(Element)
  BY <1>1, <1>2, OneByOne, AppendProperties
<1> HIDE DEF c
<1>5. Sound(c1, s.next, S) /\ Ready(c1)
  BY <1>1, Straight
<1> HIDE DEF c1
<1>6. Sound(Append(c1, T!ReturnVoid), s.next, S)
  <2>1. Suits(c1, T!ReturnVoid)
    BY <1>2, <1>5 DEF Suits, Ready
  <2> QED
    BY <1>2, <1>5, <2>1, Adds
<1>7. d[Len(d)] = T!ReturnVoid
  BY <1>2, <1>4, Appended
<1> QED
  BY <1>2, <1>3, <1>4, <1>6, <1>7 DEF Sound

LEMMA ShaderStep ==
  ASSUME \A clause \in Clause : Len(clause) \in Nat, ShaderInv, [T!Next]_(T!svars)
  PROVE  ShaderInv'
<1> DEFINE L == loop_stack
<1>a. ASSUME NEW r, ~ended, ended' = ended, T!Append_(r), loop_stack' = loop_stack,
             \A S : Fit(T!Now, S) /\ Nested(spirv, S, loop_stack) => Fit(r, S) /\ Longer(T!Now, r)
      PROVE  ShaderInv'
  <2>1. PICK S : Fit(T!Now, S) /\ Nested(spirv, S, loop_stack)
    BY <1>a DEF ShaderInv, Open
  <2>2. Fit(r, S) /\ Longer(T!Now, r)
    BY <1>a, <2>1
  <2>3. Open'
    BY <1>a, <2>1, <2>2, Stays
  <2> QED
    BY <1>a, <2>3 DEF ShaderInv
<1>n. T!Now.code = spirv /\ T!Now.next = next_id_
  BY DEF T!Now
<1>b. T!Plain => ~ended /\ ended' = ended /\ loop_stack' = loop_stack
  BY DEF T!Plain, T!Taken
<1>1. CASE T!Skip
  <2>1. UNCHANGED <<spirv, next_id_, loop_stack, ended>>
    BY <1>1 DEF T!Skip, T!Plain, T!Taken
  <2> QED
    BY <2>1 DEF ShaderInv, Open, Closed, T!Now
<1>2. ASSUME NEW clause \in Clause, T!Exec(clause) PROVE ShaderInv'
  <2>1. T!Append_(T!ExecClause(T!Now, clause)) /\ T!Plain
    BY <1>2 DEF T!Exec
  <2>2. \A S : Fit(T!Now, S) => Fit(T!ExecClause(T!Now, clause), S) /\ Longer(T!Now, T!ExecClause(T!Now, clause))
    BY ClauseFits
  <2> QED
    BY <1>a, <1>b, <2>1, <2>2
<1>c. \A clause \in Clause : \A S : Fit(T!Now, S) =>
        Fit(T!Guarded(T!Now, clause), S) /\ Longer(T!Now, T!Guarded(T!Now, clause))
  BY GuardedFits
<1>3. ASSUME NEW clause \in Clause, T!CondExec(clause) \/ T!CondCall(clause) PROVE ShaderInv'
  <2>1. T!Append_(T!Guarded(T!Now, clause)) /\ T!Plain
    BY <1>3 DEF T!CondExec, T!CondCall
  <2> QED
    BY <1>a, <1>b, <1>c, <2>1
<1>4. ASSUME NEW clause \in Clause, T!CondExecPredClean(clause) PROVE ShaderInv'
  <2> DEFINE g == T!Guarded(T!Now, clause)  r == T!Emit(g, <<T!Op>>)
  <2>1. T!Append_(r) /\ T!Plain
    BY <1>4 DEF T!CondExecPredClean
  <2>2. ASSUME NEW S, Fit(T!Now, S) PROVE Fit(r, S) /\ Longer(T!Now, r)
    <3>1. Fit(g, S) /\ Longer(T!Now, g)
      BY <1>c, <2>2
    <3> HIDE DEF g
    <3>2. Fit(r, S) /\ Longer(g, r)
      BY <3>1, OpFits
    <3> QED
      BY <2>2, <3>1, <3>2, LongerStill
  <2> HIDE DEF r
  <2> QED
    BY <1>a, <1>b, <2>1, <2>2
<1>5. CASE T!Return
  <2> DEFINE r == T!Emit(T!Alloc(T!Now, 1), <<T!ReturnVoid, T!Label(T!Now.next)>>)
  <2>1. T!Append_(r) /\ T!Plain
    BY <1>5, <1>n DEF T!Return
  <2>2. \A S : Fit(T!Now, S) => Fit(r, S) /\ Longer(T!Now, r)
    BY ReturnFits
  <2> HIDE DEF r
  <2> QED
    BY <1>a, <1>b, <2>1, <2>2
<1>6. CASE T!CondJmp /\ L = <<>>
  <2> DEFINE s == T!Now
             r == T!Emit(T!Alloc(s, 2), <<T!Op, T!SelectionMerge(s.next + 1), T!BranchConditional(s.next, s.next + 1),
                                          T!Label(s.next), T!ReturnVoid, T!Label(s.next + 1)>>)
  <2>1. T!Append_(r) /\ T!Plain
    BY <1>6, <1>n DEF T!CondJmp
  <2>2. \A S : Fit(T!Now, S) => Fit(r, S) /\ Longer(T!Now, r)
    BY JumpFits
  <2> HIDE DEF r
  <2> QED
    BY <1>a, <1>b, <2>1, <2>2
<1>7. CASE T!CondJmp /\ L # <<>>
  <2> DEFINE s == T!Now  merge == L[Len(L)].merge
             r == T!Emit(T!Alloc(s, 1), <<T!Op, T!SelectionMerge(s.next), T!BranchConditional(merge, s.next),
                                          T!Label(s.next)>>)
  <2>1. T!Append_(r) /\ T!Plain
    BY <1>7, <1>n DEF T!CondJmp, T!Last
  <2>2. \A S : Fit(T!Now, S) /\ Nested(spirv, S, loop_stack) => Fit(r, S) /\ Longer(T!Now, r)
    BY <1>7, <1>n, LeaveFits
  <2> HIDE DEF r
  <2> QED
    BY <1>a, <1>b, <2>1, <2>2
<1>8. CASE T!LoopStart
  <2> DEFINE s == T!Now  info == [header |-> s.next, merge |-> s.next + 1, continue |-> s.next + 2]
             r == T!Emit(T!Alloc(s, 4), <<T!Op, T!Branch(s.next), T!Label(s.next), T!LoopMerge(s.next + 1, s.next + 2),
                                          T!Branch(s.next + 3), T!Label(s.next + 3)>>)
  <2>1. T!Append_(r) /\ ~ended /\ ended' = ended /\ loop_stack' = Append(L, info)
    BY <1>8, <1>n DEF T!LoopStart, T!Taken
  <2>2. PICK S : Fit(s, S) /\ Nested(s.code, S, L)
    BY <1>n, <2>1 DEF ShaderInv, Open
  <2>3. s.next \in Nat /\ s = [code |-> s.code, next |-> s.next]
    BY <2>2, FitIsSound
  <2>4. r = [code |-> r.code, next |-> s.next + 4]
        /\ r.code = s.code \o <<T!Op, T!Branch(s.next), T!Label(s.next), T!LoopMerge(s.next + 1, s.next + 2),
                                 T!Branch(s.next + 3), T!Label(s.next + 3)>>
    <3> HIDE DEF s
    <3>1. \A k : T!Alloc(s, k) = [code |-> s.code, next |-> s.next + k]
      BY <2>3, Given, Zenon
    <3>2. PICK a, x : a = T!Alloc(s, 4) /\ x = <<T!Op, T!Branch(s.next), T!Label(s.next), T!LoopMerge(s.next + 1, s.next + 2),
                                 T!Branch(s.next + 3), T!Label(s.next + 3)>>
      OBVIOUS
    <3>3. PICK k : k = s.next + 4
      OBVIOUS
    <3>4. a = [code |-> s.code, next |-> k]
      BY <3>1, <3>2, <3>3
    <3>5. T!Emit(a, x) = [code |-> s.code \o x, next |-> k]
      BY <3>4, WrittenOut, Zenon
    <3>6. r = [code |-> s.code \o x, next |-> k]
      BY <3>2, <3>5
    <3>7. r.code = s.code \o x /\ r = [code |-> r.code, next |-> k]
      <4> HIDE DEF r
      <4> QED
        BY <3>6
    <3> QED
      BY <3>2, <3>3, <3>7
  <2>5. Starts(s, info, r)
    <3>1. info \in Info /\ info.header = s.next /\ info.merge = s.next + 1 /\ info.continue = s.next + 2
      BY <2>3 DEF Info
    <3> HIDE DEF info, r, s
    <3> QED
      BY <2>4, <3>1 DEF Starts
  <2> HIDE DEF info, r
  <2>6. PICK R : Fit(r, R) /\ Nested(r.code, R, Append(L, info))
    BY <2>2, <2>5, StartFits
  <2>7. T!Now' = r /\ spirv' = r.code
    <3>1. r = [code |-> r.code, next |-> r.next]
      BY <2>6 DEF Fit
    <3> QED
      BY <2>1, <3>1 DEF T!Append_, T!Now
  <2>8. Fit(T!Now', R) /\ Nested(spirv', R, loop_stack')
    BY <2>1, <2>6, <2>7
  <2> QED
    BY <2>1, <2>8 DEF ShaderInv, Open
<1>9. CASE T!LoopEnd /\ L = <<>>
  <2>1. UNCHANGED <<spirv, next_id_, loop_stack, ended>>
    BY <1>9 DEF T!LoopEnd, T!Taken
  <2> QED
    BY <2>1 DEF ShaderInv, Open, Closed, T!Now
<1>10. CASE T!LoopEnd /\ L # <<>>
  <2> DEFINE s == T!Now  info == L[Len(L)]
             x == <<T!Branch(info.continue), T!Label(info.continue), T!Op,
                    T!BranchConditional(info.header, info.merge), T!Label(info.merge)>>
             r == T!Emit(s, x)
  <2>1. T!Append_(r) /\ ~ended /\ ended' = ended /\ loop_stack' = SubSeq(L, 1, Len(L) - 1)
    BY <1>10 DEF T!LoopEnd, T!Taken, T!Last, T!Front
  <2>2. PICK S : Fit(s, S) /\ Nested(s.code, S, L)
    BY <1>n, <2>1 DEF ShaderInv, Open
  <2>3. s = [code |-> s.code, next |-> s.next]
    BY <2>2, FitIsSound
  <2>4. r = [code |-> s.code \o x, next |-> s.next]
    <3> HIDE DEF s, x
    <3>1. \A z : T!Emit(s, z) = [code |-> s.code \o z, next |-> s.next]
      BY <2>3, WrittenOut, Zenon
    <3> QED
      BY <3>1
  <2> HIDE DEF r, s
  <2>5. PICK R : Fit(r, R) /\ Nested(r.code, R, SubSeq(L, 1, Len(L) - 1))
    BY <1>10, <2>2, <2>4, EndFits
  <2>6. T!Now' = r /\ spirv' = r.code
    <3>1. r = [code |-> r.code, next |-> r.next]
      BY <2>5 DEF Fit
    <3> QED
      BY <2>1, <3>1 DEF T!Append_, T!Now
  <2>7. Fit(T!Now', R) /\ Nested(spirv', R, loop_stack')
    BY <2>1, <2>5, <2>6
  <2> QED
    BY <2>1, <2>7 DEF ShaderInv, Open
<1>11. CASE T!EndOfShader
  <2>1. ~ended /\ loop_stack = <<>> /\ ended' = TRUE /\ spirv' = spirv \o <<T!Op, T!ReturnVoid>>
    BY <1>11 DEF T!EndOfShader
  <2>2. PICK S : Fit(T!Now, S) /\ Nested(spirv, S, loop_stack)
    BY <2>1 DEF ShaderInv, Open
  <2>3. Well(spirv', <<>>) /\ spirv'[Len(spirv')].op = "return"
    <3>1. Nested(T!Now.code, S, loop_stack) /\ spirv' = T!Now.code \o <<T!Op, T!ReturnVoid>>
      BY <1>n, <2>1, <2>2
    <3> QED
      BY <2>1, <2>2, <3>1, EndCloses
  <2> QED
    BY <2>1, <2>3 DEF ShaderInv, Closed
<1>12. ASSUME NEW t \in {"vertex", "pixel"}, T!NextShader(t) PROVE ShaderInv'
  <2>1. T!Now' = [code |-> <<T!Label(0), T!Op>>, next |-> 1] /\ loop_stack' = <<>> /\ ended' = FALSE
        /\ spirv' = <<T!Label(0), T!Op>>
    BY <1>12 DEF T!NextShader, T!Now
  <2>2. Fit(T!Now', <<>>) /\ Nested(spirv', <<>>, loop_stack')
    BY <2>1, EntryFits
  <2> QED
    BY <2>1, <2>2 DEF ShaderInv, Open
<1>13. CASE UNCHANGED T!svars
  BY <1>13 DEF T!svars, ShaderInv, Open, Closed, T!Now
<1> QED
  BY <1>1, <1>2, <1>3, <1>4, <1>5, <1>6, <1>7, <1>8, <1>9, <1>10, <1>11, <1>12, <1>13 DEF T!Next

(* What the rules of structured control flow say of code that is closed.    *)
LEMMA ClosedParts ==
  ASSUME Closed
  PROVE  /\ spirv \in Seq(Element) /\ Len(spirv) \in Nat /\ DOMAIN spirv = 1..Len(spirv) /\ Len(spirv) >= 1
         /\ Shapes(spirv) /\ Follow(spirv) /\ Once(spirv, <<>>) /\ Jumps(spirv, <<>>)
         /\ spirv[Len(spirv)].op = "return" /\ Len(spirv) \in DOMAIN spirv
         /\ \A i \in DOMAIN spirv : spirv[i] \in Element /\ spirv[i].ids \in Seq(Nat)
                                   /\ DOMAIN spirv[i].ids = 1..Len(spirv[i].ids)
<1>1. spirv \in Seq(Element) /\ Shapes(spirv) /\ Follow(spirv) /\ Once(spirv, <<>>) /\ Jumps(spirv, <<>>)
  BY DEF Closed, Well
<1>2. Len(spirv) \in Nat /\ DOMAIN spirv = 1..Len(spirv) /\ Len(spirv) >= 1
  BY <1>1, LenProperties DEF Follow
<1>3. \A i \in DOMAIN spirv : spirv[i] \in Element /\ spirv[i].ids \in Seq(Nat)
  <2>1. \A i \in DOMAIN spirv : spirv[i] \in Element
    BY <1>1, <1>2, ElementOfSeq
  <2>2. \A e \in Element : e.ids \in Seq(Nat)
    BY DEF Element
  <2> QED
    BY <2>1, <2>2
<1>4. \A i \in DOMAIN spirv : DOMAIN spirv[i].ids = 1..Len(spirv[i].ids)
  BY <1>3, LenProperties
<1> QED
  BY <1>1, <1>2, <1>3, <1>4 DEF Closed

LEMMA BlocksEnd == ASSUME Closed PROVE T!Blocks
<1>1. T!Is(1, "label") /\ spirv[Len(spirv)].op \in T!Terminators
  BY ClosedParts DEF T!Is, T!Terminators, Follow
<1>2. ASSUME NEW i \in 2..Len(spirv) PROVE T!Is(i, "label") <=> spirv[i - 1].op \in T!Terminators
  <2>1. i - 1 \in DOMAIN spirv /\ i \in DOMAIN spirv /\ (i - 1) + 1 = i
    BY ClosedParts
  <2>2. spirv[(i - 1) + 1].op = "label" <=> spirv[i - 1].op \in T!Terminators
    BY <2>1, ClosedParts DEF Follow
  <2> QED
    BY <2>1, <2>2 DEF T!Is
<1> QED
  BY <1>1, <1>2 DEF T!Blocks

LEMMA HeadersFollow == ASSUME Closed PROVE T!Headers
<1>1. ASSUME NEW i \in DOMAIN spirv, spirv[i].op \in {"selection", "loop"} PROVE i + 1 \in DOMAIN spirv
  <2>1. i # Len(spirv)
    BY <1>1, ClosedParts
  <2> QED
    BY <2>1, ClosedParts
<1> QED
  BY <1>1, ClosedParts DEF T!Headers, T!Is, T!All, Follow

LEMMA LabelsOnce == ASSUME Closed PROVE T!Labels
<1> DEFINE labels == T!All({"label"})
<1>1. \A i : i \in labels <=> i \in DOMAIN spirv /\ spirv[i].op = "label"
  BY DEF T!All
<1>2. \A i, j \in labels : spirv[i].ids = spirv[j].ids => i = j
  BY <1>1, ClosedParts DEF Once
<1>3. ASSUME NEW i \in DOMAIN spirv, NEW x \in T!Range(spirv[i].ids) PROVE x \in {spirv[j].ids[1] : j \in labels}
  <2>1. PICK k \in DOMAIN spirv[i].ids : x = spirv[i].ids[k]
    BY DEF T!Range
  <2>2. NamedIn(spirv, x)
    BY <2>1 DEF NamedIn
  <2>3. DOMAIN <<>> = {}
    OBVIOUS
  <2>4. PICK p \in DOMAIN spirv : Labelled(spirv, x, p)
    BY <2>2, <2>3, ClosedParts DEF Once
  <2>5. p \in labels /\ spirv[p].ids[1] = x
    BY <1>1, <2>4 DEF Labelled
  <2> QED
    BY <2>5
<1> QED
  BY <1>2, <1>3 DEF T!Labels

\* Where a label is.
Place(id) == CHOOSE i \in T!All({"label"}) : spirv[i].ids[1] = id
LEMMA ThePlace ==
  ASSUME Closed, NEW id, NamedIn(spirv, id)
  PROVE  /\ Labelled(spirv, id, Place(id)) /\ Place(id) \in DOMAIN spirv
         /\ \A p \in DOMAIN spirv : Labelled(spirv, id, p) => p = Place(id)
<1>1. DOMAIN <<>> = {}
  OBVIOUS
<1>2. PICK p \in DOMAIN spirv : Labelled(spirv, id, p)
  BY <1>1, ClosedParts DEF Once
<1>3. p \in T!All({"label"}) /\ spirv[p].ids[1] = id
  BY <1>2 DEF Labelled, T!All
<1>4. Place(id) \in T!All({"label"}) /\ spirv[Place(id)].ids[1] = id
  BY <1>3 DEF Place
<1>5. Labelled(spirv, id, Place(id)) /\ Place(id) \in DOMAIN spirv
  BY <1>4 DEF Labelled, T!All
<1>6. \A q \in DOMAIN spirv : Labelled(spirv, id, q) => q = Place(id)
  BY <1>5, ClosedParts DEF Once, Labelled
<1> QED
  BY <1>5, <1>6

LEMMA NamesThere ==
  ASSUME Closed, NEW i \in DOMAIN spirv
  PROVE  /\ \A j \in DOMAIN spirv[i].ids : NamedIn(spirv, spirv[i].ids[j])
         /\ \A t \in T!Range(spirv[i].ids) : NamedIn(spirv, t) /\ \E j \in DOMAIN spirv[i].ids : t = spirv[i].ids[j]
         /\ spirv[i].op \in {"selection", "loop"} => NamedIn(spirv, spirv[i].ids[1])
         /\ spirv[i].op = "loop" => /\ NamedIn(spirv, spirv[i].ids[2])
                                   /\ T!Range(spirv[i].ids) = {spirv[i].ids[1], spirv[i].ids[2]}
<1>1. \A j \in DOMAIN spirv[i].ids : NamedIn(spirv, spirv[i].ids[j])
  BY DEF NamedIn
<1>2. \A t \in T!Range(spirv[i].ids) : \E j \in DOMAIN spirv[i].ids : t = spirv[i].ids[j]
  BY DEF T!Range
<1>3. ASSUME spirv[i].op = "selection" PROVE DOMAIN spirv[i].ids = {1}
  <2>1. Len(spirv[i].ids) = 1
    BY <1>3, ClosedParts DEF Shapes
  <2> QED
    BY <2>1, ClosedParts
<1>4. ASSUME spirv[i].op = "loop" PROVE DOMAIN spirv[i].ids = {1, 2}
  <2>1. Len(spirv[i].ids) = 2
    BY <1>4, ClosedParts DEF Shapes
  <2> QED
    BY <2>1, ClosedParts
<1>5. ASSUME spirv[i].op = "loop" PROVE T!Range(spirv[i].ids) = {spirv[i].ids[1], spirv[i].ids[2]}
  BY <1>4, <1>5 DEF T!Range
<1> QED
  BY <1>1, <1>2, <1>3, <1>4, <1>5

\* A construct that the rules see around a branch is around it, and the greatest
\* loop is the innermost one.
LEMMA SeenAround ==
  ASSUME Closed, NEW i \in DOMAIN spirv, NEW m \in DOMAIN spirv, spirv[m].op \in {"selection", "loop"}
  PROVE  Around(spirv, i, m) <=> m < i /\ i < Place(spirv[m].ids[1])
<1>1. NamedIn(spirv, spirv[m].ids[1])
  BY NamesThere
<1>2. /\ Labelled(spirv, spirv[m].ids[1], Place(spirv[m].ids[1])) /\ Place(spirv[m].ids[1]) \in DOMAIN spirv
      /\ \A p \in DOMAIN spirv : Labelled(spirv, spirv[m].ids[1], p) => p = Place(spirv[m].ids[1])
  BY <1>1, ThePlace
<1> QED
  BY <1>2 DEF Around

LEMMA ConstructsNest == ASSUME Closed PROVE T!Constructs
<1> DEFINE labels == T!All({"label"})
           merges == {<<i, Place(spirv[i].ids[1])>> : i \in T!All({"selection", "loop"})}
           around == [i \in T!All({"branch", "cond"}) |->
                       {m \in merges : m[1] < i /\ i < m[2] /\ T!Is(m[1], "loop")}]
           loop(i) == IF around[i] = {} THEN 0 ELSE T!Max({m[1] : m \in around[i]})
           exits(i) == IF loop(i) = 0 THEN {} ELSE T!Range(spirv[loop(i)].ids)
<1>1. SUFFICES ASSUME NEW i \in T!All({"branch", "cond"}), NEW t \in T!Range(spirv[i].ids)
               PROVE  IF Place(t) < i
                        THEN loop(i) # 0 /\ t = spirv[loop(i) - 1].ids[1] /\ Place(spirv[loop(i)].ids[2]) < i
                        ELSE \A m \in merges : m[1] < i /\ i < m[2] => Place(t) <= m[2] \/ t \in exits(i)
  BY DEF T!Constructs, Place
<1>2. i \in DOMAIN spirv /\ Branches(spirv, i)
  BY DEF T!All, Branches
<1>3. \A m \in merges : /\ m[1] \in DOMAIN spirv /\ spirv[m[1]].op \in {"selection", "loop"}
                        /\ m[2] = Place(spirv[m[1]].ids[1]) /\ m = <<m[1], m[2]>>
  BY DEF T!All
<1>4. \A x \in DOMAIN spirv : spirv[x].op \in {"selection", "loop"} => <<x, Place(spirv[x].ids[1])>> \in merges
  BY DEF T!All
<1>5. \A m \in around[i] : m \in merges /\ m[1] < i /\ i < m[2] /\ T!Is(m[1], "loop")
  OBVIOUS
<1>6. \A m \in merges : m[1] < i /\ i < m[2] /\ T!Is(m[1], "loop") => m \in around[i]
  OBVIOUS
<1> HIDE DEF merges, around
<1>7. ASSUME NEW l, Innermost(spirv, i, l) PROVE loop(i) = l /\ l \in DOMAIN spirv /\ l # 0 /\ spirv[l].op = "loop"
  <2>1. l \in DOMAIN spirv /\ spirv[l].op = "loop" /\ Around(spirv, i, l)
    BY <1>7 DEF Innermost, Around
  <2>2. <<l, Place(spirv[l].ids[1])>> \in merges
    BY <1>4, <2>1
  <2>3. l < i /\ i < Place(spirv[l].ids[1])
    BY <1>2, <2>1, SeenAround
  <2>4. <<l, Place(spirv[l].ids[1])>> \in around[i]
    BY <1>6, <2>1, <2>2, <2>3 DEF T!Is
  <2>5. ASSUME NEW m \in around[i] PROVE m[1] \in DOMAIN spirv /\ m[1] <= l
    <3>1. m[1] \in DOMAIN spirv /\ spirv[m[1]].op = "loop" /\ m[1] < i /\ i < Place(spirv[m[1]].ids[1])
      BY <1>3, <1>5 DEF T!Is
    <3>2. Around(spirv, i, m[1])
      BY <1>2, <3>1, SeenAround
    <3> QED
      BY <1>7, <3>1, <3>2 DEF Innermost
  <2> DEFINE A == {m[1] : m \in around[i]}
  <2>6. l \in A
    <3>1. <<l, Place(spirv[l].ids[1])>>[1] = l
      OBVIOUS
    <3> QED
      BY <2>4, <3>1
  <2>7. \A x \in A : x \in DOMAIN spirv /\ x <= l
    BY <2>5
  <2>8. around[i] # {}
    BY <2>4
  <2>9. l \in Nat /\ l # 0 /\ \A x \in DOMAIN spirv : x \in Nat
    BY <2>1, ClosedParts
  <2> HIDE DEF A
  <2>10. T!Max(A) = l
    <3>1. \A x \in A : l >= x
      BY <2>7, <2>9
    <3>2. \A x \in A : (\A y \in A : x >= y) => x = l
      BY <2>6, <2>7, <2>9
    <3> QED
      BY <2>6, <3>1, <3>2 DEF T!Max
  <2> QED
    BY <2>1, <2>8, <2>9, <2>10 DEF A
<1> HIDE DEF loop
<1>8. PICK j \in DOMAIN spirv[i].ids : t = spirv[i].ids[j]
  BY <1>2, NamesThere
<1>9. Jump(spirv, <<>>, i, t)
  BY <1>2, <1>8, ClosedParts DEF Jumps
<1>10. /\ NamedIn(spirv, t) /\ Labelled(spirv, t, Place(t)) /\ Place(t) \in DOMAIN spirv
       /\ \A p \in DOMAIN spirv : Labelled(spirv, t, p) => p = Place(t)
  <2>1. NamedIn(spirv, t)
    BY <1>2, <1>8, NamesThere
  <2> QED
    BY <2>1, ThePlace
<1>11. CASE Place(t) < i
  <2>1. Behind(spirv, i, t)
    BY <1>10, <1>11 DEF Behind
  <2>2. PICK l \in DOMAIN spirv : /\ Innermost(spirv, i, l) /\ Labelled(spirv, t, l - 1)
                                 /\ \E q \in DOMAIN spirv : q < i /\ Labelled(spirv, spirv[l].ids[2], q)
    BY <1>9, <2>1 DEF Jump, Back
  <2>3. loop(i) = l /\ l # 0 /\ spirv[l].op = "loop"
    BY <1>7, <2>2
  <2>4. t = spirv[l - 1].ids[1]
    BY <2>2 DEF Labelled
  <2>5. NamedIn(spirv, spirv[l].ids[2])
    BY <2>3, NamesThere
  <2>6. Place(spirv[l].ids[2]) < i
    BY <2>2, <2>5, ThePlace
  <2> QED
    BY <1>11, <2>3, <2>4, <2>6
<1>12. CASE ~(Place(t) < i)
  <2>1. ~Behind(spirv, i, t)
    BY <1>10, <1>12 DEF Behind
  <2>2. ASSUME NEW m \in merges, m[1] < i, i < m[2] PROVE Place(t) <= m[2] \/ t \in exits(i)
    <3>1. m[1] \in DOMAIN spirv /\ spirv[m[1]].op \in {"selection", "loop"} /\ m[2] = Place(spirv[m[1]].ids[1])
      BY <1>3
    <3>2. Around(spirv, i, m[1])
      BY <1>2, <2>2, <3>1, SeenAround
    <3>3. NotAfter(spirv, <<>>, t, spirv[m[1]].ids[1]) \/ Leaves(spirv, i, t)
      BY <1>9, <2>1, <3>1, <3>2 DEF Jump
    <3>4. CASE NotAfter(spirv, <<>>, t, spirv[m[1]].ids[1])
      <4>1. DOMAIN <<>> = {}
        OBVIOUS
      <4>2. PICK p \in DOMAIN spirv : Labelled(spirv, t, p) /\ \A q \in DOMAIN spirv : Labelled(spirv, spirv[m[1]].ids[1], q) => p <= q
        BY <3>4, <4>1 DEF NotAfter
      <4>3. p = Place(t)
        BY <1>10, <4>2
      <4>4. Labelled(spirv, spirv[m[1]].ids[1], m[2]) /\ m[2] \in DOMAIN spirv
        BY <3>1, NamesThere, ThePlace
      <4> QED
        BY <4>2, <4>3, <4>4
    <3>5. CASE Leaves(spirv, i, t)
      <4>1. PICK l \in DOMAIN spirv : Innermost(spirv, i, l) /\ t \in {spirv[l].ids[1], spirv[l].ids[2]}
        BY <3>5 DEF Leaves
      <4>2. loop(i) = l /\ l # 0 /\ spirv[l].op = "loop"
        BY <1>7, <4>1
      <4>3. t \in T!Range(spirv[l].ids)
        BY <4>1, <4>2, NamesThere
      <4> QED
        BY <4>2, <4>3
    <3> QED
      BY <3>3, <3>4, <3>5
  <2> HIDE DEF exits
  <2> QED
    BY <1>12, <2>2
<1> QED
  BY <1>11, <1>12

LEMMA ShaderInit == T!Init => ShaderInv
<1> SUFFICES ASSUME T!Init PROVE ShaderInv
  OBVIOUS
<1>1. T!Now = [code |-> <<T!Label(0), T!Op>>, next |-> 1] /\ loop_stack = <<>> /\ ended = FALSE
      /\ spirv = <<T!Label(0), T!Op>>
  BY DEF T!Init, T!Now
<1>2. Fit(T!Now, <<>>) /\ Nested(spirv, <<>>, loop_stack)
  BY <1>1, EntryFits
<1> QED
  BY <1>1, <1>2 DEF ShaderInv, Open

(* Whatever the control flow of a shader, its clauses and the nesting of    *)
(* its loops, a function whose loops are closed is structured code          *)
(* (ShaderTranslator::translate_control_flow, emit_kill,                    *)
(* translate_exec_clause).                                                  *)
THEOREM StructuredCode ==
  ASSUME \A clause \in Clause : Len(clause) \in Nat
  PROVE  T!Init /\ [][T!Next]_(T!svars) => []T!Structured
<1>1. ShaderInv /\ [T!Next]_(T!svars) => ShaderInv'
  BY ShaderStep
<1>2. ShaderInv => T!Structured
  BY BlocksEnd, LabelsOnce, HeadersFollow, ConstructsNest DEF T!Structured, ShaderInv
<1> QED
  BY <1>1, <1>2, ShaderInit, PTL
=============================================================================
