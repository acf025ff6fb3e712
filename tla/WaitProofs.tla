----------------------------- MODULE WaitProofs -----------------------------
(***************************************************************************)
(* Proofs about the two sets of waitable objects of the kernel, for any    *)
(* threads, objects and bounds: XObjects, where a wait joins a list and    *)
(* leaves it in separate steps and a mutant is given up in three, and       *)
(* KernelThreads, where a wait works on pointers it has taken.             *)
(*                                                                         *)
(* For XObjects the invariant says where a thread that is in a list may be, *)
(* and what the mutant of a thread between the last release and the loss    *)
(* of its name looks like.                                                 *)
(***************************************************************************)
EXTENDS XObjects, FiniteSetTheorems, FunctionTheorems, SequenceTheorems, TLAPS

\* The place of an index that is kept, among those that are, is one of as many
\* as there are of them, and each place is taken.
LEMMA PlacesTaken ==
  ASSUME NEW kept \in SUBSET Nat, IsFiniteSet(kept)
  PROVE  LET Place(i) == Cardinality({j \in kept : j <= i}) IN
         \A k \in 1..Cardinality(kept) : \E i \in kept : Place(i) = k
<1> DEFINE Place(i) == Cardinality({j \in kept : j <= i})
           n == Cardinality(kept)
           f == [i \in kept |-> Place(i)]
<1>1. n \in Nat BY FS_CardinalityType
<1>2. \A i : IsFiniteSet({j \in kept : j <= i}) /\ Place(i) \in Nat /\ Place(i) <= n
  <2>1. \A i : {j \in kept : j <= i} \subseteq kept OBVIOUS
  <2>. QED BY <2>1, FS_Subset, FS_CardinalityType
<1>3. ASSUME NEW i \in kept PROVE Place(i) \in 1..n
  <2>1. {j \in kept : j <= i} # {} BY <1>3
  <2>2. Place(i) # 0 BY <1>2, <2>1, FS_EmptySet
  <2>. QED BY <1>1, <1>2, <2>2
<1>4. ASSUME NEW i \in kept, NEW j \in kept, i < j PROVE Place(i) # Place(j)
  <2>1. {l \in kept : l <= i} \subseteq {l \in kept : l <= j}
    <3>1. kept \subseteq Nat /\ i \in Nat /\ j \in Nat OBVIOUS
    <3>2. \A l \in kept : l <= i => l <= j BY <1>4, <3>1
    <3>. QED BY <3>2
  <2>2. j \in {l \in kept : l <= j} /\ j \notin {l \in kept : l <= i} BY <1>4
  <2>. QED BY <1>2, <2>1, <2>2, FS_Subset
<1>5. f \in Injection(kept, 1..n)
  <2>1. f \in [kept -> 1..n] BY <1>3
  <2>2. \A i, j \in kept : f[i] = f[j] => i = j
    <3>1. \A i, j \in kept : i < j \/ j < i \/ i = j OBVIOUS
    <3> HIDE DEF Place
    <3>. QED BY <3>1, <1>4
  <2>. QED BY <2>1, <2>2 DEF Injection, IsInjective
<1>6. IsFiniteSet(1..n) /\ Cardinality(1..n) = n BY <1>1, FS_Interval
<1>7. f \in Surjection(kept, 1..n) BY <1>5, <1>6, FS_Injection
<1>8. \A k \in 1..n : \E i \in kept : f[i] = k BY <1>7 DEF Surjection
<1>. QED BY <1>8

\* The list without t holds what else it held, each as often.
LEMMA WithoutList ==
  ASSUME NEW list \in Seq(Threads), NEW t
  PROVE  /\ Without(list, t) \in Seq(Threads)
         /\ \A k \in DOMAIN Without(list, t) :
              \E i \in DOMAIN list : Without(list, t)[k] = list[i] /\ list[i] # t
         /\ \A k, l \in DOMAIN Without(list, t) :
              \E i, j \in DOMAIN list : /\ Without(list, t)[k] = list[i] /\ Without(list, t)[l] = list[j]
                                        /\ i = j => k = l
<1> DEFINE kept == {i \in DOMAIN list : list[i] # t}
           Place(i) == Cardinality({j \in kept : j <= i})
           n == Cardinality(kept)
           from(k) == CHOOSE i \in kept : Place(i) = k
<1>1. DOMAIN list = 1..Len(list) /\ Len(list) \in Nat OBVIOUS
<1>2. kept \in SUBSET Nat /\ IsFiniteSet(kept)
  <2>1. IsFiniteSet(1..Len(list)) BY <1>1, FS_Interval
  <2>. QED BY <1>1, <2>1, FS_Subset
<1>3. n \in Nat BY <1>2, FS_CardinalityType
<1>4. \A k \in 1..n : from(k) \in kept /\ Place(from(k)) = k
  <2>1. \A k \in 1..n : \E i \in kept : Place(i) = k BY <1>2, PlacesTaken
  <2> HIDE DEF Place, kept
  <2>. QED BY <2>1
<1>5. Without(list, t) = [k \in 1..n |-> list[from(k)]] BY DEF Without
<1> HIDE DEF from, n
<1>6. \A k \in 1..n : from(k) \in DOMAIN list /\ list[from(k)] \in Threads
  <2>1. \A i \in kept : i \in DOMAIN list /\ list[i] \in Threads BY <1>1
  <2> HIDE DEF kept, Place
  <2>. QED BY <1>4, <2>1
<1>7. Without(list, t) \in Seq(Threads) BY <1>3, <1>5, <1>6
<1>8. DOMAIN Without(list, t) = 1..n BY <1>5
<1>9. \A k \in 1..n : Without(list, t)[k] = list[from(k)] BY <1>5
<1>10. \A k, l \in 1..n : from(k) = from(l) => k = l
  <2> HIDE DEF Place
  <2>. QED BY <1>4
<1>11. \A k \in 1..n : from(k) \in DOMAIN list /\ list[from(k)] # t BY <1>4, <1>6
<1>. QED BY <1>7, <1>8, <1>9, <1>10, <1>11
-----------------------------------------------------------------------------
(* The invariant                                                            *)

\* Nobody is no thread and no object, threads are finitely many, and a mutant
\* may be entered once at least.
Named == /\ Nobody \notin Threads \cup Objects /\ IsFiniteSet(Threads)
         /\ MaxCount \in Nat \ {0} /\ Offered \subseteq Kinds

Listed == {"test", "block", "asleep", "clean"}
InWait == {"arm", "add", "leave"} \cup Listed
CallPcs == {"idle", "wake_all", "wake_one", "wake_count", "pulse_all", "fire_all", "fire_one", "lower", "rearm"}
InMutant == {"acquire", "acquire_wait", "disown", "tell"}

XObject == [kind : Kinds, level : 0..MaxCount, owner : Threads \cup {Nobody},
            status : {"", "once", "periodic", "Suspended", "Ready", "Running", "Terminated"},
            waiters_ : Seq(Threads)]
XThread == [pc : {"out"} \cup InWait \cup InMutant, on : Objects \cup {Nobody}, until : Untils,
            wait_satisfied_ : BOOLEAN, wait_result_ : {"", "timeout", "object", "apc"},
            by : Objects \cup {Nobody}, held : [Objects -> Nat]]
Types ==
  /\ objs \in [Objects -> XObject]
  /\ xthread \in [Threads -> XThread]
  /\ caller \in [pc : CallPcs, on : Objects \cup {Nobody}]
  /\ slice \subseteq Objects

\* What a call is about: an object that is there, a mutant for acquire's, and
\* no mutant for a signal.
Busy ==
  /\ \A t \in Threads : /\ ~At(t, "out") => xthread[t].on \in Objects
                        /\ xthread[t].pc \in {"acquire", "acquire_wait"} => Kind(xthread[t].on) = "mutant"
  /\ caller.pc # "idle" => caller.on \in Objects /\ Kind(caller.on) \notin {"none", "mutant"}
  /\ \A o \in slice : Kind(o) = "thread"

\* Who is in a list is between joining it and removing itself, once.
Lists_ ==
  \A o \in Objects :
    /\ \A i \in DOMAIN objs[o].waiters_ :
         xthread[objs[o].waiters_[i]].on = o /\ xthread[objs[o].waiters_[i]].pc \in Listed
    /\ \A i, j \in DOMAIN objs[o].waiters_ : objs[o].waiters_[i] = objs[o].waiters_[j] => i = j

\* A wait that an object answered was in that object's list.
Wakes ==
  \A t \in Threads : xthread[t].wait_result_ = "object" =>
    xthread[t].by = xthread[t].on /\ xthread[t].pc \in Listed \cup {"leave"}

\* A mutant's owner has it as often as it was granted, or is about to disown it.
Mutants ==
  /\ \A o \in Objects, t \in Threads : xthread[t].held[o] > 0 =>
       Kind(o) = "mutant" /\ objs[o].owner = t /\ objs[o].level = xthread[t].held[o]
  /\ \A o \in Objects : objs[o].owner # Nobody =>
       /\ Kind(o) = "mutant"
       /\ \/ xthread[objs[o].owner].held[o] > 0
          \/ At(objs[o].owner, "disown") /\ xthread[objs[o].owner].on = o
  /\ \A t \in Threads : At(t, "disown") =>
       LET o == xthread[t].on IN
       Kind(o) = "mutant" /\ objs[o].owner = t /\ objs[o].level = 0 /\ xthread[t].held[o] = 0

IInv == Types /\ Busy /\ Lists_ /\ Wakes /\ Mutants

LEMMA BlankObject ==
  ASSUME Named
  PROVE  Blank \in XObject /\ Blank.owner = Nobody /\ Blank.waiters_ = <<>>
BY DEF Blank, XObject, Kinds, Named

LEMMA InitIInv == ASSUME Named, Init PROVE IInv
<1>1. Blank \in XObject /\ Blank.owner = Nobody /\ Blank.waiters_ = <<>>
  BY BlankObject
<1>2. /\ Away \in XThread /\ Away.pc = "out" /\ Away.wait_result_ = ""
      /\ \A o \in Objects : Away.held[o] = 0
  BY DEF Away, XThread, Untils
<1>3. /\ \A o \in Objects : objs[o] = Blank
      /\ \A t \in Threads : xthread[t] = Away
      /\ caller.pc = "idle"
  BY DEF Init, Idle
<1>4. Types BY <1>1, <1>2 DEF Init, Types, Idle, CallPcs
<1>5. Busy BY <1>2, <1>3 DEF Init, Busy, At
<1>6. Lists_ BY <1>1, <1>3 DEF Lists_
<1>7. Wakes BY <1>2, <1>3 DEF Wakes
<1>8. Mutants
  <2>1. ASSUME NEW o \in Objects, NEW t \in Threads PROVE ~(xthread[t].held[o] > 0)
    <3>1. xthread[t].held[o] = 0 BY <1>2, <1>3
    <3>. QED BY <3>1
  <2>2. \A t \in Threads : ~At(t, "disown") BY <1>2, <1>3 DEF At
  <2>. QED BY <1>1, <1>3, <2>1, <2>2 DEF Mutants
<1>. QED BY <1>4, <1>5, <1>6, <1>7, <1>8 DEF IInv

LEMMA ObjectFields ==
  ASSUME Types, NEW o \in Objects
  PROVE  /\ objs[o] \in XObject /\ objs[o].waiters_ \in Seq(Threads) /\ objs[o].level \in 0..MaxCount
         /\ objs[o].owner \in Threads \cup {Nobody} /\ objs[o].kind \in Kinds
         /\ \A i \in DOMAIN objs[o].waiters_ : objs[o].waiters_[i] \in Threads
<1>1. objs[o] \in XObject BY DEF Types
<1>2. /\ objs[o].waiters_ \in Seq(Threads) /\ objs[o].level \in 0..MaxCount
      /\ objs[o].owner \in Threads \cup {Nobody} /\ objs[o].kind \in Kinds
  BY <1>1 DEF XObject
<1>. QED BY <1>1, <1>2
-----------------------------------------------------------------------------
(* Steps                                                                    *)

\* A step that changes no list, no owner and no mutant, and no thread.
LEMMA ObjectStep ==
  ASSUME IInv, UNCHANGED xthread, objs' \in [Objects -> XObject],
         \A o \in Objects : /\ objs'[o].waiters_ = objs[o].waiters_ /\ objs'[o].owner = objs[o].owner
                            /\ objs'[o].kind = objs[o].kind
                            /\ objs[o].kind = "mutant" => objs'[o].level = objs[o].level,
         caller' \in [pc : CallPcs, on : Objects \cup {Nobody}],
         caller'.pc # "idle" => caller'.on \in Objects /\ Kind(caller'.on) \notin {"none", "mutant"},
         slice' \subseteq Objects, \A o \in slice' : Kind(o) = "thread"
  PROVE  IInv'
<1>1. Types' BY DEF IInv, Types
<1>2. Busy' BY DEF IInv, Types, Busy, At, Kind
<1>3. Lists_' BY DEF IInv, Lists_
<1>4. Wakes' BY DEF IInv, Wakes
<1>5. Mutants'
  <2>1. \A t \in Threads : At(t, "disown") => xthread[t].on \in Objects BY DEF IInv, Busy, At
  <2>2. \A o \in Objects : Kind(o)' = Kind(o) /\ objs'[o].owner = objs[o].owner
                           /\ (Kind(o) = "mutant" => objs'[o].level = objs[o].level)
    BY DEF Kind
  <2>. QED BY <2>1, <2>2 DEF IInv, Mutants, At
<1>. QED BY <1>1, <1>2, <1>3, <1>4, <1>5 DEF IInv

\* A step of one thread that leaves the objects as they are.
LEMMA ThreadStep ==
  ASSUME Named, IInv, NEW t \in Threads, NEW w \in XThread, Step(t, w), UNCHANGED objs,
         w.held = xthread[t].held,
         xthread[t].pc \in Listed => w.pc \in Listed /\ w.on = xthread[t].on,
         w.wait_result_ = "object" => w.by = w.on /\ w.pc \in Listed \cup {"leave"},
         w.pc # "out" => w.on \in Objects,
         w.pc \in {"acquire", "acquire_wait"} => Kind(w.on) = "mutant",
         w.pc = "disown" <=> At(t, "disown"), At(t, "disown") => w.on = xthread[t].on
  PROVE  IInv'
<1>1. /\ xthread' \in [Threads -> XThread] /\ xthread'[t] = w
      /\ \A u \in Threads \ {t} : xthread'[u] = xthread[u] /\ UNCHANGED <<caller, slice>>
  BY DEF Step, IInv, Types
<1>2. Types' BY <1>1 DEF IInv, Types, Step
<1>3. Busy' BY <1>1 DEF IInv, Busy, At, Kind, Step
<1>4. Lists_'
  <2>1. \A o \in Objects : \A i \in DOMAIN objs[o].waiters_ : objs[o].waiters_[i] \in Threads
    BY ObjectFields DEF IInv
  <2>. QED BY <1>1, <2>1 DEF IInv, Lists_
<1>5. Wakes' BY <1>1 DEF IInv, Wakes
<1>6. Mutants'
  <2>1. \A o \in Objects : objs[o].owner \in Threads \cup {Nobody} BY ObjectFields DEF IInv
  <2>2. ASSUME NEW u \in Threads
        PROVE  /\ xthread'[u].held = xthread[u].held
               /\ xthread'[u].pc = "disown" <=> xthread[u].pc = "disown"
               /\ xthread[u].pc = "disown" => xthread'[u].on = xthread[u].on
    <3>1. CASE u = t BY <1>1, <3>1 DEF At
    <3>2. CASE u # t BY <1>1, <3>2
    <3>. QED BY <3>1, <3>2
  <2>3. \A o : Kind(o)' = Kind(o) BY DEF Kind
  <2>. QED BY <2>1, <2>2, <2>3 DEF IInv, Mutants, At
<1>. QED BY <1>2, <1>3, <1>4, <1>5, <1>6 DEF IInv

LEMMA CreateStep ==
  ASSUME Named, IInv, NEW o \in Objects, NEW kind \in Offered, Create(o, kind)
  PROVE  IInv'
<1> DEFINE obj == [Blank EXCEPT !.kind = kind, !.status = IF kind = "thread" THEN "Suspended" ELSE ""]
<1>1. obj \in XObject /\ obj.owner = Nobody /\ obj.waiters_ = <<>> /\ obj.kind = kind
  <2>1. Blank \in XObject /\ Blank.owner = Nobody /\ Blank.waiters_ = <<>> BY BlankObject
  <2>2. kind \in Kinds BY DEF Named
  <2>. QED BY <2>1, <2>2 DEF XObject
<1>2. objs' = [objs EXCEPT ![o] = obj] /\ UNCHANGED <<xthread, caller, slice>> /\ Kind(o) = "none"
  BY DEF Create
<1> HIDE DEF obj
<1>3. /\ objs' \in [Objects -> XObject] /\ objs'[o] = obj
      /\ \A p \in Objects \ {o} : objs'[p] = objs[p]
  BY <1>1, <1>2 DEF IInv, Types
<1>4. Types' BY <1>2, <1>3 DEF IInv, Types
<1>5. Busy'
  <2>1. \A p \in Objects : Kind(p) # "none" => Kind(p)' = Kind(p) BY <1>2, <1>3 DEF Kind
  <2>2. \A p \in slice : p \in Objects BY DEF IInv, Types
  <2>. QED BY <1>2, <2>1, <2>2 DEF IInv, Busy, At
<1>6. Lists_' BY <1>1, <1>2, <1>3 DEF IInv, Lists_
<1>7. Wakes' BY <1>2 DEF IInv, Wakes
<1>8. Mutants' BY <1>1, <1>2, <1>3 DEF IInv, Types, Busy, Mutants, At, Kind
<1>. QED BY <1>4, <1>5, <1>6, <1>7, <1>8 DEF IInv

\* Every signal but the wake, and what the scheduler does, changes the level and
\* the status of one object that is no mutant.
LEMMA LevelStep ==
  ASSUME Named, IInv, NEW o \in Objects, Kind(o) \notin {"none", "mutant"}, UNCHANGED xthread,
         objs' \in [Objects -> XObject], \A p \in Objects \ {o} : objs'[p] = objs[p],
         objs'[o].waiters_ = objs[o].waiters_, objs'[o].owner = objs[o].owner, objs'[o].kind = objs[o].kind,
         slice' \subseteq slice,
         UNCHANGED caller \/ caller' = Idle \/ \E pc \in CallPcs : caller' = [pc |-> pc, on |-> o]
  PROVE  IInv'
<1>1. \A p \in Objects : /\ objs'[p].waiters_ = objs[p].waiters_ /\ objs'[p].owner = objs[p].owner
                         /\ objs'[p].kind = objs[p].kind
                         /\ objs[p].kind = "mutant" => objs'[p].level = objs[p].level
  BY DEF Kind
<1>2. /\ caller' \in [pc : CallPcs, on : Objects \cup {Nobody}]
      /\ caller'.pc # "idle" => caller'.on \in Objects /\ Kind(caller'.on) \notin {"none", "mutant"}
  <2>1. CASE UNCHANGED caller BY <2>1 DEF IInv, Types, Busy
  <2>2. CASE caller' = Idle BY <2>2 DEF Idle, CallPcs
  <2>3. ASSUME NEW pc \in CallPcs, caller' = [pc |-> pc, on |-> o]
        PROVE  caller' \in [pc : CallPcs, on : Objects \cup {Nobody}] /\ caller'.on = o
    BY <2>3
  <2>. QED BY <2>1, <2>2, <2>3
<1>3. slice' \subseteq Objects /\ \A p \in slice' : Kind(p) = "thread" BY DEF IInv, Types, Busy
<1>. QED BY <1>1, <1>2, <1>3, ObjectStep

LEMMA SignalStep ==
  ASSUME Named, IInv, NEW o \in Objects, Signals(o)
  PROVE  IInv'
<1>1. /\ objs[o] \in XObject /\ objs[o].level \in 0..MaxCount /\ MaxCount \in Nat \ {0}
      /\ objs \in [Objects -> XObject]
  BY ObjectFields DEF IInv, Types, Named
<1>2. o \in slice => Kind(o) = "thread" BY DEF IInv, Busy
<1>3. 0 \in 0..MaxCount /\ 1 \in 0..MaxCount BY <1>1
<1>4. CASE set(o)
  BY <1>1, <1>3, <1>4, LevelStep DEF set, Raised, CallAt, AutoReset, Kind, XObject, CallPcs
<1>5. CASE pulse(o)
  BY <1>1, <1>3, <1>5, LevelStep DEF pulse, Raised, CallAt, Kind, XObject, CallPcs
<1>6. CASE reset(o)
  BY <1>1, <1>3, <1>6, LevelStep DEF reset, Kind, XObject
<1>7. CASE release_semaphore(o)
  <2>1. PICK n \in 1..MaxCount :
          Raised(o, [objs[o] EXCEPT !.level = IF @ + n > MaxCount THEN MaxCount ELSE @ + n])
    BY <1>7 DEF release_semaphore
  <2>2. (IF objs[o].level + n > MaxCount THEN MaxCount ELSE objs[o].level + n) \in 0..MaxCount BY <1>1
  <2>. QED BY <1>1, <1>7, <2>1, <2>2, LevelStep DEF release_semaphore, Raised, CallAt, Kind, XObject, CallPcs
<1>8. CASE set_timer(o)
  <2>1. PICK due \in {"once", "periodic"} : objs' = [objs EXCEPT ![o].level = 0, ![o].status = due]
    BY <1>8 DEF set_timer
  <2>2. objs' \in [Objects -> XObject] BY <1>1, <1>3, <2>1 DEF XObject
  <2>. QED BY <1>1, <1>8, <2>1, <2>2, LevelStep DEF set_timer, IsTimer, Kind, XObject
<1>9. CASE cancel_timer(o)
  BY <1>1, <1>3, <1>9, LevelStep DEF cancel_timer, IsTimer, Kind, XObject
<1>10. CASE check_and_fire(o)
  BY <1>1, <1>3, <1>10, LevelStep DEF check_and_fire, Raised, CallAt, AutoReset, IsTimer, Kind, XObject, CallPcs
<1>11. CASE start(o) \/ suspend(o) \/ resume(o)
  <2>1. PICK state \in {"Ready", "Suspended"} : SetState(o, state) BY <1>11 DEF start, suspend, resume
  <2>2. Kind(o) = "thread" BY <1>11 DEF start, suspend, resume, IsThread
  <2>. QED BY <1>1, <2>1, <2>2, LevelStep DEF SetState, XObject
<1>12. CASE exit(o)
  BY <1>1, <1>12, LevelStep DEF exit, Raised, CallAt, IsThread, Kind, XObject, CallPcs
<1>13. CASE Run(o)
  BY <1>1, <1>2, <1>13, LevelStep DEF Run, Kind, XObject
<1>14. CASE SliceEnds(o)
  BY <1>1, <1>2, <1>14, LevelStep DEF SliceEnds, Kind, XObject
<1>. QED BY <1>4, <1>5, <1>6, <1>7, <1>8, <1>9, <1>10, <1>11, <1>12, <1>13, <1>14 DEF Signals

LEMMA LowerStep ==
  ASSUME Named, IInv, Lower
  PROVE  IInv'
<1> DEFINE o == caller.on
<1>1. o \in Objects /\ Kind(o) \notin {"none", "mutant"} BY DEF Lower, IInv, Busy
<1>2. objs \in [Objects -> XObject] /\ objs[o] \in XObject /\ objs[o].level \in 0..MaxCount /\ 0 \in 0..MaxCount
  BY <1>1, ObjectFields DEF IInv, Types, Named
<1>. QED BY <1>1, <1>2, LevelStep DEF Lower, XObject

LEMMA RunForStep ==
  ASSUME Named, IInv, run_for
  PROVE  IInv'
<1>1. slice' \subseteq Objects /\ \A o \in slice' : Kind(o) = "thread" BY DEF run_for, IsThread
<1>. QED BY <1>1, ObjectStep DEF run_for, IInv, Types, Busy

\* The first of a list, and the rest of it.
LEMMA ChosenFirst ==
  ASSUME Types, NEW o \in Objects, NEW n \in Nat
  PROVE  LET q == objs[o].waiters_
             c == Len(Chosen(o, n))
         IN /\ c \in 0..Len(q) /\ SubSeq(q, c + 1, Len(q)) \in Seq(Threads)
            /\ \A u \in Range(Chosen(o, n)) : \E i \in DOMAIN q : u = q[i]
            /\ DOMAIN SubSeq(q, c + 1, Len(q)) = 1..(Len(q) - c)
            /\ \A k \in 1..(Len(q) - c) : SubSeq(q, c + 1, Len(q))[k] = q[k + c] /\ k + c \in DOMAIN q
<1> DEFINE q == objs[o].waiters_
           m == IF n < Len(q) THEN n ELSE Len(q)
<1>1. q \in Seq(Threads) /\ Len(q) \in Nat /\ DOMAIN q = 1..Len(q) BY ObjectFields
<1>2. m \in 0..Len(q) BY <1>1
<1>3. Chosen(o, n) = SubSeq(q, 1, m) BY DEF Chosen
<1> HIDE DEF q, m
<1>4. /\ Chosen(o, n) \in Seq(Threads) /\ Len(Chosen(o, n)) = m
      /\ DOMAIN Chosen(o, n) = 1..m /\ \A k \in 1..m : Chosen(o, n)[k] = q[k]
  BY <1>1, <1>2, <1>3
<1>5. \A u \in Range(Chosen(o, n)) : \E i \in DOMAIN q : u = q[i] BY <1>1, <1>2, <1>4 DEF Range
<1>6. /\ SubSeq(q, m + 1, Len(q)) \in Seq(Threads)
      /\ DOMAIN SubSeq(q, m + 1, Len(q)) = 1..(Len(q) - m)
      /\ \A k \in 1..(Len(q) - m) : SubSeq(q, m + 1, Len(q))[k] = q[k + m] /\ k + m \in DOMAIN q
  BY <1>1, <1>2
<1>. QED BY <1>2, <1>4, <1>5, <1>6 DEF q

\* Waking the first of a list: the woken were in it, and the rest still are.
LEMMA WakeStep ==
  ASSUME Named, IInv, Wake
  PROVE  IInv'
<1> DEFINE o == caller.on
           n == CASE caller.pc \in {"wake_one", "fire_one"} -> 1
                  [] caller.pc = "wake_count" -> objs[o].level
                  [] OTHER -> Everyone
           q == objs[o].waiters_
           c == Len(Chosen(o, n))
           rest == SubSeq(q, c + 1, Len(q))
           woken == Range(Chosen(o, n))
<1>1. o \in Objects /\ Kind(o) \notin {"none", "mutant"} BY DEF Wake, IInv, Busy
<1>2. n \in Nat
  <2>1. Everyone \in Nat BY FS_CardinalityType DEF Named, Everyone
  <2>2. objs[o].level \in Nat BY <1>1, ObjectFields DEF IInv, Named
  <2>. QED BY <2>1, <2>2
<1>3. wake_waiters(o, n, objs[o]) /\ UNCHANGED slice BY DEF Wake
<1> HIDE DEF n
<1>4. /\ rest \in Seq(Threads) /\ DOMAIN rest = 1..(Len(q) - c) /\ c \in 0..Len(q)
      /\ \A k \in 1..(Len(q) - c) : rest[k] = q[k + c] /\ k + c \in DOMAIN q
      /\ \A u \in woken : \E i \in DOMAIN q : u = q[i]
  BY <1>1, <1>2, ChosenFirst DEF IInv
<1>5. /\ objs' = [objs EXCEPT ![o] = [objs[o] EXCEPT !.waiters_ = rest]]
      /\ xthread' = [t \in Threads |-> IF t \in woken THEN WokenBy(xthread[t], o) ELSE xthread[t]]
  BY <1>3 DEF wake_waiters
<1> HIDE DEF rest, woken, c
<1>6. objs \in [Objects -> XObject] /\ objs[o] \in XObject BY <1>1, ObjectFields DEF IInv, Types
<1>7. /\ objs' \in [Objects -> XObject] /\ objs'[o].waiters_ = rest
      /\ \A p \in Objects : /\ objs'[p].owner = objs[p].owner /\ objs'[p].kind = objs[p].kind
                            /\ objs'[p].level = objs[p].level
                            /\ p # o => objs'[p].waiters_ = objs[p].waiters_
  BY <1>1, <1>4, <1>5, <1>6 DEF XObject
<1>8. ASSUME NEW t \in woken
      PROVE  xthread[t].on = o /\ xthread[t].pc \in Listed /\ t \in Threads
  <2>1. PICK i \in DOMAIN q : t = q[i] BY <1>4
  <2>. QED BY <1>1, <2>1, ObjectFields DEF IInv, Lists_
<1>9. ASSUME NEW t \in Threads
      PROVE  /\ xthread'[t] \in XThread /\ xthread'[t].on = xthread[t].on /\ xthread'[t].held = xthread[t].held
             /\ xthread[t].pc \in Listed => xthread'[t].pc \in Listed
             /\ xthread[t].pc \notin Listed => xthread'[t] = xthread[t]
             /\ t \in woken => xthread'[t].by = o
             /\ t \notin woken => xthread'[t] = xthread[t]
  <2>1. xthread[t] \in XThread BY DEF IInv, Types
  <2>2. CASE t \in woken
    <3>1. xthread'[t] = WokenBy(xthread[t], o) BY <1>5, <2>2
    <3>2. xthread[t].on = o /\ xthread[t].pc \in Listed BY <1>8, <2>2
    <3>. QED BY <1>1, <2>1, <2>2, <3>1, <3>2 DEF WokenBy, Woken, XThread, Listed, InWait
  <2>3. CASE t \notin woken BY <1>5, <2>1, <2>3
  <2>. QED BY <2>2, <2>3
<1>10. Types'
  <2>1. xthread' \in [Threads -> XThread] BY <1>5, <1>9
  <2>2. caller' \in [pc : CallPcs, on : Objects \cup {Nobody}] BY <1>1 DEF Wake, CallAt, Idle, CallPcs
  <2>. QED BY <1>3, <1>7, <2>1, <2>2 DEF IInv, Types
<1>11. \A p \in Objects : Kind(p)' = Kind(p) BY <1>7 DEF Kind
<1>12. Busy'
  <2>1. \A t \in Threads : /\ xthread'[t].pc # "out" => xthread[t].pc # "out"
                           /\ xthread'[t].pc \in {"acquire", "acquire_wait"} => xthread'[t] = xthread[t]
    BY <1>9 DEF Listed
  <2>2. caller'.pc # "idle" => caller'.on = o BY DEF Wake, CallAt, Idle
  <2>3. \A t \in Threads : xthread[t].pc \in {"acquire", "acquire_wait"} => xthread[t].on \in Objects
    BY DEF IInv, Busy, At
  <2>4. \A p \in slice : p \in Objects BY DEF IInv, Types
  <2>5. ASSUME NEW t \in Threads
        PROVE  /\ ~At(t, "out")' => xthread'[t].on \in Objects
               /\ xthread'[t].pc \in {"acquire", "acquire_wait"} => Kind(xthread[t].on)' = "mutant"
    <3>1. ~At(t, "out")' => xthread'[t].on \in Objects BY <1>9, <2>1 DEF IInv, Busy, At
    <3>2. ASSUME xthread'[t].pc \in {"acquire", "acquire_wait"} PROVE Kind(xthread[t].on)' = "mutant"
      <4>1. xthread'[t] = xthread[t] BY <2>1, <3>2
      <4>3. xthread[t].pc \in {"acquire", "acquire_wait"} BY <3>2, <4>1
      <4>4. xthread[t].on \in Objects BY <2>3, <4>3
      <4>2. Kind(xthread[t].on) = "mutant" BY <4>3 DEF IInv, Busy
      <4>. QED BY <1>7, <4>1, <4>2, <4>4 DEF Kind
    <3>. QED BY <3>1, <3>2
  <2>6. caller'.pc # "idle" => caller'.on \in Objects /\ Kind(caller.on)' \notin {"none", "mutant"}
    BY <1>1, <1>7, <2>2 DEF Kind
  <2>7. \A p \in slice' : Kind(p)' = "thread" BY <1>3, <1>11, <2>4 DEF IInv, Busy
  <2>. QED BY <2>5, <2>6, <2>7 DEF Busy
<1>13. Lists_'
  <2>1. \A p \in Objects : \A i \in DOMAIN objs[p].waiters_ : objs[p].waiters_[i] \in Threads
    BY ObjectFields DEF IInv
  <2>2. \A k \in DOMAIN rest : rest[k] = q[k + c] /\ k + c \in DOMAIN q BY <1>4
  <2>3. \A k, l \in DOMAIN rest : rest[k] = rest[l] => k = l
    <3>1. \A i, j \in DOMAIN q : q[i] = q[j] => i = j BY <1>1 DEF IInv, Lists_
    <3>. QED BY <1>4, <2>2, <3>1
  <2>4. \A k \in DOMAIN rest : rest[k] \in Threads /\ xthread[rest[k]].on = o /\ xthread[rest[k]].pc \in Listed
    BY <1>1, <2>1, <2>2 DEF IInv, Lists_
  <2>5. ASSUME NEW p \in Objects
        PROVE  /\ \A i \in DOMAIN objs'[p].waiters_ :
                    xthread'[objs'[p].waiters_[i]].on = p /\ xthread'[objs'[p].waiters_[i]].pc \in Listed
               /\ \A i, j \in DOMAIN objs'[p].waiters_ : objs'[p].waiters_[i] = objs'[p].waiters_[j] => i = j
    <3>1. CASE p = o BY <1>7, <1>9, <2>3, <2>4, <3>1
    <3>2. CASE p # o BY <1>7, <1>9, <2>1, <3>2 DEF IInv, Lists_
    <3>. QED BY <3>1, <3>2
  <2>. QED BY <2>5 DEF Lists_
<1>14. Wakes'
  <2>1. ASSUME NEW t \in Threads, xthread'[t].wait_result_ = "object"
        PROVE  xthread'[t].by = xthread'[t].on /\ xthread'[t].pc \in Listed \cup {"leave"}
    <3>1. CASE t \in woken BY <1>8, <1>9, <3>1
    <3>2. CASE t \notin woken BY <1>9, <2>1, <3>2 DEF IInv, Wakes
    <3>. QED BY <3>1, <3>2
  <2>. QED BY <2>1 DEF Wakes
<1>15. Mutants'
  <2>1. \A t \in Threads : (At(t, "disown")' <=> At(t, "disown")) /\ xthread'[t].on = xthread[t].on
    BY <1>9 DEF At, Listed
  <2>2. \A t \in Threads : At(t, "disown") => xthread[t].on \in Objects BY DEF IInv, Busy, At
  <2>3. \A p \in Objects : objs[p].owner \in Threads \cup {Nobody} BY ObjectFields DEF IInv
  <2>. QED BY <1>7, <1>9, <1>11, <2>1, <2>2, <2>3 DEF IInv, Mutants
<1>. QED BY <1>10, <1>12, <1>13, <1>14, <1>15 DEF IInv
-----------------------------------------------------------------------------
(* The steps of a wait                                                      *)

LEMMA ThreadFields ==
  ASSUME Types, NEW t \in Threads
  PROVE  xthread[t] \in XThread /\ xthread[t].held \in [Objects -> Nat] /\ xthread[t].on \in Objects \cup {Nobody}
BY DEF Types, XThread

\* What a thread is between calls: Away, but for the mutants it holds.
LEMMA AwayThread ==
  ASSUME NEW held \in [Objects -> Nat]
  PROVE  LET w == [Away EXCEPT !.held = held] IN
         w \in XThread /\ w.pc = "out" /\ w.on = Nobody /\ w.wait_result_ = "" /\ w.held = held
<1>1. Away \in XThread /\ Away.pc = "out" /\ Away.on = Nobody /\ Away.wait_result_ = ""
  BY DEF Away, XThread, Untils
<1>. QED BY <1>1 DEF XThread

LEMMA BeginStep ==
  ASSUME Named, IInv, NEW t \in Threads, NEW o \in Objects, NEW until \in Untils, Begin(t, o, until)
  PROVE  IInv'
<1> DEFINE w == [xthread[t] EXCEPT !.pc = "arm", !.on = o, !.until = until, !.by = Nobody]
<1>1. xthread[t] \in XThread BY ThreadFields DEF IInv
<1>2. At(t, "out") /\ Step(t, w) /\ UNCHANGED objs BY DEF Begin
<1>3. /\ w \in XThread /\ w.pc = "arm" /\ w.on = o /\ w.held = xthread[t].held
      /\ w.wait_result_ = xthread[t].wait_result_
  BY <1>1 DEF XThread, InWait
<1>4. xthread[t].wait_result_ # "object" BY <1>2 DEF IInv, Wakes, At, Listed
<1> HIDE DEF w
<1>. QED BY <1>2, <1>3, <1>4, ThreadStep DEF At, Listed

LEMMA WaitSteps ==
  ASSUME Named, IInv, NEW t \in Threads,
         Arm(t) \/ Test(t) \/ Block(t) \/ Timeout(t) \/ Leave(t) \/ AcquireTimeout(t) \/ alert(t)
  PROVE  IInv'
<1> DEFINE x == xthread[t]
<1>1. x \in XThread /\ x.held \in [Objects -> Nat] BY ThreadFields DEF IInv
<1>2. ~At(t, "out") => x.on \in Objects BY DEF IInv, Busy
<1>3. x.wait_result_ = "object" => x.by = x.on /\ x.pc \in Listed \cup {"leave"} BY DEF IInv, Wakes
<1>4. x.pc \in {"acquire", "acquire_wait"} => Kind(x.on) = "mutant" BY DEF IInv, Busy
<1>5. CASE Arm(t)
  <2> DEFINE w == [x EXCEPT !.pc = "add", !.wait_satisfied_ = FALSE, !.wait_result_ = "timeout"]
  <2>1. At(t, "arm") /\ Step(t, w) /\ UNCHANGED objs BY <1>5 DEF Arm
  <2>2. w \in XThread /\ w.pc = "add" /\ w.on = x.on /\ w.held = x.held /\ w.wait_result_ = "timeout"
    BY <1>1 DEF XThread, InWait
  <2> HIDE DEF w
  <2>. QED BY <1>2, <2>1, <2>2, ThreadStep DEF At, Listed
<1>6. CASE Test(t)
  <2> DEFINE w == [x EXCEPT !.pc = IF x.wait_satisfied_ THEN "clean" ELSE "block"]
  <2>1. At(t, "test") /\ Step(t, w) /\ UNCHANGED objs BY <1>6 DEF Test
  <2>2. /\ w \in XThread /\ w.pc \in {"clean", "block"} /\ w.on = x.on /\ w.held = x.held
        /\ w.wait_result_ = x.wait_result_ /\ w.by = x.by
    BY <1>1 DEF XThread, InWait, Listed
  <2> HIDE DEF w
  <2>. QED BY <1>2, <1>3, <2>1, <2>2, ThreadStep DEF At, Listed
<1>7. CASE Block(t)
  <2> DEFINE w == [x EXCEPT !.pc = "asleep"]
  <2>1. At(t, "block") /\ Step(t, w) /\ UNCHANGED objs BY <1>7 DEF Block
  <2>2. /\ w \in XThread /\ w.pc = "asleep" /\ w.on = x.on /\ w.held = x.held
        /\ w.wait_result_ = x.wait_result_ /\ w.by = x.by
    BY <1>1 DEF XThread, InWait, Listed
  <2> HIDE DEF w
  <2>. QED BY <1>2, <1>3, <2>1, <2>2, ThreadStep DEF At, Listed
<1>8. CASE Timeout(t)
  <2> DEFINE w == [x EXCEPT !.pc = "clean"]
  <2>1. At(t, "asleep") /\ Step(t, w) /\ UNCHANGED objs BY <1>8 DEF Timeout
  <2>2. /\ w \in XThread /\ w.pc = "clean" /\ w.on = x.on /\ w.held = x.held
        /\ w.wait_result_ = x.wait_result_ /\ w.by = x.by
    BY <1>1 DEF XThread, InWait, Listed
  <2> HIDE DEF w
  <2>. QED BY <1>2, <1>3, <2>1, <2>2, ThreadStep DEF At, Listed
<1>9. CASE Leave(t) \/ AcquireTimeout(t)
  <2> DEFINE w == [Away EXCEPT !.held = x.held]
  <2>1. x.pc \in {"leave", "acquire_wait"} /\ Step(t, w) /\ UNCHANGED objs BY <1>9 DEF Leave, AcquireTimeout, At
  <2>2. w \in XThread /\ w.pc = "out" /\ w.held = x.held /\ w.wait_result_ = "" BY <1>1, AwayThread
  <2> HIDE DEF w
  <2>. QED BY <2>1, <2>2, ThreadStep DEF At, Listed
<1>10. CASE alert(t)
  <2> DEFINE w == Woken(x, "apc")
  <2>1. ~At(t, "out") /\ Step(t, w) /\ UNCHANGED objs BY <1>10 DEF alert
  <2>2. /\ w \in XThread /\ w.pc = (IF x.pc = "asleep" THEN "test" ELSE x.pc) /\ w.on = x.on
        /\ w.held = x.held /\ w.wait_result_ = "apc"
    BY <1>1 DEF XThread, Woken, InWait, Listed
  <2> HIDE DEF w
  <2>. QED BY <1>2, <1>4, <2>1, <2>2, ThreadStep DEF At, Listed
<1>. QED BY <1>5, <1>6, <1>7, <1>8, <1>9, <1>10

\* A step of one thread on the list of its object.
LEMMA ListStep ==
  ASSUME Named, IInv, NEW t \in Threads, NEW o \in Objects, NEW list \in Seq(Threads), NEW w \in XThread,
         o = xthread[t].on, Step(t, w), objs' = [objs EXCEPT ![o].waiters_ = list],
         w = [xthread[t] EXCEPT !.pc = w.pc], xthread[t].pc \in {"add", "clean"}, w.pc \in {"test", "leave"},
         \A i \in DOMAIN list : /\ xthread[list[i]].on = o
                                /\ IF list[i] = t THEN w.pc \in Listed ELSE xthread[list[i]].pc \in Listed,
         \A i, j \in DOMAIN list : list[i] = list[j] => i = j
  PROVE  IInv'
<1> DEFINE x == xthread[t]
<1>1. x \in XThread BY ThreadFields DEF IInv
<1>2. /\ w.on = x.on /\ w.held = x.held /\ w.wait_result_ = x.wait_result_ /\ w.by = x.by
  <2> DEFINE y == [x EXCEPT !.pc = w.pc]
  <2>1. y.on = x.on /\ y.held = x.held /\ y.wait_result_ = x.wait_result_ /\ y.by = x.by BY <1>1 DEF XThread
  <2>. QED BY <2>1
<1>3. /\ xthread' \in [Threads -> XThread] /\ xthread'[t] = w
      /\ \A u \in Threads \ {t} : xthread'[u] = xthread[u] /\ UNCHANGED <<caller, slice>>
  BY DEF Step, IInv, Types
<1>4. /\ objs' \in [Objects -> XObject] /\ objs'[o].waiters_ = list
      /\ \A p \in Objects : /\ objs'[p].owner = objs[p].owner /\ objs'[p].kind = objs[p].kind
                            /\ objs'[p].level = objs[p].level
                            /\ p # o => objs'[p].waiters_ = objs[p].waiters_
  <2>1. objs \in [Objects -> XObject] /\ objs[o] \in XObject BY DEF IInv, Types
  <2> DEFINE obj == [objs[o] EXCEPT !.waiters_ = list]
  <2>2. objs' = [objs EXCEPT ![o] = obj] OBVIOUS
  <2>3. /\ obj \in XObject /\ obj.waiters_ = list /\ obj.owner = objs[o].owner
        /\ obj.kind = objs[o].kind /\ obj.level = objs[o].level
    BY <2>1 DEF XObject
  <2> HIDE DEF obj
  <2>. QED BY <2>1, <2>2, <2>3
<1>5. Types' BY <1>3, <1>4 DEF IInv, Types, Step
<1>6. \A u \in Threads : ~At(u, "out") => xthread[u].on \in Objects BY DEF IInv, Busy
<1>7. Busy'
  <2>1. \A p \in Objects : Kind(p)' = Kind(p) BY <1>4 DEF Kind
  <2>2. \A p \in slice : p \in Objects BY DEF IInv, Types
  <2>3. \A u \in Threads : xthread[u].pc \in {"acquire", "acquire_wait"} => xthread[u].on \in Objects
    BY <1>6 DEF At
  <2>. QED BY <1>2, <1>3, <2>1, <2>2, <2>3 DEF IInv, Busy, At, Step
<1>8. Lists_'
  <2>1. \A p \in Objects : \A i \in DOMAIN objs[p].waiters_ : objs[p].waiters_[i] \in Threads
    BY ObjectFields DEF IInv
  <2>2. ASSUME NEW p \in Objects
        PROVE  /\ \A i \in DOMAIN objs'[p].waiters_ :
                    xthread'[objs'[p].waiters_[i]].on = p /\ xthread'[objs'[p].waiters_[i]].pc \in Listed
               /\ \A i, j \in DOMAIN objs'[p].waiters_ : objs'[p].waiters_[i] = objs'[p].waiters_[j] => i = j
    <3>1. CASE p = o
      <4>1. \A i \in DOMAIN list : list[i] \in Threads OBVIOUS
      <4>. QED BY <1>2, <1>3, <1>4, <3>1, <4>1
    <3>2. CASE p # o
      <4>1. \A i \in DOMAIN objs[p].waiters_ : objs[p].waiters_[i] # t BY <3>2 DEF IInv, Lists_
      <4>. QED BY <1>3, <1>4, <2>1, <3>2, <4>1 DEF IInv, Lists_
    <3>. QED BY <3>1, <3>2
  <2>. QED BY <2>2 DEF Lists_
<1>9. Wakes'
  <2>1. x.wait_result_ = "object" => x.by = x.on BY DEF IInv, Wakes
  <2>. QED BY <1>2, <1>3, <2>1 DEF IInv, Wakes, Listed
<1>10. Mutants'
  <2>1. \A u \in Threads : /\ xthread'[u].held = xthread[u].held /\ (At(u, "disown")' <=> At(u, "disown"))
                           /\ xthread'[u].on = xthread[u].on
    BY <1>2, <1>3 DEF At
  <2>2. \A u \in Threads : At(u, "disown") => xthread[u].on \in Objects BY <1>6 DEF At
  <2>3. \A p \in Objects : Kind(p)' = Kind(p) /\ objs[p].owner \in Threads \cup {Nobody}
    BY <1>4, ObjectFields DEF Kind, IInv
  <2>. QED BY <1>4, <2>1, <2>2, <2>3 DEF IInv, Mutants
<1>. QED BY <1>5, <1>7, <1>8, <1>9, <1>10 DEF IInv

LEMMA AddWaiterStep ==
  ASSUME Named, IInv, NEW t \in Threads, add_waiter(t)
  PROVE  IInv'
<1> DEFINE x == xthread[t]
           o == x.on
           q == objs[o].waiters_
           w == [x EXCEPT !.pc = "test"]
           list == Append(q, t)
<1>1. x \in XThread /\ x.pc = "add" BY ThreadFields DEF IInv, add_waiter, At
<1>2. o \in Objects BY <1>1 DEF IInv, Busy, At
<1>3. q \in Seq(Threads) BY <1>2, ObjectFields DEF IInv
<1>4. w \in XThread /\ w.pc = "test" BY <1>1 DEF XThread, InWait, Listed
<1>5. list \in Seq(Threads) /\ DOMAIN list = 1..(Len(q) + 1) /\ list[Len(q) + 1] = t
      /\ DOMAIN q = 1..Len(q) /\ \A i \in DOMAIN q : list[i] = q[i]
  <2> HIDE DEF q
  <2>1. Len(q) \in Nat /\ DOMAIN q = 1..Len(q) BY <1>3
  <2>2. list \in Seq(Threads) /\ Len(list) = Len(q) + 1 BY <1>3
  <2>3. DOMAIN list = 1..(Len(q) + 1) BY <2>2
  <2>4. list[Len(q) + 1] = t /\ \A i \in 1..Len(q) : list[i] = q[i] BY <1>3
  <2>. QED BY <2>1, <2>2, <2>3, <2>4
<1>6. \A i \in DOMAIN q : q[i] # t BY <1>1, <1>2 DEF IInv, Lists_, Listed
<1>7. \A i \in DOMAIN list : i \in DOMAIN q \/ i = Len(q) + 1 BY <1>3, <1>5
<1>8. /\ \A i \in DOMAIN list : /\ xthread[list[i]].on = o
                                /\ IF list[i] = t THEN w.pc \in Listed ELSE xthread[list[i]].pc \in Listed
      /\ \A i, j \in DOMAIN list : list[i] = list[j] => i = j
  <2>1. \A i \in DOMAIN q : xthread[q[i]].on = o /\ xthread[q[i]].pc \in Listed BY <1>2 DEF IInv, Lists_
  <2>2. \A i, j \in DOMAIN q : q[i] = q[j] => i = j BY <1>2 DEF IInv, Lists_
  <2>3. w.pc \in Listed BY <1>4 DEF Listed
  <2> HIDE DEF list, w, q
  <2>. QED BY <1>5, <1>6, <1>7, <2>1, <2>2, <2>3
<1>9. Step(t, w) /\ objs' = [objs EXCEPT ![o].waiters_ = list] BY DEF add_waiter
<1>10. w = [x EXCEPT !.pc = w.pc] BY <1>4
<1>11. x.pc \in {"add", "clean"} /\ w.pc \in {"test", "leave"} /\ list \in Seq(Threads) BY <1>1, <1>4, <1>5
<1> HIDE DEF w, list, q
<1>. QED BY <1>2, <1>4, <1>8, <1>9, <1>10, <1>11, ListStep

LEMMA RemoveWaiterStep ==
  ASSUME Named, IInv, NEW t \in Threads, remove_waiter(t)
  PROVE  IInv'
<1> DEFINE x == xthread[t]
           o == x.on
           q == objs[o].waiters_
           w == [x EXCEPT !.pc = "leave"]
           list == Without(q, t)
<1>1. x \in XThread /\ x.pc = "clean" BY ThreadFields DEF IInv, remove_waiter, At
<1>2. o \in Objects BY <1>1 DEF IInv, Busy, At
<1>3. q \in Seq(Threads) BY <1>2, ObjectFields DEF IInv
<1>4. w \in XThread /\ w.pc = "leave" BY <1>1 DEF XThread, InWait
<1>5. /\ list \in Seq(Threads)
      /\ \A k \in DOMAIN list : \E i \in DOMAIN q : list[k] = q[i] /\ q[i] # t
      /\ \A k, l \in DOMAIN list :
           \E i, j \in DOMAIN q : list[k] = q[i] /\ list[l] = q[j] /\ (i = j => k = l)
  <2> HIDE DEF q
  <2>. QED BY <1>3, WithoutList
<1>6. \A i \in DOMAIN q : xthread[q[i]].on = o /\ xthread[q[i]].pc \in Listed BY <1>2 DEF IInv, Lists_
<1>7. \A i, j \in DOMAIN q : q[i] = q[j] => i = j BY <1>2 DEF IInv, Lists_
<1>8. Step(t, w) /\ objs' = [objs EXCEPT ![o].waiters_ = list] BY DEF remove_waiter
<1>9. w = [x EXCEPT !.pc = w.pc] BY <1>4
<1> HIDE DEF w, list, q
<1>10. /\ \A i \in DOMAIN list : /\ xthread[list[i]].on = o
                                 /\ IF list[i] = t THEN w.pc \in Listed ELSE xthread[list[i]].pc \in Listed
       /\ \A i, j \in DOMAIN list : list[i] = list[j] => i = j
  BY <1>5, <1>6, <1>7
<1>. QED BY <1>1, <1>2, <1>4, <1>5, <1>8, <1>9, <1>10, ListStep
-----------------------------------------------------------------------------
(* The steps of a mutant                                                    *)

\* What changes a mutant's owner leaves the lists and the wakes as they are.
LEMMA OwnerStep ==
  ASSUME Named, IInv, NEW t \in Threads, NEW o \in Objects, NEW w \in XThread,
         NEW owner \in Threads \cup {Nobody}, NEW n \in 0..MaxCount,
         Step(t, w), objs' = [objs EXCEPT ![o].owner = owner, ![o].level = n], Kind(o) = "mutant",
         xthread[t].pc \notin Listed, w.pc \in {"out", "disown", "tell"}, w.pc = "out" \/ w.on = o,
         w.wait_result_ # "object"
  PROVE  /\ Types' /\ Busy' /\ Lists_' /\ Wakes'
         /\ xthread'[t] = w /\ \A u \in Threads \ {t} : xthread'[u] = xthread[u]
         /\ objs'[o].owner = owner /\ objs'[o].level = n
         /\ \A p \in Objects : Kind(p)' = Kind(p) /\ (p # o => objs'[p] = objs[p])
<1>1. /\ xthread' \in [Threads -> XThread] /\ xthread'[t] = w
      /\ \A u \in Threads \ {t} : xthread'[u] = xthread[u]
  BY DEF Step, IInv, Types
<1>2. /\ objs' \in [Objects -> XObject] /\ objs'[o].owner = owner /\ objs'[o].level = n
      /\ \A p \in Objects : /\ objs'[p].kind = objs[p].kind /\ objs'[p].waiters_ = objs[p].waiters_
                            /\ p # o => objs'[p] = objs[p]
  <2>1. objs \in [Objects -> XObject] /\ objs[o] \in XObject BY DEF IInv, Types
  <2>. QED BY <2>1 DEF XObject
<1>3. \A p \in Objects : Kind(p)' = Kind(p) BY <1>2 DEF Kind
<1>4. UNCHANGED <<caller, slice>> BY DEF Step
<1>5. Types' BY <1>1, <1>2, <1>4 DEF IInv, Types
<1>6. Busy'
  <2>1. \A u \in Threads : ~At(u, "out") => xthread[u].on \in Objects BY DEF IInv, Busy
  <2>2. \A u \in Threads : xthread[u].pc \in {"acquire", "acquire_wait"} => xthread[u].on \in Objects
    BY <2>1 DEF At
  <2>3. \A p \in slice : p \in Objects BY DEF IInv, Types
  <2>. QED BY <1>1, <1>3, <1>4, <2>2, <2>3 DEF IInv, Busy, At
<1>7. Lists_'
  <2>1. \A p \in Objects : \A i \in DOMAIN objs[p].waiters_ : objs[p].waiters_[i] \in Threads \ {t}
    BY ObjectFields DEF IInv, Lists_
  <2>. QED BY <1>1, <1>2, <2>1 DEF IInv, Lists_
<1>8. Wakes' BY <1>1 DEF IInv, Wakes
<1>. QED BY <1>1, <1>2, <1>3, <1>5, <1>6, <1>7, <1>8

\* A mutant that is free, or its caller's already, is the caller's once more.
LEMMA GrantedStep ==
  ASSUME Named, IInv, NEW t \in Threads, NEW o \in Objects, NEW n \in 1..MaxCount,
         Granted(t, o, n), Kind(o) = "mutant", xthread[t].pc \in {"out", "acquire"},
         \/ objs[o].owner = Nobody /\ n = 1
         \/ objs[o].owner = t /\ At(t, "out") /\ n = objs[o].level + 1
  PROVE  IInv'
<1> DEFINE x == xthread[t]
           held == [x.held EXCEPT ![o] = @ + 1]
           w == [Away EXCEPT !.held = held]
<1>1. x \in XThread /\ x.held \in [Objects -> Nat] BY ThreadFields DEF IInv
<1>2. held \in [Objects -> Nat] /\ held[o] = x.held[o] + 1 /\ \A p \in Objects \ {o} : held[p] = x.held[p]
  BY <1>1
<1> HIDE DEF held
<1>3. w \in XThread /\ w.pc = "out" /\ w.wait_result_ = "" /\ w.held = held BY <1>2, AwayThread
<1>4. Step(t, w) /\ objs' = [objs EXCEPT ![o].owner = t, ![o].level = n] BY DEF Granted, held
<1> HIDE DEF w
<1>5. /\ Types' /\ Busy' /\ Lists_' /\ Wakes'
      /\ xthread'[t] = w /\ \A u \in Threads \ {t} : xthread'[u] = xthread[u]
      /\ objs'[o].owner = t /\ objs'[o].level = n
      /\ \A p \in Objects : Kind(p)' = Kind(p) /\ (p # o => objs'[p] = objs[p])
  <2>1. n \in 0..MaxCount BY DEF Named
  <2>2. x.pc \notin Listed BY DEF Listed
  <2>. QED BY <1>3, <1>4, <2>1, <2>2, OwnerStep
<1>6. Mutants'
  <2>1. \A u \in Threads, p \in Objects : xthread[u].held[p] \in Nat BY ThreadFields DEF IInv
  <2>2. \A u \in Threads : xthread[u].held[o] > 0 => u = t BY DEF IInv, Mutants, Named
  <2>3. x.held[o] + 1 = n
    <3>1. CASE objs[o].owner = Nobody BY <2>1, <3>1 DEF IInv, Mutants, Named
    <3>2. CASE objs[o].owner = t BY <3>2 DEF IInv, Mutants, At, Named
    <3>. QED BY <3>1, <3>2
  <2>4. \A u \in Threads : At(u, "disown")' => u # t /\ At(u, "disown") /\ xthread[u].on # o
    <3>1. \A u \in Threads : At(u, "disown") =>
            objs[xthread[u].on].owner = u /\ xthread[u].held[xthread[u].on] = 0 /\ xthread[u].on \in Objects
      BY DEF IInv, Mutants, Busy, At
    <3>2. \A u \in Threads : At(u, "disown") => xthread[u].on # o
      BY <2>3, <3>1 DEF Named, At
    <3>. QED BY <1>3, <1>5, <3>2 DEF At
  <2>5. ASSUME NEW p \in Objects, NEW u \in Threads, xthread'[u].held[p] > 0
        PROVE  Kind(p)' = "mutant" /\ objs'[p].owner = u /\ objs'[p].level = xthread'[u].held[p]
    <3>1. CASE p = o BY <1>2, <1>3, <1>5, <2>2, <2>3, <2>5, <3>1
    <3>2. CASE p # o
      <4>1. xthread'[u].held[p] = xthread[u].held[p] BY <1>2, <1>3, <1>5, <3>2
      <4>. QED BY <1>5, <2>5, <3>2, <4>1 DEF IInv, Mutants
    <3>. QED BY <3>1, <3>2
  <2>6. ASSUME NEW p \in Objects, objs'[p].owner # Nobody
        PROVE  /\ Kind(p)' = "mutant"
               /\ \/ xthread'[objs'[p].owner].held[p] > 0
                  \/ xthread'[objs'[p].owner].pc = "disown" /\ xthread'[objs'[p].owner].on = p
    <3>1. CASE p = o
      <4>1. xthread'[t].held[o] = x.held[o] + 1 BY <1>2, <1>3, <1>5
      <4>2. x.held[o] + 1 > 0 BY <2>1
      <4>. QED BY <1>5, <3>1, <4>1, <4>2
    <3>2. CASE p # o
      <4>1. objs'[p] = objs[p] /\ Kind(p) = "mutant" /\ objs[p].owner \in Threads
        BY <1>5, <2>6, <3>2, ObjectFields DEF IInv, Mutants
      <4>2. CASE objs[p].owner = t
        <5>1. x.held[p] > 0 BY <2>6, <4>1, <4>2 DEF IInv, Mutants, At
        <5>2. xthread'[t].held[p] = x.held[p] BY <1>2, <1>3, <1>5, <3>2
        <5>. QED BY <1>5, <4>1, <4>2, <5>1, <5>2
      <4>3. CASE objs[p].owner # t BY <1>5, <2>6, <4>1, <4>3 DEF IInv, Mutants, At
      <4>. QED BY <4>2, <4>3
    <3>. QED BY <3>1, <3>2
  <2>7. \A u \in Threads : At(u, "disown") => xthread[u].on \in Objects BY DEF IInv, Busy, At
  <2>8. ASSUME NEW u \in Threads, At(u, "disown")'
        PROVE  LET p == xthread'[u].on IN
               Kind(xthread[u].on)' = "mutant" /\ objs'[p].owner = u /\ objs'[p].level = 0 /\ xthread'[u].held[p] = 0
    <3>1. u # t /\ At(u, "disown") /\ xthread[u].on # o /\ xthread[u].on \in Objects BY <2>4, <2>7, <2>8
    <3>. QED BY <1>5, <3>1 DEF IInv, Mutants, Kind
  <2>. QED BY <2>5, <2>6, <2>8 DEF Mutants, At
<1>. QED BY <1>5, <1>6 DEF IInv

\* The blocked branch and the wake of acquire; the grants are GrantedStep's.
LEMMA AcquireSteps ==
  ASSUME Named, IInv, NEW t \in Threads,
         \/ \E o \in Objects, until \in Untils : acquire(t, o, until)
         \/ AcquireTest(t)
  PROVE  IInv'
<1> DEFINE x == xthread[t]
<1>1. x \in XThread BY ThreadFields DEF IInv
<1>2. x.wait_result_ = "object" => x.pc \in Listed \cup {"leave"} BY DEF IInv, Wakes
<1>3. 1 \in 1..MaxCount BY DEF Named
<1>4. ASSUME NEW o \in Objects, NEW until \in Untils, acquire(t, o, until) PROVE IInv'
  <2>1. x.pc = "out" /\ Kind(o) = "mutant" BY <1>4 DEF acquire, At
  <2>2. CASE objs[o].owner = Nobody /\ Granted(t, o, 1) BY <1>3, <2>1, <2>2, GrantedStep
  <2>3. CASE objs[o].owner = t /\ objs[o].level < MaxCount /\ Granted(t, o, objs[o].level + 1)
    <3>1. objs[o].level \in 0..MaxCount BY ObjectFields DEF IInv
    <3>2. objs[o].level + 1 \in 1..MaxCount BY <2>3, <3>1 DEF Named
    <3>. QED BY <2>1, <2>3, <3>2, GrantedStep DEF At
  <2>4. CASE UNCHANGED objs /\ Step(t, [x EXCEPT !.pc = "acquire", !.on = o, !.until = until])
    <3> DEFINE w == [x EXCEPT !.pc = "acquire", !.on = o, !.until = until]
    <3>1. /\ w \in XThread /\ w.pc = "acquire" /\ w.on = o /\ w.held = x.held
          /\ w.wait_result_ = x.wait_result_
      BY <1>1 DEF XThread, InMutant
    <3>2. Step(t, w) /\ UNCHANGED objs BY <2>4
    <3> HIDE DEF w
    <3>. QED BY <1>2, <2>1, <3>1, <3>2, ThreadStep DEF At, Listed
  <2>. QED BY <1>4, <2>2, <2>3, <2>4 DEF acquire
<1>5. CASE AcquireTest(t)
  <2> DEFINE o == x.on
  <2>1. x.pc = "acquire" /\ o \in Objects /\ Kind(o) = "mutant" BY <1>5 DEF AcquireTest, At, IInv, Busy
  <2>2. CASE objs[o].owner = Nobody /\ Granted(t, o, 1) BY <1>3, <2>1, <2>2, GrantedStep
  <2>3. CASE Step(t, [x EXCEPT !.pc = "acquire_wait"]) /\ UNCHANGED objs
    <3> DEFINE w == [x EXCEPT !.pc = "acquire_wait"]
    <3>1. /\ w \in XThread /\ w.pc = "acquire_wait" /\ w.on = o /\ w.held = x.held
          /\ w.wait_result_ = x.wait_result_
      BY <1>1 DEF XThread, InMutant
    <3>2. Step(t, w) /\ UNCHANGED objs BY <2>3
    <3> HIDE DEF w
    <3>. QED BY <1>2, <2>1, <3>1, <3>2, ThreadStep DEF At, Listed
  <2>. QED BY <1>5, <2>2, <2>3 DEF AcquireTest
<1>. QED BY <1>4, <1>5

\* The last release leaves the owner's name in the mutant until Disown.
LEMMA ReleaseStep ==
  ASSUME Named, IInv, NEW t \in Threads, NEW o \in Objects, release(t, o)
  PROVE  IInv'
<1> DEFINE x == xthread[t]
           last == objs[o].level = 1
           held == [x.held EXCEPT ![o] = @ - 1]
           w == [x EXCEPT !.pc = IF last THEN "disown" ELSE "out", !.on = IF last THEN o ELSE Nobody,
                          !.held[o] = @ - 1]
           n == objs[o].level - 1
<1>1. x \in XThread /\ x.held \in [Objects -> Nat] BY ThreadFields DEF IInv
<1>2. x.pc = "out" /\ Kind(o) = "mutant" /\ x.held[o] > 0 BY DEF release, At
<1>3. objs[o].owner = t /\ objs[o].level = x.held[o] BY <1>2 DEF IInv, Mutants
<1>4. objs[o].level \in 0..MaxCount BY ObjectFields DEF IInv
<1>5. n \in 0..MaxCount BY <1>2, <1>3, <1>4 DEF Named
<1>6. held \in [Objects -> Nat] /\ held[o] = n /\ \A p \in Objects \ {o} : held[p] = x.held[p]
  BY <1>1, <1>2, <1>3, <1>5
<1>7. /\ w \in XThread /\ w.pc = (IF last THEN "disown" ELSE "out") /\ w.on = (IF last THEN o ELSE Nobody)
      /\ w.held = held /\ w.wait_result_ = x.wait_result_
  <2>1. w = [x EXCEPT !.pc = IF last THEN "disown" ELSE "out", !.on = IF last THEN o ELSE Nobody, !.held = held]
    BY <1>1 DEF XThread
  <2> HIDE DEF held, last
  <2>. QED BY <1>1, <1>6, <2>1 DEF XThread, InMutant
<1>8. x.wait_result_ # "object" BY <1>2 DEF IInv, Wakes, Listed
<1>9. objs' = [objs EXCEPT ![o].owner = t, ![o].level = n]
  <2>1. objs \in [Objects -> XObject] /\ objs[o] \in XObject BY ObjectFields DEF IInv, Types
  <2>2. objs' = [objs EXCEPT ![o] = [objs[o] EXCEPT !.level = n]] BY DEF release
  <2>3. [objs[o] EXCEPT !.level = n] = [objs[o] EXCEPT !.owner = t, !.level = n] BY <1>3, <2>1 DEF XObject
  <2>. QED BY <2>1, <2>2, <2>3
<1>10. Step(t, w) BY DEF release
<1> HIDE DEF w, held
<1>11. /\ Types' /\ Busy' /\ Lists_' /\ Wakes'
       /\ xthread'[t] = w /\ \A u \in Threads \ {t} : xthread'[u] = xthread[u]
       /\ objs'[o].owner = t /\ objs'[o].level = n
       /\ \A p \in Objects : Kind(p)' = Kind(p) /\ (p # o => objs'[p] = objs[p])
  <2>1. x.pc \notin Listed /\ w.pc \in {"out", "disown", "tell"} /\ (w.pc = "out" \/ w.on = o)
        /\ w.wait_result_ # "object"
    BY <1>2, <1>7, <1>8 DEF Listed
  <2>2. w \in XThread /\ t \in Threads \cup {Nobody} BY <1>7
  <2> HIDE DEF n, last
  <2>. QED BY <1>2, <1>5, <1>9, <1>10, <2>1, <2>2, OwnerStep
<1>12. Mutants'
  <2>1. ASSUME NEW p \in Objects, NEW u \in Threads, xthread'[u].held[p] > 0
        PROVE  Kind(p)' = "mutant" /\ objs'[p].owner = u /\ objs'[p].level = xthread'[u].held[p]
    <3>1. CASE u = t /\ p = o BY <1>2, <1>6, <1>7, <1>11, <3>1
    <3>2. CASE u # t \/ p # o
      <4>1. xthread'[u].held[p] = xthread[u].held[p] BY <1>6, <1>7, <1>11, <3>2
      <4>2. Kind(p) = "mutant" /\ objs[p].owner = u /\ objs[p].level = xthread[u].held[p]
        BY <2>1, <4>1 DEF IInv, Mutants
      <4>3. p # o BY <1>3, <3>2, <4>2
      <4>. QED BY <1>11, <4>1, <4>2, <4>3
    <3>. QED BY <3>1, <3>2
  <2>2. ASSUME NEW p \in Objects, objs'[p].owner # Nobody
        PROVE  /\ Kind(p)' = "mutant"
               /\ \/ xthread'[objs'[p].owner].held[p] > 0
                  \/ xthread'[objs'[p].owner].pc = "disown" /\ xthread'[objs'[p].owner].on = p
    <3>1. CASE p = o BY <1>2, <1>4, <1>5, <1>6, <1>7, <1>11, <3>1
    <3>2. CASE p # o
      <4>1. objs'[p] = objs[p] /\ Kind(p) = "mutant" /\ objs[p].owner \in Threads
        BY <1>11, <2>2, <3>2, ObjectFields DEF IInv, Mutants
      <4>2. CASE objs[p].owner = t
        <5>1. x.held[p] > 0 BY <1>2, <2>2, <4>1, <4>2 DEF IInv, Mutants, At
        <5>. QED BY <1>6, <1>7, <1>11, <3>2, <4>1, <4>2, <5>1
      <4>3. CASE objs[p].owner # t BY <1>11, <2>2, <4>1, <4>3 DEF IInv, Mutants, At
      <4>. QED BY <4>2, <4>3
    <3>. QED BY <3>1, <3>2
  <2>3. \A u \in Threads : At(u, "disown") => xthread[u].on \in Objects BY DEF IInv, Busy, At
  <2>4. ASSUME NEW u \in Threads, At(u, "disown")'
        PROVE  LET p == xthread'[u].on IN
               Kind(xthread[u].on)' = "mutant" /\ objs'[p].owner = u /\ objs'[p].level = 0 /\ xthread'[u].held[p] = 0
    <3>1. CASE u = t
      <4>1. last /\ xthread'[u].on = o /\ n = 0 BY <1>7, <1>11, <2>4, <3>1 DEF At
      <4>. QED BY <1>2, <1>6, <1>7, <1>11, <3>1, <4>1 DEF Kind
    <3>2. CASE u # t
      <4>1. xthread'[u] = xthread[u] /\ At(u, "disown") /\ xthread[u].on \in Objects
        BY <1>11, <2>3, <2>4, <3>2 DEF At
      <4>2. LET p == xthread[u].on IN
            Kind(p) = "mutant" /\ objs[p].owner = u /\ objs[p].level = 0 /\ xthread[u].held[p] = 0
        BY <4>1 DEF IInv, Mutants
      <4>3. xthread[u].on # o BY <1>3, <3>2, <4>2
      <4>. QED BY <1>11, <4>1, <4>2, <4>3 DEF Kind
    <3>. QED BY <3>1, <3>2
  <2>. QED BY <2>1, <2>2, <2>4 DEF Mutants, At
<1>. QED BY <1>11, <1>12 DEF IInv

LEMMA DisownStep ==
  ASSUME Named, IInv, NEW t \in Threads, Disown(t)
  PROVE  IInv'
<1> DEFINE x == xthread[t]
           o == x.on
           w == [x EXCEPT !.pc = "tell"]
<1>1. x \in XThread /\ x.held \in [Objects -> Nat] BY ThreadFields DEF IInv
<1>2. x.pc = "disown" /\ o \in Objects BY DEF Disown, At, IInv, Busy
<1>3. Kind(o) = "mutant" /\ objs[o].owner = t /\ objs[o].level = 0 /\ x.held[o] = 0
  BY <1>2 DEF IInv, Mutants, At
<1>4. w \in XThread /\ w.pc = "tell" /\ w.on = o /\ w.held = x.held /\ w.wait_result_ = x.wait_result_
  BY <1>1 DEF XThread, InMutant
<1>5. x.wait_result_ # "object" BY <1>2 DEF IInv, Wakes, Listed
<1>6. objs' = [objs EXCEPT ![o].owner = Nobody, ![o].level = 0]
  <2>1. objs \in [Objects -> XObject] /\ objs[o] \in XObject BY <1>2, ObjectFields DEF IInv, Types
  <2>2. objs' = [objs EXCEPT ![o] = [objs[o] EXCEPT !.owner = Nobody]] BY DEF Disown
  <2>3. [objs[o] EXCEPT !.owner = Nobody] = [objs[o] EXCEPT !.owner = Nobody, !.level = 0]
    BY <1>3, <2>1 DEF XObject
  <2>. QED BY <2>1, <2>2, <2>3
<1>7. Step(t, w) BY DEF Disown
<1> HIDE DEF w
<1>8. /\ Types' /\ Busy' /\ Lists_' /\ Wakes'
      /\ xthread'[t] = w /\ \A u \in Threads \ {t} : xthread'[u] = xthread[u]
      /\ objs'[o].owner = Nobody /\ objs'[o].level = 0
      /\ \A p \in Objects : Kind(p)' = Kind(p) /\ (p # o => objs'[p] = objs[p])
  <2>1. x.pc \notin Listed /\ w.pc \in {"out", "disown", "tell"} /\ (w.pc = "out" \/ w.on = o)
        /\ w.wait_result_ # "object"
    BY <1>2, <1>4, <1>5 DEF Listed
  <2>2. w \in XThread /\ Nobody \in Threads \cup {Nobody} /\ 0 \in 0..MaxCount BY <1>4 DEF Named
  <2>. QED BY <1>2, <1>3, <1>6, <1>7, <2>1, <2>2, OwnerStep
<1>9. Mutants'
  <2>1. \A u \in Threads : xthread'[u].held = xthread[u].held BY <1>4, <1>8
  <2>2. \A u \in Threads : xthread'[u].pc = "disown" => u # t /\ xthread'[u] = xthread[u] BY <1>4, <1>8
  <2>3. ASSUME NEW p \in Objects, NEW u \in Threads, xthread'[u].held[p] > 0
        PROVE  Kind(p)' = "mutant" /\ objs'[p].owner = u /\ objs'[p].level = xthread'[u].held[p]
    <3>1. Kind(p) = "mutant" /\ objs[p].owner = u /\ objs[p].level = xthread[u].held[p] /\ xthread[u].held[p] > 0
      BY <2>1, <2>3 DEF IInv, Mutants
    <3>2. p # o BY <1>3, <3>1
    <3>. QED BY <1>8, <2>1, <3>1, <3>2
  <2>4. ASSUME NEW p \in Objects, objs'[p].owner # Nobody
        PROVE  /\ Kind(p)' = "mutant"
               /\ \/ xthread'[objs'[p].owner].held[p] > 0
                  \/ xthread'[objs'[p].owner].pc = "disown" /\ xthread'[objs'[p].owner].on = p
    <3>1. p # o BY <1>8, <2>4
    <3>2. objs'[p] = objs[p] /\ Kind(p) = "mutant" /\ objs[p].owner \in Threads
      BY <1>8, <2>4, <3>1, ObjectFields DEF IInv, Mutants
    <3>3. \/ xthread[objs[p].owner].held[p] > 0
          \/ xthread[objs[p].owner].pc = "disown" /\ xthread[objs[p].owner].on = p
      <4>1. objs[p].owner # Nobody BY <2>4, <3>2
      <4>2. \A a \in Objects : objs[a].owner # Nobody =>
              \/ xthread[objs[a].owner].held[a] > 0
              \/ xthread[objs[a].owner].pc = "disown" /\ xthread[objs[a].owner].on = a
        BY DEF IInv, Mutants, At
      <4>. QED BY <4>1, <4>2
    <3>4. CASE objs[p].owner = t BY <1>2, <1>8, <2>1, <3>1, <3>2, <3>3, <3>4
    <3>5. CASE objs[p].owner # t BY <1>8, <3>2, <3>3, <3>5
    <3>. QED BY <3>4, <3>5
  <2>5. \A u \in Threads : xthread[u].pc = "disown" => xthread[u].on \in Objects BY DEF IInv, Busy, At
  <2>6. ASSUME NEW u \in Threads, At(u, "disown")'
        PROVE  LET p == xthread'[u].on IN
               Kind(xthread[u].on)' = "mutant" /\ objs'[p].owner = u /\ objs'[p].level = 0 /\ xthread'[u].held[p] = 0
    <3>1. u # t /\ xthread'[u] = xthread[u] /\ xthread[u].pc = "disown" /\ xthread[u].on \in Objects
      BY <2>2, <2>5, <2>6 DEF At
    <3>2. LET p == xthread[u].on IN
          Kind(p) = "mutant" /\ objs[p].owner = u /\ objs[p].level = 0 /\ xthread[u].held[p] = 0
      BY <3>1 DEF IInv, Mutants, At
    <3>3. xthread[u].on # o BY <1>3, <3>1, <3>2
    <3>. QED BY <1>8, <3>1, <3>2, <3>3 DEF Kind
  <2>. QED BY <2>3, <2>4, <2>6 DEF Mutants, At
<1>. QED BY <1>8, <1>9 DEF IInv

\* The release that gave up a mutant wakes the first who waits for it, and one
\* who sleeps in acquire.
LEMMA TellStep ==
  ASSUME Named, IInv, NEW t \in Threads, Tell(t)
  PROVE  IInv'
<1> DEFINE x == xthread[t]
           o == x.on
           q == objs[o].waiters_
           c == Len(Chosen(o, 1))
           rest == SubSeq(q, c + 1, Len(q))
           woken == Range(Chosen(o, 1))
           quiet == [Away EXCEPT !.held = x.held]
           asleep == {u \in Threads : At(u, "acquire_wait") /\ xthread[u].on = o}
<1>1. x \in XThread /\ x.held \in [Objects -> Nat] BY ThreadFields DEF IInv
<1>2. x.pc = "tell" /\ o \in Objects BY DEF Tell, At, IInv, Busy
<1>3. /\ rest \in Seq(Threads) /\ DOMAIN rest = 1..(Len(q) - c) /\ c \in 0..Len(q)
      /\ \A k \in 1..(Len(q) - c) : rest[k] = q[k + c] /\ k + c \in DOMAIN q
      /\ \A u \in woken : \E i \in DOMAIN q : u = q[i]
  <2>1. 1 \in Nat OBVIOUS
  <2>. QED BY <1>2, <2>1, ChosenFirst DEF IInv
<1>4. quiet \in XThread /\ quiet.pc = "out" /\ quiet.wait_result_ = "" /\ quiet.held = x.held BY <1>1, AwayThread
<1>5. PICK notified \in IF asleep = {} THEN {Nobody} ELSE asleep :
        xthread' = [u \in Threads |->
          IF u = t THEN quiet
          ELSE IF u \in woken THEN WokenBy(xthread[u], o)
          ELSE IF u = notified THEN [xthread[u] EXCEPT !.pc = "acquire"] ELSE xthread[u]]
  BY DEF Tell
<1>6. objs' = [objs EXCEPT ![o].waiters_ = rest] /\ UNCHANGED <<caller, slice>> BY DEF Tell
<1>7. notified \in Threads => xthread[notified].pc = "acquire_wait" /\ xthread[notified].on = o
  BY DEF Named, At
<1> HIDE DEF rest, woken, c, quiet, asleep
<1>8. /\ objs' \in [Objects -> XObject] /\ objs'[o].waiters_ = rest
      /\ \A p \in Objects : /\ objs'[p].owner = objs[p].owner /\ objs'[p].kind = objs[p].kind
                            /\ objs'[p].level = objs[p].level
                            /\ p # o => objs'[p].waiters_ = objs[p].waiters_
  <2>1. objs \in [Objects -> XObject] /\ objs[o] \in XObject BY <1>2, ObjectFields DEF IInv, Types
  <2> DEFINE obj == [objs[o] EXCEPT !.waiters_ = rest]
  <2>2. objs' = [objs EXCEPT ![o] = obj] BY <1>6
  <2>3. /\ obj \in XObject /\ obj.waiters_ = rest /\ obj.owner = objs[o].owner
        /\ obj.kind = objs[o].kind /\ obj.level = objs[o].level
    BY <1>3, <2>1 DEF XObject
  <2> HIDE DEF obj
  <2>. QED BY <1>2, <2>1, <2>2, <2>3
<1>9. ASSUME NEW u \in woken
      PROVE  xthread[u].on = o /\ xthread[u].pc \in Listed /\ u \in Threads
  <2>1. PICK i \in DOMAIN q : u = q[i] BY <1>3
  <2>. QED BY <1>2, <2>1, ObjectFields DEF IInv, Lists_
<1>10. xthread'[t] = quiet BY <1>5
<1>11. ASSUME NEW u \in Threads \ {t}
       PROVE  /\ xthread'[u] \in XThread /\ xthread'[u].on = xthread[u].on /\ xthread'[u].held = xthread[u].held
              /\ xthread[u].pc \in Listed => xthread'[u].pc \in Listed
              /\ xthread'[u].pc = "out" <=> xthread[u].pc = "out"
              /\ xthread'[u].pc = "disown" <=> xthread[u].pc = "disown"
              /\ xthread'[u].pc \in {"acquire", "acquire_wait"} => xthread[u].pc \in {"acquire", "acquire_wait"}
              /\ xthread'[u].wait_result_ = "object" =>
                   xthread'[u].by = xthread'[u].on /\ xthread'[u].pc \in Listed \cup {"leave"}
  <2>1. xthread[u] \in XThread BY DEF IInv, Types
  <2>2. CASE u \in woken
    <3>1. xthread'[u] = WokenBy(xthread[u], o) BY <1>5, <2>2
    <3>2. xthread[u].on = o /\ xthread[u].pc \in Listed BY <1>9, <2>2
    <3>. QED BY <1>2, <2>1, <3>1, <3>2 DEF WokenBy, Woken, XThread, Listed, InWait
  <2>3. xthread[u].wait_result_ = "object" =>
          xthread[u].by = xthread[u].on /\ xthread[u].pc \in Listed \cup {"leave"}
    BY DEF IInv, Wakes
  <2>4. CASE u \notin woken /\ u = notified
    <3>1. xthread'[u] = [xthread[u] EXCEPT !.pc = "acquire"] BY <1>5, <2>4
    <3>2. xthread[u].pc = "acquire_wait" BY <1>7, <2>4
    <3>3. xthread[u].wait_result_ # "object" BY <2>3, <3>2 DEF Listed
    <3>. QED BY <2>1, <3>1, <3>2, <3>3 DEF XThread, Listed, InMutant
  <2>5. CASE u \notin woken /\ u # notified
    <3>1. xthread'[u] = xthread[u] BY <1>5, <2>5
    <3>. QED BY <2>1, <2>3, <3>1
  <2>. QED BY <2>2, <2>4, <2>5
<1>12. Types'
  <2>1. xthread' \in [Threads -> XThread] BY <1>4, <1>5, <1>10, <1>11
  <2>. QED BY <1>6, <1>8, <2>1 DEF IInv, Types
<1>13. \A p \in Objects : Kind(p)' = Kind(p) BY <1>8 DEF Kind
<1>14. Busy'
  <2>1. \A u \in Threads : xthread[u].pc \in {"acquire", "acquire_wait"} =>
          xthread[u].on \in Objects /\ Kind(xthread[u].on) = "mutant"
    BY DEF IInv, Busy, At
  <2>2. ASSUME NEW u \in Threads
        PROVE  /\ ~At(u, "out")' => xthread'[u].on \in Objects
               /\ xthread'[u].pc \in {"acquire", "acquire_wait"} => Kind(xthread[u].on)' = "mutant"
    <3>1. CASE u = t BY <1>4, <1>10, <3>1 DEF At
    <3>2. CASE u # t
      <4>1. ~At(u, "out")' => xthread'[u].on \in Objects BY <1>11, <3>2 DEF IInv, Busy, At
      <4>2. xthread'[u].pc \in {"acquire", "acquire_wait"} => Kind(xthread[u].on)' = "mutant"
        BY <1>8, <1>11, <2>1, <3>2 DEF Kind
      <4>. QED BY <4>1, <4>2
    <3>. QED BY <3>1, <3>2
  <2>3. \A p \in slice : p \in Objects BY DEF IInv, Types
  <2>4. caller'.pc # "idle" => caller'.on \in Objects /\ Kind(caller.on)' \notin {"none", "mutant"}
    BY <1>6, <1>8 DEF IInv, Busy, Kind
  <2>5. \A p \in slice' : Kind(p)' = "thread" BY <1>6, <1>13, <2>3 DEF IInv, Busy
  <2>. QED BY <2>2, <2>4, <2>5 DEF Busy
<1>15. Lists_'
  <2>1. \A p \in Objects : \A i \in DOMAIN objs[p].waiters_ : objs[p].waiters_[i] \in Threads \ {t}
    BY <1>2, ObjectFields DEF IInv, Lists_, Listed
  <2>2. \A k \in DOMAIN rest : rest[k] = q[k + c] /\ k + c \in DOMAIN q BY <1>3
  <2>3. \A k, l \in DOMAIN rest : rest[k] = rest[l] => k = l
    <3>1. \A i, j \in DOMAIN q : q[i] = q[j] => i = j BY <1>2 DEF IInv, Lists_
    <3>. QED BY <1>3, <2>2, <3>1
  <2>4. \A k \in DOMAIN rest : rest[k] \in Threads \ {t} /\ xthread[rest[k]].on = o /\ xthread[rest[k]].pc \in Listed
    BY <1>2, <2>1, <2>2 DEF IInv, Lists_
  <2>5. ASSUME NEW p \in Objects
        PROVE  /\ \A i \in DOMAIN objs'[p].waiters_ :
                    xthread'[objs'[p].waiters_[i]].on = p /\ xthread'[objs'[p].waiters_[i]].pc \in Listed
               /\ \A i, j \in DOMAIN objs'[p].waiters_ : objs'[p].waiters_[i] = objs'[p].waiters_[j] => i = j
    <3>1. CASE p = o BY <1>8, <1>11, <2>3, <2>4, <3>1
    <3>2. CASE p # o BY <1>8, <1>11, <2>1, <3>2 DEF IInv, Lists_
    <3>. QED BY <3>1, <3>2
  <2>. QED BY <2>5 DEF Lists_
<1>16. Wakes' BY <1>4, <1>10, <1>11 DEF Wakes
<1>17. Mutants'
  <2>1. \A u \in Threads : /\ xthread'[u].held = xthread[u].held
                           /\ xthread'[u].pc = "disown" <=> xthread[u].pc = "disown"
                           /\ xthread[u].pc = "disown" => xthread'[u].on = xthread[u].on
    BY <1>2, <1>4, <1>10, <1>11
  <2>2. \A u \in Threads : At(u, "disown") => xthread[u].on \in Objects BY DEF IInv, Busy, At
  <2>3. \A p \in Objects : objs[p].owner \in Threads \cup {Nobody} BY ObjectFields DEF IInv
  <2>. QED BY <1>8, <1>13, <2>1, <2>2, <2>3 DEF IInv, Mutants, At
<1>. QED BY <1>12, <1>14, <1>15, <1>16, <1>17 DEF IInv
-----------------------------------------------------------------------------
(* The theorems                                                             *)

LEMMA NextIInv == ASSUME Named, IInv, [Next]_xvars PROVE IInv'
<1>1. CASE \E o \in Objects : Signals(o) \/ \E kind \in Offered : Create(o, kind)
  BY <1>1, SignalStep, CreateStep
<1>2. CASE Wake \/ Lower \/ run_for
  BY <1>2, WakeStep, LowerStep, RunForStep
<1>3. ASSUME NEW t \in Threads, WaitStep(t) \/ alert(t) PROVE IInv'
  BY <1>3, WaitSteps, AddWaiterStep, RemoveWaiterStep, AcquireSteps, DisownStep, TellStep DEF WaitStep
<1>4. ASSUME NEW t \in Threads, NEW o \in Objects,
             release(t, o) \/ \E until \in Untils : Begin(t, o, until) \/ acquire(t, o, until)
      PROVE  IInv'
  BY <1>4, ReleaseStep, BeginStep, AcquireSteps
<1>5. ASSUME NEW t \in Threads, NEW on \in Lists, NEW until \in Untils, wait_multiple(t, on, until)
      PROVE  IInv'
  <2>1. PICK i \in DOMAIN on : Begin(t, on[i], until) BY <1>5 DEF wait_multiple
  <2>2. on[i] \in Objects BY DEF Lists
  <2>. QED BY <2>1, <2>2, BeginStep
<1>6. CASE UNCHANGED xvars BY <1>6, ObjectStep DEF xvars, IInv, Types, Busy
<1>. QED BY <1>1, <1>2, <1>3, <1>4, <1>5, <1>6 DEF Next

\* The invariant holds of every behaviour of XObjects.
THEOREM Invariance == ASSUME Named PROVE Spec => []IInv
<1>1. Init => IInv BY InitIInv
<1>2. IInv /\ [Next]_xvars => IInv' BY NextIInv
<1>. QED BY <1>1, <1>2, PTL DEF Spec

\* Every object and every thread keeps the shape it is declared with, and a mutant
\* is held no more often than its count allows.
THEOREM TypeCorrect == ASSUME Named PROVE Spec => []TypeOK
<1>1. ASSUME IInv PROVE TypeOK
  <2>1. ASSUME NEW o \in Objects
        PROVE  /\ Kind(o) \in Kinds /\ objs[o].level \in 0..MaxCount
               /\ Range(objs[o].waiters_) \subseteq Threads
    BY <1>1, ObjectFields DEF IInv, Kind, Range
  <2>2. ASSUME NEW t \in Threads, NEW o \in Objects PROVE xthread[t].held[o] \in 0..MaxCount
    <3>1. xthread[t].held[o] \in Nat BY <1>1, ThreadFields DEF IInv
    <3>2. xthread[t].held[o] > 0 => objs[o].level = xthread[t].held[o] BY <1>1 DEF IInv, Mutants
    <3>. QED BY <2>1, <3>1, <3>2 DEF Named
  <2>. QED BY <1>1, <2>1, <2>2 DEF TypeOK, IInv, Types
<1>. QED BY <1>1, Invariance, PTL

\* In XObject and XThread: who waits in a list waits for that object and is there
\* once, an object's wake answers only a wait for it, and a mutant's owner alone
\* has been granted it, as often as its recursion count says.
THEOREM WaitersKept == ASSUME Named PROVE Spec => []WaitersAgree
<1>1. ASSUME IInv PROVE WaitersAgree
  <2>1. WakesAreOfThisWait BY <1>1 DEF IInv, Wakes, WakesAreOfThisWait, At
  <2>2. MutantExclusive BY <1>1 DEF IInv, Mutants, MutantExclusive
  <2>3. ASSUME NEW o \in Objects
        PROVE  /\ \A t \in Range(objs[o].waiters_) : xthread[t].on = o /\ ~At(t, "leave")
               /\ Cardinality(Range(objs[o].waiters_)) = Len(objs[o].waiters_)
    <3> DEFINE q == objs[o].waiters_
    <3>1. q \in Seq(Threads) /\ Len(q) \in Nat /\ DOMAIN q = 1..Len(q) BY <1>1, ObjectFields DEF IInv
    <3>2. \A i \in DOMAIN q : xthread[q[i]].on = o /\ xthread[q[i]].pc \in Listed BY <1>1 DEF IInv, Lists_
    <3>3. \A i, j \in DOMAIN q : q[i] = q[j] => i = j BY <1>1 DEF IInv, Lists_
    <3>4. \A t \in Range(q) : xthread[t].on = o /\ ~At(t, "leave") BY <3>2 DEF Range, At, Listed
    <3> HIDE DEF q
    <3>5. q \in Bijection(1..Len(q), Range(q))
      BY <3>1, <3>3 DEF Bijection, Injection, Surjection, IsInjective, Range
    <3>6. IsFiniteSet(1..Len(q)) /\ Cardinality(1..Len(q)) = Len(q) BY <3>1, FS_Interval
    <3>7. ExistsBijection(1..Len(q), Range(q)) BY <3>5 DEF ExistsBijection
    <3>8. Cardinality(Range(q)) = Len(q) BY <3>6, <3>7, FS_Bijection
    <3>. QED BY <3>4, <3>8 DEF q
  <2>4. ListsHoldWaiters BY <2>3 DEF ListsHoldWaiters
  <2>. QED BY <2>1, <2>2, <2>4 DEF WaitersAgree
<1>. QED BY <1>1, Invariance, PTL
-----------------------------------------------------------------------------
(* KernelThreads: the objects of KernelThreadManager and the waits for them  *)
CONSTANTS Waiters, g_ktm, MaxHandles, MaxPosted
VARIABLES objects_, next_handle_, wait
K == INSTANCE KernelThreads

\* A maximum of one at least, as an event's state is among the counts.
Bounded == MaxHandles \in Nat /\ MaxCount \in Nat \ {0} /\ MaxPosted \in Nat

KObject == [kind : K!Kinds, signal : 0..MaxCount, due : {"never", "once", "periodic", "reset"},
            packet_queue : Seq(Nat), posted : Nat, removed : Seq(Nat)]
KWait == [pc : {"out", "test", "take", "satisfy", "sleep", "asleep"}, on : Seq(1..MaxHandles),
          for : {"any", "all", "packet"}, until : K!Untils, at : Nat]

InOrder(o) == o.removed \o o.packet_queue = [i \in 1..o.posted |-> i]
KObjects ==
  /\ next_handle_ \in 1..(MaxHandles + 1)
  /\ \A h \in DOMAIN objects_ : h \in 1..(next_handle_ - 1) /\ objects_[h] \in KObject /\ InOrder(objects_[h])
\* A wait names objects there are, and the one it has come to.
KWaits(w, handles) ==
  /\ w \in [Waiters -> KWait]
  /\ \A t \in Waiters :
       /\ \A i \in DOMAIN w[t].on : w[t].on[i] \in handles
       /\ w[t].pc # "out" => w[t].on # <<>>
       /\ w[t].pc \in {"take", "satisfy"} => w[t].at \in DOMAIN w[t].on
KInv == KObjects /\ KWaits(wait, DOMAIN objects_)

LEMMA FreshInOrder ==
  ASSUME Bounded, NEW kind \in K!Kinds, NEW signal \in 0..MaxCount
  PROVE  K!Fresh(kind, signal) \in KObject /\ InOrder(K!Fresh(kind, signal))
<1> DEFINE o == K!Fresh(kind, signal)
<1>1. /\ o \in KObject /\ o.removed = <<>> /\ o.packet_queue = <<>> /\ o.posted = 0
  BY DEF K!Fresh, KObject
<1>2. <<>> \o <<>> = <<>> /\ [i \in 1..0 |-> i] = <<>> OBVIOUS
<1>. QED BY <1>1, <1>2 DEF InOrder

\* A step on one object, with a wake of whoever sleeps for some.
LEMMA PutStep ==
  ASSUME KInv, NEW h \in DOMAIN objects_, NEW o \in KObject, InOrder(o), K!Put(h, o),
         KWaits(wait', DOMAIN objects_)
  PROVE  KInv'
<1>1. /\ objects_' = [objects_ EXCEPT ![h] = o] /\ next_handle_' = next_handle_
      /\ DOMAIN objects_' = DOMAIN objects_
  BY DEF K!Put
<1>2. \A k \in DOMAIN objects_ : objects_'[k] = IF k = h THEN o ELSE objects_[k] BY <1>1
<1>3. KObjects' BY <1>1, <1>2 DEF KInv, KObjects, InOrder
<1>. QED BY <1>1, <1>3 DEF KInv

LEMMA WokenWaits ==
  ASSUME KInv, NEW hs, K!wake_waiters(hs)
  PROVE  KWaits(wait', DOMAIN objects_)
<1>1. KWaits(wait, DOMAIN objects_) BY DEF KInv
<1>2. wait' = [t \in Waiters |-> IF wait[t].pc = "asleep" /\ wait[t].on[1] \in hs
                                 THEN [wait[t] EXCEPT !.pc = "test"] ELSE wait[t]]
  BY DEF K!wake_waiters
<1>3. ASSUME NEW t \in Waiters
      PROVE  /\ wait'[t] \in KWait /\ wait'[t].on = wait[t].on /\ wait'[t].at = wait[t].at
             /\ wait'[t].pc # "out" => wait[t].pc # "out"
             /\ wait'[t].pc \in {"take", "satisfy"} => wait[t].pc = wait'[t].pc
  BY <1>1, <1>2 DEF KWaits, KWait
<1>. QED BY <1>1, <1>2, <1>3 DEF KWaits

\* A step of one wait.
LEMMA OneWait ==
  ASSUME KInv, NEW t \in Waiters, NEW w \in KWait, wait' = [wait EXCEPT ![t] = w],
         \A i \in DOMAIN w.on : w.on[i] \in DOMAIN objects_, w.pc # "out" => w.on # <<>>,
         w.pc \in {"take", "satisfy"} => w.at \in DOMAIN w.on
  PROVE  KWaits(wait', DOMAIN objects_)
<1>1. KWaits(wait, DOMAIN objects_) BY DEF KInv
<1>2. \A u \in Waiters : wait'[u] = IF u = t THEN w ELSE wait[u] BY <1>1 DEF KWaits
<1>. QED BY <1>1, <1>2 DEF KWaits

LEMMA SameObjects ==
  ASSUME KInv, UNCHANGED <<objects_, next_handle_>>, KWaits(wait', DOMAIN objects_)
  PROVE  KInv'
BY DEF KInv, KObjects

LEMMA ObjectKept ==
  ASSUME KInv, NEW h \in DOMAIN objects_
  PROVE  /\ objects_[h] \in KObject /\ InOrder(objects_[h]) /\ objects_[h].signal \in 0..MaxCount
         /\ objects_[h].packet_queue \in Seq(Nat) /\ objects_[h].removed \in Seq(Nat) /\ objects_[h].posted \in Nat
BY DEF KInv, KObjects, KObject

\* What changes no packet of an object keeps them in order.
LEMMA StaysInOrder ==
  ASSUME KInv, NEW h \in DOMAIN objects_, NEW signal \in 0..MaxCount,
         NEW due \in {"never", "once", "periodic", "reset"},
         NEW o, o = [objects_[h] EXCEPT !.signal = signal, !.due = due]
  PROVE  o \in KObject /\ InOrder(o)
<1>1. objects_[h] \in KObject /\ InOrder(objects_[h]) BY ObjectKept
<1>2. /\ o \in KObject /\ o.removed = objects_[h].removed /\ o.packet_queue = objects_[h].packet_queue
      /\ o.posted = objects_[h].posted
  BY <1>1 DEF KObject
<1>. QED BY <1>1, <1>2 DEF InOrder

LEMMA Counted ==
  ASSUME NEW n \in Nat
  PROVE  [i \in 1..n |-> i] \in Seq(Nat) /\ Len([i \in 1..n |-> i]) = n
<1> DEFINE f == [i \in 1..n |-> i]
<1>1. f \in [1..n -> Nat] OBVIOUS
<1>2. f \in Seq(Nat) BY <1>1
<1>3. DOMAIN f = 1..n /\ DOMAIN f = 1..Len(f) /\ Len(f) \in Nat BY <1>2
<1> HIDE DEF f
<1>4. Len(f) = n BY <1>3
<1>. QED BY <1>2, <1>4 DEF f

\* A packet posted is the last, one removed was the first.
LEMMA PostInOrder ==
  ASSUME KInv, NEW h \in DOMAIN objects_, NEW o,
         o = [objects_[h] EXCEPT !.posted = @ + 1, !.packet_queue = Append(@, objects_[h].posted + 1)]
  PROVE  o \in KObject /\ InOrder(o)
<1> DEFINE x == objects_[h]
           q == x.packet_queue
           r == x.removed
           n == x.posted
<1>1. x \in KObject /\ q \in Seq(Nat) /\ r \in Seq(Nat) /\ n \in Nat /\ r \o q = [i \in 1..n |-> i]
  BY ObjectKept DEF InOrder
<1>2. Append(q, n + 1) \in Seq(Nat) BY <1>1
<1>3. o \in KObject /\ o.packet_queue = Append(q, n + 1) /\ o.removed = r /\ o.posted = n + 1
  <2> DEFINE longer == Append(q, n + 1)
         next == n + 1
  <2>1. o = [x EXCEPT !.posted = next, !.packet_queue = longer] OBVIOUS
  <2>2. longer \in Seq(Nat) /\ next \in Nat BY <1>1, <1>2
  <2> HIDE DEF longer, next
  <2>3. o \in KObject /\ o.packet_queue = longer /\ o.removed = r /\ o.posted = next
    BY <1>1, <2>1, <2>2 DEF KObject
  <2>. QED BY <2>3 DEF longer, next
<1>4. r \o Append(q, n + 1) = [i \in 1..(n + 1) |-> i]
  <2> HIDE DEF q, r, n
  <2>1. Len(r) \in Nat /\ Len(q) \in Nat /\ Len(r) + Len(q) = n
    <3>1. Len(r \o q) = Len(r) + Len(q) BY <1>1, ConcatProperties
    <3>2. [i \in 1..n |-> i] \in Seq(Nat) /\ Len([i \in 1..n |-> i]) = n BY <1>1, Counted
    <3>. QED BY <1>1, <3>1, <3>2
  <2>2. /\ Append(q, n + 1) \in Seq(Nat) /\ Len(Append(q, n + 1)) = Len(q) + 1
        /\ \A i \in 1..Len(q) : Append(q, n + 1)[i] = q[i]
        /\ Append(q, n + 1)[Len(q) + 1] = n + 1
    BY <1>1, AppendProperties
  <2>3. /\ r \o Append(q, n + 1) \in Seq(Nat) /\ Len(r \o Append(q, n + 1)) = n + 1
        /\ \A i \in 1..(n + 1) : (r \o Append(q, n + 1))[i] =
              IF i <= Len(r) THEN r[i] ELSE Append(q, n + 1)[i - Len(r)]
    BY <1>1, <2>1, <2>2, ConcatProperties
  <2>4. \A i \in 1..n : (r \o q)[i] = IF i <= Len(r) THEN r[i] ELSE q[i - Len(r)]
    <3>1. \A i \in 1..Len(r) + Len(q) : (r \o q)[i] = IF i <= Len(r) THEN r[i] ELSE q[i - Len(r)]
      BY <1>1, ConcatProperties, Zenon
    <3>. QED BY <2>1, <3>1, Zenon
  <2>5. \A i \in 1..n : (IF i <= Len(r) THEN r[i] ELSE q[i - Len(r)]) = i BY <1>1, <2>4
  <2>6. \A i \in 1..(n + 1) : (r \o Append(q, n + 1))[i] = i
    <3>1. ASSUME NEW i \in 1..(n + 1) PROVE (r \o Append(q, n + 1))[i] = i
      <4>1. CASE i = n + 1
        <5>1. ~(i <= Len(r)) /\ i - Len(r) = Len(q) + 1 BY <1>1, <2>1, <4>1
        <5>. QED BY <2>2, <2>3, <4>1, <5>1
      <4>2. CASE i # n + 1
        <5>1. i \in 1..n BY <1>1, <4>2
        <5>2. ~(i <= Len(r)) => i - Len(r) \in 1..Len(q) BY <2>1, <5>1
        <5>. QED BY <2>2, <2>3, <2>5, <5>1, <5>2
      <4>. QED BY <4>1, <4>2
    <3>. QED BY <3>1
  <2> DEFINE a == r \o Append(q, n + 1)
             b == [i \in 1..(n + 1) |-> i]
  <2>7. b \in Seq(Nat) /\ Len(b) = n + 1 BY <1>1, Counted
  <2>8. \A i \in 1..(n + 1) : b[i] = i OBVIOUS
  <2>9. a \in Seq(Nat) /\ Len(a) = n + 1 /\ \A i \in 1..(n + 1) : a[i] = i BY <2>3, <2>6
  <2> HIDE DEF a, b
  <2>10. /\ DOMAIN a = 1..(n + 1) /\ a = [i \in DOMAIN a |-> a[i]]
         /\ DOMAIN b = 1..(n + 1) /\ b = [i \in DOMAIN b |-> b[i]]
    BY <2>7, <2>9
  <2>11. a = b BY <2>8, <2>9, <2>10, Zenon
  <2>. QED BY <2>11 DEF a, b
<1>. QED BY <1>3, <1>4 DEF InOrder

LEMMA Joined ==
  ASSUME NEW r \in Seq(Nat), NEW q \in Seq(Nat)
  PROVE  /\ r \o q \in Seq(Nat) /\ Len(r \o q) = Len(r) + Len(q)
         /\ \A i \in 1..(Len(r) + Len(q)) : (r \o q)[i] = IF i <= Len(r) THEN r[i] ELSE q[i - Len(r)]
BY ConcatProperties

LEMMA RemoveInOrder ==
  ASSUME KInv, NEW h \in DOMAIN objects_, objects_[h].packet_queue # <<>>, NEW o,
         o = [objects_[h] EXCEPT !.packet_queue = Tail(@),
                                 !.removed = Append(@, Head(objects_[h].packet_queue))]
  PROVE  o \in KObject /\ InOrder(o)
<1> DEFINE x == objects_[h]
           q == x.packet_queue
           r == x.removed
           n == x.posted
<1>1. x \in KObject /\ q \in Seq(Nat) /\ r \in Seq(Nat) /\ n \in Nat /\ r \o q = [i \in 1..n |-> i]
  BY ObjectKept DEF InOrder
<1>2. Tail(q) \in Seq(Nat) /\ Head(q) \in Nat /\ Append(r, Head(q)) \in Seq(Nat)
  BY <1>1, HeadTailProperties, AppendProperties
<1>3. o \in KObject /\ o.packet_queue = Tail(q) /\ o.removed = Append(r, Head(q)) /\ o.posted = n
  BY <1>1, <1>2 DEF KObject
<1>4. Append(r, Head(q)) \o Tail(q) = r \o q
  <2> HIDE DEF q, r, n
  <2>1. q # <<>> BY DEF q
  <2>2. /\ Len(q) \in Nat /\ Len(q) > 0 /\ Len(r) \in Nat /\ Len(Tail(q)) = Len(q) - 1 /\ Head(q) = q[1]
        /\ \A i \in 1..(Len(q) - 1) : Tail(q)[i] = q[i + 1]
    BY <1>1, <2>1, HeadTailProperties
  <2>3. /\ Len(Append(r, Head(q))) = Len(r) + 1 /\ Append(r, Head(q))[Len(r) + 1] = Head(q)
        /\ \A i \in 1..Len(r) : Append(r, Head(q))[i] = r[i]
    BY <1>1, <1>2, AppendProperties
  <2>4. /\ Append(r, Head(q)) \o Tail(q) \in Seq(Nat)
        /\ Len(Append(r, Head(q)) \o Tail(q)) = Len(r) + Len(q)
        /\ \A i \in 1..(Len(r) + Len(q)) : (Append(r, Head(q)) \o Tail(q))[i] =
              IF i <= Len(r) + 1 THEN Append(r, Head(q))[i] ELSE Tail(q)[i - (Len(r) + 1)]
    BY <1>2, <2>2, <2>3, Joined
  <2>5. /\ r \o q \in Seq(Nat) /\ Len(r \o q) = Len(r) + Len(q)
        /\ \A i \in 1..(Len(r) + Len(q)) : (r \o q)[i] = IF i <= Len(r) THEN r[i] ELSE q[i - Len(r)]
    BY <1>1, Joined
  <2>6. ASSUME NEW i \in 1..(Len(r) + Len(q)) PROVE (Append(r, Head(q)) \o Tail(q))[i] = (r \o q)[i]
    <3>1. CASE i <= Len(r)
      <4>1. i \in 1..Len(r) /\ i <= Len(r) + 1 BY <2>2, <3>1
      <4>. QED BY <2>3, <2>4, <2>5, <3>1, <4>1
    <3>2. CASE i = Len(r) + 1
      <4>1. ~(i <= Len(r)) /\ i - Len(r) = 1 /\ i <= Len(r) + 1 BY <2>2, <3>2
      <4>. QED BY <2>2, <2>3, <2>4, <2>5, <3>2, <4>1
    <3>3. CASE i > Len(r) + 1
      <4>1. /\ ~(i <= Len(r)) /\ ~(i <= Len(r) + 1) /\ i - (Len(r) + 1) \in 1..(Len(q) - 1)
            /\ i - (Len(r) + 1) + 1 = i - Len(r)
        BY <2>2, <3>3
      <4>. QED BY <2>2, <2>4, <2>5, <4>1
    <3>4. i <= Len(r) \/ i = Len(r) + 1 \/ i > Len(r) + 1 BY <2>2
    <3>. QED BY <3>1, <3>2, <3>3, <3>4
  <2>. QED BY <2>4, <2>5, <2>6
<1>. QED BY <1>1, <1>3, <1>4 DEF InOrder

LEMMA AllocateStep ==
  ASSUME Bounded, KInv, NEW o \in KObject, InOrder(o), K!allocate_handle(o)
  PROVE  KInv'
<1> DEFINE n == next_handle_
<1>1. /\ n <= MaxHandles /\ next_handle_' = n + 1 /\ wait' = wait
      /\ objects_' = [h \in DOMAIN objects_ \union {n} |-> IF h = n THEN o ELSE objects_[h]]
  BY DEF K!allocate_handle, K!Quietly
<1>2. n \in 1..(MaxHandles + 1) /\ MaxHandles \in Nat BY DEF KInv, KObjects, Bounded
<1>3. DOMAIN objects_' = DOMAIN objects_ \union {n} /\ \A h \in DOMAIN objects_ : h \in 1..(n - 1)
  BY <1>1 DEF KInv, KObjects
<1>4. \A h \in DOMAIN objects_' : objects_'[h] \in KObject /\ InOrder(objects_'[h]) /\ h \in 1..n
  <2>1. \A h \in DOMAIN objects_' : objects_'[h] = IF h = n THEN o ELSE objects_[h] BY <1>1, <1>3
  <2>2. \A h \in DOMAIN objects_ : objects_[h] \in KObject /\ InOrder(objects_[h]) BY ObjectKept
  <2>3. \A h \in DOMAIN objects_' : h \in 1..n BY <1>2, <1>3
  <2> HIDE DEF n
  <2>. QED BY <1>3, <2>1, <2>2, <2>3
<1>5. KObjects'
  <2>1. next_handle_' - 1 = n /\ next_handle_' \in 1..(MaxHandles + 1) BY <1>1, <1>2
  <2>. QED BY <1>4, <2>1 DEF KObjects, InOrder
<1>6. KWaits(wait', DOMAIN objects_') BY <1>1, <1>3 DEF KInv, KWaits
<1>. QED BY <1>5, <1>6 DEF KInv

LEMMA CloseStep ==
  ASSUME KInv, NEW h, K!close_handle(h)
  PROVE  KInv'
<1>1. /\ DOMAIN objects_' = DOMAIN objects_ \ {h} /\ UNCHANGED <<next_handle_, wait>>
      /\ \A k \in DOMAIN objects_' : objects_'[k] = objects_[k]
      /\ \A t \in Waiters : \A i \in DOMAIN wait[t].on : wait[t].on[i] # h
  BY DEF K!close_handle, K!Quietly
<1>2. KObjects' BY <1>1 DEF KInv, KObjects, InOrder
<1>3. KWaits(wait', DOMAIN objects_') BY <1>1 DEF KInv, KWaits
<1>. QED BY <1>2, <1>3 DEF KInv

\* What a signal does to its object changes no packet, but for a post.
LEMMA KSignalStep ==
  ASSUME Bounded, KInv, NEW h \in DOMAIN objects_,
         K!Signal(h) \/ K!Unsignal(h) \/ K!process_timer_queue(h)
  PROVE  KInv'
<1> DEFINE x == objects_[h]
           Dues == {"never", "once", "periodic", "reset"}
<1>1. x \in KObject /\ x.signal \in 0..MaxCount /\ x.due \in Dues /\ MaxCount \in Nat \ {0}
  BY ObjectKept DEF KObject, Bounded
<1>2. 0 \in 0..MaxCount /\ 1 \in 0..MaxCount BY <1>1
<1>3. KWaits(wait, DOMAIN objects_) BY DEF KInv
<1>4. \A hs : K!wake_waiters(hs) => KWaits(wait', DOMAIN objects_) BY WokenWaits
<1>5. ASSUME NEW signal \in 0..MaxCount, NEW due \in Dues, NEW o,
             o = [x EXCEPT !.signal = signal, !.due = due], K!Put(h, o),
             UNCHANGED wait \/ \E hs : K!wake_waiters(hs)
      PROVE  KInv'
  <2>1. o \in KObject /\ InOrder(o) BY <1>5, StaysInOrder
  <2>. QED BY <1>3, <1>4, <1>5, <2>1, PutStep
<1>6. CASE K!set_event(h)
  <2>1. [x EXCEPT !.signal = 1] = [x EXCEPT !.signal = 1, !.due = x.due] BY <1>1 DEF KObject
  <2>. QED BY <1>1, <1>2, <1>5, <1>6, <2>1 DEF K!set_event
<1>7. CASE K!clear_event(h)
  <2>1. [x EXCEPT !.signal = 0] = [x EXCEPT !.signal = 0, !.due = x.due] BY <1>1 DEF KObject
  <2>. QED BY <1>1, <1>2, <1>5, <1>7, <2>1 DEF K!clear_event, K!Quietly
<1>8. CASE K!pulse_event(h)
  BY <1>2, <1>5, <1>8 DEF K!pulse_event
<1>9. CASE K!Unsignal(h)
  <2> DEFINE due == K!After(x)
  <2>1. due \in Dues BY DEF K!After
  <2>2. K!Put(h, [x EXCEPT !.signal = 0, !.due = due]) /\ UNCHANGED wait
    BY <1>9 DEF K!Unsignal, K!Quietly
  <2> HIDE DEF due
  <2>. QED BY <1>2, <1>5, <2>1, <2>2
<1>10. ASSUME NEW n \in 1..MaxCount, K!release_semaphore(h, n) PROVE KInv'
  <2> DEFINE signal == x.signal + n
             o == [x EXCEPT !.signal = signal]
  <2>1. signal \in 0..MaxCount BY <1>1, <1>10 DEF K!release_semaphore
  <2>2. o = [x EXCEPT !.signal = signal, !.due = x.due]
    <3> HIDE DEF signal
    <3>. QED BY <1>1 DEF KObject
  <2>3. K!Put(h, o) /\ K!wake_waiters({h}) BY <1>10 DEF K!release_semaphore
  <2> HIDE DEF signal, o
  <2>. QED BY <1>1, <1>5, <2>1, <2>2, <2>3
<1>11. CASE K!release_mutant(h)
  BY <1>4, <1>11, SameObjects DEF K!release_mutant
<1>12. ASSUME NEW due \in {"once", "periodic"}, K!set_timer(h, due) PROVE KInv'
  BY <1>2, <1>5, <1>12 DEF K!set_timer, K!Quietly
<1>13. CASE K!cancel_timer(h)
  BY <1>2, <1>5, <1>13 DEF K!cancel_timer, K!Quietly
<1>14. CASE K!set_io_completion(h)
  <2> DEFINE o == [x EXCEPT !.posted = @ + 1, !.packet_queue = Append(@, x.posted + 1)]
  <2>1. K!Put(h, o) /\ K!wake_waiters({h}) BY <1>14 DEF K!set_io_completion
  <2>2. o \in KObject /\ InOrder(o) BY PostInOrder
  <2> HIDE DEF o
  <2>. QED BY <1>4, <2>1, <2>2, PutStep
<1>15. CASE K!process_timer_queue(h)
  <2> DEFINE due == IF x.due = "periodic" THEN "reset" ELSE "never"
  <2>1. due \in Dues OBVIOUS
  <2>2. K!Put(h, [x EXCEPT !.signal = 1, !.due = due]) /\ K!wake_waiters({h})
    BY <1>15 DEF K!process_timer_queue
  <2> HIDE DEF due
  <2>. QED BY <1>2, <1>5, <2>1, <2>2
<1>. QED
  BY <1>6, <1>7, <1>8, <1>9, <1>10, <1>11, <1>12, <1>13, <1>14, <1>15
  DEF K!Signal, K!NtSetEvent, K!NtClearEvent, K!NtPulseEvent, K!NtReleaseSemaphore, K!NtReleaseMutant,
      K!NtSetTimer, K!NtCancelTimer, K!NtSetIoCompletion

LEMMA SeqOf == ASSUME NEW S, NEW n \in Nat, NEW s \in [1..n -> S] PROVE s \in Seq(S)
BY SeqDef, Zenon

LEMMA EnterStep ==
  ASSUME Bounded, KInv, NEW t \in Waiters, NEW on \in Seq(DOMAIN objects_), on # <<>>,
         NEW for \in {"any", "all", "packet"}, NEW until \in K!Untils, K!Enter(t, on, for, until)
  PROVE  KInv'
<1> DEFINE w == [pc |-> "test", on |-> on, for |-> for, until |-> until, at |-> 0]
<1>1. \A h \in DOMAIN objects_ : h \in 1..MaxHandles
  <2>1. \A h \in DOMAIN objects_ : h \in 1..(next_handle_ - 1) BY DEF KInv, KObjects
  <2>2. next_handle_ \in 1..(MaxHandles + 1) /\ MaxHandles \in Nat BY DEF KInv, KObjects, Bounded
  <2>. QED BY <2>1, <2>2
<1>2. on \in Seq(1..MaxHandles)
  <2>1. on \in [1..Len(on) -> DOMAIN objects_] /\ Len(on) \in Nat OBVIOUS
  <2>2. on \in [1..Len(on) -> 1..MaxHandles] BY <1>1, <2>1
  <2>. QED BY <2>1, <2>2, SeqOf
<1>3. w \in KWait BY <1>2 DEF KWait
<1>4. wait' = [wait EXCEPT ![t] = w] /\ UNCHANGED <<objects_, next_handle_>> BY DEF K!Enter
<1>5. \A i \in DOMAIN on : on[i] \in DOMAIN objects_ OBVIOUS
<1>6. KWaits(wait', DOMAIN objects_) BY <1>3, <1>4, <1>5, OneWait
<1>. QED BY <1>4, <1>6, SameObjects

LEMMA KWaitStep ==
  ASSUME Bounded, KInv, NEW t \in Waiters, K!WaitStep(t)
  PROVE  KInv'
<1> DEFINE w == wait[t]
<1>1. /\ w \in KWait /\ w.on \in Seq(1..MaxHandles) /\ w.at \in Nat
      /\ \A i \in DOMAIN w.on : w.on[i] \in DOMAIN objects_
      /\ w.pc # "out" => w.on # <<>>
      /\ w.pc \in {"take", "satisfy"} => w.at \in DOMAIN w.on
      /\ wait \in [Waiters -> KWait]
  BY DEF KInv, KWaits, KWait
<1>2. ASSUME NEW pc \in {"take", "sleep", "asleep", "test"}, K!Goto(t, pc), w.pc # "out"
      PROVE  KWaits(wait', DOMAIN objects_)
  <2> DEFINE v == [w EXCEPT !.pc = pc, !.at = 1]
  <2>1. wait' = [wait EXCEPT ![t] = v] BY <1>1, <1>2 DEF K!Goto
  <2>2. v \in KWait /\ v.on = w.on /\ v.at = 1 /\ v.pc = pc BY <1>1 DEF KWait
  <2>3. 1 \in DOMAIN w.on BY <1>1, <1>2
  <2> HIDE DEF v
  <2>. QED BY <1>1, <1>2, <2>1, <2>2, <2>3, OneWait
<1>3. ASSUME K!Leave(t) PROVE KWaits(wait', DOMAIN objects_)
  <2>1. K!Out \in KWait /\ K!Out.pc = "out" /\ DOMAIN K!Out.on = {} BY DEF K!Out, KWait, K!Untils
  <2>2. wait' = [wait EXCEPT ![t] = K!Out] BY <1>3 DEF K!Leave
  <2>. QED BY <2>1, <2>2, OneWait
<1>4. ASSUME w.pc = "take", wait' = [wait EXCEPT ![t].pc = "satisfy"]
      PROVE  KWaits(wait', DOMAIN objects_)
  <2> DEFINE v == [w EXCEPT !.pc = "satisfy"]
  <2>1. wait' = [wait EXCEPT ![t] = v] BY <1>1, <1>4
  <2>2. v \in KWait /\ v.on = w.on /\ v.at = w.at BY <1>1 DEF KWait
  <2> HIDE DEF v
  <2>. QED BY <1>1, <1>4, <2>1, <2>2, OneWait
<1>5. ASSUME w.at < Len(w.on), wait' = [wait EXCEPT ![t].pc = "take", ![t].at = @ + 1], w.pc \in {"take", "satisfy"}
      PROVE  KWaits(wait', DOMAIN objects_)
  <2> DEFINE next == w.at + 1
             v == [w EXCEPT !.pc = "take", !.at = next]
  <2>1. wait' = [wait EXCEPT ![t] = v] BY <1>1, <1>5
  <2>2. next \in Nat /\ next \in DOMAIN w.on BY <1>1, <1>5
  <2> HIDE DEF next
  <2>3. v \in KWait /\ v.on = w.on /\ v.at = next BY <1>1, <2>2 DEF KWait
  <2> HIDE DEF v
  <2>. QED BY <1>1, <1>5, <2>1, <2>2, <2>3, OneWait
<1>6. CASE K!Test(t)
  <2>1. w.pc = "test" /\ UNCHANGED <<objects_, next_handle_>> BY <1>6 DEF K!Test
  <2>2. K!Goto(t, "take") \/ K!Goto(t, "sleep") \/ K!Leave(t) BY <1>6 DEF K!Test
  <2>. QED BY <1>2, <1>3, <2>1, <2>2, SameObjects
<1>7. CASE K!Take(t)
  <2>1. w.pc = "take" /\ UNCHANGED <<objects_, next_handle_>> BY <1>7 DEF K!Take
  <2>2. \/ wait' = [wait EXCEPT ![t].pc = "satisfy"]
        \/ w.at < Len(w.on) /\ wait' = [wait EXCEPT ![t].at = @ + 1]
        \/ K!Leave(t)
    BY <1>7 DEF K!Take
  <2>3. ASSUME w.at < Len(w.on), wait' = [wait EXCEPT ![t].at = @ + 1]
        PROVE  wait' = [wait EXCEPT ![t].pc = "take", ![t].at = @ + 1]
    <3>1. [w EXCEPT !.at = @ + 1] = [w EXCEPT !.pc = "take", !.at = @ + 1] BY <1>1, <2>1 DEF KWait
    <3>. QED BY <1>1, <2>3, <3>1
  <2>. QED BY <1>3, <1>4, <1>5, <2>1, <2>2, <2>3, SameObjects
<1>8. CASE K!Satisfy(t)
  <2> DEFINE h == K!Here(t)
             o == K!Taken(objects_[h])
  <2>1. w.pc = "satisfy" /\ K!Put(h, o) BY <1>8 DEF K!Satisfy
  <2>2. h \in DOMAIN objects_ BY <1>1, <2>1 DEF K!Here
  <2>3. o \in KObject /\ InOrder(o)
    <3> DEFINE x == objects_[h]
    <3>1. /\ x \in KObject /\ InOrder(x) /\ x.signal \in 0..MaxCount
          /\ x.due \in {"never", "once", "periodic", "reset"}
      BY <2>2, ObjectKept DEF KObject
    <3>2. \E signal \in 0..MaxCount : o = [x EXCEPT !.signal = signal] \/ o = x
      <4>1. 0 \in 0..MaxCount /\ (x.signal > 0 => x.signal - 1 \in 0..MaxCount) BY <3>1 DEF Bounded
      <4>2. \/ o = [x EXCEPT !.signal = 0] \/ o = x
            \/ x.signal > 0 /\ o = [x EXCEPT !.signal = x.signal - 1]
        BY DEF K!Taken
      <4> HIDE DEF o, x
      <4>. QED BY <4>1, <4>2
    <3>3. \A signal \in 0..MaxCount : [x EXCEPT !.signal = signal] = [x EXCEPT !.signal = signal, !.due = x.due]
      BY <3>1 DEF KObject
    <3>4. CASE o = x BY <3>1, <3>4
    <3>5. ASSUME NEW signal \in 0..MaxCount, o = [x EXCEPT !.signal = signal] PROVE o \in KObject /\ InOrder(o)
      <4>1. o = [x EXCEPT !.signal = signal, !.due = x.due] BY <3>3, <3>5
      <4> HIDE DEF o
      <4>. QED BY <2>2, <3>1, <4>1, StaysInOrder
    <3> HIDE DEF o
    <3>. QED BY <3>2, <3>4, <3>5
  <2>4. KWaits(wait', DOMAIN objects_)
    <3>1. \/ K!Leave(t)
          \/ w.at # Len(w.on) /\ wait' = [wait EXCEPT ![t].pc = "take", ![t].at = @ + 1]
      BY <1>8 DEF K!Satisfy
    <3>2. w.at # Len(w.on) => w.at < Len(w.on) BY <1>1, <2>1
    <3>. QED BY <1>3, <1>5, <2>1, <3>1, <3>2
  <2> HIDE DEF o, h
  <2>. QED BY <2>1, <2>2, <2>3, <2>4, PutStep
<1>9. CASE K!Dequeue(t)
  <2> DEFINE h == w.on[1]
             x == objects_[h]
             o == [x EXCEPT !.packet_queue = Tail(@), !.removed = Append(@, Head(x.packet_queue))]
  <2>1. w.pc = "test" /\ h \in DOMAIN objects_
    <3>1. w.pc = "test" BY <1>9 DEF K!Dequeue
    <3>2. 1 \in DOMAIN w.on BY <1>1, <3>1
    <3>. QED BY <1>1, <3>1, <3>2
  <2>2. CASE x.packet_queue # <<>> /\ K!Put(h, o) /\ K!Leave(t)
    <3>1. o \in KObject /\ InOrder(o) BY <2>1, <2>2, RemoveInOrder
    <3> HIDE DEF o
    <3>. QED BY <1>3, <2>1, <2>2, <3>1, PutStep
  <2>3. CASE UNCHANGED <<objects_, next_handle_>> /\ (K!Leave(t) \/ K!Goto(t, "sleep"))
    BY <1>2, <1>3, <2>1, <2>3, SameObjects
  <2>. QED BY <1>9, <2>2, <2>3 DEF K!Dequeue
<1>10. CASE K!Sleep(t) BY <1>2, <1>10, SameObjects DEF K!Sleep
<1>11. CASE K!WaitedEnough(t) BY <1>2, <1>11, SameObjects DEF K!WaitedEnough
<1>. QED BY <1>6, <1>7, <1>8, <1>9, <1>10, <1>11 DEF K!WaitStep

LEMMA KNextStep == ASSUME Bounded, KInv, [K!Next]_(K!kvars) PROVE KInv'
<1>1. CASE K!Create
  <2>1. PICK kind \in K!Kinds, signal \in 0..MaxCount : K!allocate_handle(K!Fresh(kind, signal))
    <3>1. 0 \in 0..MaxCount /\ 1 \in 0..MaxCount BY DEF Bounded
    <3>. QED BY <1>1, <3>1
      DEF K!Create, K!NtCreateEvent, K!NtCreateSemaphore, K!NtCreateMutant, K!NtCreateTimer,
          K!NtCreateIoCompletion, K!create_event, K!create_semaphore, K!create_mutant, K!create_timer,
          K!create_io_completion, K!Kinds, K!Events
  <2>. QED BY <2>1, FreshInOrder, AllocateStep
<1>2. ASSUME NEW h \in DOMAIN objects_, K!Signal(h) \/ K!Unsignal(h) \/ K!process_timer_queue(h)
      PROVE  KInv'
  BY <1>2, KSignalStep
<1>3. ASSUME NEW h \in DOMAIN objects_, K!close_handle(h) PROVE KInv'
  BY <1>3, CloseStep
<1>4. CASE UNCHANGED K!kvars BY <1>4, SameObjects DEF K!kvars, KInv
<1>5. ASSUME NEW h, K!Invalid(h) PROVE KInv' BY <1>4, <1>5 DEF K!Invalid
<1>6. ASSUME NEW t \in Waiters, NEW h \in DOMAIN objects_, NEW until \in K!Untils,
             NEW for \in {"any", "packet"}, K!Enter(t, <<h>>, for, until)
      PROVE  KInv'
  <2>1. <<h>> \in Seq(DOMAIN objects_) /\ <<h>> # <<>> OBVIOUS
  <2>. QED BY <1>6, <2>1, EnterStep
<1>7. ASSUME NEW t \in Waiters, NEW on \in K!Lists, NEW for \in {"any", "all"}, NEW until \in K!Untils,
             K!Enter(t, on, for, until)
      PROVE  KInv'
  <2>1. on \in [1..2 -> DOMAIN objects_] BY DEF K!Lists
  <2>2. 2 \in Nat OBVIOUS
  <2>3. on \in Seq(DOMAIN objects_) BY <2>1, <2>2, SeqOf
  <2>4. on # <<>> BY <2>1
  <2>. QED BY <1>7, <2>3, <2>4, EnterStep
<1>8. ASSUME NEW t \in Waiters,
             K!NtWaitForSingleObject(t) \/ K!NtWaitForMultipleObjects(t) \/ K!NtRemoveIoCompletion(t)
      PROVE  KInv'
  BY <1>6, <1>7, <1>8 DEF K!NtWaitForSingleObject, K!NtWaitForMultipleObjects, K!NtRemoveIoCompletion,
       K!wait_for_single_object, K!wait_for_multiple_objects, K!remove_io_completion
<1>. QED BY <1>1, <1>2, <1>3, <1>4, <1>5, <1>8, KWaitStep DEF K!Next

\* The invariant holds of every behaviour of KernelThreads.
THEOREM KInvariance == ASSUME Bounded PROVE K!Spec => []KInv
<1>1. ASSUME K!Init PROVE KInv
  <2>1. DOMAIN objects_ = {} /\ next_handle_ = 1 /\ wait = [t \in Waiters |-> K!Out] BY <1>1 DEF K!Init
  <2>2. K!Out \in KWait /\ K!Out.pc = "out" /\ DOMAIN K!Out.on = {} BY DEF K!Out, KWait, K!Untils
  <2>. QED BY <2>1, <2>2 DEF KInv, KObjects, KWaits, Bounded
<1>2. KInv /\ [K!Next]_(K!kvars) => KInv' BY KNextStep
<1>. QED BY <1>1, <1>2, PTL DEF K!Spec

\* In KernelThreadManager: the packets taken from a port and those still in it
\* are the ones posted, in their order, whoever waits for them; and each object
\* and each wait keeps its shape.
THEOREM PacketsKept == ASSUME Bounded PROVE K!Spec => [](K!TypeOK /\ K!PacketsOnceInOrder)
<1>1. ASSUME KInv PROVE K!TypeOK /\ K!PacketsOnceInOrder
  BY <1>1 DEF KInv, KObjects, KWaits, KObject, KWait, InOrder, K!TypeOK, K!PacketsOnceInOrder
<1>. QED BY <1>1, KInvariance, PTL
=============================================================================
