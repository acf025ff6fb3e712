--------------------------- MODULE TimerDpcProofs ---------------------------
(***************************************************************************)
(* Proofs about TimerDpc.  Control and the two Lists parts type the state  *)
(* and tie each list to where its owner is.  Queues says that a timer has  *)
(* at most one entry and which setting each entry belongs to; with it      *)
(* every step is one of five moves of a setting (MovesStep), on which      *)
(* Once, Early and Apart rest.  Counted bounds the DPC entries by the      *)
(* firings and the calls that queue them, and DpcPlaces says where each    *)
(* entry is.                                                               *)
(***************************************************************************)
EXTENDS TimerDpc, TLAPS, WellFoundedInduction, FiniteSetTheorems, SequenceTheorems

-----------------------------------------------------------------------------
(* Natural numbers and Filter                                              *)

LEMMA Least ==
  ASSUME NEW U \in SUBSET Nat, U # {}
  PROVE  \E x \in U : \A y \in U : x <= y
<1>1. PICK x \in U : \A y \in U : ~(<<y, x>> \in OpToRel(<, Nat))
  BY NatLessThanWellFounded, WFMin
<1>2. \A y \in U : ~(y < x) BY <1>1 DEF OpToRel
<1> QED BY <1>2

LEMMA Induction ==
  ASSUME NEW T \in SUBSET Nat, 0 \in T, \A n \in T : n + 1 \in T
  PROVE  T = Nat
<1> SUFFICES ASSUME T # Nat PROVE FALSE OBVIOUS
<1>1. PICK x \in Nat \ T : \A y \in Nat \ T : x <= y
  <2> DEFINE U == Nat \ T
  <2>1. U \in SUBSET Nat /\ U # {} OBVIOUS
  <2> HIDE DEF U
  <2>2. \E x \in U : \A y \in U : x <= y BY <2>1, Least
  <2> QED BY <2>2 DEF U
<1>2. x \in Nat /\ x # 0 OBVIOUS
<1>3. x - 1 \in Nat /\ x - 1 < x /\ (x - 1) + 1 = x BY <1>2
<1>4. x - 1 \in T BY <1>1, <1>3
<1>5. x \in T BY <1>3, <1>4
<1> QED BY <1>5

LEMMA FilterDef ==
  ASSUME NEW X, NEW q \in Seq(X), NEW S
  PROVE \E f : /\ f = [i \in 0 .. Len(q) |->
                        IF i = 0 THEN <<>> ELSE IF q[i] \in S THEN Append(f[i - 1], q[i]) ELSE f[i - 1]]
               /\ Filter(q, S) = f[Len(q)]
<1> DEFINE Rec(f, n) == /\ f \in [0 .. n -> Seq(X)] /\ f[0] = <<>>
                        /\ \A i \in 1 .. n : f[i] = IF q[i] \in S THEN Append(f[i - 1], q[i]) ELSE f[i - 1]
           T == {n \in Nat : n <= Len(q) => \E f : Rec(f, n)}
<1>1. T \in SUBSET Nat OBVIOUS
<1>2. 0 \in T
  <2> Rec([i \in 0 .. 0 |-> <<>>], 0) OBVIOUS
  <2> QED OBVIOUS
<1>3. ASSUME NEW n \in T PROVE n + 1 \in T
  <2>0. n \in Nat /\ (n <= Len(q) => \E f : Rec(f, n)) OBVIOUS
  <2>1. ASSUME n + 1 <= Len(q) PROVE \E f : Rec(f, n + 1)
    <3>1. n <= Len(q) BY <2>0, <2>1
    <3>2. PICK f : Rec(f, n)
      <4> HIDE DEF Rec
      <4> QED BY <2>0, <3>1
    <3>3. q[n + 1] \in X BY <2>0, <2>1
    <3> DEFINE g == [i \in 0 .. (n + 1) |->
                      IF i <= n THEN f[i] ELSE IF q[n + 1] \in S THEN Append(f[n], q[n + 1]) ELSE f[n]]
    <3>4. g \in [0 .. (n + 1) -> Seq(X)] BY <2>0, <3>2, <3>3
    <3>5. \A i \in 0 .. n : g[i] = f[i] BY <2>0, <3>2
    <3>6. g[n + 1] = IF q[n + 1] \in S THEN Append(g[n], q[n + 1]) ELSE g[n] BY <2>0, <3>5
    <3>7. ASSUME NEW i \in 1 .. (n + 1)
          PROVE  g[i] = IF q[i] \in S THEN Append(g[i - 1], q[i]) ELSE g[i - 1]
      <4>1. CASE i = n + 1
        <5>1. i - 1 = n BY <2>0, <4>1
        <5> QED BY <3>6, <4>1, <5>1
      <4>2. CASE i # n + 1
        <5>1. i \in 1 .. n /\ i \in 0 .. n /\ i - 1 \in 0 .. n BY <2>0, <4>2
        <5> QED BY <3>2, <3>5, <5>1
      <4> QED BY <4>1, <4>2
    <3>8. g[0] = <<>> BY <2>0, <3>2, <3>5
    <3>9. Rec(g, n + 1)
      <4> HIDE DEF g
      <4> QED BY <3>4, <3>7, <3>8
    <3> QED BY <3>9
  <2>2. n + 1 \in Nat BY <2>0
  <2> HIDE DEF Rec
  <2> QED BY <2>1, <2>2
<1>4. T = Nat
  <2> HIDE DEF T
  <2> QED BY <1>1, <1>2, <1>3, Induction
<1>5. PICK f : Rec(f, Len(q)) BY <1>4, SMTT(40)
<1> DEFINE Body(h) == [i \in 0 .. Len(q) |->
             IF i = 0 THEN <<>> ELSE IF q[i] \in S THEN Append(h[i - 1], q[i]) ELSE h[i - 1]]
<1>6. f = Body(f)
  <2>1. \A i \in 0 .. Len(q) : f[i] = Body(f)[i]
    <3> TAKE i \in 0 .. Len(q)
    <3>1. CASE i = 0 BY <1>5, <3>1
    <3>2. CASE i # 0
      <4>1. i \in 1 .. Len(q) BY <3>2
      <4> QED BY <1>5, <3>2, <4>1
    <3> QED BY <3>1, <3>2
  <2> QED BY <1>5, <2>1
<1> DEFINE F == CHOOSE h : h = Body(h)
<1>7. F = Body(F)
  <2> HIDE DEF Body
  <2> QED BY <1>6
<1>8. Filter(q, S) = F[Len(q)] BY DEF Filter
<1> QED BY <1>7, <1>8

\* r is q's elements in S, in their order: h says which of them each is
Picks(r, q, S, h, n) ==
  /\ h \in [1 .. Len(r) -> 1 .. n]
  /\ \A k \in 1 .. Len(r) : r[k] = q[h[k]] /\ q[h[k]] \in S
  /\ \A i \in 1 .. n : q[i] \in S => \E k \in 1 .. Len(r) : h[k] = i
  /\ \A k, l \in 1 .. Len(r) : k < l => h[k] < h[l]

LEMMA FilterPicks ==
  ASSUME NEW X, NEW q \in Seq(X), NEW S
  PROVE  Filter(q, S) \in Seq(X) /\ \E h : Picks(Filter(q, S), q, S, h, Len(q))
<1>1. PICK f : /\ f = [i \in 0 .. Len(q) |->
                    IF i = 0 THEN <<>> ELSE IF q[i] \in S THEN Append(f[i - 1], q[i]) ELSE f[i - 1]]
               /\ Filter(q, S) = f[Len(q)]
  BY FilterDef
<1>2. f[0] = <<>> BY <1>1
<1>3. \A i \in 1 .. Len(q) : f[i] = IF q[i] \in S THEN Append(f[i - 1], q[i]) ELSE f[i - 1]
  <2> TAKE i \in 1 .. Len(q)
  <2>1. i \in 0 .. Len(q) /\ i # 0 OBVIOUS
  <2> QED BY <1>1, <2>1
<1> DEFINE T == {n \in Nat : n <= Len(q) => f[n] \in Seq(X) /\ \E h : Picks(f[n], q, S, h, n)}
<1>4. 0 \in T
  <2>1. Picks(<<>>, q, S, <<>>, 0) BY DEF Picks
  <2>2. f[0] \in Seq(X) /\ \E h : Picks(f[0], q, S, h, 0) BY <1>2, <2>1
  <2> QED BY <2>2
<1>5. ASSUME NEW n \in T PROVE n + 1 \in T
  <2>0. n \in Nat /\ (n <= Len(q) => f[n] \in Seq(X) /\ \E h : Picks(f[n], q, S, h, n)) OBVIOUS
  <2>1. ASSUME n + 1 <= Len(q) PROVE f[n + 1] \in Seq(X) /\ \E h : Picks(f[n + 1], q, S, h, n + 1)
    <3>1. f[n] \in Seq(X) /\ n + 1 \in 1 .. Len(q) /\ (n + 1) - 1 = n BY <2>0, <2>1
    <3>2. PICK h : Picks(f[n], q, S, h, n) BY <2>0, <2>1
    <3>3. q[n + 1] \in X BY <3>1
    <3>4. f[n + 1] = IF q[n + 1] \in S THEN Append(f[n], q[n + 1]) ELSE f[n]
      BY <1>3, <3>1
    <3>5. CASE q[n + 1] \notin S
      <4>1. f[n + 1] = f[n] BY <3>4, <3>5
      <4>2. Picks(f[n], q, S, h, n + 1) BY <2>0, <3>1, <3>2, <3>5 DEF Picks
      <4> QED BY <3>1, <4>1, <4>2
    <3>6. CASE q[n + 1] \in S
      <4> DEFINE r == Append(f[n], q[n + 1])  m == Len(f[n])
                 g == [k \in 1 .. (m + 1) |-> IF k = m + 1 THEN n + 1 ELSE h[k]]
      <4>1. f[n + 1] = r BY <3>4, <3>6
      <4>2. m \in Nat /\ r \in Seq(X) /\ Len(r) = m + 1 BY <3>1, <3>3
      <4>3. r[m + 1] = q[n + 1] /\ \A k \in 1 .. m : r[k] = f[n][k] BY <3>1, <3>3
      <4>4. g[m + 1] = n + 1 /\ \A k \in 1 .. m : g[k] = h[k] BY <4>2
      <4>5. \A k \in 1 .. m : h[k] \in 1 .. n BY <3>2 DEF Picks
      <4>6. g \in [1 .. (m + 1) -> 1 .. (n + 1)] BY <2>0, <4>2, <4>5
      <4> HIDE DEF g, r
      <4>7. ASSUME NEW k \in 1 .. (m + 1) PROVE r[k] = q[g[k]] /\ q[g[k]] \in S
        <5>1. CASE k = m + 1 BY <3>6, <4>3, <4>4, <5>1
        <5>2. CASE k # m + 1
          <6>1. k \in 1 .. m BY <4>2, <5>2
          <6> QED BY <3>2, <4>3, <4>4, <6>1 DEF Picks
        <5> QED BY <5>1, <5>2
      <4>8. ASSUME NEW i \in 1 .. (n + 1), q[i] \in S PROVE \E k \in 1 .. (m + 1) : g[k] = i
        <5>1. CASE i = n + 1 BY <4>2, <4>4, <5>1
        <5>2. CASE i # n + 1
          <6>1. i \in 1 .. n BY <2>0, <5>2
          <6>2. PICK k \in 1 .. m : h[k] = i BY <3>2, <4>8, <6>1 DEF Picks
          <6>3. k \in 1 .. (m + 1) BY <4>2
          <6> QED BY <4>4, <6>2, <6>3
        <5> QED BY <5>1, <5>2
      <4>9. ASSUME NEW k \in 1 .. (m + 1), NEW l \in 1 .. (m + 1), k < l PROVE g[k] < g[l]
        <5>1. k \in 1 .. m BY <4>2, <4>9
        <5>2. CASE l = m + 1 BY <2>0, <4>4, <4>5, <5>1, <5>2
        <5>3. CASE l # m + 1
          <6>1. l \in 1 .. m BY <4>2, <5>3
          <6> QED BY <3>2, <4>4, <4>9, <5>1, <6>1 DEF Picks
        <5> QED BY <5>2, <5>3
      <4>10. Picks(r, q, S, g, n + 1) BY <4>2, <4>6, <4>7, <4>8, <4>9 DEF Picks
      <4> QED BY <4>1, <4>2, <4>10
    <3> QED BY <3>5, <3>6
  <2>2. n + 1 \in Nat BY <2>0
  <2> QED BY <2>1, <2>2
<1>6. T = Nat
  <2>1. T \in SUBSET Nat OBVIOUS
  <2> HIDE DEF T
  <2> QED BY <1>4, <1>5, <2>1, Induction
<1>7. Len(q) \in T
  <2>1. Len(q) \in Nat OBVIOUS
  <2> HIDE DEF T
  <2> QED BY <1>6, <2>1
<1> QED BY <1>1, <1>7

LEMMA FilterMembers ==
  ASSUME NEW X, NEW q \in Seq(X), NEW S
  PROVE  Filter(q, S) \in Seq(X) /\ Members(Filter(q, S)) = Members(q) \cap S
<1>1. Filter(q, S) \in Seq(X) BY FilterPicks
<1>2. PICK h : Picks(Filter(q, S), q, S, h, Len(q)) BY FilterPicks
<1>3. DOMAIN q = 1 .. Len(q) /\ DOMAIN Filter(q, S) = 1 .. Len(Filter(q, S)) BY <1>1
<1>4. ASSUME NEW e \in Members(Filter(q, S)) PROVE e \in Members(q) \cap S
  <2>1. PICK k \in 1 .. Len(Filter(q, S)) : e = Filter(q, S)[k] BY <1>3 DEF Members
  <2>2. h[k] \in 1 .. Len(q) /\ e = q[h[k]] /\ e \in S BY <1>2, <2>1 DEF Picks
  <2> QED BY <1>3, <2>2 DEF Members
<1>5. ASSUME NEW e \in Members(q), e \in S PROVE e \in Members(Filter(q, S))
  <2>1. PICK i \in 1 .. Len(q) : e = q[i] BY <1>3 DEF Members
  <2>2. PICK k \in 1 .. Len(Filter(q, S)) : h[k] = i BY <1>2, <1>5, <2>1 DEF Picks
  <2>3. e = Filter(q, S)[k] BY <1>2, <2>1, <2>2 DEF Picks
  <2> QED BY <1>3, <2>3 DEF Members
<1> QED BY <1>1, <1>4, <1>5

\* Different places of what is left come from different places of q.
LEMMA FilterPlaces ==
  ASSUME NEW X, NEW q \in Seq(X), NEW S
  PROVE  \A i, j \in DOMAIN Filter(q, S) :
           \E k, l \in DOMAIN q :
             Filter(q, S)[i] = q[k] /\ Filter(q, S)[j] = q[l] /\ (k = l => i = j)
<1> SUFFICES ASSUME NEW i \in DOMAIN Filter(q, S), NEW j \in DOMAIN Filter(q, S)
             PROVE  \E k, l \in DOMAIN q :
                      Filter(q, S)[i] = q[k] /\ Filter(q, S)[j] = q[l] /\ (k = l => i = j)
  OBVIOUS
<1>1. Filter(q, S) \in Seq(X) BY FilterPicks
<1>2. PICK h : Picks(Filter(q, S), q, S, h, Len(q)) BY FilterPicks
<1>3. DOMAIN q = 1 .. Len(q) /\ DOMAIN Filter(q, S) = 1 .. Len(Filter(q, S)) BY <1>1
<1>4. h[i] \in 1 .. Len(q) /\ h[j] \in 1 .. Len(q) BY <1>2, <1>3 DEF Picks
<1>5. h[i] = h[j] => i = j BY <1>2, <1>3, <1>4 DEF Picks
<1> QED BY <1>2, <1>3, <1>4, <1>5 DEF Picks

LEMMA TailPlaces ==
  ASSUME NEW X, NEW q \in Seq(X), q # <<>>
  PROVE  /\ Head(q) = q[1] /\ Head(q) \in X /\ 1 \in DOMAIN q
         /\ Tail(q) \in Seq(X)
         /\ \A i \in DOMAIN Tail(q) : i + 1 \in DOMAIN q /\ i + 1 # 1 /\ Tail(q)[i] = q[i + 1]
         /\ \A i \in DOMAIN q : i # 1 => i - 1 \in DOMAIN Tail(q) /\ Tail(q)[i - 1] = q[i]
         /\ Members(Tail(q)) \subseteq Members(q)
         /\ Members(q) = Members(Tail(q)) \cup {Head(q)}
<1>1. Len(q) \in Nat /\ Len(q) > 0 /\ DOMAIN q = 1 .. Len(q) BY EmptySeq
<1>2. Tail(q) \in Seq(X) /\ Len(Tail(q)) = Len(q) - 1 /\ DOMAIN Tail(q) = 1 .. (Len(q) - 1)
  BY <1>1
<1>3. Head(q) = q[1] /\ Head(q) \in X /\ 1 \in DOMAIN q BY <1>1
<1>4. \A i \in 1 .. (Len(q) - 1) : Tail(q)[i] = q[i + 1] BY <1>1
<1>5. \A i \in DOMAIN Tail(q) : i + 1 \in DOMAIN q /\ i + 1 # 1 /\ Tail(q)[i] = q[i + 1]
  BY <1>1, <1>2, <1>4
<1>6. ASSUME NEW i \in DOMAIN q, i # 1 PROVE i - 1 \in DOMAIN Tail(q) /\ Tail(q)[i - 1] = q[i]
  <2>1. i - 1 \in 1 .. (Len(q) - 1) /\ (i - 1) + 1 = i BY <1>1, <1>6
  <2> QED BY <1>2, <1>4, <2>1
<1>7. Members(Tail(q)) \subseteq Members(q) BY <1>5 DEF Members
<1>8. Members(q) \subseteq Members(Tail(q)) \cup {Head(q)} BY <1>3, <1>6 DEF Members
<1>9. Head(q) \in Members(q) BY <1>3 DEF Members
<1> QED BY <1>2, <1>3, <1>5, <1>6, <1>7, <1>8, <1>9

LEMMA AppendPlaces ==
  ASSUME NEW X, NEW q \in Seq(X), NEW e \in X
  PROVE  /\ Append(q, e) \in Seq(X)
         /\ DOMAIN Append(q, e) = DOMAIN q \cup {Len(q) + 1} /\ Len(q) + 1 \notin DOMAIN q
         /\ \A i \in DOMAIN q : Append(q, e)[i] = q[i]
         /\ Append(q, e)[Len(q) + 1] = e
         /\ Members(Append(q, e)) = Members(q) \cup {e}
<1>1. Len(q) \in Nat /\ DOMAIN q = 1 .. Len(q) OBVIOUS
<1>2. Append(q, e) \in Seq(X) /\ Len(Append(q, e)) = Len(q) + 1 OBVIOUS
<1>3. DOMAIN Append(q, e) = 1 .. (Len(q) + 1) BY <1>2
<1>4. DOMAIN Append(q, e) = DOMAIN q \cup {Len(q) + 1} /\ Len(q) + 1 \notin DOMAIN q BY <1>1, <1>3
<1>5. \A i \in DOMAIN q : Append(q, e)[i] = q[i] BY <1>1
<1>6. Append(q, e)[Len(q) + 1] = e OBVIOUS
<1>7. Members(Append(q, e)) = Members(q) \cup {e} BY <1>4, <1>5, <1>6 DEF Members
<1> QED BY <1>2, <1>4, <1>5, <1>6, <1>7

-----------------------------------------------------------------------------
(* Control: where every thread is, and with which arguments                 *)

EmuPcs == {"idle", "timers", "fire", "link", "dpcs", "run", "call", "ret"}
GuestPcs == {"idle", "set", "clear", "dpcs", "run", "call", "ret", "nested", "stuck"}
InDpcs == {"run", "call", "ret", "nested", "stuck"}
SetArg == [timer : Timer, due : 0..MaxTime, period : Period, dpc : Dpc \cup {NoDpc}]
TimerArg == [timer : Timer]
EventArg == [timer : {NoDpc}, event : Event]

Control ==
  /\ now \in 0..MaxTime /\ current_time \in 0..MaxTime /\ current_time <= now
  /\ memory_ \in BOOLEAN
  /\ todo \in Seq({"timers", "dpcs"})
  /\ pc \in [Thread -> EmuPcs \cup GuestPcs]
  /\ pc[Emu] \in EmuPcs /\ \A g \in Guest : pc[g] \in GuestPcs
  /\ arg \in [Guest -> Arg]
  /\ \A g \in Guest : /\ pc[g] = "set" => arg[g] \in SetArg
                      /\ pc[g] = "clear" => arg[g] \in TimerArg
                      /\ pc[g] \in InDpcs \cup {"dpcs"} => arg[g] \in EventArg
  /\ ctx0 \in Thread \cup {NoDpc}
  /\ signalled \subseteq Event
  /\ inserted \in 0..MaxDpc /\ queued \in Nat

LEMMA ControlStep ==
  ASSUME Control, [Next]_vars
  PROVE  Control'
<1> USE TimerDpcAssumption DEF Control, Thread
<1>1. CASE Tick BY <1>1 DEF Tick, sharedVars, emuVars, threadVars, dpcHistory, setHistory
<1>2. CASE NextCall
  <2>1. PICK calls \in Seq({"timers", "dpcs"}) \ {<<>>} :
          /\ Goto(Emu, Head(calls)) /\ todo' = Tail(calls)
          /\ current_time' = IF Head(calls) = "timers" THEN now ELSE 0
    <3>1. /\ RunFor \in Seq({"timers", "dpcs"}) /\ RunFor # <<>>
          /\ SignalVblank \in Seq({"timers", "dpcs"}) /\ SignalVblank # <<>>
      BY DEF RunFor, SignalVblank
    <3>2. PICK calls \in IF todo = <<>> THEN {RunFor, SignalVblank} ELSE {todo} :
            /\ Goto(Emu, Head(calls)) /\ todo' = Tail(calls)
            /\ current_time' = IF Head(calls) = "timers" THEN now ELSE 0
      BY <1>2 DEF NextCall
    <3>3. calls \in Seq({"timers", "dpcs"}) \ {<<>>} BY <3>1, <3>2
    <3> QED BY <3>2, <3>3
  <2>2. Head(calls) \in {"timers", "dpcs"} /\ todo' \in Seq({"timers", "dpcs"}) BY <2>1
  <2> QED BY <1>2, <2>1, <2>2 DEF NextCall, EmuPcs, GuestPcs, InDpcs, Goto, sharedVars, emuVars, threadVars, dpcHistory, setHistory
<1>3. CASE Expire BY <1>3 DEF Expire, NextTimer, Continue, EmuPcs, GuestPcs, InDpcs, Goto, sharedVars, emuVars, threadVars, dpcHistory, setHistory
<1>4. CASE Fire BY <1>4, SMTT(40) DEF Fire, NextTimer, Continue, EmuPcs, GuestPcs, InDpcs, Goto, sharedVars, emuVars, threadVars, dpcHistory, setHistory
<1>5. CASE LinkDpc BY <1>5 DEF LinkDpc, NextTimer, Continue, QueueDpc, EmuPcs, GuestPcs, InDpcs, Goto, sharedVars, emuVars, threadVars, dpcHistory, setHistory
<1>6. CASE CallOnEmu BY <1>6 DEF CallOnEmu, EmuPcs, GuestPcs, InDpcs, Goto, sharedVars, emuVars, threadVars, dpcHistory, setHistory
<1>7. CASE Shutdown BY <1>7 DEF Shutdown, EmuPcs, GuestPcs, InDpcs, Goto, sharedVars, emuVars, threadVars, dpcHistory, setHistory
<1>8. ASSUME NEW p \in Thread, Swap(p) PROVE Control'
  BY <1>8 DEF Swap, NextDpc, Continue, EmuPcs, GuestPcs, InDpcs, Goto, sharedVars, emuVars, threadVars, dpcHistory, setHistory, Arg, NoArg, SetArg, TimerArg, EventArg
<1>9. ASSUME NEW p \in Thread, Skip(p) PROVE Control'
  BY <1>9 DEF Skip, Finish, NextDpc, Continue, EmuPcs, GuestPcs, InDpcs, Goto, sharedVars, emuVars, threadVars, dpcHistory, setHistory, Arg, NoArg, SetArg, TimerArg, EventArg
<1>10. ASSUME NEW p \in Thread, Execute(p) PROVE Control'
  BY <1>10 DEF Execute, EmuPcs, GuestPcs, InDpcs, Goto, sharedVars, emuVars, threadVars, dpcHistory, setHistory, Arg, NoArg, SetArg, TimerArg, EventArg
<1>11. ASSUME NEW p \in Thread, EndDpc(p) PROVE Control'
  BY <1>11 DEF EndDpc, Finish, NextDpc, Continue, EmuPcs, GuestPcs, InDpcs, Goto, sharedVars, emuVars, threadVars, dpcHistory, setHistory, Arg, NoArg, SetArg, TimerArg, EventArg
<1>12. ASSUME NEW g \in Guest, QueueTimer(g) PROVE Control'
  BY <1>12 DEF QueueTimer, EmuPcs, GuestPcs, InDpcs, Goto, sharedVars, emuVars, threadVars, dpcHistory, setHistory, Arg, NoArg, SetArg, TimerArg, EventArg
<1>13. ASSUME NEW g \in Guest, ClearSignal(g) PROVE Control'
  BY <1>13 DEF ClearSignal, EmuPcs, GuestPcs, InDpcs, Goto, sharedVars, emuVars, threadVars, dpcHistory, setHistory, Arg, NoArg, SetArg, TimerArg, EventArg
<1>14. ASSUME NEW g \in Guest, CallOnGuest(g) PROVE Control'
  BY <1>14 DEF CallOnGuest, EmuPcs, GuestPcs, InDpcs, Goto, sharedVars, emuVars, threadVars, dpcHistory, setHistory, Arg, NoArg, SetArg, TimerArg, EventArg
<1>15. ASSUME NEW g \in Guest, NestedDpcs(g) PROVE Control'
  BY <1>15 DEF NestedDpcs, EmuPcs, GuestPcs, InDpcs, Goto, sharedVars, emuVars, threadVars, dpcHistory, setHistory, Arg, NoArg, SetArg, TimerArg, EventArg
<1>16. ASSUME NEW g \in Guest, NEW t \in Timer, NEW due \in now..MaxTime, NEW period \in Period,
              NEW d \in Dpc \cup {NoDpc}, SetTimer(g, t, due, period, d) PROVE Control'
  BY <1>16 DEF SetTimer, EmuPcs, GuestPcs, InDpcs, Goto, sharedVars, emuVars, threadVars, dpcHistory, setHistory, Arg, NoArg, SetArg, TimerArg, EventArg
<1>17. ASSUME NEW g \in Guest, NEW t \in Timer, CancelTimer(g, t) PROVE Control'
  BY <1>17 DEF CancelTimer, EmuPcs, GuestPcs, InDpcs, Goto, sharedVars, emuVars, threadVars, dpcHistory, setHistory, Arg, NoArg, SetArg, TimerArg, EventArg
<1>18. ASSUME NEW g \in Guest, NEW d \in Dpc, InsertQueueDpc(g, d) PROVE Control'
  BY <1>18 DEF InsertQueueDpc, QueueDpc, EmuPcs, GuestPcs, InDpcs, Goto, sharedVars, emuVars, threadVars, dpcHistory, setHistory, Arg, NoArg, SetArg, TimerArg, EventArg
<1>19. ASSUME NEW g \in Guest, NEW e \in Event, SetEvent(g, e) PROVE Control'
  BY <1>19 DEF SetEvent, EmuPcs, GuestPcs, InDpcs, Goto, sharedVars, emuVars, threadVars, dpcHistory, setHistory, Arg, NoArg, SetArg, TimerArg, EventArg
<1>20. CASE UNCHANGED vars BY <1>20 DEF vars, sharedVars, emuVars, threadVars, dpcHistory, setHistory
<1> QED
  BY <1>1, <1>2, <1>3, <1>4, <1>5, <1>6, <1>7, <1>8, <1>9, <1>10, <1>11, <1>12, <1>13, <1>14, <1>15,
     <1>16, <1>17, <1>18, <1>19, <1>20 DEF Next, EmuStep, DpcStep, GuestStep, GuestCall

-----------------------------------------------------------------------------
(* The lists, and what the settings' numbers are                            *)

DpcEntry == [dpc : Dpc, n : Nat]
Setters == {h \in Guest : pc[h] = "set"}

TimerLists ==
  /\ timer_queue \in Seq(Timers) /\ expired \in Seq(Timers)
  /\ expired # <<>> <=> pc[Emu] \in {"fire", "link"}
  /\ pc[Emu] = "link" => HasRoutine(Head(expired).dpc)
  /\ settings \in Seq([timer : Timer, due : 0..MaxTime, period : Period])
  /\ Len(settings) + Cardinality(Setters) <= MaxSet
  /\ signal_state \in [Timer -> 0..1] /\ fired \in [Setting -> Nat]

DpcLists ==
  /\ dpc_queue \in Seq(DpcEntry) /\ to_process \in [Thread -> Seq(DpcEntry)]
  /\ \A p \in Thread : to_process[p] # <<>> <=> pc[p] \in InDpcs
  /\ done \in [Entry -> Nat]

LEMMA SettersStep ==
  ASSUME Control, TimerLists, [Next]_vars
  PROVE  \/ UNCHANGED <<settings, Setters>>
         \/ \E g \in Guest : /\ UNCHANGED settings /\ Setters' = Setters \cup {g}
                             /\ Len(settings) + Cardinality(Setters) < MaxSet
         \/ \E g \in Setters : Setters' = Setters \ {g} /\ Len(settings') = Len(settings) + 1
<1> USE TimerDpcAssumption DEF Control, Thread, Setters, sharedVars, emuVars, threadVars, setHistory, dpcHistory
<1> DEFINE Same == UNCHANGED <<settings, Setters>>
<1>1. CASE Tick BY <1>1 DEF Tick
<1>2. CASE NextCall BY <1>2 DEF NextCall, Goto
<1>3. CASE Expire BY <1>3 DEF Expire, NextTimer, Continue, Goto
<1>4. CASE Fire BY <1>4 DEF Fire, NextTimer, Continue, Goto
<1>5. CASE LinkDpc BY <1>5 DEF LinkDpc, NextTimer, Continue, Goto
<1>6. CASE CallOnEmu BY <1>6 DEF CallOnEmu, Goto
<1>7. CASE Shutdown BY <1>7 DEF Shutdown
<1>8. ASSUME NEW p \in Thread, Swap(p) PROVE Same
  BY <1>8 DEF Swap, NextDpc, Continue, Goto
<1>9. ASSUME NEW p \in Thread, Skip(p) PROVE Same
  BY <1>9 DEF Skip, Finish, NextDpc, Continue, Goto
<1>10. ASSUME NEW p \in Thread, Execute(p) PROVE Same BY <1>10 DEF Execute, Goto
<1>11. ASSUME NEW p \in Thread, EndDpc(p) PROVE Same
  BY <1>11 DEF EndDpc, Finish, NextDpc, Continue, Goto
<1>12. ASSUME NEW g \in Guest, QueueTimer(g)
       PROVE  g \in Setters /\ Setters' = Setters \ {g} /\ Len(settings') = Len(settings) + 1
  BY <1>12 DEF QueueTimer, Goto, TimerLists
<1>13. ASSUME NEW g \in Guest, ClearSignal(g) PROVE Same BY <1>13 DEF ClearSignal, Goto
<1>14. ASSUME NEW g \in Guest, CallOnGuest(g) PROVE Same BY <1>14 DEF CallOnGuest, Goto
<1>15. ASSUME NEW g \in Guest, NestedDpcs(g) PROVE Same BY <1>15 DEF NestedDpcs, Goto
<1>16. ASSUME NEW g \in Guest, NEW t \in Timer, NEW due \in now..MaxTime, NEW period \in Period,
              NEW d \in Dpc \cup {NoDpc}, SetTimer(g, t, due, period, d)
       PROVE  /\ UNCHANGED settings /\ Setters' = Setters \cup {g}
              /\ Len(settings) + Cardinality(Setters) < MaxSet
  BY <1>16 DEF SetTimer, Sets, Goto
<1>17. ASSUME NEW g \in Guest, NEW t \in Timer, CancelTimer(g, t) PROVE Same
  BY <1>17 DEF CancelTimer, Goto
<1>18. ASSUME NEW g \in Guest, NEW d \in Dpc, InsertQueueDpc(g, d) PROVE Same
  BY <1>18 DEF InsertQueueDpc
<1>19. ASSUME NEW g \in Guest, NEW e \in Event, SetEvent(g, e) PROVE Same
  BY <1>19 DEF SetEvent, Goto
<1>20. CASE UNCHANGED vars BY <1>20 DEF vars
<1> HIDE DEF Setters
<1> QED
  BY <1>1, <1>2, <1>3, <1>4, <1>5, <1>6, <1>7, <1>8, <1>9, <1>10, <1>11, <1>12, <1>13, <1>14, <1>15,
     <1>16, <1>17, <1>18, <1>19, <1>20 DEF Next, EmuStep, DpcStep, GuestStep, GuestCall

LEMMA OneMore ==
  ASSUME NEW S, IsFiniteSet(S), NEW x
  PROVE  Cardinality(S \cup {x}) \in {Cardinality(S), Cardinality(S) + 1}
<1>1. CASE x \in S
  <2>1. S \cup {x} = S BY <1>1
  <2> QED BY <2>1
<1>2. CASE x \notin S BY <1>2, FS_AddElement
<1> QED BY <1>1, <1>2

\* A setting's number is within the bound.
LEMMA RoomStep ==
  ASSUME Control, TimerLists, [Next]_vars
  PROVE  Len(settings') + Cardinality(Setters') <= MaxSet
<1>1. IsFiniteSet(Guest) /\ Setters \subseteq Guest BY TimerDpcAssumption DEF Setters
<1>2. IsFiniteSet(Setters) /\ Cardinality(Setters) \in Nat BY <1>1, FS_Subset, FS_CardinalityType
<1>3. Len(settings) \in Nat /\ MaxSet \in Nat /\ Len(settings) + Cardinality(Setters) <= MaxSet
  BY TimerDpcAssumption DEF TimerLists
<1>4. CASE UNCHANGED <<settings, Setters>> BY <1>3, <1>4
<1>5. ASSUME NEW g \in Guest, UNCHANGED settings, Setters' = Setters \cup {g},
             Len(settings) + Cardinality(Setters) < MaxSet
      PROVE  Len(settings') + Cardinality(Setters') <= MaxSet
  <2>1. Cardinality(Setters \cup {g}) \in {Cardinality(Setters), Cardinality(Setters) + 1}
    BY <1>2, OneMore
  <2>2. Cardinality(Setters') <= Cardinality(Setters) + 1 /\ Cardinality(Setters') \in Nat
        /\ Cardinality(Setters) \in Nat
    BY <1>2, <1>5, <2>1
  <2> QED BY <1>3, <1>5, <2>2
<1>6. ASSUME NEW g \in Setters, Setters' = Setters \ {g}, Len(settings') = Len(settings) + 1
      PROVE  Len(settings') + Cardinality(Setters') <= MaxSet
  <2>1. Cardinality(Setters') = Cardinality(Setters) - 1
    BY <1>2, <1>6, FS_RemoveElement
  <2> QED BY <1>2, <1>3, <1>6, <2>1
<1> QED BY <1>4, <1>5, <1>6, SettersStep

-----------------------------------------------------------------------------
(* Who touches what                                                         *)

EmuIn(l) == pc[Emu] = l
TimersSame ==
  /\ UNCHANGED <<timer_queue, expired, signal_state, settings, fired, withdrawn, wiped, last>>
  /\ now <= now' /\ current_time' = current_time
  /\ \A l \in {"timers", "fire", "link"} : EmuIn(l)' <=> EmuIn(l)
DpcsSame ==
  /\ UNCHANGED <<dpc_queue, to_process, done, inserted, queued>>
  /\ \A p \in Thread : pc'[p] \in InDpcs <=> pc[p] \in InDpcs

LEMMA TimersFrame ==
  ASSUME Control, [Next]_vars
  PROVE  \/ NextCall \/ Expire \/ Fire \/ LinkDpc \/ Shutdown
         \/ \E g \in Guest : QueueTimer(g) \/ ClearSignal(g)
         \/ \E g \in Guest, t \in Timer : CancelTimer(g, t)
         \/ \E g \in Guest, t \in Timer, due \in now..MaxTime, period \in Period, d \in Dpc \cup {NoDpc} :
              SetTimer(g, t, due, period, d)
         \/ TimersSame
<1> USE TimerDpcAssumption DEF Control, Thread, EmuIn, TimersSame, sharedVars, emuVars, threadVars, setHistory, dpcHistory
<1>1. CASE Tick BY <1>1 DEF Tick
<1>2. CASE CallOnEmu BY <1>2 DEF CallOnEmu, Goto
<1>3. ASSUME NEW p \in Thread, DpcStep(p) PROVE TimersSame
  <2>1. CASE Swap(p) BY <2>1 DEF Swap, NextDpc, Continue, Goto
  <2>2. CASE Skip(p) BY <2>2 DEF Skip, Finish, NextDpc, Continue, Goto
  <2>3. CASE Execute(p) BY <2>3 DEF Execute, Goto
  <2>4. CASE EndDpc(p) BY <2>4 DEF EndDpc, Finish, NextDpc, Continue, Goto
  <2> QED BY <1>3, <2>1, <2>2, <2>3, <2>4 DEF DpcStep
<1>4. ASSUME NEW g \in Guest, CallOnGuest(g) PROVE TimersSame BY <1>4 DEF CallOnGuest, Goto
<1>5. ASSUME NEW g \in Guest, NestedDpcs(g) PROVE TimersSame BY <1>5 DEF NestedDpcs, Goto
<1>6. ASSUME NEW g \in Guest, NEW d \in Dpc, InsertQueueDpc(g, d) PROVE TimersSame
  BY <1>6 DEF InsertQueueDpc
<1>7. ASSUME NEW g \in Guest, NEW e \in Event, SetEvent(g, e) PROVE TimersSame
  BY <1>7 DEF SetEvent, Goto
<1>8. CASE UNCHANGED vars BY <1>8 DEF vars
<1> HIDE DEF TimersSame
<1> QED BY <1>1, <1>2, <1>3, <1>4, <1>5, <1>6, <1>7, <1>8 DEF Next, EmuStep, GuestStep, GuestCall

LEMMA DpcsFrame ==
  ASSUME Control, [Next]_vars
  PROVE  \/ LinkDpc \/ Shutdown
         \/ \E p \in Thread : Swap(p) \/ Skip(p) \/ EndDpc(p)
         \/ \E g \in Guest : NestedDpcs(g)
         \/ \E g \in Guest, d \in Dpc : InsertQueueDpc(g, d)
         \/ DpcsSame
<1> USE TimerDpcAssumption DEF Control, Thread, DpcsSame, InDpcs, EmuPcs, GuestPcs, sharedVars, emuVars, threadVars, setHistory, dpcHistory
<1>1. CASE Tick BY <1>1 DEF Tick
<1>2. CASE NextCall
  <2>1. PICK l : pc' = [pc EXCEPT ![Emu] = l] BY <1>2 DEF NextCall, Goto
  <2>2. pc'[Emu] \in {"timers", "dpcs"}
    <3>1. /\ RunFor \in Seq({"timers", "dpcs"}) /\ RunFor # <<>>
          /\ SignalVblank \in Seq({"timers", "dpcs"}) /\ SignalVblank # <<>>
      BY DEF RunFor, SignalVblank
    <3>2. PICK calls \in IF todo = <<>> THEN {RunFor, SignalVblank} ELSE {todo} : pc'[Emu] = Head(calls)
      BY <1>2 DEF NextCall, Goto
    <3>3. calls \in Seq({"timers", "dpcs"}) /\ calls # <<>> BY <3>1, <3>2
    <3> QED BY <3>2, <3>3
  <2> QED BY <1>2, <2>1, <2>2 DEF NextCall
<1>3. CASE Expire BY <1>3 DEF Expire, NextTimer, Continue, Goto
<1>4. CASE Fire BY <1>4 DEF Fire, NextTimer, Continue, Goto
<1>5. CASE CallOnEmu BY <1>5 DEF CallOnEmu, Goto
<1>6. ASSUME NEW p \in Thread, Execute(p) PROVE DpcsSame BY <1>6 DEF Execute, Goto
<1>7. ASSUME NEW g \in Guest, GuestStep(g) PROVE DpcsSame \/ NestedDpcs(g)
  <2>1. CASE QueueTimer(g) BY <2>1 DEF QueueTimer, Goto
  <2>2. CASE ClearSignal(g) BY <2>2 DEF ClearSignal, Goto
  <2>3. CASE CallOnGuest(g) BY <2>3 DEF CallOnGuest, Goto
  <2> HIDE DEF DpcsSame
  <2> QED BY <1>7, <2>1, <2>2, <2>3 DEF GuestStep
<1>8. ASSUME NEW g \in Guest, NEW t \in Timer, NEW due \in now..MaxTime, NEW period \in Period,
             NEW d \in Dpc \cup {NoDpc}, SetTimer(g, t, due, period, d) PROVE DpcsSame
  BY <1>8 DEF SetTimer, Goto
<1>9. ASSUME NEW g \in Guest, NEW t \in Timer, CancelTimer(g, t) PROVE DpcsSame
  BY <1>9 DEF CancelTimer, Goto
<1>10. ASSUME NEW g \in Guest, NEW e \in Event, SetEvent(g, e) PROVE DpcsSame
  BY <1>10 DEF SetEvent, Goto
<1>11. CASE UNCHANGED vars BY <1>11 DEF vars
<1> HIDE DEF DpcsSame
<1> QED
  BY <1>1, <1>2, <1>3, <1>4, <1>5, <1>6, <1>7, <1>8, <1>9, <1>10, <1>11 DEF Next, EmuStep, DpcStep, GuestCall

-----------------------------------------------------------------------------
(* The steps of the timers' lists                                           *)

\* What KernelState::queue_timer does: the setting gets the next number, and
\* its entry takes the place of the timer's own or is appended.
LEMMA QueueTimerStep ==
  ASSUME Control, TimerLists, NEW g \in Guest, QueueTimer(g)
  PROVE  LET s == Len(settings) + 1 IN
         /\ s \in Setting /\ s \notin DOMAIN settings
         /\ settings' \in Seq([timer : Timer, due : 0..MaxTime, period : Period])
         /\ DOMAIN settings' = DOMAIN settings \cup {s}
         /\ \A r \in DOMAIN settings : settings'[r] = settings[r]
         /\ \E e \in Timers :
              /\ e.set = s
              /\ settings'[s] = [timer |-> e.timer, due |-> e.due, period |-> e.period]
              /\ withdrawn' = withdrawn \cup
                   {timer_queue[i].set : i \in {i \in DOMAIN timer_queue : timer_queue[i].timer = e.timer}}
              /\ \/ /\ \A i \in DOMAIN timer_queue : timer_queue[i].timer # e.timer
                    /\ timer_queue' = Append(timer_queue, e)
                 \/ \E k \in DOMAIN timer_queue :
                      /\ timer_queue[k].timer = e.timer
                      /\ timer_queue' = [timer_queue EXCEPT ![k] = e]
         /\ UNCHANGED <<now, current_time, expired, signal_state, fired, wiped>>
         /\ pc'[Emu] = pc[Emu]
<1> DEFINE s == Len(settings) + 1
           S == [timer : Timer, due : 0..MaxTime, period : Period]
           e == [timer |-> arg[g].timer, due |-> arg[g].due, period |-> arg[g].period,
                 dpc |-> arg[g].dpc, set |-> s]
           r == [timer |-> e.timer, due |-> e.due, period |-> e.period]
           Same == {i \in DOMAIN timer_queue : timer_queue[i].timer = e.timer}
<1>1. arg[g] \in SetArg /\ pc[g] = "set" BY DEF Control, QueueTimer
<1>2. settings \in Seq(S) BY DEF TimerLists
<1>3. settings' = Append(settings, r) BY DEF QueueTimer
<1>4. r \in S BY <1>1 DEF SetArg
<1>5. settings' \in Seq(S) /\ Len(settings') = s BY <1>2, <1>3, <1>4
<1>6. s \in Setting
  <2>1. Setters' \subseteq Guest BY DEF Setters
  <2>2. Cardinality(Setters') \in Nat
    BY <2>1, TimerDpcAssumption, FS_Subset, FS_CardinalityType
  <2>3. Len(settings') + Cardinality(Setters') <= MaxSet
    BY RoomStep DEF Next, GuestStep
  <2> QED BY <1>2, <1>5, <2>2, <2>3, TimerDpcAssumption DEF Setting
<1>7. e \in Timers BY <1>1, <1>6, TimerDpcAssumption DEF SetArg, Timers, Setting
<1>8. /\ DOMAIN settings' = DOMAIN settings \cup {s} /\ s \notin DOMAIN settings
      /\ \A i \in DOMAIN settings : settings'[i] = settings[i]
      /\ settings'[s] = r
  <2> HIDE DEF r, S
  <2> QED BY <1>2, <1>3, <1>4, AppendPlaces
<1>9. /\ timer_queue' = IF Same = {} THEN Append(timer_queue, e)
                        ELSE [timer_queue EXCEPT ![CHOOSE i \in Same : TRUE] = e]
      /\ withdrawn' = withdrawn \cup {timer_queue[i].set : i \in Same}
  BY DEF QueueTimer
<1>10. \/ Same = {} /\ timer_queue' = Append(timer_queue, e)
       \/ \E k \in Same : timer_queue' = [timer_queue EXCEPT ![k] = e]
  <2> HIDE DEF Same, e
  <2>1. Same # {} => (CHOOSE i \in Same : TRUE) \in Same OBVIOUS
  <2> QED BY <1>9, <2>1
<1>11. /\ UNCHANGED <<now, current_time, expired, signal_state, fired, wiped>>
       /\ pc'[Emu] = pc[Emu]
  BY TimerDpcAssumption DEF QueueTimer, Goto, emuVars, Control
<1>12. e.set = s OBVIOUS
<1>13. \/ /\ \A i \in DOMAIN timer_queue : timer_queue[i].timer # e.timer
          /\ timer_queue' = Append(timer_queue, e)
       \/ \E k \in DOMAIN timer_queue :
            /\ timer_queue[k].timer = e.timer
            /\ timer_queue' = [timer_queue EXCEPT ![k] = e]
  <2> HIDE DEF e
  <2> QED BY <1>10
<1>14. settings'[s] = [timer |-> e.timer, due |-> e.due, period |-> e.period] BY <1>8
<1> HIDE DEF e, r
<1> QED BY <1>5, <1>6, <1>7, <1>8, <1>9, <1>11, <1>12, <1>13, <1>14

\* What process_timer_queue's first part does to each place of the queue.
LEMMA ExpireStep ==
  ASSUME Control, TimerLists, Expire
  PROVE  LET due == {e \in Members(timer_queue) : e.due <= current_time} IN
         /\ expired' \in Seq(Timers) /\ timer_queue' \in Seq(Timers)
         /\ expired' = Filter(timer_queue, due) /\ Members(expired') = due
         /\ pc'[Emu] = IF expired' = <<>> THEN "idle" ELSE "fire"
         /\ \A i, j \in DOMAIN timer_queue' : \E k, l \in DOMAIN timer_queue :
              /\ k = l => i = j
              /\ \A x \in {<<i, k>>, <<j, l>>} :
                   LET e == timer_queue[x[2]] IN
                   \/ e \notin due /\ timer_queue'[x[1]] = e
                   \/ e \in due /\ e.period # 0 /\ timer_queue'[x[1]] = [e EXCEPT !.due = current_time + e.period]
         /\ \A e \in Members(timer_queue) :
              \/ e \notin due /\ e \in Members(timer_queue')
              \/ e \in due /\ e.period = 0
              \/ e \in due /\ [e EXCEPT !.due = current_time + e.period] \in Members(timer_queue')
         /\ UNCHANGED <<now, signal_state, settings, fired, withdrawn, wiped>>
<1> DEFINE due == {e \in Members(timer_queue) : e.due <= current_time}
           stays == Members(timer_queue) \ {e \in due : e.period = 0}
           kept == Filter(timer_queue, stays)
           Moved(e) == IF e \in due THEN [e EXCEPT !.due = current_time + e.period] ELSE e
<1>1. timer_queue \in Seq(Timers) /\ Members(timer_queue) \subseteq Timers BY DEF TimerLists, Members
<1>2. /\ expired' = Filter(timer_queue, due)
      /\ timer_queue' = [i \in DOMAIN kept |-> Moved(kept[i])]
      /\ UNCHANGED <<now, signal_state, settings, fired, withdrawn, wiped>>
  BY DEF Expire, NextTimer, setHistory
<1>3. pc'[Emu] = IF expired' = <<>> THEN "idle" ELSE "fire"
  BY DEF Expire, NextTimer, Continue, Goto, Control, Thread
<1>4. due \subseteq Members(timer_queue) /\ stays \subseteq Members(timer_queue) OBVIOUS
<1>5. \A e \in stays : e \in Members(timer_queue) /\ (e \in due => e.period # 0) OBVIOUS
<1>6. \A e \in Members(timer_queue) : e \in stays \/ (e \in due /\ e.period = 0) OBVIOUS
<1>7. ASSUME NEW e \in Timers PROVE Moved(e) \in Timers
  <2>1. e.period \in Period /\ current_time \in Nat BY DEF Timers, Control
  <2>2. Period \subseteq Nat BY TimerDpcAssumption
  <2>3. e.period \in Nat BY <2>1, <2>2
  <2>4. current_time + e.period \in Nat BY <2>1, <2>3
  <2> QED BY <2>4 DEF Timers
<1>8. \A e : /\ e \in due => Moved(e) = [e EXCEPT !.due = current_time + e.period]
             /\ e \notin due => Moved(e) = e
  OBVIOUS
<1> HIDE DEF due, stays, Moved
<1>9. expired' \in Seq(Timers) /\ Members(expired') = due
  <2>1. Filter(timer_queue, due) \in Seq(Timers) /\ Members(Filter(timer_queue, due)) = Members(timer_queue) \cap due
    BY <1>1, FilterMembers
  <2> QED BY <1>2, <1>4, <2>1
<1>10. kept \in Seq(Timers) /\ Members(kept) = stays
  <2>1. Filter(timer_queue, stays) \in Seq(Timers) /\ Members(Filter(timer_queue, stays)) = Members(timer_queue) \cap stays
    BY <1>1, FilterMembers
  <2> QED BY <1>4, <2>1
<1>11. \A i \in DOMAIN kept : kept[i] \in stays BY <1>10 DEF Members
<1>12. timer_queue' \in Seq(Timers)
  <2>1. DOMAIN kept = 1 .. Len(kept) /\ Len(kept) \in Nat BY <1>10
  <2>2. \A i \in 1 .. Len(kept) : Moved(kept[i]) \in Timers BY <1>7, <1>10
  <2> HIDE DEF kept
  <2> QED BY <1>2, <2>1, <2>2
<1>13. ASSUME NEW i \in DOMAIN timer_queue', NEW j \in DOMAIN timer_queue'
       PROVE  \E k, l \in DOMAIN timer_queue :
              /\ k = l => i = j
              /\ timer_queue[k] \in stays /\ timer_queue'[i] = Moved(timer_queue[k])
              /\ timer_queue[l] \in stays /\ timer_queue'[j] = Moved(timer_queue[l])
  <2>1. i \in DOMAIN kept /\ j \in DOMAIN kept BY <1>2
  <2>2. \A m, n \in DOMAIN kept :
          \E k, l \in DOMAIN timer_queue : kept[m] = timer_queue[k] /\ kept[n] = timer_queue[l] /\ (k = l => m = n)
    BY <1>1, FilterPlaces
  <2>3. PICK k \in DOMAIN timer_queue, l \in DOMAIN timer_queue :
          kept[i] = timer_queue[k] /\ kept[j] = timer_queue[l] /\ (k = l => i = j)
    BY <2>1, <2>2
  <2> QED BY <1>2, <1>11, <2>1, <2>3
<1>14. ASSUME NEW e \in stays PROVE Moved(e) \in Members(timer_queue')
  <2>1. PICK i \in DOMAIN kept : kept[i] = e BY <1>10 DEF Members
  <2> QED BY <1>2, <2>1 DEF Members
<1>15. ASSUME NEW i \in DOMAIN timer_queue', NEW j \in DOMAIN timer_queue'
       PROVE  \E k, l \in DOMAIN timer_queue :
              /\ k = l => i = j
              /\ \A x \in {<<i, k>>, <<j, l>>} :
                   LET e == timer_queue[x[2]] IN
                   \/ e \notin due /\ timer_queue'[x[1]] = e
                   \/ e \in due /\ e.period # 0 /\ timer_queue'[x[1]] = [e EXCEPT !.due = current_time + e.period]
  <2>1. PICK k \in DOMAIN timer_queue, l \in DOMAIN timer_queue :
              /\ k = l => i = j
              /\ timer_queue[k] \in stays /\ timer_queue'[i] = Moved(timer_queue[k])
              /\ timer_queue[l] \in stays /\ timer_queue'[j] = Moved(timer_queue[l])
    BY <1>13
  <2>2. ASSUME NEW x \in {<<i, k>>, <<j, l>>}
        PROVE  timer_queue[x[2]] \in stays /\ timer_queue'[x[1]] = Moved(timer_queue[x[2]])
    BY <2>1
  <2> QED BY <1>5, <1>8, <2>1, <2>2
<1>16. ASSUME NEW e \in Members(timer_queue)
       PROVE  \/ e \notin due /\ e \in Members(timer_queue')
              \/ e \in due /\ e.period = 0
              \/ e \in due /\ [e EXCEPT !.due = current_time + e.period] \in Members(timer_queue')
  BY <1>6, <1>8, <1>14
<1> QED BY <1>2, <1>3, <1>9, <1>12, <1>15, <1>16 DEF due

LEMMA TimerListsStep ==
  ASSUME Control, TimerLists, [Next]_vars
  PROVE  TimerLists'
<1> DEFINE Quiet == /\ timer_queue' = timer_queue /\ expired' = expired /\ settings' = settings
                    /\ fired' = fired /\ (pc'[Emu] = "fire" <=> pc[Emu] = "fire")
                    /\ (pc'[Emu] = "link" <=> pc[Emu] = "link")
<1>0. Len(settings') + Cardinality(Setters') <= MaxSet BY RoomStep
<1>1. ASSUME Quiet, signal_state' \in [Timer -> 0..1] PROVE TimerLists'
  BY <1>0, <1>1 DEF TimerLists
<1>2. CASE NextCall
  <2>1. Quiet
    <3>1. /\ RunFor \in Seq({"timers", "dpcs"}) /\ RunFor # <<>>
          /\ SignalVblank \in Seq({"timers", "dpcs"}) /\ SignalVblank # <<>>
      BY DEF RunFor, SignalVblank
    <3>2. PICK calls \in IF todo = <<>> THEN {RunFor, SignalVblank} ELSE {todo} : Goto(Emu, Head(calls))
      BY <1>2 DEF NextCall
    <3>3. calls \in Seq({"timers", "dpcs"}) /\ calls # <<>> BY <3>1, <3>2 DEF Control
    <3>4. pc'[Emu] \in {"timers", "dpcs"} BY <3>2, <3>3 DEF Goto, Control, Thread
    <3> QED BY <1>2, <3>4 DEF NextCall, sharedVars, setHistory
  <2> QED BY <1>1, <1>2, <2>1 DEF NextCall, TimerLists, sharedVars
<1>3. CASE Expire
  <2>1. /\ expired' \in Seq(Timers) /\ timer_queue' \in Seq(Timers)
        /\ pc'[Emu] = IF expired' = <<>> THEN "idle" ELSE "fire"
        /\ UNCHANGED <<settings, fired, signal_state>>
    BY <1>3, ExpireStep
  <2> QED BY <1>0, <2>1 DEF TimerLists
<1>4. CASE Fire
  <2>1. expired # <<>> /\ Tail(expired) \in Seq(Timers) /\ Head(expired) \in Timers
    BY <1>4, TailPlaces DEF Fire, TimerLists
  <2>2. signal_state' \in [Timer -> 0..1] /\ fired' \in [Setting -> Nat]
    BY <1>4, <2>1 DEF Fire, TimerLists, Timers
  <2>3. CASE HasRoutine(Head(expired).dpc)
    <3>1. pc'[Emu] = "link" /\ expired' = expired BY <1>4, <2>3 DEF Fire, Goto, Control, Thread
    <3> QED BY <1>0, <1>4, <2>1, <2>2, <2>3, <3>1 DEF Fire, TimerLists
  <2>4. CASE ~HasRoutine(Head(expired).dpc)
    <3>1. expired' = Tail(expired) /\ pc'[Emu] = IF expired' = <<>> THEN "idle" ELSE "fire"
      BY <1>4, <2>4 DEF Fire, NextTimer, Continue, Goto, Control, Thread
    <3> QED BY <1>0, <1>4, <2>1, <2>2, <3>1 DEF Fire, TimerLists
  <2> QED BY <2>3, <2>4
<1>5. CASE LinkDpc
  <2>1. Tail(expired) \in Seq(Timers)
    BY <1>5, TailPlaces DEF LinkDpc, TimerLists
  <2>2. expired' = Tail(expired) /\ pc'[Emu] = IF expired' = <<>> THEN "idle" ELSE "fire"
    BY <1>5 DEF LinkDpc, NextTimer, Continue, Goto, Control, Thread
  <2> QED BY <1>0, <1>5, <2>1, <2>2 DEF LinkDpc, TimerLists, setHistory
<1>6. CASE Shutdown
  BY <1>0, <1>6 DEF Shutdown, TimerLists, emuVars, threadVars
<1>7. ASSUME NEW g \in Guest, QueueTimer(g) PROVE TimerLists'
  <2>1. PICK e \in Timers :
              \/ timer_queue' = Append(timer_queue, e)
              \/ \E k \in DOMAIN timer_queue : timer_queue' = [timer_queue EXCEPT ![k] = e]
    BY <1>7, QueueTimerStep
  <2>2. /\ settings' \in Seq([timer : Timer, due : 0..MaxTime, period : Period])
        /\ UNCHANGED <<expired, signal_state, fired>> /\ pc'[Emu] = pc[Emu]
    BY <1>7, QueueTimerStep
  <2>3. timer_queue' \in Seq(Timers)
    <3>1. timer_queue \in Seq(Timers) /\ DOMAIN timer_queue = 1 .. Len(timer_queue) BY DEF TimerLists
    <3>2. CASE timer_queue' = Append(timer_queue, e) BY <3>1, <3>2
    <3>3. ASSUME NEW k \in DOMAIN timer_queue, timer_queue' = [timer_queue EXCEPT ![k] = e]
          PROVE  timer_queue' \in Seq(Timers)
      BY <3>1, <3>3, ExceptSeq
    <3> QED BY <2>1, <3>2, <3>3
  <2> QED BY <1>0, <2>2, <2>3 DEF TimerLists
<1>8. ASSUME NEW g \in Guest, ClearSignal(g) PROVE TimerLists'
  <2>1. Quiet
    BY <1>8, TimerDpcAssumption DEF ClearSignal, Goto, emuVars, Control, Thread
  <2>2. arg[g].timer \in Timer BY <1>8 DEF ClearSignal, Control, TimerArg
  <2>3. signal_state' \in [Timer -> 0..1] BY <1>8, <2>2 DEF ClearSignal, TimerLists
  <2> QED BY <1>1, <2>1, <2>3
<1>9. ASSUME NEW g \in Guest, NEW t \in Timer, CancelTimer(g, t) PROVE TimerLists'
  <2>1. timer_queue' \in Seq(Timers)
    BY <1>9, FilterMembers DEF CancelTimer, TimerLists
  <2> QED BY <1>0, <1>9, <2>1, TimerDpcAssumption DEF CancelTimer, Goto, emuVars, Control, Thread, TimerLists
<1>10. ASSUME NEW g \in Guest, NEW t \in Timer, NEW due \in now..MaxTime, NEW period \in Period,
              NEW d \in Dpc \cup {NoDpc}, SetTimer(g, t, due, period, d) PROVE TimerLists'
  <2>1. Quiet
    BY <1>10, TimerDpcAssumption DEF SetTimer, Goto, emuVars, Control, Thread
  <2>2. signal_state' \in [Timer -> 0..1] BY <1>10 DEF SetTimer, TimerLists
  <2> QED BY <1>1, <2>1, <2>2
<1>11. CASE TimersSame BY <1>1, <1>11 DEF TimersSame, EmuIn, TimerLists
<1> QED BY <1>2, <1>3, <1>4, <1>5, <1>6, <1>7, <1>8, <1>9, <1>10, <1>11, TimersFrame

-----------------------------------------------------------------------------
(* Where the settings are                                                   *)

Queues ==
  /\ \A e \in Members(timer_queue) \cup Members(expired) :
       /\ e.set \in DOMAIN settings
       /\ settings[e.set].timer = e.timer /\ settings[e.set].period = e.period
  /\ \A i, j \in DOMAIN timer_queue : timer_queue[i].timer = timer_queue[j].timer => i = j
  /\ \A i, j \in DOMAIN expired : expired[i].set = expired[j].set => i = j
  /\ withdrawn \subseteq DOMAIN settings /\ wiped \subseteq DOMAIN settings
  /\ \A s \in Setting : s \notin DOMAIN settings => fired[s] = 0

\* The settings pending in the queue, and those copied out and not yet fired.
Pending == {timer_queue[i].set : i \in DOMAIN timer_queue}
Flying == {expired[i].set : i \in {i \in DOMAIN expired : i # 1 \/ pc[Emu] # "link"}}

\* The moves of a setting: it is queued, withdrawn, copied out, or fires.
Queued ==
  \E s \in Setting, R \in SUBSET Pending :
    /\ s \notin DOMAIN settings /\ DOMAIN settings' = DOMAIN settings \cup {s}
    /\ \A r \in DOMAIN settings : settings'[r] = settings[r]
    /\ Pending' = (Pending \ R) \cup {s} /\ withdrawn' = withdrawn \cup R
    /\ UNCHANGED <<Flying, fired>>
Withdrawn ==
  \E R \in SUBSET Pending :
    /\ Pending' = Pending \ R /\ withdrawn' = withdrawn \cup R
    /\ UNCHANGED <<settings, Flying, fired>>
CopiedOut ==
  /\ Flying = {} /\ Flying' \subseteq Pending
  /\ Pending' = Pending \ {s \in Flying' : settings[s].period = 0}
  /\ UNCHANGED <<settings, fired, withdrawn>>
Fired ==
  \E s \in Flying :
    /\ Flying' = Flying \ {s} /\ fired' = [fired EXCEPT ![s] = @ + 1]
    /\ UNCHANGED <<settings, Pending, withdrawn>>
Still == UNCHANGED <<settings, Pending, Flying, fired, withdrawn>>

LEMMA QueueTimerMoves ==
  ASSUME Control, TimerLists, Queues, NEW g \in Guest, QueueTimer(g)
  PROVE  Queues' /\ Queued
<1> DEFINE s == Len(settings) + 1
           Same(e) == {i \in DOMAIN timer_queue : timer_queue[i].timer = e.timer}
<1>1. /\ s \in Setting /\ s \notin DOMAIN settings
      /\ DOMAIN settings' = DOMAIN settings \cup {s}
      /\ \A r \in DOMAIN settings : settings'[r] = settings[r]
      /\ UNCHANGED <<now, current_time, expired, signal_state, fired, wiped>>
      /\ pc'[Emu] = pc[Emu]
  BY QueueTimerStep
<1>2. PICK e \in Timers :
              /\ e.set = s
              /\ settings'[s] = [timer |-> e.timer, due |-> e.due, period |-> e.period]
              /\ withdrawn' = withdrawn \cup {timer_queue[i].set : i \in Same(e)}
              /\ \/ /\ \A i \in DOMAIN timer_queue : timer_queue[i].timer # e.timer
                    /\ timer_queue' = Append(timer_queue, e)
                 \/ \E k \in DOMAIN timer_queue :
                      /\ timer_queue[k].timer = e.timer
                      /\ timer_queue' = [timer_queue EXCEPT ![k] = e]
  BY QueueTimerStep
<1> HIDE DEF s
<1>3. settings'[s].timer = e.timer /\ settings'[s].period = e.period BY <1>2
<1>4. Flying' = Flying BY <1>1 DEF Flying
<1>5. timer_queue \in Seq(Timers) BY DEF TimerLists
<1>6. \A x \in Members(timer_queue) \cup Members(expired) \cup {e} :
        /\ x.set \in DOMAIN settings'
        /\ settings'[x.set].timer = x.timer /\ settings'[x.set].period = x.period
  BY <1>1, <1>2, <1>3 DEF Queues
<1>7. /\ \A i, j \in DOMAIN expired' : expired'[i].set = expired'[j].set => i = j
      /\ wiped' \subseteq DOMAIN settings'
      /\ \A r \in Setting : r \notin DOMAIN settings' => fired'[r] = 0
      /\ Members(expired') = Members(expired)
  BY <1>1 DEF Queues, Members
<1>8. {timer_queue[i].set : i \in Same(e)} \subseteq Pending BY DEF Pending
<1>9. withdrawn' \subseteq DOMAIN settings'
  <2>1. Pending \subseteq DOMAIN settings BY DEF Pending, Queues, Members
  <2> QED BY <1>1, <1>2, <1>8, <2>1 DEF Queues
<1>10. CASE /\ \A i \in DOMAIN timer_queue : timer_queue[i].timer # e.timer
            /\ timer_queue' = Append(timer_queue, e)
  <2>1. /\ DOMAIN timer_queue' = DOMAIN timer_queue \cup {Len(timer_queue) + 1}
        /\ \A i \in DOMAIN timer_queue : timer_queue'[i] = timer_queue[i]
        /\ timer_queue'[Len(timer_queue) + 1] = e
        /\ Members(timer_queue') = Members(timer_queue) \cup {e}
    BY <1>5, <1>10, AppendPlaces
  <2>2. \A i, j \in DOMAIN timer_queue' : timer_queue'[i].timer = timer_queue'[j].timer => i = j
    BY <1>10, <2>1 DEF Queues
  <2>3. Pending' = Pending \cup {s} BY <1>2, <2>1 DEF Pending
  <2>4. {timer_queue[i].set : i \in Same(e)} = {} BY <1>10
  <2>5. Queues' BY <1>6, <1>7, <1>9, <2>1, <2>2 DEF Queues
  <2>6. Queued BY <1>1, <1>2, <1>4, <2>3, <2>4 DEF Queued
  <2> QED BY <2>5, <2>6
<1>11. ASSUME NEW k \in DOMAIN timer_queue, timer_queue[k].timer = e.timer,
              timer_queue' = [timer_queue EXCEPT ![k] = e]
       PROVE  Queues' /\ Queued
  <2>1. /\ DOMAIN timer_queue' = DOMAIN timer_queue /\ timer_queue'[k] = e
        /\ \A i \in DOMAIN timer_queue : i # k => timer_queue'[i] = timer_queue[i]
    BY <1>11
  <2>2. Members(timer_queue') \subseteq Members(timer_queue) \cup {e} BY <2>1 DEF Members
  <2>3. \A i, j \in DOMAIN timer_queue' : timer_queue'[i].timer = timer_queue'[j].timer => i = j
    BY <1>11, <2>1 DEF Queues
  <2>4. Same(e) = {k} BY <1>11 DEF Queues
  <2>5. \A i \in DOMAIN timer_queue : i # k => timer_queue[i].set # timer_queue[k].set
    <3>1. ASSUME NEW i \in DOMAIN timer_queue, i # k, timer_queue[i].set = timer_queue[k].set PROVE FALSE
      <4>1. timer_queue[i] \in Members(timer_queue) /\ timer_queue[k] \in Members(timer_queue) BY DEF Members
      <4>2. timer_queue[i].timer = timer_queue[k].timer BY <3>1, <4>1 DEF Queues
      <4> QED BY <3>1, <4>2 DEF Queues
    <3> QED BY <3>1
  <2>6. Pending' = (Pending \ {timer_queue[k].set}) \cup {s} BY <1>2, <2>1, <2>5 DEF Pending
  <2>7. {timer_queue[i].set : i \in Same(e)} = {timer_queue[k].set} BY <2>4
  <2>8. Queues' BY <1>6, <1>7, <1>9, <2>2, <2>3 DEF Queues
  <2>9. Queued BY <1>1, <1>2, <1>4, <1>8, <2>6, <2>7 DEF Queued
  <2> QED BY <2>8, <2>9
<1> QED BY <1>2, <1>10, <1>11

LEMMA CancelTimerMoves ==
  ASSUME Control, TimerLists, Queues, NEW g \in Guest, NEW t \in Timer, CancelTimer(g, t)
  PROVE  Queues' /\ Withdrawn
<1> DEFINE own == {e \in Members(timer_queue) : e.timer = t}
           rest == Members(timer_queue) \ own
           R == {e.set : e \in own}
<1>1. timer_queue \in Seq(Timers) BY DEF TimerLists
<1>2. timer_queue' = Filter(timer_queue, rest) /\ withdrawn' = withdrawn \cup R BY DEF CancelTimer
<1>3. UNCHANGED <<expired, settings, fired, wiped>> /\ pc'[Emu] = pc[Emu]
  BY TimerDpcAssumption DEF CancelTimer, Goto, emuVars, Control, Thread
<1>4. rest \subseteq Members(timer_queue) OBVIOUS
<1> HIDE DEF own, rest
<1>5. Members(timer_queue') = rest
  <2>1. Members(Filter(timer_queue, rest)) = Members(timer_queue) \cap rest BY <1>1, FilterMembers
  <2> QED BY <1>2, <1>4, <2>1
<1>6. \A i, j \in DOMAIN timer_queue' : timer_queue'[i].timer = timer_queue'[j].timer => i = j
  <2>1. \A i, j \in DOMAIN timer_queue' : \E k, l \in DOMAIN timer_queue :
           timer_queue'[i] = timer_queue[k] /\ timer_queue'[j] = timer_queue[l] /\ (k = l => i = j)
    BY <1>1, <1>2, FilterPlaces
  <2> QED BY <2>1 DEF Queues
<1>7. Pending = {e.set : e \in Members(timer_queue)} BY DEF Pending, Members
<1>8. Pending' = {e.set : e \in Members(timer_queue')} BY DEF Pending, Members
<1>9. R \subseteq Pending BY <1>7 DEF own
<1>10. \A x, y \in Members(timer_queue) : x.set = y.set => x.timer = y.timer BY DEF Queues
<1>11. Pending' = Pending \ R BY <1>5, <1>7, <1>8, <1>10 DEF own, rest
<1>12. Flying' = Flying BY <1>3 DEF Flying
<1>13. Withdrawn BY <1>2, <1>3, <1>9, <1>11, <1>12 DEF Withdrawn
<1>14. Pending \subseteq DOMAIN settings BY <1>7 DEF Queues
<1>15. withdrawn' \subseteq DOMAIN settings' BY <1>2, <1>3, <1>9, <1>14 DEF Queues
<1>16. Members(expired') = Members(expired) /\ DOMAIN settings' = DOMAIN settings BY <1>3 DEF Members
<1>17. Queues'
  <2> HIDE DEF R
  <2> QED BY <1>3, <1>4, <1>5, <1>6, <1>15, <1>16 DEF Queues
<1> QED BY <1>13, <1>17

LEMMA ExpireMoves ==
  ASSUME Control, TimerLists, Queues, Expire
  PROVE  Queues' /\ CopiedOut
<1> DEFINE due == {e \in Members(timer_queue) : e.due <= current_time}
           Moved(e) == [e EXCEPT !.due = current_time + e.period]
<1>1. /\ expired' \in Seq(Timers) /\ timer_queue' \in Seq(Timers)
      /\ expired' = Filter(timer_queue, due) /\ Members(expired') = due
      /\ pc'[Emu] = IF expired' = <<>> THEN "idle" ELSE "fire"
      /\ \A i, j \in DOMAIN timer_queue' : \E k, l \in DOMAIN timer_queue :
           /\ k = l => i = j
           /\ \A x \in {<<i, k>>, <<j, l>>} :
                LET e == timer_queue[x[2]] IN
                \/ e \notin due /\ timer_queue'[x[1]] = e
                \/ e \in due /\ e.period # 0 /\ timer_queue'[x[1]] = Moved(e)
      /\ \A e \in Members(timer_queue) :
           \/ e \notin due /\ e \in Members(timer_queue')
           \/ e \in due /\ e.period = 0
           \/ e \in due /\ Moved(e) \in Members(timer_queue')
      /\ UNCHANGED <<now, signal_state, settings, fired, withdrawn, wiped>>
  BY ExpireStep
<1>2. timer_queue \in Seq(Timers) /\ Members(timer_queue) \subseteq Timers BY DEF TimerLists, Members
<1>3. \A e \in Timers : /\ Moved(e).set = e.set /\ Moved(e).timer = e.timer /\ Moved(e).period = e.period
  BY DEF Timers
<1>4. due \subseteq Members(timer_queue) OBVIOUS
<1> HIDE DEF due, Moved
<1>5. \A i, j \in DOMAIN timer_queue' : \E k, l \in DOMAIN timer_queue :
           /\ k = l => i = j
           /\ timer_queue'[i] = timer_queue[k] \/ timer_queue'[i] = Moved(timer_queue[k])
           /\ timer_queue'[j] = timer_queue[l] \/ timer_queue'[j] = Moved(timer_queue[l])
           /\ ~(timer_queue[k] \in due /\ timer_queue[k].period = 0)
  <2> SUFFICES ASSUME NEW i \in DOMAIN timer_queue', NEW j \in DOMAIN timer_queue'
               PROVE  \E k, l \in DOMAIN timer_queue :
           /\ k = l => i = j
           /\ timer_queue'[i] = timer_queue[k] \/ timer_queue'[i] = Moved(timer_queue[k])
           /\ timer_queue'[j] = timer_queue[l] \/ timer_queue'[j] = Moved(timer_queue[l])
           /\ ~(timer_queue[k] \in due /\ timer_queue[k].period = 0)
    OBVIOUS
  <2>1. PICK k, l \in DOMAIN timer_queue :
           /\ k = l => i = j
           /\ \A x \in {<<i, k>>, <<j, l>>} :
                LET e == timer_queue[x[2]] IN
                \/ e \notin due /\ timer_queue'[x[1]] = e
                \/ e \in due /\ e.period # 0 /\ timer_queue'[x[1]] = Moved(e)
    BY <1>1
  <2>2. /\ \/ timer_queue[k] \notin due /\ timer_queue'[i] = timer_queue[k]
           \/ timer_queue[k] \in due /\ timer_queue[k].period # 0 /\ timer_queue'[i] = Moved(timer_queue[k])
        /\ \/ timer_queue[l] \notin due /\ timer_queue'[j] = timer_queue[l]
           \/ timer_queue[l] \in due /\ timer_queue[l].period # 0 /\ timer_queue'[j] = Moved(timer_queue[l])
    <3>1. \A x \in {<<i, k>>, <<j, l>>} : x = <<i, k>> \/ x = <<j, l>> OBVIOUS
    <3>2. <<i, k>>[1] = i /\ <<i, k>>[2] = k /\ <<j, l>>[1] = j /\ <<j, l>>[2] = l OBVIOUS
    <3> QED BY <2>1, <3>2
  <2> QED BY <2>1, <2>2
<1>6. \A k \in DOMAIN timer_queue : timer_queue[k] \in Members(timer_queue) /\ timer_queue[k] \in Timers
  BY <1>2 DEF Members
<1>7. \A i \in DOMAIN timer_queue' : \E e \in Members(timer_queue) :
        /\ timer_queue'[i].set = e.set /\ timer_queue'[i].timer = e.timer
        /\ timer_queue'[i].period = e.period /\ ~(e \in due /\ e.period = 0)
  BY <1>3, <1>5, <1>6
<1>8. \A i, j \in DOMAIN timer_queue' : timer_queue'[i].timer = timer_queue'[j].timer => i = j
  <2> SUFFICES ASSUME NEW i \in DOMAIN timer_queue', NEW j \in DOMAIN timer_queue',
                      timer_queue'[i].timer = timer_queue'[j].timer
               PROVE  i = j
    OBVIOUS
  <2>1. PICK k, l \in DOMAIN timer_queue :
           /\ k = l => i = j
           /\ timer_queue'[i] = timer_queue[k] \/ timer_queue'[i] = Moved(timer_queue[k])
           /\ timer_queue'[j] = timer_queue[l] \/ timer_queue'[j] = Moved(timer_queue[l])
    BY <1>5
  <2>2. timer_queue'[i].timer = timer_queue[k].timer /\ timer_queue'[j].timer = timer_queue[l].timer
    BY <1>3, <1>6, <2>1
  <2> QED BY <2>1, <2>2 DEF Queues
<1>9. \A e \in Members(timer_queue') \cup Members(expired') :
       /\ e.set \in DOMAIN settings'
       /\ settings'[e.set].timer = e.timer /\ settings'[e.set].period = e.period
  <2>1. \A e \in Members(timer_queue') : \E x \in Members(timer_queue) :
          e.set = x.set /\ e.timer = x.timer /\ e.period = x.period
    BY <1>7 DEF Members
  <2> QED BY <1>1, <1>4, <2>1 DEF Queues
<1>10. \A x, y \in Members(timer_queue) : x.set = y.set => x = y
  BY DEF Queues, Members
<1>11. \A i, j \in DOMAIN expired' : expired'[i].set = expired'[j].set => i = j
  <2>1. \A i, j \in DOMAIN expired' : \E k, l \in DOMAIN timer_queue :
           expired'[i] = timer_queue[k] /\ expired'[j] = timer_queue[l] /\ (k = l => i = j)
    BY <1>1, <1>2, FilterPlaces
  <2>2. \A k, l \in DOMAIN timer_queue : timer_queue[k].set = timer_queue[l].set => k = l
    BY <1>6 DEF Queues
  <2> QED BY <2>1, <2>2
<1>12. Queues' BY <1>1, <1>8, <1>9, <1>11 DEF Queues
<1>13. Flying = {}
  <2>1. expired = <<>> BY DEF Expire, TimerLists
  <2> QED BY <2>1 DEF Flying
<1>14. Flying' = {e.set : e \in due}
  <2>1. pc'[Emu] # "link" BY <1>1
  <2>2. Flying' = {e.set : e \in Members(expired')} BY <2>1 DEF Flying, Members
  <2> QED BY <1>1, <2>2
<1>15. Pending = {e.set : e \in Members(timer_queue)} BY DEF Pending, Members
<1>16. Flying' \subseteq Pending BY <1>4, <1>14, <1>15
<1>17. Pending' = Pending \ {s \in Flying' : settings[s].period = 0}
  <2>1. ASSUME NEW s \in Pending' PROVE s \in Pending /\ ~(s \in Flying' /\ settings[s].period = 0)
    <3>1. PICK i \in DOMAIN timer_queue' : s = timer_queue'[i].set BY DEF Pending
    <3>2. PICK e \in Members(timer_queue) : e.set = s /\ ~(e \in due /\ e.period = 0) BY <1>7, <3>1
    <3>3. settings[s].period = e.period BY <3>2 DEF Queues
    <3>4. s \in Flying' => e \in due BY <1>4, <1>10, <1>14, <3>2
    <3> QED BY <1>15, <3>2, <3>3, <3>4
  <2>2. ASSUME NEW s \in Pending, ~(s \in Flying' /\ settings[s].period = 0) PROVE s \in Pending'
    <3>1. PICK e \in Members(timer_queue) : e.set = s BY <1>15
    <3>2. settings[s].period = e.period /\ e \in Timers BY <1>2, <3>1 DEF Queues
    <3>3. \E x \in Members(timer_queue') : x.set = s BY <1>1, <1>3, <1>14, <2>2, <3>1, <3>2
    <3> QED BY <3>3 DEF Pending, Members
  <2> QED BY <2>1, <2>2
<1> QED BY <1>1, <1>12, <1>13, <1>16, <1>17 DEF CopiedOut

LEMMA FireMoves ==
  ASSUME Control, TimerLists, Queues, Fire
  PROVE  Queues' /\ Fired /\ Head(expired).set \in Flying
         /\ Flying' = Flying \ {Head(expired).set}
         /\ fired' = [fired EXCEPT ![Head(expired).set] = @ + 1]
<1> DEFINE s == Head(expired).set
<1>1. expired \in Seq(Timers) /\ expired # <<>> /\ pc[Emu] = "fire" BY DEF Fire, TimerLists
<1>2. /\ Head(expired) = expired[1] /\ 1 \in DOMAIN expired /\ Tail(expired) \in Seq(Timers)
      /\ \A i \in DOMAIN Tail(expired) : i + 1 \in DOMAIN expired /\ i + 1 # 1 /\ Tail(expired)[i] = expired[i + 1]
      /\ \A i \in DOMAIN expired : i # 1 => i - 1 \in DOMAIN Tail(expired) /\ Tail(expired)[i - 1] = expired[i]
      /\ Members(Tail(expired)) \subseteq Members(expired)
  BY <1>1, TailPlaces
<1>3. Head(expired) \in Members(expired) BY <1>2 DEF Members
<1>4. s \in DOMAIN settings /\ s \in Setting
  <2>1. Head(expired) \in Timers BY <1>1, <1>2
  <2> QED BY <1>3, <2>1 DEF Queues, Timers
<1>5. /\ UNCHANGED <<timer_queue, settings, withdrawn, wiped>>
      /\ fired' = [fired EXCEPT ![s] = @ + 1]
  BY DEF Fire
<1>6. s \in Flying BY <1>1, <1>2 DEF Flying
<1>7. fired \in [Setting -> Nat] BY DEF TimerLists
<1>8. Pending' = Pending BY <1>5 DEF Pending
<1>9. Flying = {expired[i].set : i \in DOMAIN expired} BY <1>1 DEF Flying
<1>10. CASE HasRoutine(Head(expired).dpc)
  <2>1. pc'[Emu] = "link" /\ expired' = expired BY <1>10 DEF Fire, Goto, Control, Thread
  <2>2. Flying' = {expired[i].set : i \in DOMAIN expired \ {1}} BY <2>1 DEF Flying
  <2>3. Flying' = Flying \ {s} BY <1>2, <1>9, <2>2 DEF Queues
  <2>4. Queues' BY <1>4, <1>5, <1>7, <2>1 DEF Queues, Members
  <2> QED BY <1>5, <1>6, <1>8, <2>3, <2>4 DEF Fired
<1>11. CASE ~HasRoutine(Head(expired).dpc)
  <2>1. expired' = Tail(expired) /\ pc'[Emu] # "link"
    BY <1>11 DEF Fire, NextTimer, Continue, Goto, Control, Thread
  <2>2. Flying' = {Tail(expired)[i].set : i \in DOMAIN Tail(expired)} BY <2>1 DEF Flying
  <2>3. Flying' = Flying \ {s}
    <3>1. ASSUME NEW r \in Flying' PROVE r \in Flying /\ r # s
      <4>1. PICK i \in DOMAIN Tail(expired) : r = Tail(expired)[i].set BY <2>2
      <4>2. i + 1 \in DOMAIN expired /\ i + 1 # 1 /\ r = expired[i + 1].set BY <1>2, <4>1
      <4> QED BY <1>2, <1>9, <4>2 DEF Queues
    <3>2. ASSUME NEW r \in Flying, r # s PROVE r \in Flying'
      <4>1. PICK i \in DOMAIN expired : r = expired[i].set BY <1>9
      <4>2. i # 1 BY <1>2, <3>2, <4>1
      <4> QED BY <1>2, <2>2, <4>1, <4>2
    <3> QED BY <3>1, <3>2
  <2>4. \A i, j \in DOMAIN Tail(expired) : Tail(expired)[i].set = Tail(expired)[j].set => i = j
    <3> SUFFICES ASSUME NEW i \in DOMAIN Tail(expired), NEW j \in DOMAIN Tail(expired),
                        Tail(expired)[i].set = Tail(expired)[j].set
                 PROVE  i = j
      OBVIOUS
    <3>1. i + 1 = j + 1 BY <1>2 DEF Queues
    <3>2. i \in Nat /\ j \in Nat BY <1>2
    <3> QED BY <3>1, <3>2
  <2>5. Queues' BY <1>2, <1>4, <1>5, <1>7, <2>1, <2>4 DEF Queues
  <2> QED BY <1>5, <1>6, <1>8, <2>3, <2>5 DEF Fired
<1> QED BY <1>10, <1>11

LEMMA LinkDpcMoves ==
  ASSUME Control, TimerLists, Queues, LinkDpc
  PROVE  Queues' /\ Still
<1>1. expired \in Seq(Timers) /\ expired # <<>> /\ pc[Emu] = "link" BY DEF LinkDpc, TimerLists
<1>2. /\ Tail(expired) \in Seq(Timers)
      /\ \A i \in DOMAIN Tail(expired) : i + 1 \in DOMAIN expired /\ i + 1 # 1 /\ Tail(expired)[i] = expired[i + 1]
      /\ \A i \in DOMAIN expired : i # 1 => i - 1 \in DOMAIN Tail(expired) /\ Tail(expired)[i - 1] = expired[i]
      /\ Members(Tail(expired)) \subseteq Members(expired)
  BY <1>1, TailPlaces
<1>3. expired' = Tail(expired) /\ pc'[Emu] # "link" /\ UNCHANGED <<timer_queue, settings, fired, withdrawn, wiped>>
  BY DEF LinkDpc, NextTimer, Continue, Goto, Control, Thread, setHistory
<1>4. \A i, j \in DOMAIN Tail(expired) : Tail(expired)[i].set = Tail(expired)[j].set => i = j
  <2> SUFFICES ASSUME NEW i \in DOMAIN Tail(expired), NEW j \in DOMAIN Tail(expired),
                      Tail(expired)[i].set = Tail(expired)[j].set
               PROVE  i = j
    OBVIOUS
  <2>1. i + 1 = j + 1 BY <1>2 DEF Queues
  <2>2. i \in Nat /\ j \in Nat BY <1>2
  <2> QED BY <2>1, <2>2
<1>5. Queues' BY <1>2, <1>3, <1>4 DEF Queues
<1>6. Flying = {expired[i].set : i \in DOMAIN expired \ {1}} BY <1>1 DEF Flying
<1>7. Flying' = {Tail(expired)[i].set : i \in DOMAIN Tail(expired)} BY <1>3 DEF Flying
<1>8. Flying' = Flying
  <2>1. \A r \in Flying' : r \in Flying BY <1>2, <1>6, <1>7
  <2>2. ASSUME NEW r \in Flying PROVE r \in Flying'
    <3>1. PICK i \in DOMAIN expired \ {1} : r = expired[i].set BY <1>6
    <3> QED BY <1>2, <1>7, <3>1
  <2> QED BY <2>1, <2>2
<1> QED BY <1>3, <1>5, <1>8 DEF Still, Pending

LEMMA MovesStep ==
  ASSUME Control, TimerLists, Queues, [Next]_vars
  PROVE  Queues' /\ (Queued \/ Withdrawn \/ CopiedOut \/ Fired \/ Still)
<1>1. ASSUME UNCHANGED <<timer_queue, expired, settings, fired, withdrawn>>, pc'[Emu] = "link" <=> pc[Emu] = "link",
             wiped' \subseteq DOMAIN settings
      PROVE  Queues' /\ Still
  BY <1>1 DEF Queues, Still, Pending, Flying, Members
<1>2. \A t : SettingsOf(t) \subseteq DOMAIN settings BY DEF SettingsOf
<1>3. CASE NextCall
  <2>1. expired = <<>> /\ UNCHANGED <<timer_queue, expired, settings, fired, withdrawn, wiped>>
    BY <1>3 DEF NextCall, TimerLists, sharedVars, setHistory
  <2>2. Flying = {} /\ Flying' = {} BY <2>1 DEF Flying
  <2> QED BY <2>1, <2>2 DEF Queues, Still, Pending, Members
<1>4. CASE Shutdown
  <2>1. /\ expired' = expired /\ settings' = settings /\ fired' = fired /\ wiped' = wiped /\ pc' = pc
        /\ timer_queue' = <<>> /\ withdrawn' = withdrawn \cup {e.set : e \in Members(timer_queue)}
    BY <1>4 DEF Shutdown, emuVars, threadVars
  <2>2. {e.set : e \in Members(timer_queue)} = Pending BY DEF Pending, Members
  <2>3. Pending \subseteq DOMAIN settings BY DEF Pending, Members, Queues
  <2>4. Pending' = {} /\ Flying' = Flying BY <2>1 DEF Pending, Flying
  <2>5. Queues' BY <2>1, <2>2, <2>3 DEF Queues, Members
  <2> QED BY <2>1, <2>2, <2>4, <2>5 DEF Withdrawn
<1>5. ASSUME NEW g \in Guest, ClearSignal(g) PROVE Queues' /\ Still
  <2>1. wiped' \subseteq DOMAIN settings BY <1>2, <1>5 DEF ClearSignal, Queues
  <2> QED BY <1>1, <1>5, <2>1, TimerDpcAssumption DEF ClearSignal, Goto, emuVars, Control, Thread
<1>6. ASSUME NEW g \in Guest, NEW t \in Timer, NEW due \in now..MaxTime, NEW period \in Period,
              NEW d \in Dpc \cup {NoDpc}, SetTimer(g, t, due, period, d) PROVE Queues' /\ Still
  <2>1. wiped' \subseteq DOMAIN settings BY <1>2, <1>6 DEF SetTimer, Queues
  <2> QED BY <1>1, <1>6, <2>1, TimerDpcAssumption DEF SetTimer, Goto, emuVars, Control, Thread
<1>7. CASE TimersSame BY <1>1, <1>7 DEF TimersSame, EmuIn, Queues
<1> QED BY <1>3, <1>4, <1>5, <1>6, <1>7, TimersFrame, ExpireMoves, FireMoves, LinkDpcMoves, QueueTimerMoves, CancelTimerMoves

-----------------------------------------------------------------------------
(* One end for a one-shot setting; no firing erased; none early             *)

Once ==
  \A s \in DOMAIN settings : settings[s].period = 0 =>
    /\ fired[s] \in {0, 1}
    /\ fired[s] = 1 <=> s \notin Flying \cup Pending \cup withdrawn
    /\ s \notin Flying \/ s \notin Pending
    /\ s \notin withdrawn \/ s \notin Flying \cup Pending

LEMMA PlacesSet ==
  ASSUME TimerLists, Queues
  PROVE  /\ Pending \subseteq DOMAIN settings /\ Flying \subseteq DOMAIN settings
         /\ DOMAIN settings \subseteq Setting
<1>1. Pending \subseteq DOMAIN settings /\ Flying \subseteq DOMAIN settings
  BY DEF Pending, Flying, Queues, Members
<1>2. Len(settings) <= MaxSet
  <2>1. Setters \subseteq Guest BY DEF Setters
  <2>2. Cardinality(Setters) \in Nat BY <2>1, TimerDpcAssumption, FS_Subset, FS_CardinalityType
  <2>3. Len(settings) \in Nat BY DEF TimerLists
  <2> QED BY <2>2, <2>3, TimerDpcAssumption DEF TimerLists
<1>3. DOMAIN settings = 1 .. Len(settings) /\ Len(settings) \in Nat BY DEF TimerLists
<1>4. DOMAIN settings \subseteq Setting BY <1>2, <1>3, TimerDpcAssumption DEF Setting
<1> QED BY <1>1, <1>4

LEMMA SettingType ==
  ASSUME TimerLists, NEW s \in DOMAIN settings
  PROVE  settings[s].timer \in Timer /\ settings[s].due \in 0..MaxTime /\ settings[s].period \in Period
<1> DEFINE S == [timer : Timer, due : 0..MaxTime, period : Period]
<1>1. settings \in Seq(S) BY DEF TimerLists
<1>2. settings[s] \in S
  <2> HIDE DEF S
  <2> QED BY <1>1
<1> QED BY <1>2

LEMMA OnceStep ==
  ASSUME Control, TimerLists, Queues, Once, [Next]_vars
  PROVE  Once'
<1>1. Queued \/ Withdrawn \/ CopiedOut \/ Fired \/ Still BY MovesStep
<1>2. /\ Pending \subseteq DOMAIN settings /\ Flying \subseteq DOMAIN settings
      /\ DOMAIN settings \subseteq Setting
  BY PlacesSet
<1>3. CASE Queued
  <2>1. PICK s \in Setting, R \in SUBSET Pending :
          /\ s \notin DOMAIN settings /\ DOMAIN settings' = DOMAIN settings \cup {s}
          /\ \A r \in DOMAIN settings : settings'[r] = settings[r]
          /\ Pending' = (Pending \ R) \cup {s} /\ withdrawn' = withdrawn \cup R
          /\ UNCHANGED <<Flying, fired>>
    BY <1>3 DEF Queued
  <2>2. fired[s] = 0 /\ s \notin withdrawn BY <2>1 DEF Queues
  <2> SUFFICES ASSUME NEW r \in DOMAIN settings', settings'[r].period = 0
               PROVE  /\ fired'[r] \in {0, 1}
                      /\ fired'[r] = 1 <=> r \notin Flying' \cup Pending' \cup withdrawn'
                      /\ r \notin Flying' \/ r \notin Pending'
                      /\ r \notin withdrawn' \/ r \notin Flying' \cup Pending'
    BY DEF Once
  <2>3. CASE r = s BY <1>2, <2>1, <2>2, <2>3
  <2>4. CASE r # s
    <3>1. r \in DOMAIN settings /\ settings[r].period = 0 BY <2>1, <2>4
    <3> QED BY <2>1, <2>4, <3>1 DEF Once
  <2> QED BY <2>3, <2>4
<1>4. CASE Withdrawn BY <1>4 DEF Withdrawn, Once
<1>5. CASE CopiedOut BY <1>5 DEF CopiedOut, Once
<1>6. CASE Fired
  <2>1. PICK s \in Flying :
          /\ Flying' = Flying \ {s} /\ fired' = [fired EXCEPT ![s] = @ + 1]
          /\ UNCHANGED <<settings, Pending, withdrawn>>
    BY <1>6 DEF Fired
  <2>2. s \in Setting /\ fired \in [Setting -> Nat] BY <1>2 DEF TimerLists
  <2>3. fired'[s] = fired[s] + 1 /\ \A r \in Setting : r # s => fired'[r] = fired[r] BY <2>1, <2>2
  <2> SUFFICES ASSUME NEW r \in DOMAIN settings, settings[r].period = 0
               PROVE  /\ fired'[r] \in {0, 1}
                      /\ fired'[r] = 1 <=> r \notin Flying' \cup Pending' \cup withdrawn'
                      /\ r \notin Flying' \/ r \notin Pending'
                      /\ r \notin withdrawn' \/ r \notin Flying' \cup Pending'
    BY <2>1 DEF Once
  <2>4. CASE r = s
    <3>1. fired[s] = 0 BY <2>4 DEF Once
    <3> QED BY <2>1, <2>3, <2>4, <3>1 DEF Once
  <2>5. CASE r # s BY <1>2, <2>1, <2>3, <2>5 DEF Once
  <2> QED BY <2>4, <2>5
<1>7. CASE Still BY <1>7 DEF Still, Once
<1> QED BY <1>1, <1>3, <1>4, <1>5, <1>6, <1>7

LEMMA KeptStep ==
  ASSUME Control, TimerLists, Queues, FiringNotErased, [Next]_vars
  PROVE  FiringNotErased'
<1>0. DOMAIN settings \subseteq Setting BY PlacesSet
<1>1. ASSUME UNCHANGED <<settings, fired, wiped, signal_state>> PROVE FiringNotErased'
  BY <1>1 DEF FiringNotErased
<1>2. CASE NextCall BY <1>1, <1>2 DEF NextCall, sharedVars, setHistory
<1>3. CASE Expire BY <1>1, <1>3 DEF Expire, setHistory
<1>4. CASE Fire
  <2>1. expired # <<>> /\ Head(expired) \in Timers /\ Head(expired) \in Members(expired)
    BY <1>4, TailPlaces DEF Fire, TimerLists
  <2>2. settings[Head(expired).set].timer = Head(expired).timer /\ Head(expired).timer \in Timer
    BY <2>1 DEF Queues, Timers
  <2>3. /\ signal_state' = [signal_state EXCEPT ![Head(expired).timer] = 1]
        /\ fired' = [fired EXCEPT ![Head(expired).set] = @ + 1]
        /\ UNCHANGED <<settings, wiped>>
    BY <1>4 DEF Fire
  <2>4. \A t \in Timer : signal_state'[t] = signal_state[t] \/ signal_state'[t] = 1
    BY <2>3 DEF TimerLists
  <2>5. signal_state'[Head(expired).timer] = 1 BY <2>2, <2>3 DEF TimerLists
  <2>6. \A s \in DOMAIN settings : s # Head(expired).set => fired'[s] = fired[s]
    BY <1>0, <2>3 DEF TimerLists
  <2>7. \A s \in DOMAIN settings : settings[s].timer \in Timer BY SettingType
  <2> QED BY <2>2, <2>3, <2>4, <2>5, <2>6, <2>7 DEF FiringNotErased
<1>5. CASE LinkDpc BY <1>1, <1>5 DEF LinkDpc, setHistory
<1>6. CASE Shutdown BY <1>1, <1>6 DEF Shutdown
<1>7. ASSUME NEW g \in Guest, QueueTimer(g) PROVE FiringNotErased'
  <2>1. PICK s \in Setting :
          /\ s \notin DOMAIN settings /\ DOMAIN settings' = DOMAIN settings \cup {s}
          /\ \A r \in DOMAIN settings : settings'[r] = settings[r]
          /\ UNCHANGED <<signal_state, fired, wiped>>
    BY <1>7, QueueTimerStep
  <2>2. fired[s] = 0 BY <2>1 DEF Queues
  <2> QED BY <2>1, <2>2 DEF FiringNotErased
<1>8. ASSUME NEW t \in Timer, signal_state' = [signal_state EXCEPT ![t] = 0],
             wiped' = wiped \cup SettingsOf(t), UNCHANGED <<settings, fired>>
      PROVE  FiringNotErased'
  <2>1. \A r \in Timer : r # t => signal_state'[r] = signal_state[r] BY <1>8 DEF TimerLists
  <2>2. \A s \in DOMAIN settings : settings[s].timer \in Timer BY SettingType
  <2>3. \A s \in DOMAIN settings : settings[s].timer = t => s \in wiped' BY <1>8 DEF SettingsOf
  <2> QED BY <1>8, <2>1, <2>2, <2>3 DEF FiringNotErased
<1>9. ASSUME NEW g \in Guest, ClearSignal(g) PROVE FiringNotErased'
  <2>1. arg[g].timer \in Timer BY <1>9 DEF ClearSignal, Control, TimerArg
  <2> QED BY <1>8, <1>9, <2>1 DEF ClearSignal
<1>10. ASSUME NEW g \in Guest, NEW t \in Timer, CancelTimer(g, t) PROVE FiringNotErased'
  BY <1>1, <1>10 DEF CancelTimer
<1>11. ASSUME NEW g \in Guest, NEW t \in Timer, NEW due \in now..MaxTime, NEW period \in Period,
              NEW d \in Dpc \cup {NoDpc}, SetTimer(g, t, due, period, d) PROVE FiringNotErased'
  BY <1>8, <1>11 DEF SetTimer
<1>12. CASE TimersSame BY <1>1, <1>12 DEF TimersSame
<1> QED BY <1>2, <1>3, <1>4, <1>5, <1>6, <1>7, <1>9, <1>10, <1>11, <1>12, TimersFrame

\* How often a setting has fired or is about to.
Firings(s) == fired[s] + (IF s \in Flying THEN 1 ELSE 0)
Early ==
  /\ \A s \in DOMAIN settings :
       Firings(s) > 0 => now >= settings[s].due + (Firings(s) - 1) * settings[s].period
  /\ \A e \in Members(timer_queue) : e.due >= settings[e.set].due + Firings(e.set) * e.period

LEMMA Times == \A k, p \in Nat : k * p \in Nat /\ 0 * p = 0 /\ (k + 1) * p = k * p + p
OBVIOUS

LEMMA EarlyStep ==
  ASSUME Control, TimerLists, Queues, Early, [Next]_vars
  PROVE  Early'
<1>1. /\ Pending \subseteq DOMAIN settings /\ Flying \subseteq DOMAIN settings
      /\ DOMAIN settings \subseteq Setting
  BY PlacesSet
<1>2. now <= now' /\ now \in Nat /\ now' \in Nat
  <2>1. now \in Nat /\ now' \in Nat BY ControlStep, TimerDpcAssumption DEF Control
  <2>2. Expire => now' = now BY DEF Expire
  <2>3. \A g \in Guest : QueueTimer(g) => now' = now BY DEF QueueTimer
  <2>4. ~TimersSame => now' = now
    BY <2>2, <2>3, TimersFrame
    DEF NextCall, Fire, LinkDpc, Shutdown, ClearSignal, CancelTimer, SetTimer
  <2> QED BY <2>1, <2>4 DEF TimersSame
<1>3. \A s \in DOMAIN settings : /\ settings[s].due \in Nat /\ settings[s].period \in Nat
                                 /\ fired[s] \in Nat
  <2>1. Period \subseteq Nat /\ MaxTime \in Nat BY TimerDpcAssumption
  <2>2. \A s \in DOMAIN settings : settings[s].due \in 0..MaxTime /\ settings[s].period \in Period BY SettingType
  <2>3. \A s \in DOMAIN settings : fired[s] \in Nat BY <1>1 DEF TimerLists
  <2>4. \A s \in DOMAIN settings : settings[s].due \in Nat BY <2>1, <2>2
  <2>5. \A s \in DOMAIN settings : settings[s].period \in Nat BY <2>1, <2>2
  <2> QED BY <2>3, <2>4, <2>5
<1>4. \A s \in DOMAIN settings : Firings(s) \in Nat BY <1>3 DEF Firings
<1>5. Members(timer_queue) \subseteq Timers BY DEF TimerLists, Members
<1>6. \A e \in Members(timer_queue) :
        e.set \in DOMAIN settings /\ e.due \in Nat /\ e.period = settings[e.set].period
  BY <1>5 DEF Queues, Timers
<1>7. ASSUME \A s \in DOMAIN settings : settings'[s] = settings[s] /\ Firings(s)' = Firings(s),
             NEW S \in SUBSET Setting, DOMAIN settings' = DOMAIN settings \cup S,
             \A s \in S : Firings(s)' = 0
      PROVE  \A s \in DOMAIN settings' :
               Firings(s)' > 0 => now' >= settings'[s].due + (Firings(s)' - 1) * settings'[s].period
  <2> SUFFICES ASSUME NEW s \in DOMAIN settings, Firings(s)' > 0
               PROVE  now' >= settings'[s].due + (Firings(s)' - 1) * settings'[s].period
    BY <1>7
  <2>1. now >= settings[s].due + (Firings(s) - 1) * settings[s].period BY <1>7 DEF Early
  <2>2. (Firings(s) - 1) * settings[s].period \in Nat BY <1>3, <1>4, <1>7, Times
  <2> QED BY <1>2, <1>3, <1>7, <2>1, <2>2
<1>8. ASSUME UNCHANGED settings, \A s \in DOMAIN settings : Firings(s)' = Firings(s),
             Members(timer_queue') \subseteq Members(timer_queue)
      PROVE  Early'
  <2>1. \A s \in DOMAIN settings' :
               Firings(s)' > 0 => now' >= settings'[s].due + (Firings(s)' - 1) * settings'[s].period
    <3>1. {} \in SUBSET Setting /\ DOMAIN settings' = DOMAIN settings \cup {} BY <1>8
    <3>2. \A s \in DOMAIN settings : settings'[s] = settings[s] /\ Firings(s)' = Firings(s) BY <1>8
    <3>3. \A s \in {} : Firings(s)' = 0 OBVIOUS
    <3> HIDE DEF Firings
    <3> QED BY <1>7, <3>1, <3>2, <3>3
  <2>2. \A e \in Members(timer_queue') : e.due >= settings'[e.set].due + Firings(e.set)' * e.period
    BY <1>6, <1>8 DEF Early
  <2> QED BY <2>1, <2>2 DEF Early
<1>9. ASSUME Still \/ Withdrawn \/ Fired
      PROVE  UNCHANGED settings /\ \A s \in DOMAIN settings : Firings(s)' = Firings(s)
  <2>1. CASE Still BY <2>1 DEF Still, Firings
  <2>2. CASE Withdrawn BY <2>2 DEF Withdrawn, Firings
  <2>3. CASE Fired
    <3>1. PICK s \in Flying :
            /\ Flying' = Flying \ {s} /\ fired' = [fired EXCEPT ![s] = @ + 1]
            /\ UNCHANGED settings
      BY <2>3 DEF Fired
    <3>2. \A r \in DOMAIN settings : fired'[r] = IF r = s THEN fired[r] + 1 ELSE fired[r]
      BY <1>1, <3>1 DEF TimerLists
    <3> QED BY <1>1, <1>3, <3>1, <3>2 DEF Firings
  <2> QED BY <1>9, <2>1, <2>2, <2>3
<1>10. CASE Expire
  <2> DEFINE due == {e \in Members(timer_queue) : e.due <= current_time}
  <2>1. /\ Members(expired') = due /\ UNCHANGED <<now, settings, fired>>
        /\ \A i, j \in DOMAIN timer_queue' : \E k, l \in DOMAIN timer_queue :
             \A x \in {<<i, k>>, <<j, l>>} :
                LET e == timer_queue[x[2]] IN
                \/ e \notin due /\ timer_queue'[x[1]] = e
                \/ e \in due /\ e.period # 0 /\ timer_queue'[x[1]] = [e EXCEPT !.due = current_time + e.period]
        /\ pc'[Emu] # "link"
    BY <1>10, ExpireStep
  <2>2. Flying = {} /\ Flying' = {e.set : e \in due}
    <3>1. expired = <<>> BY <1>10 DEF Expire, TimerLists
    <3> QED BY <2>1, <3>1 DEF Flying, Members
  <2>3. current_time \in Nat /\ current_time <= now BY TimerDpcAssumption DEF Control
  <2>4. ASSUME NEW e \in due PROVE /\ Firings(e.set)' = Firings(e.set) + 1
                                   /\ now >= settings[e.set].due + Firings(e.set) * e.period
    <3>1. e.set \in DOMAIN settings BY <1>6
    <3>2. Firings(e.set) = fired[e.set] BY <1>3, <2>2, <3>1 DEF Firings
    <3>3. Firings(e.set)' = fired[e.set] + 1 BY <2>1, <2>2 DEF Firings
    <3>4. e.due <= current_time /\ e.due \in Nat BY <1>6
    <3>5. e.due >= settings[e.set].due + Firings(e.set) * e.period BY DEF Early
    <3>6. Firings(e.set) * e.period \in Nat /\ settings[e.set].due \in Nat BY <1>3, <1>4, <1>6, <3>1, Times
    <3> QED BY <1>2, <2>3, <3>2, <3>3, <3>4, <3>5, <3>6
  <2>5. ASSUME NEW s \in DOMAIN settings, s \notin Flying' PROVE Firings(s)' = Firings(s)
    BY <2>1, <2>2, <2>5 DEF Firings
  <2>6. \A x, y \in Members(timer_queue) : x.set = y.set => x = y BY DEF Queues, Members
  <2> HIDE DEF due
  <2>7. ASSUME NEW s \in DOMAIN settings, Firings(s)' > 0
        PROVE  now' >= settings[s].due + (Firings(s)' - 1) * settings[s].period
    <3>1. CASE s \in Flying'
      <4>1. PICK e \in due : e.set = s BY <2>2, <3>1
      <4>2. e.period = settings[s].period BY <1>6, <4>1 DEF due
      <4>3. Firings(s)' - 1 = Firings(s) BY <1>4, <2>4, <4>1
      <4>4. now >= settings[s].due + Firings(s) * settings[s].period BY <2>4, <4>1, <4>2
      <4> QED BY <2>1, <4>3, <4>4
    <3>2. CASE s \notin Flying'
      <4>1. Firings(s)' = Firings(s) BY <2>5, <3>2
      <4> QED BY <2>1, <2>7, <4>1 DEF Early
    <3> QED BY <3>1, <3>2
  <2>8. ASSUME NEW e \in Members(timer_queue')
        PROVE  e.due >= settings[e.set].due + Firings(e.set)' * e.period
    <3>1. PICK i \in DOMAIN timer_queue' : e = timer_queue'[i] BY DEF Members
    <3>2. PICK k, l \in DOMAIN timer_queue :
             \A y \in {<<i, k>>, <<i, l>>} :
                LET x == timer_queue[y[2]] IN
                \/ x \notin due /\ timer_queue'[y[1]] = x
                \/ x \in due /\ x.period # 0 /\ timer_queue'[y[1]] = [x EXCEPT !.due = current_time + x.period]
      BY <2>1, <3>1
    <3>3. PICK x \in Members(timer_queue) :
            /\ x \in Timers
            /\ \/ x \notin due /\ e = x
               \/ x \in due /\ e = [x EXCEPT !.due = current_time + x.period]
      <4>1. <<i, k>>[1] = i /\ <<i, k>>[2] = k OBVIOUS
      <4> QED BY <1>5, <3>1, <3>2, <4>1 DEF Members
    <3>4. x.set \in DOMAIN settings /\ x.due \in Nat /\ x.period = settings[x.set].period BY <1>6, <3>3
    <3>5. x.due >= settings[x.set].due + Firings(x.set) * x.period BY <3>3 DEF Early
    <3>6. CASE x \notin due /\ e = x
      <4>1. x.set \notin Flying'
        <5>1. due \subseteq Members(timer_queue) BY DEF due
        <5> QED BY <2>2, <2>6, <3>3, <3>6, <5>1
      <4>2. Firings(x.set)' = Firings(x.set) BY <2>5, <3>4, <4>1
      <4> QED BY <3>5, <3>6, <4>2
    <3>7. CASE x \in due /\ e = [x EXCEPT !.due = current_time + x.period]
      <4>1. e.set = x.set /\ e.period = x.period /\ e.due = current_time + x.period
        BY <3>3, <3>7 DEF Timers
      <4>2. x.due <= current_time BY <3>7 DEF due
      <4>3. Firings(x.set)' = Firings(x.set) + 1 BY <2>4, <3>7
      <4>4. /\ Firings(x.set) * x.period \in Nat
            /\ (Firings(x.set) + 1) * x.period = Firings(x.set) * x.period + x.period
            /\ x.period \in Nat /\ settings[x.set].due \in Nat
        BY <1>3, <1>4, <3>4, Times
      <4>5. current_time + x.period >= settings[x.set].due + (Firings(x.set) + 1) * x.period
        BY <2>3, <3>4, <3>5, <4>2, <4>4
      <4> QED BY <4>1, <4>3, <4>5
    <3> QED BY <3>3, <3>6, <3>7
  <2> QED BY <2>1, <2>7, <2>8 DEF Early
<1>11. ASSUME NEW g \in Guest, QueueTimer(g) PROVE Early'
  <2>1. PICK s \in Setting, e \in Timers :
          /\ s \notin DOMAIN settings /\ DOMAIN settings' = DOMAIN settings \cup {s}
          /\ \A r \in DOMAIN settings : settings'[r] = settings[r]
          /\ UNCHANGED <<expired, fired>> /\ pc'[Emu] = pc[Emu]
          /\ e.set = s /\ settings'[s].due = e.due
          /\ Members(timer_queue') \subseteq Members(timer_queue) \cup {e}
    <3>1. PICK e \in Timers :
            /\ e.set = Len(settings) + 1
            /\ settings'[Len(settings) + 1] = [timer |-> e.timer, due |-> e.due, period |-> e.period]
            /\ \/ timer_queue' = Append(timer_queue, e)
               \/ \E k \in DOMAIN timer_queue : timer_queue' = [timer_queue EXCEPT ![k] = e]
      BY <1>11, QueueTimerStep
    <3>2. timer_queue \in Seq(Timers) BY DEF TimerLists
    <3>3. Members(timer_queue') \subseteq Members(timer_queue) \cup {e}
      <4>1. CASE timer_queue' = Append(timer_queue, e) BY <3>2, <4>1, AppendPlaces
      <4>2. CASE \E k \in DOMAIN timer_queue : timer_queue' = [timer_queue EXCEPT ![k] = e]
        BY <4>2 DEF Members
      <4> QED BY <3>1, <4>1, <4>2
    <3>4. settings'[Len(settings) + 1].due = e.due BY <3>1
    <3> QED BY <1>11, <3>1, <3>3, <3>4, QueueTimerStep
  <2>2. Flying' = Flying BY <2>1 DEF Flying
  <2>3. Firings(s)' = 0 /\ Firings(s) = 0
    <3>1. fired[s] = 0 /\ s \notin Flying BY <1>1, <2>1 DEF Queues
    <3> QED BY <2>1, <2>2, <3>1 DEF Firings
  <2>4. \A r : Firings(r)' = Firings(r) BY <2>1, <2>2 DEF Firings
  <2>5. \A r \in DOMAIN settings' :
               Firings(r)' > 0 => now' >= settings'[r].due + (Firings(r)' - 1) * settings'[r].period
    <3>1. {s} \in SUBSET Setting /\ DOMAIN settings' = DOMAIN settings \cup {s} BY <2>1
    <3>2. \A r \in {s} : Firings(r)' = 0 BY <2>3
    <3> QED BY <1>7, <2>1, <2>4, <3>1, <3>2
  <2>6. \A x \in Members(timer_queue') : x.due >= settings'[x.set].due + Firings(x.set)' * x.period
    <3>1. \A x \in Members(timer_queue) : x.due >= settings'[x.set].due + Firings(x.set)' * x.period
      BY <1>6, <2>1, <2>4 DEF Early
    <3>2. e.due \in Nat /\ e.period \in Nat BY TimerDpcAssumption DEF Timers
    <3>3. Firings(e.set)' * e.period = 0 BY <2>1, <2>3, <3>2, Times
    <3> QED BY <2>1, <3>1, <3>2, <3>3
  <2> QED BY <2>5, <2>6 DEF Early
<1>12. CASE NextCall
  <2>1. Members(timer_queue') = Members(timer_queue) /\ Flying' = {} /\ Flying = {}
        /\ UNCHANGED <<settings, fired>>
    BY <1>12 DEF NextCall, TimerLists, sharedVars, setHistory, Members, Flying
  <2> QED BY <1>8, <2>1 DEF Firings
<1>13. CASE Fire
  <2>1. timer_queue' = timer_queue BY <1>13 DEF Fire
  <2> QED BY <1>8, <1>9, <1>13, <2>1, FireMoves
<1>14. CASE LinkDpc
  <2>1. timer_queue' = timer_queue BY <1>14 DEF LinkDpc
  <2> QED BY <1>8, <1>9, <1>14, <2>1, LinkDpcMoves
<1>15. CASE Shutdown
  <2>1. Members(timer_queue') = {} /\ UNCHANGED <<expired, settings, fired, pc>>
    BY <1>15 DEF Shutdown, Members, emuVars, threadVars
  <2> QED BY <1>8, <2>1 DEF Firings, Flying
<1>16. ASSUME NEW g \in Guest, NEW t \in Timer, CancelTimer(g, t) PROVE Early'
  <2>1. Members(timer_queue') \subseteq Members(timer_queue)
    <3>1. \A S : Members(Filter(timer_queue, S)) = Members(timer_queue) \cap S
      BY FilterMembers DEF TimerLists
    <3> QED BY <1>16, <3>1 DEF CancelTimer
  <2> QED BY <1>8, <1>9, <1>16, <2>1, CancelTimerMoves
<1>17. ASSUME UNCHANGED <<timer_queue, expired, settings, fired>>, pc'[Emu] = "link" <=> pc[Emu] = "link"
       PROVE  Early'
  <2>1. Members(timer_queue') = Members(timer_queue) /\ Flying' = Flying BY <1>17 DEF Flying, Members
  <2> QED BY <1>8, <1>17, <2>1 DEF Firings
<1>18. ASSUME NEW g \in Guest, ClearSignal(g) PROVE Early'
  BY <1>17, <1>18, TimerDpcAssumption DEF ClearSignal, Goto, emuVars, Control, Thread
<1>19. ASSUME NEW g \in Guest, NEW t \in Timer, NEW due \in now..MaxTime, NEW period \in Period,
              NEW d \in Dpc \cup {NoDpc}, SetTimer(g, t, due, period, d) PROVE Early'
  BY <1>17, <1>19, TimerDpcAssumption DEF SetTimer, Goto, emuVars, Control, Thread
<1>20. CASE TimersSame BY <1>17, <1>20 DEF TimersSame, EmuIn
<1> QED BY <1>10, <1>11, <1>12, <1>13, <1>14, <1>15, <1>16, <1>18, <1>19, <1>20, TimersFrame

\* What the next pass does to a setting that has fired: not before a period
\* after the pass that fired it last.
Apart ==
  /\ last \in [Setting -> 0..MaxTime]
  /\ \A e \in Members(timer_queue) : Firings(e.set) > 0 => e.due >= last[e.set] + e.period
OnTime(s) ==
  /\ Firings(s)' = Firings(s) + 1
  /\ current_time >= settings[s].due
  /\ Firings(s) > 0 => current_time >= last[s] + settings[s].period

LEMMA ApartStep ==
  ASSUME Control, TimerLists, Queues, Early, Apart, [Next]_vars
  PROVE  Apart' /\ \A s \in DOMAIN settings : Firings(s)' # Firings(s) => OnTime(s)
<1>1. /\ Pending \subseteq DOMAIN settings /\ Flying \subseteq DOMAIN settings
      /\ DOMAIN settings \subseteq Setting
  BY PlacesSet
<1>2. \A s \in DOMAIN settings : /\ settings[s].due \in Nat /\ settings[s].period \in Nat
                                 /\ fired[s] \in Nat /\ Firings(s) \in Nat
  <2>1. Period \subseteq Nat /\ MaxTime \in Nat BY TimerDpcAssumption
  <2>2. \A s \in DOMAIN settings : settings[s].due \in 0..MaxTime /\ settings[s].period \in Period BY SettingType
  <2>3. \A s \in DOMAIN settings : fired[s] \in Nat BY <1>1 DEF TimerLists
  <2>4. \A s \in DOMAIN settings : settings[s].due \in Nat BY <2>1, <2>2
  <2>5. \A s \in DOMAIN settings : settings[s].period \in Nat BY <2>1, <2>2
  <2>6. \A s \in DOMAIN settings : Firings(s) \in Nat BY <2>3 DEF Firings
  <2> QED BY <2>3, <2>4, <2>5, <2>6
<1>3. Members(timer_queue) \subseteq Timers BY DEF TimerLists, Members
<1>4. \A e \in Members(timer_queue) :
        /\ e.set \in DOMAIN settings /\ e.set \in Setting
        /\ e.due \in Nat /\ e.period = settings[e.set].period
  BY <1>1, <1>3 DEF Queues, Timers
<1>5. ASSUME \A s \in DOMAIN settings : Firings(s)' = Firings(s), last' = last,
             Members(timer_queue') \subseteq Members(timer_queue)
      PROVE  Apart' /\ \A s \in DOMAIN settings : Firings(s)' # Firings(s) => OnTime(s)
  BY <1>4, <1>5 DEF Apart
<1>6. ASSUME Still \/ Withdrawn \/ Fired
      PROVE  \A s \in DOMAIN settings : Firings(s)' = Firings(s)
  <2>1. CASE Still BY <2>1 DEF Still, Firings
  <2>2. CASE Withdrawn BY <2>2 DEF Withdrawn, Firings
  <2>3. CASE Fired
    <3>1. PICK s \in Flying :
            Flying' = Flying \ {s} /\ fired' = [fired EXCEPT ![s] = @ + 1]
      BY <2>3 DEF Fired
    <3>2. \A r \in DOMAIN settings : fired'[r] = IF r = s THEN fired[r] + 1 ELSE fired[r]
      BY <1>1, <3>1 DEF TimerLists
    <3> QED BY <1>1, <1>2, <3>1, <3>2 DEF Firings
  <2> QED BY <1>6, <2>1, <2>2, <2>3
<1>7. CASE Expire
  <2> DEFINE due == {e \in Members(timer_queue) : e.due <= current_time}
  <2>1. /\ Members(expired') = due /\ UNCHANGED <<settings, fired>>
        /\ \A i, j \in DOMAIN timer_queue' : \E k, l \in DOMAIN timer_queue :
             \A x \in {<<i, k>>, <<j, l>>} :
                LET e == timer_queue[x[2]] IN
                \/ e \notin due /\ timer_queue'[x[1]] = e
                \/ e \in due /\ e.period # 0 /\ timer_queue'[x[1]] = [e EXCEPT !.due = current_time + e.period]
        /\ pc'[Emu] # "link"
    BY <1>7, ExpireStep
  <2>2. last' = [s \in Setting |-> IF s \in {e.set : e \in {x \in due : x.period # 0}}
                                     THEN current_time ELSE last[s]]
    BY <1>7 DEF Expire, Stamped
  <2>3. Flying = {} /\ Flying' = {e.set : e \in due}
    <3>1. expired = <<>> BY <1>7 DEF Expire, TimerLists
    <3> QED BY <2>1, <3>1 DEF Flying, Members
  <2>4. current_time \in 0..MaxTime BY DEF Control
  <2>5. \A x, y \in Members(timer_queue) : x.set = y.set => x = y BY DEF Queues, Members
  <2>6. due \subseteq Members(timer_queue) /\ \A e \in due : e.due <= current_time OBVIOUS
  <2> HIDE DEF due
  <2>7. ASSUME NEW s \in DOMAIN settings, s \notin Flying' PROVE Firings(s)' = Firings(s)
    BY <2>1, <2>3, <2>7 DEF Firings
  <2>8. ASSUME NEW e \in due PROVE OnTime(e.set)
    <3>1. e.set \in DOMAIN settings /\ e.due \in Nat /\ e.period = settings[e.set].period BY <1>4, <2>6
    <3>2. Firings(e.set) = fired[e.set] /\ Firings(e.set)' = fired[e.set] + 1
      BY <1>2, <2>1, <2>3, <3>1 DEF Firings
    <3>3. current_time >= settings[e.set].due
      <4>1. e.due >= settings[e.set].due + Firings(e.set) * e.period BY <2>6 DEF Early
      <4>2. Firings(e.set) * e.period \in Nat /\ settings[e.set].due \in Nat BY <1>2, <3>1, Times
      <4> QED BY <2>4, <2>6, <3>1, <4>1, <4>2, TimerDpcAssumption
    <3>4. Firings(e.set) > 0 => current_time >= last[e.set] + settings[e.set].period
      <4>1. last[e.set] \in Nat BY <1>1, <3>1, TimerDpcAssumption DEF Apart
      <4>2. Firings(e.set) > 0 => e.due >= last[e.set] + e.period BY <2>6 DEF Apart
      <4> QED BY <1>2, <2>4, <2>6, <3>1, <4>1, <4>2, TimerDpcAssumption
    <3> QED BY <3>2, <3>3, <3>4 DEF OnTime
  <2>9. \A s \in DOMAIN settings : Firings(s)' # Firings(s) => OnTime(s) BY <2>3, <2>7, <2>8
  <2>10. last' \in [Setting -> 0..MaxTime] BY <2>2, <2>4 DEF Apart
  <2>11. ASSUME NEW e \in Members(timer_queue'), Firings(e.set)' > 0
         PROVE  e.due >= last'[e.set] + e.period
    <3>1. PICK i \in DOMAIN timer_queue' : e = timer_queue'[i] BY DEF Members
    <3>2. PICK k, l \in DOMAIN timer_queue :
             \A y \in {<<i, k>>, <<i, l>>} :
                LET x == timer_queue[y[2]] IN
                \/ x \notin due /\ timer_queue'[y[1]] = x
                \/ x \in due /\ x.period # 0 /\ timer_queue'[y[1]] = [x EXCEPT !.due = current_time + x.period]
      BY <2>1, <3>1
    <3>3. PICK x \in Members(timer_queue) :
            /\ x \in Timers
            /\ \/ x \notin due /\ e = x
               \/ x \in due /\ x.period # 0 /\ e = [x EXCEPT !.due = current_time + x.period]
      <4>1. <<i, k>>[1] = i /\ <<i, k>>[2] = k OBVIOUS
      <4> QED BY <1>3, <3>1, <3>2, <4>1 DEF Members
    <3>4. x.set \in DOMAIN settings /\ x.set \in Setting BY <1>4, <3>3
    <3>5. CASE x \notin due /\ e = x
      <4>1. x.set \notin {y.set : y \in due} BY <2>5, <2>6, <3>3, <3>5
      <4>2. Firings(x.set)' = Firings(x.set) BY <2>3, <2>7, <3>4, <4>1
      <4>3. last'[x.set] = last[x.set] BY <2>2, <3>4, <4>1
      <4> QED BY <2>11, <3>3, <3>5, <4>2, <4>3 DEF Apart
    <3>6. CASE x \in due /\ x.period # 0 /\ e = [x EXCEPT !.due = current_time + x.period]
      <4>1. e.set = x.set /\ e.period = x.period /\ e.due = current_time + x.period
        BY <3>3, <3>6 DEF Timers
      <4>2. last'[x.set] = current_time BY <2>2, <3>4, <3>6
      <4>3. x.period \in Nat BY <3>3, TimerDpcAssumption DEF Timers
      <4> QED BY <2>4, <4>1, <4>2, <4>3, TimerDpcAssumption
    <3> QED BY <3>3, <3>5, <3>6
  <2> QED BY <2>9, <2>10, <2>11 DEF Apart
<1>8. ASSUME NEW g \in Guest, QueueTimer(g)
      PROVE  Apart' /\ \A s \in DOMAIN settings : Firings(s)' # Firings(s) => OnTime(s)
  <2>1. PICK s \in Setting, e \in Timers :
          /\ s \notin DOMAIN settings
          /\ UNCHANGED <<expired, fired>> /\ pc'[Emu] = pc[Emu] /\ e.set = s
          /\ Members(timer_queue') \subseteq Members(timer_queue) \cup {e}
    <3>1. PICK e \in Timers :
            /\ e.set = Len(settings) + 1
            /\ \/ timer_queue' = Append(timer_queue, e)
               \/ \E k \in DOMAIN timer_queue : timer_queue' = [timer_queue EXCEPT ![k] = e]
      BY <1>8, QueueTimerStep
    <3>2. timer_queue \in Seq(Timers) BY DEF TimerLists
    <3>3. Members(timer_queue') \subseteq Members(timer_queue) \cup {e}
      <4>1. CASE timer_queue' = Append(timer_queue, e) BY <3>2, <4>1, AppendPlaces
      <4>2. CASE \E k \in DOMAIN timer_queue : timer_queue' = [timer_queue EXCEPT ![k] = e]
        BY <4>2 DEF Members
      <4> QED BY <3>1, <4>1, <4>2
    <3> QED BY <1>8, <3>1, <3>3, QueueTimerStep
  <2>2. \A r : Firings(r)' = Firings(r) BY <2>1 DEF Firings, Flying
  <2>3. Firings(s) = 0
    <3>1. fired[s] = 0 /\ s \notin Flying BY <1>1, <2>1 DEF Queues
    <3> QED BY <3>1 DEF Firings
  <2>4. last' = last BY <1>8 DEF QueueTimer, emuVars
  <2> QED BY <2>1, <2>2, <2>3, <2>4 DEF Apart
<1>9. CASE NextCall
  <2>1. Members(timer_queue') = Members(timer_queue) /\ Flying' = {} /\ Flying = {}
        /\ UNCHANGED <<settings, fired, last>>
    BY <1>9 DEF NextCall, TimerLists, sharedVars, setHistory, Members, Flying
  <2> QED BY <1>5, <2>1 DEF Firings
<1>10. CASE Fire
  <2>1. UNCHANGED <<timer_queue, last>> BY <1>10 DEF Fire
  <2> QED BY <1>5, <1>6, <1>10, <2>1, FireMoves
<1>11. CASE LinkDpc
  <2>1. UNCHANGED <<timer_queue, last>> BY <1>11 DEF LinkDpc
  <2> QED BY <1>5, <1>6, <1>11, <2>1, LinkDpcMoves
<1>12. CASE Shutdown
  <2>1. Members(timer_queue') = {} /\ UNCHANGED <<expired, settings, fired, pc, last>>
    BY <1>12 DEF Shutdown, Members, emuVars, threadVars
  <2> QED BY <1>5, <2>1 DEF Firings, Flying
<1>13. ASSUME NEW g \in Guest, NEW t \in Timer, CancelTimer(g, t)
       PROVE  Apart' /\ \A s \in DOMAIN settings : Firings(s)' # Firings(s) => OnTime(s)
  <2>1. Members(timer_queue') \subseteq Members(timer_queue)
    <3>1. \A S : Members(Filter(timer_queue, S)) = Members(timer_queue) \cap S
      BY FilterMembers DEF TimerLists
    <3> QED BY <1>13, <3>1 DEF CancelTimer
  <2>2. last' = last BY <1>13 DEF CancelTimer, emuVars
  <2> QED BY <1>5, <1>6, <1>13, <2>1, <2>2, CancelTimerMoves
<1>14. ASSUME UNCHANGED <<timer_queue, expired, fired, last>>, pc'[Emu] = "link" <=> pc[Emu] = "link"
       PROVE  Apart' /\ \A s \in DOMAIN settings : Firings(s)' # Firings(s) => OnTime(s)
  <2>1. Members(timer_queue') = Members(timer_queue) /\ Flying' = Flying BY <1>14 DEF Flying, Members
  <2> QED BY <1>5, <1>14, <2>1 DEF Firings
<1>15. ASSUME NEW g \in Guest, ClearSignal(g)
       PROVE  Apart' /\ \A s \in DOMAIN settings : Firings(s)' # Firings(s) => OnTime(s)
  BY <1>14, <1>15, TimerDpcAssumption DEF ClearSignal, Goto, emuVars, Control, Thread
<1>16. ASSUME NEW g \in Guest, NEW t \in Timer, NEW due \in now..MaxTime, NEW period \in Period,
              NEW d \in Dpc \cup {NoDpc}, SetTimer(g, t, due, period, d)
       PROVE  Apart' /\ \A s \in DOMAIN settings : Firings(s)' # Firings(s) => OnTime(s)
  BY <1>14, <1>16, TimerDpcAssumption DEF SetTimer, Goto, emuVars, Control, Thread
<1>17. CASE TimersSame BY <1>14, <1>17 DEF TimersSame, EmuIn
<1> QED BY <1>7, <1>8, <1>9, <1>10, <1>11, <1>12, <1>13, <1>15, <1>16, <1>17, TimersFrame

-----------------------------------------------------------------------------
(* How many DPCs are ever queued                                            *)

FiredBounded == \A s \in Setting : fired[s] <= MaxTime + 1
LEMMA FiredBound ==
  Control /\ TimerLists /\ Queues /\ Once /\ Early => FiredBounded
<1> SUFFICES ASSUME Control, TimerLists, Queues, Once, Early,
                    NEW s \in Setting, fired[s] > 0
             PROVE  fired[s] <= MaxTime + 1
  BY TimerDpcAssumption DEF TimerLists, FiredBounded
<1>1. s \in DOMAIN settings BY DEF Queues
<1>2. fired[s] \in Nat BY DEF TimerLists
<1>3. MaxTime \in Nat /\ now \in Nat /\ now <= MaxTime BY TimerDpcAssumption DEF Control
<1>4. settings[s].due \in Nat /\ settings[s].period \in Nat
  <2>1. settings[s].due \in 0..MaxTime /\ settings[s].period \in Period BY <1>1, SettingType
  <2>2. settings[s].due \in Nat BY <2>1, <1>3
  <2>3. Period \subseteq Nat BY TimerDpcAssumption
  <2> QED BY <2>1, <2>2, <2>3
<1>5. CASE settings[s].period = 0
  <2>1. fired[s] \in {0, 1} BY <1>1, <1>5 DEF Once
  <2> QED BY <1>3, <2>1
<1>6. CASE settings[s].period # 0
  <2>1. Firings(s) \in Nat /\ Firings(s) >= fired[s] BY <1>2 DEF Firings
  <2>2. now >= settings[s].due + (Firings(s) - 1) * settings[s].period BY <1>1, <1>2, <2>1 DEF Early
  <2>3. \A k, p \in Nat : p # 0 => k * p >= k OBVIOUS
  <2>4. Firings(s) - 1 \in Nat BY <1>2, <2>1
  <2>5. (Firings(s) - 1) * settings[s].period >= Firings(s) - 1 BY <1>4, <1>6, <2>3, <2>4
  <2>6. (Firings(s) - 1) * settings[s].period \in Nat BY <1>4, <2>4, Times
  <2> QED BY <1>2, <1>3, <1>4, <2>1, <2>2, <2>5, <2>6
<1> QED BY <1>5, <1>6

FiredTimes == {x \in Setting \X (1 .. MaxTime + 1) : x[2] <= fired[x[1]]}
Counted == queued + (IF pc[Emu] = "link" THEN 1 ELSE 0) <= inserted + Cardinality(FiredTimes)

LEMMA FiredTimesFinite ==
  IsFiniteSet(FiredTimes) /\ Cardinality(FiredTimes) \in Nat /\ Cardinality(FiredTimes) <= MaxSet * (MaxTime + 1)
<1>1. MaxSet \in Nat /\ MaxTime + 1 \in Nat BY TimerDpcAssumption
<1>2. /\ IsFiniteSet(Setting) /\ Cardinality(Setting) = MaxSet
      /\ IsFiniteSet(1 .. MaxTime + 1) /\ Cardinality(1 .. MaxTime + 1) = MaxTime + 1
  <2>1. \A n \in Nat : IsFiniteSet(1 .. n) /\ Cardinality(1 .. n) = n
    <3> TAKE n \in Nat
    <3>1. IsFiniteSet(1 .. n) /\ Cardinality(1 .. n) = IF 1 > n THEN 0 ELSE n - 1 + 1 BY FS_Interval
    <3> QED BY <3>1
  <2> QED BY <1>1, <2>1 DEF Setting
<1>3. /\ IsFiniteSet(Setting \X (1 .. MaxTime + 1))
      /\ Cardinality(Setting \X (1 .. MaxTime + 1)) = MaxSet * (MaxTime + 1)
  BY <1>2, FS_Product
<1>4. FiredTimes \subseteq Setting \X (1 .. MaxTime + 1) BY DEF FiredTimes
<1>5. IsFiniteSet(FiredTimes) /\ Cardinality(FiredTimes) <= MaxSet * (MaxTime + 1)
  BY <1>3, <1>4, FS_Subset
<1> QED BY <1>5, FS_CardinalityType

LEMMA QueuedRoom ==
  ASSUME Control, Counted
  PROVE  queued \in 0..MaxEntry /\ (pc[Emu] = "link" => queued + 1 <= MaxEntry) /\ 1 .. queued \subseteq Entry
<1>1. MaxSet * (MaxTime + 1) \in Nat /\ MaxDpc \in Nat BY TimerDpcAssumption
<1>2. inserted <= MaxDpc /\ inserted \in Nat /\ queued \in Nat BY TimerDpcAssumption DEF Control
<1>3. ASSUME pc[Emu] = "link" PROVE queued \in 0..MaxEntry /\ queued + 1 <= MaxEntry
  BY <1>1, <1>2, <1>3, FiredTimesFinite DEF Counted, MaxEntry
<1>4. ASSUME pc[Emu] # "link" PROVE queued \in 0..MaxEntry
  BY <1>1, <1>2, <1>4, FiredTimesFinite DEF Counted, MaxEntry
<1>5. queued \in 0..MaxEntry /\ (pc[Emu] = "link" => queued + 1 <= MaxEntry) BY <1>3, <1>4
<1>6. MaxEntry \in Nat BY <1>1 DEF MaxEntry
<1>7. 1 .. queued \subseteq 1 .. MaxEntry BY <1>5, <1>6
<1> QED BY <1>5, <1>7 DEF Entry

LEMMA CountedStep ==
  ASSUME Control, TimerLists, Queues, Once, Early, Counted, [Next]_vars
  PROVE  Counted'
<1>1. Control' /\ TimerLists' /\ Queues' /\ Once' /\ Early'
  BY ControlStep, TimerListsStep, MovesStep, OnceStep, EarlyStep
<1>2. queued \in Nat /\ inserted \in Nat /\ Cardinality(FiredTimes) \in Nat
  BY TimerDpcAssumption, FiredTimesFinite DEF Control
<1>3. CASE LinkDpc
  <2>1. /\ pc[Emu] = "link" /\ pc'[Emu] # "link" /\ queued' = queued + 1
        /\ inserted' = inserted /\ fired' = fired
    BY <1>3 DEF LinkDpc, QueueDpc, NextTimer, Continue, Goto, Control, Thread, setHistory
  <2>2. FiredTimes' = FiredTimes BY <2>1 DEF FiredTimes
  <2> QED BY <1>2, <2>1, <2>2 DEF Counted
<1>4. ASSUME NEW g \in Guest, NEW d \in Dpc, InsertQueueDpc(g, d) PROVE Counted'
  <2>1. /\ pc' = pc /\ queued' = queued + 1 /\ inserted' = inserted + 1 /\ fired' = fired
    BY <1>4 DEF InsertQueueDpc, QueueDpc, threadVars, setHistory
  <2>2. FiredTimes' = FiredTimes BY <2>1 DEF FiredTimes
  <2> QED BY <1>2, <2>1, <2>2 DEF Counted
<1>5. CASE Fire
  <2>1. /\ pc[Emu] # "link" /\ queued' = queued /\ inserted' = inserted BY <1>5 DEF Fire, dpcHistory
  <2>2. PICK s \in Flying : fired' = [fired EXCEPT ![s] = @ + 1] BY <1>5, FireMoves
  <2>3. s \in Setting /\ fired \in [Setting -> Nat] BY PlacesSet DEF TimerLists
  <2>4. fired'[s] = fired[s] + 1 /\ \A r \in Setting : r # s => fired'[r] = fired[r] BY <2>2, <2>3
  <2>5. fired[s] + 1 <= MaxTime + 1
    <3>1. \A r \in Setting : fired'[r] <= MaxTime + 1
      <4>1. FiredBounded' BY <1>1, FiredBound, PTL
      <4> QED BY <4>1 DEF FiredBounded, Setting
    <3> QED BY <2>3, <2>4, <3>1
  <2>6. FiredTimes' = FiredTimes \cup {<<s, fired[s] + 1>>} /\ <<s, fired[s] + 1>> \notin FiredTimes
    <3>1. fired[s] \in Nat /\ MaxTime \in Nat BY <2>3, TimerDpcAssumption
    <3>2. \A k \in 1 .. MaxTime + 1 : k <= fired[s] + 1 <=> k <= fired[s] \/ k = fired[s] + 1 BY <3>1
    <3>3. fired[s] + 1 \in 1 .. MaxTime + 1 BY <2>5, <3>1
    <3>4. FiredTimes' = {x \in Setting \X (1 .. MaxTime + 1) : x[2] <= fired'[x[1]]} BY DEF FiredTimes, Setting
    <3>5. ASSUME NEW r \in Setting, NEW k \in 1 .. MaxTime + 1
          PROVE  <<r, k>> \in FiredTimes' <=> <<r, k>> \in FiredTimes \cup {<<s, fired[s] + 1>>}
      <4>1. <<r, k>> \in FiredTimes' <=> k <= fired'[r] BY <3>4
      <4>2. <<r, k>> \in FiredTimes <=> k <= fired[r] BY DEF FiredTimes
      <4>3. CASE r = s BY <2>4, <3>2, <4>1, <4>2, <4>3
      <4>4. CASE r # s BY <2>4, <4>1, <4>2, <4>4
      <4> QED BY <4>3, <4>4
    <3>6. FiredTimes' \subseteq Setting \X (1 .. MaxTime + 1) /\ FiredTimes \subseteq Setting \X (1 .. MaxTime + 1)
      BY <3>4 DEF FiredTimes
    <3>7. <<s, fired[s] + 1>> \notin FiredTimes BY <3>1 DEF FiredTimes
    <3>8. <<s, fired[s] + 1>> \in Setting \X (1 .. MaxTime + 1) BY <2>3, <3>3
    <3> QED BY <3>5, <3>6, <3>7, <3>8
  <2>7. Cardinality(FiredTimes') = Cardinality(FiredTimes) + 1
    BY <2>6, FiredTimesFinite, FS_AddElement
  <2> QED BY <1>2, <2>1, <2>7 DEF Counted
<1>6. ASSUME UNCHANGED <<queued, inserted, fired>>, pc'[Emu] = "link" <=> pc[Emu] = "link" PROVE Counted'
  <2>1. FiredTimes' = FiredTimes BY <1>6 DEF FiredTimes
  <2> QED BY <1>6, <2>1 DEF Counted
<1>7. \/ LinkDpc \/ \E g \in Guest, d \in Dpc : InsertQueueDpc(g, d)
      \/ UNCHANGED <<queued, inserted>>
  BY DpcsFrame DEF DpcsSame, Shutdown, Swap, Skip, EndDpc, NestedDpcs, dpcHistory
<1>8. \/ LinkDpc \/ Fire
      \/ fired' = fired /\ (pc'[Emu] = "link" <=> pc[Emu] = "link")
  <2>1. NextCall => fired' = fired /\ pc[Emu] # "link" /\ pc'[Emu] # "link"
    <3>1. NextCall => UNCHANGED <<fired, expired>> /\ pc[Emu] = "idle" BY DEF NextCall, setHistory
    <3> QED BY <1>1, <3>1 DEF TimerLists
  <2>2. Expire => fired' = fired /\ pc[Emu] # "link" /\ pc'[Emu] # "link"
    BY ExpireStep DEF Expire
  <2>3. Shutdown => fired' = fired /\ pc' = pc BY DEF Shutdown, threadVars
  <2>4. \A g \in Guest : QueueTimer(g) => fired' = fired /\ pc'[Emu] = pc[Emu] BY QueueTimerStep
  <2>5. \A g \in Guest : ClearSignal(g) => fired' = fired /\ pc'[Emu] = pc[Emu]
    BY TimerDpcAssumption DEF ClearSignal, Goto, Control, Thread
  <2>6. \A g \in Guest, t \in Timer : CancelTimer(g, t) => fired' = fired /\ pc'[Emu] = pc[Emu]
    BY TimerDpcAssumption DEF CancelTimer, Goto, Control, Thread
  <2>7. \A g \in Guest, t \in Timer, due \in now..MaxTime, period \in Period, d \in Dpc \cup {NoDpc} :
          SetTimer(g, t, due, period, d) => fired' = fired /\ pc'[Emu] = pc[Emu]
    BY TimerDpcAssumption DEF SetTimer, Goto, Control, Thread
  <2>8. TimersSame => fired' = fired /\ (pc'[Emu] = "link" <=> pc[Emu] = "link") BY DEF TimersSame, EmuIn
  <2> DEFINE Same == fired' = fired /\ (pc'[Emu] = "link" <=> pc[Emu] = "link")
  <2>9. /\ (NextCall => Same) /\ (Expire => Same) /\ (Shutdown => Same) /\ (TimersSame => Same)
        /\ \A g \in Guest : (QueueTimer(g) => Same) /\ (ClearSignal(g) => Same)
        /\ \A g \in Guest, t \in Timer : CancelTimer(g, t) => Same
        /\ \A g \in Guest, t \in Timer, due \in now..MaxTime, period \in Period, d \in Dpc \cup {NoDpc} :
             SetTimer(g, t, due, period, d) => Same
    BY <2>1, <2>2, <2>3, <2>4, <2>5, <2>6, <2>7, <2>8
  <2> HIDE DEF Same
  <2>10. LinkDpc \/ Fire \/ Same BY <2>9, TimersFrame
  <2> QED BY <2>10 DEF Same
<1> QED BY <1>3, <1>4, <1>5, <1>6, <1>7, <1>8

-----------------------------------------------------------------------------
(* Where the queued DPCs are                                                *)

Waiting == {dpc_queue[i].n : i \in DOMAIN dpc_queue}
Running(p) == {to_process[p][i].n : i \in DOMAIN to_process[p]}
Ended(n) == n \notin Waiting /\ \A p \in Thread : n \notin Running(p)

DpcPlaces ==
  /\ \A i, j \in DOMAIN dpc_queue : dpc_queue[i].n = dpc_queue[j].n => i = j
  /\ \A p \in Thread : \A i, j \in DOMAIN to_process[p] : to_process[p][i].n = to_process[p][j].n => i = j
  /\ Waiting \subseteq 1 .. queued /\ \A p \in Thread : Running(p) \subseteq 1 .. queued
  /\ \A p \in Thread : Waiting \cap Running(p) = {}
  /\ \A p, q \in Thread : p # q => Running(p) \cap Running(q) = {}
  /\ \A n \in Entry : done[n] = IF n \in 1 .. queued /\ Ended(n) THEN 1 ELSE 0

LEMMA SwapDpcs ==
  ASSUME Control, DpcLists, DpcPlaces, NEW p \in Thread, Swap(p)
  PROVE  DpcLists' /\ DpcPlaces'
<1>1. /\ dpc_queue' = <<>> /\ to_process' = [to_process EXCEPT ![p] = dpc_queue]
      /\ done' = done /\ queued' = queued
      /\ pc' = [pc EXCEPT ![p] = IF dpc_queue = <<>> THEN "idle" ELSE "run"]
      /\ pc[p] = "dpcs"
  BY DEF Swap, NextDpc, Continue, Goto, dpcHistory
<1>2. to_process[p] = <<>> BY <1>1 DEF DpcLists, InDpcs
<1>3. /\ to_process'[p] = dpc_queue /\ \A q \in Thread : q # p => to_process'[q] = to_process[q]
  BY <1>1 DEF DpcLists
<1>4. DpcLists' BY <1>1, <1>3 DEF DpcLists, InDpcs, Control
<1>5. Waiting' = {} /\ Running(p)' = Waiting /\ Running(p) = {}
  BY <1>1, <1>2, <1>3 DEF Waiting, Running
<1>6. \A q \in Thread : q # p => Running(q)' = Running(q) BY <1>3 DEF Running
<1>7. \A n : Ended(n)' <=> Ended(n) BY <1>5, <1>6 DEF Ended
<1>8. \A r \in Thread : \A i, j \in DOMAIN to_process'[r] : to_process'[r][i].n = to_process'[r][j].n => i = j
  BY <1>3 DEF DpcPlaces
<1>9. \A r \in Thread : Running(r)' \subseteq 1 .. queued
  <2>1. Waiting \subseteq 1 .. queued /\ \A r \in Thread : Running(r) \subseteq 1 .. queued BY DEF DpcPlaces
  <2> QED BY <1>5, <1>6, <2>1
<1>10. \A r, q \in Thread : r # q => Running(r)' \cap Running(q)' = {} BY <1>5, <1>6 DEF DpcPlaces
<1>11. \A n \in Entry : done'[n] = IF n \in 1 .. queued' /\ Ended(n)' THEN 1 ELSE 0
  BY <1>1, <1>7 DEF DpcPlaces
<1>12. DpcPlaces' BY <1>1, <1>5, <1>8, <1>9, <1>10, <1>11 DEF DpcPlaces, Entry
<1> QED BY <1>4, <1>12

LEMMA FinishDpcs ==
  ASSUME Control, DpcLists, DpcPlaces, Counted, NEW p \in Thread, pc[p] \in InDpcs, Finish(p),
         UNCHANGED <<dpc_queue, queued>>
  PROVE  DpcLists' /\ DpcPlaces'
<1> DEFINE q == to_process[p]
<1>0. PICK h : h = Head(q).n OBVIOUS
<1>1. q \in Seq(DpcEntry) /\ q # <<>> BY DEF DpcLists
<1>2. /\ Head(q) = q[1] /\ 1 \in DOMAIN q /\ Tail(q) \in Seq(DpcEntry)
      /\ \A i \in DOMAIN Tail(q) : i + 1 \in DOMAIN q /\ i + 1 # 1 /\ Tail(q)[i] = q[i + 1]
      /\ \A i \in DOMAIN q : i # 1 => i - 1 \in DOMAIN Tail(q) /\ Tail(q)[i - 1] = q[i]
  BY <1>1, TailPlaces
<1>3. /\ done' = [done EXCEPT ![h] = @ + 1] /\ to_process' = [to_process EXCEPT ![p] = Tail(q)]
      /\ pc' = [pc EXCEPT ![p] = IF Tail(q) = <<>> THEN "idle" ELSE "run"]
  BY <1>0 DEF Finish, NextDpc, Continue, Goto
<1>4. to_process'[p] = Tail(q) /\ \A r \in Thread : r # p => to_process'[r] = to_process[r]
  BY <1>3 DEF DpcLists
<1>5. h \in Running(p) /\ h \in 1 .. queued /\ h \in Entry
  <2>1. h \in Running(p) BY <1>0, <1>2 DEF Running
  <2>2. h \in 1 .. queued BY <2>1 DEF DpcPlaces
  <2> QED BY <2>1, <2>2, QueuedRoom
<1>6. DpcLists'
  <2>1. to_process' \in [Thread -> Seq(DpcEntry)] BY <1>2, <1>3 DEF DpcLists
  <2>2. done' \in [Entry -> Nat] BY <1>3, <1>5 DEF DpcLists
  <2>3. \A r \in Thread : to_process'[r] # <<>> <=> pc'[r] \in InDpcs
    BY <1>3, <1>4 DEF DpcLists, InDpcs, Control
  <2> QED BY <2>1, <2>2, <2>3 DEF DpcLists, Entry, MaxEntry
<1>7. \A i, j \in DOMAIN Tail(q) : Tail(q)[i].n = Tail(q)[j].n => i = j
  <2> SUFFICES ASSUME NEW i \in DOMAIN Tail(q), NEW j \in DOMAIN Tail(q), Tail(q)[i].n = Tail(q)[j].n
               PROVE  i = j
    OBVIOUS
  <2>1. i + 1 = j + 1 BY <1>2 DEF DpcPlaces
  <2>2. i \in Nat /\ j \in Nat BY <1>2
  <2> QED BY <2>1, <2>2
<1>8. Running(p)' = Running(p) \ {h}
  <2>1. Running(p)' = {Tail(q)[i].n : i \in DOMAIN Tail(q)} BY <1>4 DEF Running
  <2>2. ASSUME NEW n \in Running(p)' PROVE n \in Running(p) \ {h}
    <3>1. PICK i \in DOMAIN Tail(q) : n = Tail(q)[i].n BY <2>1
    <3> QED BY <1>0, <1>2, <3>1 DEF Running, DpcPlaces
  <2>3. ASSUME NEW n \in Running(p) \ {h} PROVE n \in Running(p)'
    <3>1. PICK i \in DOMAIN q : n = q[i].n BY DEF Running
    <3>2. i # 1 BY <1>0, <1>2, <3>1
    <3> QED BY <1>2, <2>1, <3>1, <3>2
  <2> QED BY <2>2, <2>3
<1>9. Waiting' = Waiting /\ \A r \in Thread : r # p => Running(r)' = Running(r)
  BY <1>4 DEF Waiting, Running
<1>10. \A n : n # h => (Ended(n)' <=> Ended(n)) BY <1>8, <1>9 DEF Ended
<1>11. Ended(h)' /\ ~Ended(h)
  <2>1. ~Ended(h) BY <1>5 DEF Ended
  <2>2. h \notin Waiting BY <1>5 DEF DpcPlaces
  <2>3. \A r \in Thread : r # p => h \notin Running(r) BY <1>5 DEF DpcPlaces
  <2> QED BY <1>8, <1>9, <2>1, <2>2, <2>3 DEF Ended
<1>12. done'[h] = done[h] + 1 /\ \A n \in Entry : n # h => done'[n] = done[n]
  BY <1>3, <1>5 DEF DpcLists
<1>13. \A n \in Entry : done'[n] = IF n \in 1 .. queued' /\ Ended(n)' THEN 1 ELSE 0
  <2>1. \A n \in Entry : done[n] = IF n \in 1 .. queued /\ Ended(n) THEN 1 ELSE 0
    BY DEF DpcPlaces
  <2>2. done'[h] = 1 /\ h \in 1 .. queued BY <1>5, <1>11, <1>12, <2>1
  <2>3. queued' = queued OBVIOUS
  <2> QED BY <1>10, <1>11, <1>12, <2>1, <2>2, <2>3
<1>14. \A r \in Thread : \A i, j \in DOMAIN to_process'[r] : to_process'[r][i].n = to_process'[r][j].n => i = j
  BY <1>4, <1>7 DEF DpcPlaces
<1>15. /\ Waiting' \subseteq 1 .. queued /\ \A r \in Thread : Running(r)' \subseteq 1 .. queued
       /\ \A r \in Thread : Waiting' \cap Running(r)' = {}
  BY <1>8, <1>9 DEF DpcPlaces
<1>16. \A r, t \in Thread : r # t => Running(r)' \cap Running(t)' = {} BY <1>8, <1>9 DEF DpcPlaces
<1>17. DpcPlaces' BY <1>13, <1>14, <1>15, <1>16 DEF DpcPlaces, Entry
<1> QED BY <1>6, <1>17

LEMMA QueueDpcs ==
  ASSUME Control, DpcLists, DpcPlaces, NEW d \in Dpc, QueueDpc(d), UNCHANGED <<to_process, done>>,
         \A p \in Thread : pc'[p] \in InDpcs <=> pc[p] \in InDpcs
  PROVE  DpcLists' /\ DpcPlaces'
<1> DEFINE e == [dpc |-> d, n |-> queued + 1]
<1>1. queued' = queued + 1 /\ dpc_queue' = Append(dpc_queue, e) BY DEF QueueDpc
<1>2. queued \in Nat BY DEF Control
<1>3. e \in DpcEntry /\ e.n = queued + 1 BY <1>2 DEF DpcEntry
<1>4. dpc_queue \in Seq(DpcEntry) BY DEF DpcLists
<1> HIDE DEF e
<1>5. /\ dpc_queue' \in Seq(DpcEntry)
      /\ DOMAIN dpc_queue' = DOMAIN dpc_queue \cup {Len(dpc_queue) + 1}
      /\ \A i \in DOMAIN dpc_queue : dpc_queue'[i] = dpc_queue[i]
      /\ dpc_queue'[Len(dpc_queue) + 1] = e
  BY <1>1, <1>3, <1>4, AppendPlaces
<1>6. DpcLists' BY <1>5 DEF DpcLists, Control
<1>7. Waiting' = Waiting \cup {queued + 1} BY <1>3, <1>5 DEF Waiting
<1>8. \A p \in Thread : Running(p)' = Running(p) BY DEF Running
<1>9. 1 .. queued' = 1 .. queued \cup {queued + 1} /\ queued + 1 \notin 1 .. queued BY <1>1, <1>2
<1>10. \A i, j \in DOMAIN dpc_queue' : dpc_queue'[i].n = dpc_queue'[j].n => i = j
  <2>1. \A i \in DOMAIN dpc_queue : dpc_queue[i].n # queued + 1
    BY <1>9 DEF DpcPlaces, Waiting
  <2> QED BY <1>3, <1>5, <2>1 DEF DpcPlaces
<1>11. \A n : n # queued + 1 => (Ended(n)' <=> Ended(n)) BY <1>7, <1>8 DEF Ended
<1>13. \A n \in Entry : done'[n] = IF n \in 1 .. queued' /\ Ended(n)' THEN 1 ELSE 0
  <2> SUFFICES ASSUME NEW n \in Entry PROVE done[n] = IF n \in 1 .. queued' /\ Ended(n)' THEN 1 ELSE 0
    OBVIOUS
  <2>1. done[n] = IF n \in 1 .. queued /\ Ended(n) THEN 1 ELSE 0 BY DEF DpcPlaces
  <2>2. CASE n = queued + 1
    <3>1. ~Ended(n)' BY <1>7, <2>2 DEF Ended
    <3>2. n \notin 1 .. queued BY <1>9, <2>2
    <3> QED BY <2>1, <3>1, <3>2
  <2>3. CASE n # queued + 1 BY <1>9, <1>11, <2>1, <2>3
  <2> QED BY <2>2, <2>3
<1>14. \A p \in Thread : Waiting' \cap Running(p)' = {} BY <1>7, <1>8, <1>9 DEF DpcPlaces
<1>15. Waiting' \subseteq 1 .. queued' /\ \A p \in Thread : Running(p)' \subseteq 1 .. queued'
  <2>1. Waiting \subseteq 1 .. queued' BY <1>9 DEF DpcPlaces
  <2>2. \A p \in Thread : Running(p) \subseteq 1 .. queued' BY <1>9 DEF DpcPlaces
  <2> QED BY <1>7, <1>8, <1>9, <2>1, <2>2
<1>16. \A p, q \in Thread : p # q => Running(p)' \cap Running(q)' = {} BY <1>8 DEF DpcPlaces
<1>17. \A p \in Thread : \A i, j \in DOMAIN to_process'[p] : to_process'[p][i].n = to_process'[p][j].n => i = j
  BY DEF DpcPlaces
<1>18. DpcPlaces' BY <1>10, <1>13, <1>14, <1>15, <1>16, <1>17 DEF DpcPlaces, Entry
<1> QED BY <1>6, <1>18

LEMMA ShutdownDpcs ==
  ASSUME Control, DpcLists, DpcPlaces, Counted, Shutdown
  PROVE  DpcLists' /\ DpcPlaces'
<1>1. /\ dpc_queue' = <<>> /\ UNCHANGED <<to_process, queued, pc>>
      /\ done' = [n \in Entry |-> IF n \in {e.n : e \in Members(dpc_queue)} THEN done[n] + 1 ELSE done[n]]
  BY DEF Shutdown, threadVars
<1>2. {e.n : e \in Members(dpc_queue)} = Waiting BY DEF Waiting, Members
<1>3. done' = [n \in Entry |-> IF n \in Waiting THEN done[n] + 1 ELSE done[n]] BY <1>1, <1>2
<1>4. DpcLists' BY <1>1, <1>3 DEF DpcLists
<1>5. Waiting' = {} /\ \A p \in Thread : Running(p)' = Running(p) BY <1>1 DEF Waiting, Running
<1>6. \A n : Ended(n)' <=> (Ended(n) \/ (n \in Waiting /\ \A p \in Thread : n \notin Running(p)))
  BY <1>5 DEF Ended
<1>7. \A n \in Entry : done'[n] = IF n \in 1 .. queued /\ Ended(n)' THEN 1 ELSE 0
  <2> SUFFICES ASSUME NEW n \in Entry PROVE done'[n] = IF n \in 1 .. queued /\ Ended(n)' THEN 1 ELSE 0
    OBVIOUS
  <2>1. done[n] = IF n \in 1 .. queued /\ Ended(n) THEN 1 ELSE 0 BY DEF DpcPlaces
  <2>2. CASE n \in Waiting
    <3>1. n \in 1 .. queued /\ (\A p \in Thread : n \notin Running(p)) /\ ~Ended(n)
      BY <2>2 DEF DpcPlaces, Ended
    <3>2. Ended(n)' BY <1>6, <2>2, <3>1
    <3> QED BY <1>3, <2>1, <2>2, <3>1, <3>2
  <2>3. CASE n \notin Waiting
    <3>1. Ended(n)' <=> Ended(n) BY <1>6, <2>3
    <3> QED BY <1>3, <2>1, <2>3, <3>1
  <2> QED BY <2>2, <2>3
<1>8. DpcPlaces' BY <1>1, <1>5, <1>7 DEF DpcPlaces, Entry
<1> QED BY <1>4, <1>8

\* The place where the nested process_dpcs stops exists.
LEMMA FirstRunnable ==
  ASSUME NEW X, NEW q \in Seq(X), NEW S
  PROVE  \E i \in 0 .. Len(q) : /\ \A j \in 1 .. i : q[j] \notin S
                                /\ i < Len(q) => q[i + 1] \in S
<1> DEFINE U == {j \in 1 .. Len(q) : q[j] \in S}
<1>1. Len(q) \in Nat OBVIOUS
<1>2. CASE U = {}
  <2>1. \A j \in 1 .. Len(q) : q[j] \notin S BY <1>2
  <2> QED BY <1>1, <2>1
<1>3. CASE U # {}
  <2>1. U \in SUBSET Nat OBVIOUS
  <2>2. PICK x \in U : \A y \in U : x <= y
    <3> HIDE DEF U
    <3> QED BY <1>3, <2>1, Least
  <2>3. x - 1 \in 0 .. Len(q) /\ (x - 1) + 1 = x BY <1>1
  <2>4. ASSUME NEW j \in 1 .. (x - 1) PROVE q[j] \notin S
    <3>1. j \in 1 .. Len(q) /\ ~(x <= j) BY <1>1, <2>3
    <3> QED BY <2>2, <3>1
  <2> QED BY <2>3, <2>4
<1> QED BY <1>2, <1>3

LEMMA NestedSteps ==
  ASSUME Control, DpcLists, DpcPlaces, Counted, NEW g \in Guest, NestedDpcs(g)
  PROVE  DpcLists' /\ DpcPlaces'
<1> DEFINE q == dpc_queue
           Here(i) == /\ \A j \in 1..i : ~Runnable(q[j])
                      /\ i < Len(q) => Runnable(q[i + 1])
<1>1. g \in Thread /\ pc[g] = "nested" BY DEF Thread, NestedDpcs
<1>2. q \in Seq(DpcEntry) /\ Len(q) \in Nat /\ DOMAIN q = 1 .. Len(q) BY DEF DpcLists
<1>3. \E i \in 0 .. Len(q) : Here(i)
  <2> DEFINE S == {e \in DpcEntry : Runnable(e)}
  <2>1. \A j \in 1 .. Len(q) : q[j] \in S <=> Runnable(q[j]) BY <1>2
  <2>2. PICK i \in 0 .. Len(q) : /\ \A j \in 1 .. i : q[j] \notin S
                                 /\ i < Len(q) => q[i + 1] \in S
    <3> HIDE DEF S
    <3> QED BY <1>2, FirstRunnable
  <2> HIDE DEF S
  <2>3. \A j \in 1 .. i : j \in 1 .. Len(q) BY <1>2
  <2>4. i < Len(q) => i + 1 \in 1 .. Len(q) BY <1>2
  <2>5. Here(i) BY <2>1, <2>2, <2>3, <2>4
  <2> HIDE DEF Here
  <2> QED BY <2>5
<1>4. PICK k \in 0 .. Len(q) :
        /\ k = CHOOSE i \in 0 .. Len(q) : Here(i)
  <2> HIDE DEF Here
  <2> QED BY <1>3
<1>5. /\ done' = [n \in Entry |-> IF n \in {q[j].n : j \in 1 .. k} THEN done[n] + 1 ELSE done[n]]
      /\ dpc_queue' = <<>> /\ queued' = queued
      /\ to_process' = [to_process EXCEPT ![g] = @ \o SubSeq(q, k + 1, Len(q))]
      /\ \E l \in {"stuck", "ret"} : pc' = [pc EXCEPT ![g] = l]
  BY <1>4 DEF NestedDpcs, Goto
<1> HIDE DEF Here
<1> DEFINE tp == to_process[g]
<1>6. PICK rest : rest = SubSeq(q, k + 1, Len(q)) OBVIOUS
<1>7. /\ rest \in Seq(DpcEntry) /\ Len(rest) = Len(q) - k
      /\ \A i \in 1 .. (Len(q) - k) : rest[i] = q[k + i]
  <2>1. k \in Nat /\ k <= Len(q) BY <1>2
  <2>2. k + 1 \in Int /\ Len(q) \in Int BY <1>2, <2>1
  <2>3. \A i \in k + 1 .. Len(q) : i \in 1 .. Len(q) BY <1>2, <2>1
  <2>4. \A i \in k + 1 .. Len(q) : q[i] \in DpcEntry BY <1>2, <2>3
  <2>5. /\ rest \in Seq(DpcEntry)
        /\ Len(rest) = IF k + 1 <= Len(q) THEN Len(q) - (k + 1) + 1 ELSE 0
        /\ \A i \in 1 .. Len(q) - (k + 1) + 1 : rest[i] = q[k + 1 + i - 1]
    BY <1>6, <2>2, <2>4, SubSeqProperties
  <2>6. Len(rest) = Len(q) - k
    <3>1. \A a, b, c \in Nat : a <= b /\ c = (IF a + 1 <= b THEN b - (a + 1) + 1 ELSE 0) => c = b - a
      OBVIOUS
    <3> HIDE DEF q
    <3>2. Len(rest) \in Nat BY <2>5
    <3> QED BY <1>2, <2>1, <2>5, <3>1, <3>2
  <2>7. \A i \in 1 .. (Len(q) - k) : i \in 1 .. Len(q) - (k + 1) + 1 /\ k + 1 + i - 1 = k + i
    BY <1>2, <2>1
  <2> QED BY <2>5, <2>6, <2>7
<1>8. tp \in Seq(DpcEntry) /\ tp # <<>> /\ Len(tp) \in Nat BY <1>1 DEF DpcLists, InDpcs
<1>9. PICK new : new = tp \o rest OBVIOUS
<1>10. /\ new \in Seq(DpcEntry) /\ Len(new) = Len(tp) + Len(rest) /\ DOMAIN new = 1 .. Len(new)
       /\ \A i \in 1 .. Len(tp) : new[i] = tp[i]
       /\ \A i \in Len(tp) + 1 .. Len(tp) + Len(rest) : new[i] = rest[i - Len(tp)]
  <2>1. Len(rest) \in Nat /\ Len(tp) \in Nat BY <1>7, <1>8
  <2> HIDE DEF tp
  <2>2. /\ tp \o rest \in Seq(DpcEntry) /\ Len(tp \o rest) = Len(tp) + Len(rest)
        /\ \A i \in 1 .. Len(tp) + Len(rest) : (tp \o rest)[i] = IF i <= Len(tp) THEN tp[i] ELSE rest[i - Len(tp)]
    BY <1>7, <1>8, ConcatProperties
  <2>3. \A i \in 1 .. Len(tp) : i \in 1 .. Len(tp) + Len(rest) /\ i <= Len(tp) BY <2>1
  <2>4. \A i \in Len(tp) + 1 .. Len(tp) + Len(rest) : i \in 1 .. Len(tp) + Len(rest) /\ ~(i <= Len(tp)) BY <2>1
  <2>5. DOMAIN new = 1 .. Len(new) BY <1>9, <2>2
  <2> QED BY <1>9, <2>2, <2>3, <2>4, <2>5
<1>11. to_process'[g] = new /\ \A p \in Thread : p # g => to_process'[p] = to_process[p]
  BY <1>1, <1>5, <1>6, <1>9 DEF DpcLists
<1>12. DpcLists'
  <2>1. to_process' \in [Thread -> Seq(DpcEntry)] BY <1>1, <1>5, <1>6, <1>9, <1>10 DEF DpcLists
  <2>2. done' \in [Entry -> Nat] BY <1>5 DEF DpcLists
  <2>3. new # <<>> BY <1>7, <1>8, <1>10
  <2>4. \A p \in Thread : to_process'[p] # <<>> <=> pc'[p] \in InDpcs
    BY <1>1, <1>5, <1>11, <2>3 DEF DpcLists, InDpcs, Control
  <2> QED BY <1>5, <2>1, <2>2, <2>4 DEF DpcLists, Entry, MaxEntry
<1>13. \A i \in DOMAIN new : \/ i \in DOMAIN tp /\ new[i] = tp[i]
                             \/ /\ i - Len(tp) + k \in DOMAIN q /\ i - Len(tp) + k > k
                                /\ i \notin DOMAIN tp /\ new[i] = q[i - Len(tp) + k]
  <2> SUFFICES ASSUME NEW i \in 1 .. Len(new)
               PROVE  \/ i \in DOMAIN tp /\ new[i] = tp[i]
                      \/ /\ i - Len(tp) + k \in DOMAIN q /\ i - Len(tp) + k > k
                         /\ i \notin DOMAIN tp /\ new[i] = q[i - Len(tp) + k]
    BY <1>10
  <2>1. DOMAIN tp = 1 .. Len(tp) BY <1>8
  <2>2. CASE i <= Len(tp)
    <3>1. i \in 1 .. Len(tp)
      <4> HIDE DEF tp
      <4> QED BY <1>8, <2>2
    <3> QED BY <1>10, <2>1, <3>1
  <2>3. CASE ~(i <= Len(tp))
    <3>1. i \in Len(tp) + 1 .. Len(tp) + Len(rest) BY <1>7, <1>8, <1>10, <1>2, <2>3
    <3>2. new[i] = rest[i - Len(tp)] BY <1>10, <3>1
    <3>3. i - Len(tp) \in 1 .. (Len(q) - k) /\ k + (i - Len(tp)) = i - Len(tp) + k
      BY <1>2, <1>7, <1>8, <3>1
    <3>4. rest[i - Len(tp)] = q[i - Len(tp) + k] BY <1>7, <3>3
    <3> DEFINE m == i - Len(tp)
    <3>5. \A a \in 1 .. (Len(q) - k) : a + k \in 1 .. Len(q) /\ a + k > k BY <1>2
    <3>6. m + k \in 1 .. Len(q) /\ m + k > k BY <3>3, <3>5
    <3>7. i \notin DOMAIN tp BY <1>8, <2>1, <2>3
    <3> QED BY <1>2, <3>2, <3>4, <3>6, <3>7
  <2> QED BY <2>2, <2>3
<1>14. \A i, j \in DOMAIN q : q[i].n = q[j].n => i = j BY DEF DpcPlaces
<1>15. \A i \in DOMAIN q : q[i].n \in Waiting BY DEF Waiting
<1>16. \A i \in DOMAIN tp : tp[i].n \in Running(g) /\ tp[i].n \notin Waiting
  <2>1. \A i \in DOMAIN tp : tp[i].n \in Running(g) BY DEF Running
  <2>2. Waiting \cap Running(g) = {} BY <1>1 DEF DpcPlaces
  <2> QED BY <2>1, <2>2
<1>17. \A i, j \in DOMAIN tp : tp[i].n = tp[j].n => i = j BY <1>1 DEF DpcPlaces
<1>18. \A i, j \in DOMAIN new : new[i].n = new[j].n => i = j
  <2> SUFFICES ASSUME NEW i \in DOMAIN new, NEW j \in DOMAIN new, new[i].n = new[j].n PROVE i = j
    OBVIOUS
  <2>1. i \in Nat /\ j \in Nat BY <1>10
  <2>2. CASE i \in DOMAIN tp /\ new[i] = tp[i] BY <1>13, <1>15, <1>16, <1>17, <2>2
  <2>3. CASE /\ i - Len(tp) + k \in DOMAIN q /\ new[i] = q[i - Len(tp) + k]
    <3>1. new[i].n \in Waiting BY <1>15, <2>3
    <3>2. j - Len(tp) + k \in DOMAIN q /\ new[j] = q[j - Len(tp) + k] BY <1>13, <1>16, <3>1
    <3>3. i - Len(tp) + k = j - Len(tp) + k BY <1>14, <2>3, <3>2
    <3> QED BY <1>8, <2>1, <3>3
  <2> QED BY <1>13, <2>2, <2>3
<1>19. PICK skipped : skipped = {q[j].n : j \in 1 .. k} OBVIOUS
<1>20. skipped \subseteq Waiting
  <2>1. 1 .. k \subseteq DOMAIN q BY <1>2
  <2> QED BY <1>19, <2>1 DEF Waiting
<1>21. Running(g)' = Running(g) \cup (Waiting \ skipped)
  <2>1. Running(g)' = {new[i].n : i \in DOMAIN new} BY <1>11 DEF Running
  <2>2. ASSUME NEW n \in Running(g)' PROVE n \in Running(g) \cup (Waiting \ skipped)
    <3>1. PICK i \in DOMAIN new : n = new[i].n BY <2>1
    <3>2. CASE i \in DOMAIN tp /\ new[i] = tp[i] BY <1>16, <3>1, <3>2
    <3>3. CASE /\ i - Len(tp) + k \in DOMAIN q /\ i - Len(tp) + k > k
               /\ new[i] = q[i - Len(tp) + k]
      <4>1. PICK m \in DOMAIN q : m > k /\ n = q[m].n BY <3>1, <3>3
      <4>2. n \notin skipped
        <5>1. ASSUME NEW j \in 1 .. k, n = q[j].n PROVE FALSE
          <6>1. j \in DOMAIN q /\ j <= k BY <1>2
          <6>2. j = m BY <1>14, <4>1, <5>1, <6>1
          <6> QED BY <4>1, <6>1, <6>2, <1>2
        <5> QED BY <1>19, <5>1
      <4> QED BY <1>15, <4>1, <4>2
    <3> QED BY <1>13, <3>2, <3>3
  <2>3. ASSUME NEW n \in Running(g) PROVE n \in Running(g)'
    <3>1. PICK i \in DOMAIN tp : n = tp[i].n BY DEF Running
    <3>2. i \in 1 .. Len(tp) /\ i \in DOMAIN new BY <1>7, <1>8, <1>10, <1>2, SMTT(40)
    <3> QED BY <1>10, <2>1, <3>1, <3>2
  <2>4. ASSUME NEW n \in Waiting \ skipped PROVE n \in Running(g)'
    <3>1. PICK m \in DOMAIN q : n = q[m].n BY DEF Waiting
    <3>2. m \notin 1 .. k BY <1>19, <3>1
    <3>3. /\ m - k \in 1 .. (Len(q) - k) /\ k + (m - k) = m
          /\ m - k + Len(tp) \in Len(tp) + 1 .. Len(tp) + Len(rest)
          /\ (m - k + Len(tp)) - Len(tp) = m - k
          /\ m - k + Len(tp) \in 1 .. Len(new)
      <4>1. m \in Nat /\ k \in Nat /\ Len(tp) \in Nat /\ m > k /\ m <= Len(q) BY <1>2, <1>8, <3>2
      <4>2. Len(new) = Len(tp) + Len(q) - k /\ Len(rest) = Len(q) - k BY <1>2, <1>7, <1>8, <1>10
      <4> HIDE DEF tp
      <4> QED BY <1>2, <4>1, <4>2, SMTT(40)
    <3>4. new[m - k + Len(tp)] = rest[m - k] BY <1>10, <3>3
    <3>5. rest[m - k] = q[m] BY <1>7, <3>3
    <3>6. DOMAIN new = 1 .. Len(new) BY <1>10
    <3> QED BY <2>1, <3>1, <3>3, <3>4, <3>5, <3>6
  <2> QED BY <2>2, <2>3, <2>4
<1>22. Waiting' = {} /\ \A p \in Thread : p # g => Running(p)' = Running(p)
  BY <1>5, <1>11 DEF Waiting, Running
<1>23. \A n : Ended(n)' <=> Ended(n) \/ n \in skipped
  <2> SUFFICES ASSUME NEW n PROVE Ended(n)' <=> Ended(n) \/ n \in skipped OBVIOUS
  <2>1. CASE n \in Waiting
    <3>1. ~Ended(n) /\ \A p \in Thread : n \notin Running(p) BY <2>1 DEF Ended, DpcPlaces
    <3>2. n \in Running(g)' <=> n \notin skipped BY <1>1, <1>20, <1>21, <2>1, <3>1
    <3> QED BY <1>1, <1>22, <3>1, <3>2 DEF Ended
  <2>2. CASE n \notin Waiting
    <3>1. \A p \in Thread : n \in Running(p)' <=> n \in Running(p) BY <1>21, <1>22, <2>2
    <3> QED BY <1>20, <1>22, <2>2, <3>1 DEF Ended
  <2> QED BY <2>1, <2>2
<1>24. \A n \in Entry : done'[n] = IF n \in 1 .. queued' /\ Ended(n)' THEN 1 ELSE 0
  <2> SUFFICES ASSUME NEW n \in Entry
               PROVE  done'[n] = IF n \in 1 .. queued /\ Ended(n)' THEN 1 ELSE 0
    BY <1>5
  <2>1. done[n] = IF n \in 1 .. queued /\ Ended(n) THEN 1 ELSE 0 BY DEF DpcPlaces
  <2>2. done'[n] = IF n \in skipped THEN done[n] + 1 ELSE done[n] BY <1>5, <1>19
  <2>3. CASE n \in skipped
    <3>1. n \in 1 .. queued /\ ~Ended(n) BY <1>20, <2>3 DEF DpcPlaces, Ended
    <3> QED BY <1>23, <2>1, <2>2, <2>3, <3>1
  <2>4. CASE n \notin skipped BY <1>23, <2>1, <2>2, <2>4
  <2> QED BY <2>3, <2>4
<1>25. \A p \in Thread : \A i, j \in DOMAIN to_process'[p] : to_process'[p][i].n = to_process'[p][j].n => i = j
  BY <1>11, <1>18 DEF DpcPlaces
<1>26. \A p \in Thread : Running(p)' \subseteq 1 .. queued
  <2>1. Waiting \subseteq 1 .. queued /\ \A p \in Thread : Running(p) \subseteq 1 .. queued BY DEF DpcPlaces
  <2> QED BY <1>1, <1>21, <1>22, <2>1
<1>27. \A p, r \in Thread : p # r => Running(p)' \cap Running(r)' = {}
  <2>1. \A p, r \in Thread : p # r => Running(p) \cap Running(r) = {} BY DEF DpcPlaces
  <2>2. \A p \in Thread : Waiting \cap Running(p) = {} BY DEF DpcPlaces
  <2> QED BY <1>21, <1>22, <2>1, <2>2
<1>28. DpcPlaces'
  <2>1. /\ \A i, j \in DOMAIN dpc_queue' : dpc_queue'[i].n = dpc_queue'[j].n => i = j
        /\ Waiting' \subseteq 1 .. queued' /\ \A p \in Thread : Running(p)' \subseteq 1 .. queued'
        /\ \A p \in Thread : Waiting' \cap Running(p)' = {}
    BY <1>5, <1>22, <1>26
  <2> QED BY <1>24, <1>25, <1>27, <2>1 DEF DpcPlaces, Entry
<1> QED BY <1>12, <1>28

LEMMA DpcPlacesStep ==
  ASSUME Control, TimerLists, DpcLists, DpcPlaces, Counted, [Next]_vars
  PROVE  DpcLists' /\ DpcPlaces'
<1>1. CASE LinkDpc
  <2>1. Head(expired).dpc \in Dpc BY <1>1 DEF LinkDpc, TimerLists, HasRoutine
  <2>2. QueueDpc(Head(expired).dpc) /\ UNCHANGED <<to_process, done>> BY <1>1 DEF LinkDpc
  <2>3. pc[Emu] = "link" /\ \E l \in {"idle", "fire"} : pc' = [pc EXCEPT ![Emu] = l]
    BY <1>1 DEF LinkDpc, NextTimer, Continue, Goto
  <2>4. \A p \in Thread : pc'[p] \in InDpcs <=> pc[p] \in InDpcs
    BY <2>3, TimerDpcAssumption DEF InDpcs, Control, Thread
  <2>5. PICK d \in Dpc : QueueDpc(d)
    BY <2>1, <2>2
  <2> QED BY <2>2, <2>4, <2>5, QueueDpcs
<1>2. ASSUME NEW g \in Guest, NEW d \in Dpc, InsertQueueDpc(g, d) PROVE DpcLists' /\ DpcPlaces'
  BY <1>2, QueueDpcs DEF InsertQueueDpc, threadVars
<1>3. ASSUME NEW p \in Thread, Skip(p) PROVE DpcLists' /\ DpcPlaces'
  BY <1>3, FinishDpcs DEF Skip, sharedVars, InDpcs
<1>4. ASSUME NEW p \in Thread, EndDpc(p) PROVE DpcLists' /\ DpcPlaces'
  BY <1>4, FinishDpcs DEF EndDpc, sharedVars, InDpcs
<1>5. CASE DpcsSame
  <2>1. Waiting' = Waiting /\ \A p : Running(p)' = Running(p) BY <1>5 DEF DpcsSame, Waiting, Running
  <2>2. \A n : Ended(n)' <=> Ended(n) BY <2>1 DEF Ended
  <2>3. DpcLists' BY <1>5 DEF DpcsSame, DpcLists
  <2>4. DpcPlaces' BY <1>5, <2>1, <2>2 DEF DpcsSame, DpcPlaces
  <2> QED BY <2>3, <2>4
<1> QED BY <1>1, <1>2, <1>3, <1>4, <1>5, DpcsFrame, SwapDpcs, NestedSteps, ShutdownDpcs

-----------------------------------------------------------------------------
(* The inductive invariant and what follows from it                         *)

IInv == /\ Control /\ TimerLists /\ DpcLists
        /\ Queues /\ Once /\ Early /\ Apart /\ FiringNotErased
        /\ Counted /\ DpcPlaces

LEMMA InitIInv == Init => IInv
<1> SUFFICES ASSUME Init PROVE IInv OBVIOUS
<1> USE TimerDpcAssumption DEF Init
<1>1. Control BY DEF Control, Thread, EmuPcs, GuestPcs, InDpcs, Arg, NoArg
<1>2. Setters = {} BY DEF Setters, Thread
<1>3. Cardinality(Setters) = 0 BY <1>2, FS_EmptySet
<1>4. TimerLists BY <1>3 DEF TimerLists, Thread
<1>5. DpcLists BY DEF DpcLists, InDpcs
<1>6. Queues /\ Once /\ Early /\ Apart /\ FiringNotErased
  BY DEF Queues, Once, Early, Apart, FiringNotErased, Members
<1>7. Counted
  <2>1. Cardinality(FiredTimes) \in Nat BY FiredTimesFinite
  <2> QED BY <2>1 DEF Counted, Thread
<1>8. DpcPlaces
  <2>1. Waiting = {} /\ \A p \in Thread : Running(p) = {} BY DEF Waiting, Running
  <2>2. 1 .. queued = {} OBVIOUS
  <2>3. \A n \in Entry : done[n] = 0 OBVIOUS
  <2> QED BY <2>1, <2>2, <2>3 DEF DpcPlaces
<1> QED BY <1>1, <1>4, <1>5, <1>6, <1>7, <1>8 DEF IInv

LEMMA StepIInv == IInv /\ [Next]_vars => IInv'
<1> SUFFICES ASSUME IInv, [Next]_vars PROVE IInv' OBVIOUS
<1>1. Control' /\ TimerLists' BY ControlStep, TimerListsStep DEF IInv
<1>2. DpcLists' /\ DpcPlaces' BY DpcPlacesStep DEF IInv
<1>3. Queues' /\ Once' /\ Early' /\ Apart' /\ FiringNotErased'
  BY MovesStep, OnceStep, EarlyStep, ApartStep, KeptStep DEF IInv
<1>4. Counted' BY CountedStep DEF IInv
<1> QED BY <1>1, <1>2, <1>3, <1>4 DEF IInv

LEMMA Invariant == Spec => []IInv
BY InitIInv, StepIInv, PTL DEF Spec

LEMMA IInvTypes == IInv => TypeOK
<1> SUFFICES ASSUME IInv PROVE TypeOK OBVIOUS
<1> USE TimerDpcAssumption DEF IInv
<1>1. /\ now \in 0..MaxTime /\ current_time \in 0..MaxTime /\ memory_ \in BOOLEAN
      /\ signalled \subseteq Event /\ arg \in [Guest -> Arg] /\ ctx0 \in Thread \cup {NoDpc}
      /\ inserted <= MaxDpc
  BY DEF Control
<1>2. pc \in [Thread -> {"idle", "set", "clear", "timers", "fire", "link", "dpcs",
                         "run", "call", "ret", "nested", "stuck"}]
  BY DEF Control, EmuPcs, GuestPcs
<1>3. Members(todo) \subseteq {"timers", "dpcs"} BY DEF Control, Members
<1>4. Members(timer_queue) \cup Members(expired) \subseteq Timers BY DEF TimerLists, Members
<1>5. 1 .. queued \subseteq Entry /\ queued <= MaxEntry BY QueuedRoom
<1>6. Members(dpc_queue) \subseteq Entries
  <2>1. \A i \in DOMAIN dpc_queue : dpc_queue[i] \in DpcEntry BY DEF DpcLists
  <2>2. \A i \in DOMAIN dpc_queue : dpc_queue[i].n \in Entry BY <1>5 DEF DpcPlaces, Waiting
  <2> QED BY <2>1, <2>2 DEF DpcEntry, Entries, Members
<1>7. \A p \in Thread : Members(to_process[p]) \subseteq Entries
  <2> TAKE p \in Thread
  <2>1. \A i \in DOMAIN to_process[p] : to_process[p][i] \in DpcEntry BY DEF DpcLists
  <2>2. \A i \in DOMAIN to_process[p] : to_process[p][i].n \in Entry BY <1>5 DEF DpcPlaces, Running
  <2> QED BY <2>1, <2>2 DEF DpcEntry, Entries, Members
<1>8. Len(settings) <= MaxSet
  <2>1. Setters \subseteq Guest BY DEF Setters
  <2>2. Cardinality(Setters) \in Nat BY <2>1, FS_Subset, FS_CardinalityType
  <2>3. Len(settings) \in Nat BY DEF TimerLists
  <2> QED BY <2>2, <2>3 DEF TimerLists
<1>9. fired \in [Setting -> 0..MaxTime + 1]
  <2>1. \A s \in Setting : fired[s] \in Nat /\ fired[s] <= MaxTime + 1
    BY FiredBound DEF FiredBounded, TimerLists
  <2>2. \A s \in Setting : fired[s] \in 0..MaxTime + 1 BY <2>1
  <2> QED BY <2>2 DEF TimerLists
<1>10. signal_state \in [Timer -> 0..1] BY DEF TimerLists
<1>11. withdrawn \subseteq DOMAIN settings /\ wiped \subseteq DOMAIN settings BY DEF Queues
<1>12. done \in [Entry -> Nat] /\ last \in [Setting -> 0..MaxTime] BY DEF DpcLists, Apart
<1> QED BY <1>1, <1>2, <1>3, <1>4, <1>5, <1>6, <1>7, <1>8, <1>9, <1>10, <1>11, <1>12 DEF TypeOK

LEMMA CountOne ==
  ASSUME NEW D, NEW f, NEW x, \A i, j \in D : f[i] = x /\ f[j] = x => i = j
  PROVE  Cardinality({i \in D : f[i] = x}) = IF \E i \in D : f[i] = x THEN 1 ELSE 0
<1>1. CASE \E i \in D : f[i] = x
  <2>1. PICK i \in D : f[i] = x BY <1>1
  <2>2. {j \in D : f[j] = x} = {i} BY <2>1
  <2> QED BY <1>1, <2>2, FS_Singleton
<1>2. CASE ~ \E i \in D : f[i] = x
  <2>1. {j \in D : f[j] = x} = {} BY <1>2
  <2> QED BY <1>2, <2>1, FS_EmptySet
<1> QED BY <1>1, <1>2

\* The properties count copies; the invariant names places.
LEMMA Counts ==
  ASSUME IInv
  PROVE  /\ \A s \in Setting : Copies(timer_queue, s) = IF s \in Pending THEN 1 ELSE 0
         /\ \A s \in Setting : InFlight(s) = IF s \in Flying THEN 1 ELSE 0
         /\ \A n : Numbered(dpc_queue, n) = IF n \in Waiting THEN 1 ELSE 0
         /\ \A p \in Thread : \A n : Numbered(to_process[p], n) = IF n \in Running(p) THEN 1 ELSE 0
<1> USE DEF IInv
<1>1. ASSUME NEW s \in Setting PROVE Copies(timer_queue, s) = IF s \in Pending THEN 1 ELSE 0
  <2>1. \A i, j \in DOMAIN timer_queue : timer_queue[i].set = s /\ timer_queue[j].set = s => i = j
    BY DEF Queues, Members
  <2> DEFINE f == [i \in DOMAIN timer_queue |-> timer_queue[i].set]
  <2>2. \A i \in DOMAIN timer_queue : f[i] = timer_queue[i].set OBVIOUS
  <2>3. {i \in DOMAIN timer_queue : f[i] = s} = {i \in DOMAIN timer_queue : timer_queue[i].set = s} BY <2>2
  <2>4. (\E i \in DOMAIN timer_queue : f[i] = s) <=> s \in Pending BY <2>2 DEF Pending
  <2> HIDE DEF f
  <2>5. Cardinality({i \in DOMAIN timer_queue : f[i] = s}) = IF \E i \in DOMAIN timer_queue : f[i] = s THEN 1 ELSE 0
    <3>1. \A i, j \in DOMAIN timer_queue : f[i] = s /\ f[j] = s => i = j BY <2>1, <2>2
    <3> QED BY <3>1, CountOne, Zenon
  <2> QED BY <2>3, <2>4, <2>5 DEF Copies
<1>2. ASSUME NEW s \in Setting PROVE InFlight(s) = IF s \in Flying THEN 1 ELSE 0
  <2>1. \A i, j \in DOMAIN expired : expired[i].set = s /\ expired[j].set = s => i = j BY DEF Queues
  <2> DEFINE f == [i \in DOMAIN expired |-> expired[i].set]
  <2>2. \A i \in DOMAIN expired : f[i] = expired[i].set OBVIOUS
  <2>3. {i \in DOMAIN expired : f[i] = s} = {i \in DOMAIN expired : expired[i].set = s} BY <2>2
  <2> HIDE DEF f
  <2>4. Copies(expired, s) = IF \E i \in DOMAIN expired : expired[i].set = s THEN 1 ELSE 0
    <3>1. Cardinality({i \in DOMAIN expired : f[i] = s}) = IF \E i \in DOMAIN expired : f[i] = s THEN 1 ELSE 0
      <4>1. \A i, j \in DOMAIN expired : f[i] = s /\ f[j] = s => i = j BY <2>1, <2>2
      <4> QED BY <4>1, CountOne, Zenon
    <3> QED BY <2>2, <2>3, <3>1 DEF Copies
  <2>5. CASE pc[Emu] = "link"
    <3>1. Head(expired) = expired[1] /\ 1 \in DOMAIN expired
      BY <2>5, TailPlaces DEF TimerLists
    <3>2. CASE expired[1].set = s
      <4>1. s \notin Flying BY <2>1, <2>5, <3>1, <3>2 DEF Flying
      <4>2. Copies(expired, s) = 1 BY <2>4, <3>1, <3>2
      <4> QED BY <2>5, <3>1, <3>2, <4>1, <4>2 DEF InFlight
    <3>3. CASE expired[1].set # s
      <4>1. s \in Flying <=> \E i \in DOMAIN expired : expired[i].set = s BY <2>5, <3>3 DEF Flying
      <4> QED BY <2>4, <2>5, <3>1, <3>3, <4>1 DEF InFlight
    <3> QED BY <3>2, <3>3
  <2>6. CASE pc[Emu] # "link"
    <3>1. s \in Flying <=> \E i \in DOMAIN expired : expired[i].set = s BY <2>6 DEF Flying
    <3> QED BY <2>4, <2>6, <3>1 DEF InFlight
  <2> QED BY <2>5, <2>6
<1>3. ASSUME NEW X, NEW q \in Seq(X), NEW n, \A i, j \in DOMAIN q : q[i].n = q[j].n => i = j
      PROVE  Numbered(q, n) = IF n \in {q[i].n : i \in DOMAIN q} THEN 1 ELSE 0
  <2> DEFINE f == [i \in DOMAIN q |-> q[i].n]
  <2>1. \A i \in DOMAIN q : f[i] = q[i].n OBVIOUS
  <2>2. {i \in DOMAIN q : f[i] = n} = {i \in DOMAIN q : q[i].n = n} BY <2>1
  <2>3. (\E i \in DOMAIN q : f[i] = n) <=> n \in {q[i].n : i \in DOMAIN q} BY <2>1
  <2> HIDE DEF f
  <2>4. Cardinality({i \in DOMAIN q : f[i] = n}) = IF \E i \in DOMAIN q : f[i] = n THEN 1 ELSE 0
    <3>1. \A i, j \in DOMAIN q : f[i] = n /\ f[j] = n => i = j BY <1>3, <2>1
    <3> QED BY <3>1, CountOne, Zenon
  <2> QED BY <2>2, <2>3, <2>4 DEF Numbered
<1>4. \A n : Numbered(dpc_queue, n) = IF n \in Waiting THEN 1 ELSE 0
  BY <1>3 DEF DpcLists, DpcPlaces, Waiting
<1>5. \A p \in Thread : \A n : Numbered(to_process[p], n) = IF n \in Running(p) THEN 1 ELSE 0
  BY <1>3 DEF DpcLists, DpcPlaces, Running
<1> QED BY <1>1, <1>2, <1>4, <1>5

LEMMA IInvOneShot == IInv => OneShotOnce
<1> SUFFICES ASSUME IInv, NEW s \in DOMAIN settings, settings[s].period = 0
             PROVE  fired[s] + InFlight(s) + Copies(timer_queue, s) + (IF s \in withdrawn THEN 1 ELSE 0) = 1
  BY DEF OneShotOnce
<1>1. s \in Setting BY PlacesSet DEF IInv
<1>2. /\ fired[s] \in {0, 1}
      /\ fired[s] = 1 <=> s \notin Flying \cup Pending \cup withdrawn
      /\ s \notin Flying \/ s \notin Pending
      /\ s \notin withdrawn \/ s \notin Flying \cup Pending
  BY DEF IInv, Once
<1>3. /\ Copies(timer_queue, s) = IF s \in Pending THEN 1 ELSE 0
      /\ InFlight(s) = IF s \in Flying THEN 1 ELSE 0
  BY <1>1, Counts
<1> QED BY <1>2, <1>3

\* The property counts a setting's copies; Firings says whether it has one.
Agree == \A s \in Setting : Expiries(s) = Firings(s)

LEMMA IInvAgree == IInv => Agree
<1> SUFFICES ASSUME IInv, NEW s \in Setting PROVE Expiries(s) = Firings(s) BY DEF Agree
<1>1. InFlight(s) = IF s \in Flying THEN 1 ELSE 0 BY Counts
<1> QED BY <1>1 DEF Firings, Expiries

LEMMA StepApart ==
  ASSUME IInv, Agree, Agree', [Next]_vars
  PROVE  \A s \in DOMAIN settings : Expiries(s)' > Expiries(s) =>
           /\ Expiries(s)' = Expiries(s) + 1
           /\ current_time >= settings[s].due
           /\ Expiries(s) > 0 => current_time >= last[s] + settings[s].period
<1>1. DOMAIN settings \subseteq Setting BY PlacesSet DEF IInv
<1>2. \A s \in DOMAIN settings : Expiries(s) = Firings(s) /\ Expiries(s)' = Firings(s)'
  BY <1>1 DEF Agree
<1>3. \A s \in DOMAIN settings : Firings(s) \in Nat BY <1>1 DEF IInv, TimerLists, Firings
<1>4. \A s \in DOMAIN settings : Firings(s)' # Firings(s) => OnTime(s) BY ApartStep DEF IInv
<1> HIDE DEF Firings, Expiries
<1> SUFFICES ASSUME NEW s \in DOMAIN settings, Expiries(s)' > Expiries(s)
             PROVE  /\ Expiries(s)' = Expiries(s) + 1
                    /\ current_time >= settings[s].due
                    /\ Expiries(s) > 0 => current_time >= last[s] + settings[s].period
  OBVIOUS
<1>5. Firings(s)' # Firings(s) BY <1>2, <1>3
<1> QED BY <1>2, <1>4, <1>5 DEF OnTime

LEMMA IInvDpcOnce == IInv => DpcOnce
<1> SUFFICES ASSUME IInv, NEW n \in 1 .. queued
             PROVE  \/ /\ done[n] + Numbered(dpc_queue, n) = 1
                       /\ \A p \in Thread : Numbered(to_process[p], n) = 0
                    \/ /\ done[n] + Numbered(dpc_queue, n) = 0
                       /\ \E p \in Thread : /\ Numbered(to_process[p], n) = 1
                                           /\ \A q \in Thread \ {p} : Numbered(to_process[q], n) = 0
  BY DEF DpcOnce
<1>1. n \in Entry BY QueuedRoom DEF IInv
<1>2. done[n] = IF Ended(n) THEN 1 ELSE 0 BY <1>1 DEF IInv, DpcPlaces
<1>3. /\ Numbered(dpc_queue, n) = IF n \in Waiting THEN 1 ELSE 0
      /\ \A p \in Thread : Numbered(to_process[p], n) = IF n \in Running(p) THEN 1 ELSE 0
  BY Counts
<1>4. CASE \E p \in Thread : n \in Running(p)
  <2>1. PICK p \in Thread : n \in Running(p) BY <1>4
  <2>2. n \notin Waiting BY <2>1 DEF IInv, DpcPlaces
  <2>3. \A q \in Thread \ {p} : n \notin Running(q) BY <2>1 DEF IInv, DpcPlaces
  <2>4. ~Ended(n) BY <2>1 DEF Ended
  <2>5. done[n] = 0 /\ Numbered(dpc_queue, n) = 0 BY <1>2, <1>3, <2>2, <2>4
  <2>6. Numbered(to_process[p], n) = 1 /\ \A q \in Thread \ {p} : Numbered(to_process[q], n) = 0
    BY <1>3, <2>1, <2>3
  <2> QED BY <2>5, <2>6
<1>5. CASE \A p \in Thread : n \notin Running(p)
  <2>1. \A p \in Thread : Numbered(to_process[p], n) = 0 BY <1>3, <1>5
  <2>2. done[n] + Numbered(dpc_queue, n) = 1
    <3>1. CASE n \in Waiting
      <4>1. ~Ended(n) BY <3>1 DEF Ended
      <4> QED BY <1>2, <1>3, <3>1, <4>1
    <3>2. CASE n \notin Waiting
      <4>1. Ended(n) BY <1>5, <3>2 DEF Ended
      <4> QED BY <1>2, <1>3, <3>2, <4>1
    <3> QED BY <3>1, <3>2
  <2> QED BY <2>1, <2>2
<1> QED BY <1>4, <1>5

\* Every reachable state is well typed; in particular no setting fires, and no
\* DPC entry is numbered, beyond the bounds the histories have room for.
THEOREM TypeCorrect == Spec => []TypeOK
BY Invariant, IInvTypes, PTL

\* Each one-shot KeSetTimerEx comes to exactly one end, for any number of
\* timers, guest threads, and calls that race with the emulation thread.
THEOREM OneEnd == Spec => []OneShotOnce
BY Invariant, IInvOneShot, PTL

\* A periodic timer is never early and never catches up in a burst: any pass of
\* process_timer_queue fires a setting at most once, and a whole period or more
\* after the pass before, however many periods late that one was.
THEOREM NoBurst == Spec => FiringsApart
<1>1. IInv /\ Agree /\ Agree' /\ [Next]_vars =>
        [\A s \in DOMAIN settings : Expiries(s)' > Expiries(s) =>
           /\ Expiries(s)' = Expiries(s) + 1
           /\ current_time >= settings[s].due
           /\ Expiries(s) > 0 => current_time >= last[s] + settings[s].period]_vars
  BY StepApart
<1> QED BY <1>1, Invariant, IInvAgree, PTL DEF Spec, FiringsApart

\* A KeSetTimerEx or KeCancelTimer takes back only the firings of settings that
\* are older than it: the clear comes before the new setting is queued.
THEOREM FiringKept == Spec => []FiringNotErased
<1>1. IInv => FiringNotErased BY DEF IInv
<1> QED BY <1>1, Invariant, PTL

\* However many threads run process_dpcs at once, each queued DPC is in one
\* place, and ends once.
THEOREM EachDpcOnce == Spec => []DpcOnce
BY Invariant, IInvDpcOnce, PTL
=============================================================================
