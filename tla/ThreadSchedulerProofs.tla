----------------------- MODULE ThreadSchedulerProofs -----------------------
(***************************************************************************)
(* Proofs about ThreadScheduler, for any number of guest threads, objects  *)
(* and callers.  The steps of the host threads and of the calls are framed *)
(* first: a host step moves its own thread only (HostFrame), a call's step *)
(* its own call only (CallFrame), along the few moves of CallMoves.        *)
(* IInv then says who holds threads_mutex_, what a thread at each point    *)
(* waits for, and that a sleeper whose wait is over has a wake coming.     *)
(* WInv follows a signal_object from its visit of a waiter to the wake and *)
(* on to the write of its state, for waits without a timeout.              *)
(***************************************************************************)
EXTENDS ThreadScheduler, TLAPS

Marks == {"none", "lock", "locking", "visit", "wake", "ready", "unpulse", "write",
          "run", "notify", "join", "mark", "end"}

\* Where a call is about one thread that exists.
OnThread == {"wake", "ready", "write", "run", "notify"}

CallRec == [op : AllCalls \cup {"none"}, at : Marks, t : 1..(N + 1),
            o : Object \cup {NoObject}]

CallsOK ==
  /\ call \in [Caller -> CallRec]
  /\ \A c \in Caller :
       /\ call[c].op \in SignalOps => call[c].o \in Object
       /\ call[c].at \in OnThread => call[c].t <= made

TargetsOK ==
  \A t \in Thread :
    /\ pc[t] \in {"take", "recheck", "mark", "marked", "wait", "clear", "back"}
         => target[t] \in Object
    /\ pc[t] = "take" => seen[t] > 0 \/ Type[target[t]] = "synchronization"

\* Only a thread inside wait_for_object is in state Waiting.
WaitingOK ==
  \A t \in Thread : state[t] = "Waiting" => pc[t] \in {"marked", "wait", "clear", "back"}

\* A thread asleep in its wait, or about to sleep, is not woken yet or has the
\* wake of a stop on its way.
SleepersOK ==
  \A t \in Thread :
    pc[t] = "wait" /\ cv[t] \in {"gap", "asleep"} /\ Pred(t, "wait") => WakeComing(t)

\* Where a call holds threads_mutex_.
Locked(c) ==
  \/ call[c].op \in SignalOps /\ call[c].at \in {"visit", "wake", "ready"}
  \/ call[c].op = "shutdown" /\ call[c].at \in {"mark", "wake"}

LockOK == \A c \in Caller : Locked(c) => lock = c

IInv == TypeOK /\ CallsOK /\ TargetsOK /\ WaitingOK /\ SleepersOK /\ LockOK

-----------------------------------------------------------------------------
(* Who changes what                                                        *)

HostAct(t) == \/ HostStep(t) \/ BatchEnd(t) \/ WaitTimeout(t)
              \/ \E o \in Object, b \in BOOLEAN : KeWait(t, o, b)

CallAct(c) ==
  \/ CallStep(c) \/ ShutdownBegin(c)
  \/ \E o \in Object : Reset(c, o) \/ \E op \in SignalOps : SignalBegin(c, op, o)
  \/ \E t \in Thread : SuspendBegin(c, t) \/ ResumeBegin(c, t) \/ TerminateBegin(c, t)

LEMMA NextSplit ==
  Next => \/ \E t \in Thread, b \in BOOLEAN : Create(t, b)
          \/ \E t \in Thread : HostAct(t)
          \/ \E c \in Caller : CallAct(c)
BY DEF Next, HostAct, CallAct

\* What the threads other than t keep when t moves.
HostKeeps(u) ==
  /\ state'[u] = state[u] /\ wait_object'[u] = wait_object[u]
  /\ wait_signaled'[u] = wait_signaled[u] /\ pc'[u] = pc[u] /\ cv'[u] = cv[u]
  /\ target'[u] = target[u] /\ timed'[u] = timed[u] /\ seen'[u] = seen[u]
  /\ fresh'[u] = fresh[u]

HostFrameOf(t) ==
  /\ UNCHANGED <<made, should_run, suspend_count, wait_result, lock, call>>
  /\ \A u \in Thread \ {t} : HostKeeps(u)

LEMMA HostFrame == ASSUME NEW t \in Thread, TypeOK, HostAct(t) PROVE HostFrameOf(t)
<1> USE DEF HostFrameOf, HostKeeps, TypeOK, hostVars, waitVars
<1>1. CASE CvEnter(t) BY <1>1 DEF CvEnter, InCv
<1>2. CASE CvSleep(t) BY <1>2 DEF CvSleep, InCv
<1>3. CASE StartPass(t) BY <1>3 DEF StartPass, InCv, Goto
<1>4. CASE Loop(t) BY <1>4 DEF Loop, Goto
<1>5. CASE SuspPass(t) BY <1>5 DEF SuspPass, InCv, Goto
<1>6. CASE Enter(t) BY <1>6 DEF Enter, Goto
<1>7. CASE Take(t) BY <1>7 DEF Take, Back, Goto
<1>8. CASE KeRecheck(t) BY <1>8 DEF KeRecheck, Goto
<1>9. CASE KeFallback(t) BY <1>9 DEF KeFallback, Back, Goto
<1>10. CASE Mark(t) BY <1>10 DEF Mark, Goto
<1>11. CASE Block(t) BY <1>11 DEF Block
<1>12. CASE WaitWake(t) BY <1>12 DEF WaitWake, InCv, Goto, Succeeds
<1>13. CASE Clear(t) BY <1>13 DEF Clear, Goto
<1>14. CASE Return(t) BY <1>14 DEF Return, Back, Goto
<1>15. CASE BatchEnd(t) BY <1>15 DEF BatchEnd, Goto
<1>16. CASE WaitTimeout(t) BY <1>16 DEF WaitTimeout, InCv, Goto
<1>17. ASSUME NEW o \in Object, NEW b \in BOOLEAN, KeWait(t, o, b) PROVE HostFrameOf(t)
  BY <1>17 DEF KeWait, Goto
<1> QED BY <1>1, <1>2, <1>3, <1>4, <1>5, <1>6, <1>7, <1>8, <1>9, <1>10, <1>11, <1>12,
    <1>13, <1>14, <1>15, <1>16, <1>17 DEF HostAct, HostStep

CallFrameOf(c) ==
  /\ UNCHANGED <<made, pc, target, timed, seen, wait_object>>
  /\ \A d \in Caller \ {c} : call'[d] = call[d]

LEMMA CallFrame ==
  ASSUME NEW c \in Caller, call \in [Caller -> CallRec], CallAct(c) PROVE CallFrameOf(c)
<1> USE DEF CallFrameOf, CallRec, threadVars, hostVars, waitVars
<1>1. CASE SignalWrite(c) BY <1>1 DEF SignalWrite, Step
<1>2. CASE SignalLock(c) BY <1>2 DEF SignalLock, Step
<1>3. CASE SignalVisit(c) BY <1>3 DEF SignalVisit, Leave, Further, Step, Done
<1>4. CASE SignalWakes(c) BY <1>4 DEF SignalWakes, SignalWake, Notify, Step
<1>5. CASE SignalReady(c) BY <1>5 DEF SignalReady, Leave, Further, Step, Done
<1>6. CASE SignalUnpulse(c) BY <1>6 DEF SignalUnpulse, At, Done
<1>7. CASE SuspendWrite(c) BY <1>7 DEF SuspendWrite, At, Done
<1>8. CASE ResumeReady(c) BY <1>8 DEF ResumeReady, At, Step
<1>9. CASE ResumeRun(c) BY <1>9 DEF ResumeRun, At, Step
<1>10. CASE ResumeNotify(c) BY <1>10 DEF ResumeNotify, At, Done, Notify
<1>11. CASE TerminateWake(c) BY <1>11 DEF TerminateWake, At, SignalWake, Notify, Step
<1>12. CASE TerminateJoin(c) BY <1>12 DEF TerminateJoin, At, Done
<1>13. CASE ShutdownMark(c) BY <1>13 DEF ShutdownMark, At, Step
<1>14. CASE ShutdownWake(c) BY <1>14 DEF ShutdownWake, At, SignalWake, Notify
<1>15. CASE ShutdownUnlock(c) BY <1>15 DEF ShutdownUnlock, At, Step
<1>16. CASE ShutdownJoin(c) BY <1>16 DEF ShutdownJoin, At, Step
<1>17. CASE ShutdownBegin(c) BY <1>17 DEF ShutdownBegin, Begin
<1>18. ASSUME NEW o \in Object, Reset(c, o) PROVE CallFrameOf(c)
  BY <1>18 DEF Reset
<1>19. ASSUME NEW o \in Object, NEW op \in SignalOps, SignalBegin(c, op, o)
       PROVE CallFrameOf(c)
  BY <1>19 DEF SignalBegin, Begin
<1>20. ASSUME NEW t \in Thread, SuspendBegin(c, t) PROVE CallFrameOf(c)
  BY <1>20 DEF SuspendBegin, Begin
<1>21. ASSUME NEW t \in Thread, ResumeBegin(c, t) PROVE CallFrameOf(c)
  BY <1>21 DEF ResumeBegin, Begin
<1>22. ASSUME NEW t \in Thread, TerminateBegin(c, t) PROVE CallFrameOf(c)
  BY <1>22 DEF TerminateBegin, Begin
<1> QED BY <1>1, <1>2, <1>3, <1>4, <1>5, <1>6, <1>7, <1>8, <1>9, <1>10, <1>11, <1>12,
    <1>13, <1>14, <1>15, <1>16, <1>17, <1>18, <1>19, <1>20, <1>21, <1>22 DEF CallAct,
        CallStep

-----------------------------------------------------------------------------
(* What the operators do to the call of c                                  *)

LEMMA StepTo ==
  ASSUME NEW c \in Caller, NEW at \in Marks, call \in [Caller -> CallRec], Step(c, at)
  PROVE  /\ call' \in [Caller -> CallRec]
         /\ call'[c].op = call[c].op /\ call'[c].at = at
         /\ call'[c].t = call[c].t /\ call'[c].o = call[c].o
<1>1. call[c] \in CallRec OBVIOUS
<1>2. call' = [call EXCEPT ![c] = [call[c] EXCEPT !.at = at]] BY DEF Step
<1>3. [call[c] EXCEPT !.at = at] \in CallRec BY <1>1 DEF CallRec
<1>4. call' \in [Caller -> CallRec] /\ call'[c] = [call[c] EXCEPT !.at = at]
  <2> HIDE DEF CallRec
  <2> QED BY <1>2, <1>3
<1> QED BY <1>1, <1>4 DEF CallRec

LEMMA FurtherTo ==
  ASSUME NEW c \in Caller, call \in [Caller -> CallRec], call[c].t <= made, made \in 0 .. N,
         NEW at \in Marks,
         call' = [call EXCEPT ![c].t = @ + 1, ![c].at = at]
  PROVE  /\ call' \in [Caller -> CallRec]
         /\ call'[c].op = call[c].op /\ call'[c].at = at
         /\ call'[c].t = call[c].t + 1 /\ call'[c].o = call[c].o
<1> DEFINE r == [call[c] EXCEPT !.t = @ + 1, !.at = at]
<1>1. call[c] \in CallRec OBVIOUS
<1>2. call' = [call EXCEPT ![c] = r] OBVIOUS
<1>3. r \in CallRec
  <2>1. call[c].t + 1 \in 1 .. (N + 1)
    BY <1>1, ThreadSchedulerAssumption DEF CallRec, ThreadSchedulerAssumption
  <2> QED BY <1>1, <2>1 DEF CallRec
<1>4. r.op = call[c].op /\ r.at = at /\ r.t = call[c].t + 1 /\ r.o = call[c].o
  BY <1>1 DEF CallRec
<1> HIDE DEF r
<1>5. call' \in [Caller -> CallRec] /\ call'[c] = r BY <1>2, <1>3
<1> QED BY <1>4, <1>5

LEMMA DoneTo ==
  ASSUME NEW c \in Caller, call \in [Caller -> CallRec], Done(c)
  PROVE  call' \in [Caller -> CallRec] /\ call'[c] = Idle
<1>1. Idle \in CallRec
  BY ThreadSchedulerAssumption DEF Idle, CallRec, Marks, ThreadSchedulerAssumption
<1> QED BY <1>1 DEF Done

LEMMA BeginTo ==
  ASSUME NEW c \in Caller, call \in [Caller -> CallRec], NEW op, NEW at \in Marks,
         NEW t \in Thread, NEW o \in Object \cup {NoObject}, Begin(c, op, at, t, o)
  PROVE  /\ call' \in [Caller -> CallRec] /\ op \in Calls
         /\ call'[c] = [op |-> op, at |-> at, t |-> t, o |-> o]
<1>1. [op |-> op, at |-> at, t |-> t, o |-> o] \in CallRec
  BY ThreadSchedulerAssumption DEF Begin, CallRec, ThreadSchedulerAssumption, Thread
<1> QED BY <1>1 DEF Begin

\* Where a call of a kind goes next.  Every step of a call is one of these.
Ended(c) == call'[c] = Idle
Went(c, at) == /\ call'[c].op = call[c].op /\ call'[c].at = at
               /\ call'[c].t = call[c].t /\ call'[c].o = call[c].o
Advanced(c, at) == /\ call[c].t <= made
                   /\ call'[c].op = call[c].op /\ call'[c].at = at
                   /\ call'[c].t = call[c].t + 1 /\ call'[c].o = call[c].o
Began(c, op, at, t, o) == op \in Calls /\ call'[c] = [op |-> op, at |-> at, t |-> t, o |-> o]

SignalMove(c) ==
  /\ call[c].op \in SignalOps
  /\ \/ call[c].at = "lock" /\ Went(c, "locking") /\ UNCHANGED lock
     \/ call[c].at = "locking" /\ lock = Nobody /\ lock' = c /\ Went(c, "visit")
     \/ /\ call[c].at = "visit" /\ call[c].t <= made /\ Went(c, "wake")
        /\ state[call[c].t] = "Waiting" /\ wait_object[call[c].t] = call[c].o
        /\ UNCHANGED <<lock, wait_signaled>>
     \/ call[c].at = "wake" /\ Went(c, "ready") /\ UNCHANGED lock
     \/ call[c].at \in {"visit", "ready"} /\ Advanced(c, "visit") /\ UNCHANGED lock
     \/ call[c].at \in {"visit", "ready"} /\ lock' = Nobody /\ (Ended(c) \/ Went(c, "unpulse"))
     \/ call[c].at = "unpulse" /\ Ended(c) /\ UNCHANGED lock

OtherMove(c) ==
  \/ /\ call[c].op = "suspend" /\ call[c].at = "write" /\ Ended(c) /\ UNCHANGED lock
  \/ /\ call[c].op = "resume" /\ UNCHANGED lock
     /\ \/ call[c].at = "ready" /\ Went(c, "run")
        \/ call[c].at = "run" /\ Went(c, "notify")
        \/ call[c].at = "notify" /\ Ended(c)
  \/ /\ call[c].op = "terminate" /\ UNCHANGED lock
     /\ \/ call[c].at = "wake" /\ Went(c, "join")
        \/ call[c].at = "join" /\ Ended(c)
  \/ /\ call[c].op = "shutdown"
     /\ \/ call[c].at = "mark" /\ call[c].t <= made /\ Went(c, "wake") /\ UNCHANGED lock
        \/ call[c].at = "wake" /\ Advanced(c, "mark") /\ UNCHANGED lock
        \/ call[c].at = "mark" /\ Went(c, "join") /\ lock' = Nobody
        \/ call[c].at = "join" /\ Went(c, "end") /\ UNCHANGED lock

NewMove(c) ==
  /\ call[c] = Idle
  /\ \/ \E op \in SignalOps, o \in Object : Began(c, op, "lock", 1, o) /\ UNCHANGED lock
     \/ \E t \in Thread :
          /\ t <= made /\ UNCHANGED lock
          /\ \/ Began(c, "suspend", "write", t, NoObject)
             \/ Began(c, "resume", "ready", t, NoObject)
             \/ Began(c, "terminate", "wake", t, NoObject)
     \/ Began(c, "shutdown", "mark", 1, NoObject) /\ lock = Nobody /\ lock' = c

CallMoves(c) ==
  /\ call' \in [Caller -> CallRec]
  /\ \/ SignalMove(c) \/ OtherMove(c) \/ NewMove(c)
     \/ call[c] = Idle /\ call'[c] = call[c] /\ UNCHANGED lock

LEMMA CallMoved ==
  ASSUME NEW c \in Caller, TypeOK, CallsOK, CallAct(c) PROVE CallMoves(c)
<1>1. call \in [Caller -> CallRec] /\ call[c] \in CallRec BY DEF CallsOK
<1>2. made \in 0 .. N BY DEF TypeOK
<1>3. call[c].at \in OnThread => call[c].t <= made BY DEF CallsOK
<1>4. 1 \in Thread BY ThreadSchedulerAssumption DEF ThreadSchedulerAssumption, Thread
<1>5. {"none", "lock", "locking", "visit", "wake", "ready", "unpulse", "write", "run",
       "notify", "join", "mark", "end"} = Marks BY DEF Marks
<1> USE <1>1, <1>2, <1>3, <1>4, <1>5 DEF CallMoves, OnThread
<1>6. CASE SignalWrite(c) BY <1>6, StepTo DEF SignalWrite, SignalMove, Went
<1>7. CASE SignalLock(c) BY <1>7, StepTo DEF SignalLock, SignalMove, Went
<1>8. CASE SignalVisit(c)
  <2>1. /\ call[c].op \in SignalOps /\ call[c].at = "visit"
        /\ \/ call[c].t > made /\ Leave(c)
           \/ /\ call[c].t <= made /\ Step(c, "wake") /\ UNCHANGED <<lock, wait_signaled>>
              /\ state[call[c].t] = "Waiting" /\ wait_object[call[c].t] = call[c].o
           \/ call[c].t <= made /\ Further(c)
    BY <1>8 DEF SignalVisit, CallRec, threadVars, waitVars
  <2> QED BY <2>1, StepTo, DoneTo, FurtherTo DEF SignalMove, Went, Ended, Advanced, Leave,
      Further
<1>9. CASE SignalWakes(c) BY <1>9, StepTo DEF SignalWakes, SignalMove, Went
<1>10. CASE SignalReady(c)
  BY <1>10, StepTo, DoneTo, FurtherTo DEF SignalReady, SignalMove, Went, Ended, Advanced,
     Leave, Further
<1>11. CASE SignalUnpulse(c)
  BY <1>11, DoneTo DEF SignalUnpulse, SignalMove, SignalOps, At, Ended
<1>12. CASE SuspendWrite(c) BY <1>12, DoneTo DEF SuspendWrite, OtherMove, At, Ended
<1>13. CASE ResumeReady(c) BY <1>13, StepTo DEF ResumeReady, OtherMove, At, Went
<1>14. CASE ResumeRun(c) BY <1>14, StepTo DEF ResumeRun, OtherMove, At, Went
<1>15. CASE ResumeNotify(c) BY <1>15, DoneTo DEF ResumeNotify, OtherMove, At, Ended
<1>16. CASE TerminateWake(c) BY <1>16, StepTo DEF TerminateWake, OtherMove, At, Went
<1>17. CASE TerminateJoin(c) BY <1>17, DoneTo DEF TerminateJoin, OtherMove, At, Ended
<1>18. CASE ShutdownMark(c) BY <1>18, StepTo DEF ShutdownMark, OtherMove, At, Went
<1>19. CASE ShutdownWake(c) BY <1>19, FurtherTo DEF ShutdownWake, OtherMove, At, Advanced
<1>20. CASE ShutdownUnlock(c) BY <1>20, StepTo DEF ShutdownUnlock, OtherMove, At, Went
<1>21. CASE ShutdownJoin(c) BY <1>21, StepTo DEF ShutdownJoin, OtherMove, At, Went
<1>22. CASE ShutdownBegin(c) BY <1>22, BeginTo DEF ShutdownBegin, NewMove, Began, Begin
<1>23. ASSUME NEW o \in Object, Reset(c, o) PROVE CallMoves(c)
  BY <1>23 DEF Reset
<1>24. ASSUME NEW o \in Object, NEW op \in SignalOps, SignalBegin(c, op, o)
       PROVE CallMoves(c)
  BY <1>24, BeginTo DEF SignalBegin, NewMove, Began, Begin
<1>25. ASSUME NEW t \in Thread, SuspendBegin(c, t) PROVE CallMoves(c)
  BY <1>25, BeginTo DEF SuspendBegin, NewMove, Began, Begin
<1>26. ASSUME NEW t \in Thread, ResumeBegin(c, t) PROVE CallMoves(c)
  BY <1>26, BeginTo DEF ResumeBegin, NewMove, Began, Begin
<1>27. ASSUME NEW t \in Thread, TerminateBegin(c, t) PROVE CallMoves(c)
  BY <1>27, BeginTo, ZenonT(40) DEF TerminateBegin, NewMove, Began, Begin
<1> QED BY <1>6, <1>7, <1>8, <1>9, <1>10, <1>11, <1>12, <1>13, <1>14, <1>15, <1>16, <1>17,
    <1>18, <1>19, <1>20, <1>21, <1>22, <1>23, <1>24, <1>25, <1>26, <1>27 DEF CallAct,
        CallStep

LEMMA CallsCall == ASSUME NEW c \in Caller, TypeOK, CallsOK, CallAct(c) PROVE CallsOK'
<1>1. CallMoves(c) /\ CallFrameOf(c) BY CallMoved, CallFrame DEF CallsOK
<1>2. made' = made /\ \A d \in Caller \ {c} : call'[d] = call[d] BY <1>1 DEF CallFrameOf
<1>3. call' \in [Caller -> CallRec] BY <1>1 DEF CallMoves
<1>4. /\ call'[c].op \in SignalOps => call'[c].o \in Object
      /\ call'[c].at \in OnThread => call'[c].t <= made
  <2> USE DEF Went, Ended, Advanced, Began, SignalOps, OnThread, CallsOK, Idle
  <2>1. CASE SignalMove(c) BY <2>1 DEF SignalMove
  <2>2. CASE OtherMove(c) BY <2>2 DEF OtherMove
  <2>3. CASE NewMove(c)
    <3>1. ASSUME NEW op \in SignalOps, NEW o \in Object, Began(c, op, "lock", 1, o)
          PROVE call'[c].o \in Object /\ call'[c].at \notin OnThread
      BY <3>1
    <3>2. ASSUME NEW t \in Thread, NEW op \in {"suspend", "resume", "terminate"}, NEW at,
        t <= made,
                 Began(c, op, at, t, NoObject)
          PROVE call'[c].op \notin SignalOps /\ call'[c].t <= made
      BY <3>2
    <3>3. ASSUME Began(c, "shutdown", "mark", 1, NoObject)
          PROVE call'[c].op \notin SignalOps /\ call'[c].at \notin OnThread
      BY <3>3
    <3> HIDE DEF Began, OnThread, SignalOps
    <3> QED BY <2>3, <3>1, <3>2, <3>3 DEF NewMove
  <2>4. CASE call'[c] = call[c] BY <2>4
  <2> QED BY <1>1, <2>1, <2>2, <2>3, <2>4 DEF CallMoves
<1> QED BY <1>2, <1>3, <1>4 DEF CallsOK

\* threads_mutex_ has one holder: its release by one call is never another's.
LEMMA LockCall == ASSUME NEW c \in Caller, TypeOK, CallsOK, LockOK, CallAct(c) PROVE LockOK'
<1>1. CallMoves(c) /\ CallFrameOf(c) BY CallMoved, CallFrame DEF CallsOK
<1>2. \A d \in Caller \ {c} : call'[d] = call[d] BY <1>1 DEF CallFrameOf
<1>3. Nobody \notin Caller BY ThreadSchedulerAssumption DEF ThreadSchedulerAssumption
<1> USE <1>2, <1>3 DEF Went, Ended, Advanced, Began, SignalOps, Idle, LockOK, Locked
<1>4. CASE SignalMove(c) BY <1>4 DEF SignalMove
<1>5. CASE OtherMove(c) BY <1>5 DEF OtherMove
<1>6. CASE NewMove(c)
  <2>1. ASSUME NEW op, NEW at \in {"lock", "write", "ready", "wake"}, NEW t, NEW o,
      Began(c, op, at, t, o),
               at = "lock" \/ op \in {"suspend", "resume", "terminate"}
        PROVE  ~Locked(c)'
    BY <2>1
  <2>2. \A d \in Caller \ {c} : Locked(d)' => lock = d OBVIOUS
  <2>3. ASSUME Began(c, "shutdown", "mark", 1, NoObject), lock = Nobody, lock' = c
        PROVE LockOK'
    BY <2>2, <2>3
  <2>4. ASSUME ~Locked(c)', UNCHANGED lock PROVE LockOK' BY <2>2, <2>4
  <2> HIDE DEF Began, Locked, LockOK
  <2> QED BY <1>6, <2>1, <2>3, <2>4 DEF NewMove
<1>7. CASE call'[c] = call[c] /\ UNCHANGED lock BY <1>7
<1> QED BY <1>1, <1>4, <1>5, <1>6, <1>7 DEF CallMoves

-----------------------------------------------------------------------------
(* TypeOK                                                                  *)

LEMMA TypeHost == ASSUME NEW t \in Thread, TypeOK, TargetsOK, HostAct(t) PROVE TypeOK'
<1> USE ThreadSchedulerAssumption DEF ThreadSchedulerAssumption, TypeOK, TargetsOK, States,
    Points, Kinds, hostVars, waitVars
<1>1. CASE CvEnter(t) BY <1>1 DEF CvEnter, InCv
<1>2. CASE CvSleep(t) BY <1>2 DEF CvSleep, InCv
<1>3. CASE StartPass(t) BY <1>3 DEF StartPass, InCv, Goto
<1>4. CASE Loop(t) BY <1>4 DEF Loop, Goto
<1>5. CASE SuspPass(t) BY <1>5 DEF SuspPass, InCv, Goto
<1>6. CASE Enter(t) BY <1>6 DEF Enter, Goto
<1>7. CASE Take(t) BY <1>7 DEF Take, Back, Goto
<1>8. CASE KeRecheck(t) BY <1>8 DEF KeRecheck, Goto
<1>9. CASE KeFallback(t) BY <1>9 DEF KeFallback, Back, Goto
<1>10. CASE Mark(t) BY <1>10 DEF Mark, Goto
<1>11. CASE Block(t) BY <1>11 DEF Block
<1>12. CASE WaitWake(t) BY <1>12 DEF WaitWake, InCv, Goto, Succeeds
<1>13. CASE Clear(t) BY <1>13 DEF Clear, Goto
<1>14. CASE Return(t) BY <1>14 DEF Return, Back, Goto
<1>15. CASE BatchEnd(t) BY <1>15 DEF BatchEnd, Goto
<1>16. CASE WaitTimeout(t) BY <1>16 DEF WaitTimeout, InCv, Goto
<1>17. ASSUME NEW o \in Object, NEW b \in BOOLEAN, KeWait(t, o, b) PROVE TypeOK'
  <2>1. pc' \in [Thread -> Points \cup Kinds] BY <1>17 DEF KeWait, Goto
  <2>2. cv' \in [Thread -> {"no", "check", "gap", "asleep"}] BY <1>17 DEF KeWait, Goto
  <2>3. seen' \in [Thread -> 0 .. MaxCount] BY <1>17 DEF KeWait
  <2>4. fresh' \in [Thread -> BOOLEAN]
    <3>1. Signalling(o) \in BOOLEAN BY DEF Signalling
    <3> QED BY <1>17, <3>1 DEF KeWait
  <2>5. target' \in [Thread -> Object \cup {NoObject}] /\ timed' \in [Thread -> BOOLEAN]
    BY <1>17 DEF KeWait
  <2> QED BY <1>17, <2>1, <2>2, <2>3, <2>4, <2>5 DEF KeWait
<1> QED BY <1>1, <1>2, <1>3, <1>4, <1>5, <1>6, <1>7, <1>8, <1>9, <1>10, <1>11, <1>12,
    <1>13, <1>14, <1>15, <1>16, <1>17 DEF HostAct, HostStep

CallTypes ==
  /\ state \in [Thread -> States] /\ should_run \in [Thread -> BOOLEAN]
  /\ suspend_count \in [Thread -> 0..MaxSuspend]
  /\ wait_signaled \in [Thread -> BOOLEAN] /\ wait_result \in [Thread -> {"ok", "stop"}]
  /\ cv \in [Thread -> {"no", "check", "gap", "asleep"}]
  /\ fresh \in [Thread -> BOOLEAN] /\ signal_state \in [Object -> 0..MaxCount]

LEMMA CallTypesCall == ASSUME NEW c \in Caller, TypeOK, CallsOK, CallAct(c) PROVE CallTypes'
<1> USE ThreadSchedulerAssumption DEF ThreadSchedulerAssumption, TypeOK, CallTypes, States,
    threadVars, hostVars, waitVars
<1>1. CASE SignalWrite(c) 
  <2>1. call[c].o \in Object BY <1>1 DEF SignalWrite, CallsOK
  <2>2. 1 \in 0 .. MaxCount OBVIOUS
  <2>3. signal_state' \in [Object -> 0 .. MaxCount] BY <1>1, <2>1, <2>2 DEF SignalWrite
  <2> QED BY <1>1, <2>3 DEF SignalWrite
<1>2. CASE SignalLock(c) BY <1>2 DEF SignalLock
<1>3. CASE SignalVisit(c) BY <1>3 DEF SignalVisit
<1>4. CASE SignalWakes(c) BY <1>4 DEF SignalWakes, SignalWake, Notify
<1>5. CASE SignalReady(c) 
  <2>1. call[c].o \in Object BY <1>5 DEF SignalReady, CallsOK
  <2>2. signal_state' \in [Object -> 0 .. MaxCount] BY <1>5, <2>1 DEF SignalReady
  <2>3. state' \in [Thread -> States] BY <1>5 DEF SignalReady
  <2> QED BY <1>5, <2>2, <2>3 DEF SignalReady
<1>6. CASE SignalUnpulse(c) 
  <2>1. call[c].o \in Object BY <1>6 DEF SignalUnpulse, At, CallsOK, SignalOps
  <2>2. signal_state' \in [Object -> 0 .. MaxCount]
    <3>1. 0 \in 0 .. MaxCount OBVIOUS
    <3> QED BY <1>6, <2>1, <3>1 DEF SignalUnpulse
  <2> QED BY <1>6, <2>2 DEF SignalUnpulse
<1>7. CASE SuspendWrite(c) BY <1>7 DEF SuspendWrite
<1>8. CASE ResumeReady(c) BY <1>8 DEF ResumeReady
<1>9. CASE ResumeRun(c) BY <1>9 DEF ResumeRun
<1>10. CASE ResumeNotify(c) BY <1>10 DEF ResumeNotify, Notify
<1>11. CASE TerminateWake(c) BY <1>11 DEF TerminateWake, SignalWake, Notify
<1>12. CASE TerminateJoin(c) BY <1>12 DEF TerminateJoin
<1>13. CASE ShutdownMark(c) BY <1>13 DEF ShutdownMark
<1>14. CASE ShutdownWake(c) BY <1>14 DEF ShutdownWake, SignalWake, Notify
<1>15. CASE ShutdownUnlock(c) BY <1>15 DEF ShutdownUnlock
<1>16. CASE ShutdownJoin(c) BY <1>16 DEF ShutdownJoin
<1>17. CASE ShutdownBegin(c) BY <1>17 DEF ShutdownBegin
<1>18. ASSUME NEW o \in Object, Reset(c, o) PROVE CallTypes'
  BY <1>18 DEF Reset
<1>19. ASSUME NEW o \in Object, NEW op \in SignalOps, SignalBegin(c, op, o) PROVE CallTypes'
  BY <1>19 DEF SignalBegin
<1>20. ASSUME NEW t \in Thread, SuspendBegin(c, t) PROVE CallTypes'
  BY <1>20 DEF SuspendBegin
<1>21. ASSUME NEW t \in Thread, ResumeBegin(c, t) PROVE CallTypes'
  BY <1>21 DEF ResumeBegin
<1>22. ASSUME NEW t \in Thread, TerminateBegin(c, t) PROVE CallTypes'
  BY <1>22 DEF TerminateBegin
<1> QED BY <1>1, <1>2, <1>3, <1>4, <1>5, <1>6, <1>7, <1>8, <1>9, <1>10, <1>11, <1>12,
    <1>13, <1>14, <1>15, <1>16, <1>17, <1>18, <1>19, <1>20, <1>21, <1>22 DEF CallAct,
        CallStep

LEMMA TypeCall == ASSUME NEW c \in Caller, TypeOK, CallsOK, CallAct(c) PROVE TypeOK'
<1>1. CallTypes' /\ CallMoves(c) /\ CallFrameOf(c)
  BY CallTypesCall, CallMoved, CallFrame DEF CallsOK
<1>2. lock' \in Caller \cup {Nobody}
  BY <1>1 DEF CallMoves, SignalMove, OtherMove, NewMove, TypeOK
<1>3. \A d \in Caller : call'[d].t \in 1 .. (N + 1) BY <1>1 DEF CallMoves, CallRec
<1> QED BY <1>1, <1>2, <1>3 DEF TypeOK, CallTypes, CallFrameOf

LEMMA TypeCreate ==
  ASSUME NEW t \in Thread, NEW b \in BOOLEAN, TypeOK, Create(t, b)
  PROVE  TypeOK'
<1> USE ThreadSchedulerAssumption DEF ThreadSchedulerAssumption
<1>1. made' \in 0 .. N BY DEF Create, TypeOK, Thread
<1>2. /\ state' \in [Thread -> States] /\ should_run' \in [Thread -> BOOLEAN]
      /\ suspend_count' \in [Thread -> 0..MaxSuspend]
  BY DEF Create, TypeOK, States
<1>3. pc' \in [Thread -> Points \cup Kinds] /\ cv' \in [Thread -> {"no", "check", "gap",
    "asleep"}]
  BY DEF Create, Goto, TypeOK, Kinds
<1> QED BY <1>1, <1>2, <1>3 DEF Create, TypeOK, waitVars

-----------------------------------------------------------------------------
(* The waits of a host thread                                              *)

LEMMA CreateFrame ==
  ASSUME NEW t \in Thread, NEW b \in BOOLEAN, TypeOK, Create(t, b)
  PROVE  /\ t = made + 1 /\ made' = t /\ UNCHANGED <<target, timed, seen, waitVars, fresh, signal_state, lock, call>>
         /\ pc'[t] = "start" /\ state'[t] # "Waiting"
         /\ \A u \in Thread \ {t} : /\ pc'[u] = pc[u] /\ state'[u] = state[u] /\ cv'[u] = cv[u]
                                    /\ should_run'[u] = should_run[u]
BY DEF Create, Goto, TypeOK

Target(t) == pc[t] \in {"take", "recheck", "mark", "marked", "wait", "clear", "back"}
               => target[t] \in Object
Seen(t) == pc[t] = "take" => seen[t] > 0 \/ Type[target[t]] = "synchronization"

LEMMA TargetsHost ==
  ASSUME NEW t \in Thread, TypeOK, TargetsOK, HostAct(t)
  PROVE  (Target(t) /\ Seen(t))'
<1> USE DEF TypeOK, TargetsOK, Target, Seen, Kinds, hostVars, waitVars
<1>1. CASE CvEnter(t) BY <1>1 DEF CvEnter, InCv
<1>2. CASE CvSleep(t) BY <1>2 DEF CvSleep, InCv
<1>3. CASE StartPass(t) BY <1>3 DEF StartPass, InCv, Goto
<1>4. CASE Loop(t) BY <1>4 DEF Loop, Goto
<1>5. CASE SuspPass(t) BY <1>5 DEF SuspPass, InCv, Goto
<1>6. CASE Enter(t) BY <1>6 DEF Enter, Goto
<1>7. CASE Take(t) BY <1>7 DEF Take, Back, Goto
<1>8. CASE KeRecheck(t) BY <1>8 DEF KeRecheck, Goto
<1>9. CASE KeFallback(t) BY <1>9 DEF KeFallback, Back, Goto
<1>10. CASE Mark(t) BY <1>10 DEF Mark, Goto
<1>11. CASE Block(t) BY <1>11 DEF Block
<1>12. CASE WaitWake(t) BY <1>12 DEF WaitWake, InCv, Goto, Succeeds
<1>13. CASE Clear(t) BY <1>13 DEF Clear, Goto
<1>14. CASE Return(t) BY <1>14 DEF Return, Back, Goto
<1>15. CASE BatchEnd(t) BY <1>15 DEF BatchEnd, Goto
<1>16. CASE WaitTimeout(t) BY <1>16 DEF WaitTimeout, InCv, Goto
<1>17. ASSUME NEW o \in Object, NEW b \in BOOLEAN, KeWait(t, o, b)
       PROVE (Target(t) /\ Seen(t))'
  BY <1>17 DEF KeWait, Goto
<1> QED BY <1>1, <1>2, <1>3, <1>4, <1>5, <1>6, <1>7, <1>8, <1>9, <1>10, <1>11, <1>12,
    <1>13, <1>14, <1>15, <1>16, <1>17 DEF HostAct, HostStep

LEMMA WaitingHost ==
  ASSUME NEW t \in Thread, TypeOK, WaitingOK, HostAct(t)
  PROVE  (state[t] = "Waiting" => pc[t] \in {"marked", "wait", "clear", "back"})'
<1> USE DEF TypeOK, WaitingOK, Kinds, hostVars, waitVars
<1>1. CASE CvEnter(t) BY <1>1 DEF CvEnter, InCv
<1>2. CASE CvSleep(t) BY <1>2 DEF CvSleep, InCv
<1>3. CASE StartPass(t) BY <1>3 DEF StartPass, InCv, Goto
<1>4. CASE Loop(t) BY <1>4 DEF Loop, Goto
<1>5. CASE SuspPass(t) BY <1>5 DEF SuspPass, InCv, Goto
<1>6. CASE Enter(t) BY <1>6 DEF Enter, Goto
<1>7. CASE Take(t) BY <1>7 DEF Take, Back, Goto
<1>8. CASE KeRecheck(t) BY <1>8 DEF KeRecheck, Goto
<1>9. CASE KeFallback(t) BY <1>9 DEF KeFallback, Back, Goto
<1>10. CASE Mark(t) BY <1>10 DEF Mark, Goto
<1>11. CASE Block(t) BY <1>11 DEF Block
<1>12. CASE WaitWake(t) BY <1>12 DEF WaitWake, InCv, Goto, Succeeds
<1>13. CASE Clear(t) BY <1>13 DEF Clear, Goto
<1>14. CASE Return(t) BY <1>14 DEF Return, Back, Goto
<1>15. CASE BatchEnd(t) BY <1>15 DEF BatchEnd, Goto
<1>16. CASE WaitTimeout(t) BY <1>16 DEF WaitTimeout, InCv, Goto
<1>17. ASSUME NEW o \in Object, NEW b \in BOOLEAN, KeWait(t, o, b)
       PROVE (state[t] = "Waiting" => pc[t] \in {"marked", "wait", "clear", "back"})'
  BY <1>17 DEF KeWait, Goto
<1> QED BY <1>1, <1>2, <1>3, <1>4, <1>5, <1>6, <1>7, <1>8, <1>9, <1>10, <1>11, <1>12,
    <1>13, <1>14, <1>15, <1>16, <1>17 DEF HostAct, HostStep

LEMMA SleepersHost ==
  ASSUME NEW t \in Thread, TypeOK, SleepersOK, HostAct(t)
  PROVE  (pc[t] = "wait" /\ cv[t] \in {"gap", "asleep"} /\ Pred(t,
      "wait") => WakeComing(t))'
<1> USE DEF TypeOK, SleepersOK, Kinds, Pred, WakeComing, At, hostVars, waitVars
<1>1. CASE CvEnter(t) BY <1>1 DEF CvEnter, InCv
<1>2. CASE CvSleep(t) BY <1>2 DEF CvSleep, InCv
<1>3. CASE StartPass(t) BY <1>3 DEF StartPass, InCv, Goto
<1>4. CASE Loop(t) BY <1>4 DEF Loop, Goto
<1>5. CASE SuspPass(t) BY <1>5 DEF SuspPass, InCv, Goto
<1>6. CASE Enter(t) BY <1>6 DEF Enter, Goto
<1>7. CASE Take(t) BY <1>7 DEF Take, Back, Goto
<1>8. CASE KeRecheck(t) BY <1>8 DEF KeRecheck, Goto
<1>9. CASE KeFallback(t) BY <1>9 DEF KeFallback, Back, Goto
<1>10. CASE Mark(t) BY <1>10 DEF Mark, Goto
<1>11. CASE Block(t) BY <1>11 DEF Block
<1>12. CASE WaitWake(t) BY <1>12 DEF WaitWake, InCv, Goto, Succeeds
<1>13. CASE Clear(t) BY <1>13 DEF Clear, Goto
<1>14. CASE Return(t) BY <1>14 DEF Return, Back, Goto
<1>15. CASE BatchEnd(t) BY <1>15 DEF BatchEnd, Goto
<1>16. CASE WaitTimeout(t) BY <1>16 DEF WaitTimeout, InCv, Goto
<1>17. ASSUME NEW o \in Object, NEW b \in BOOLEAN, KeWait(t, o, b)
       PROVE (pc[t] = "wait" /\ cv[t] \in {"gap", "asleep"} /\ Pred(t,
           "wait") => WakeComing(t))'
  BY <1>17 DEF KeWait, Goto
<1> QED BY <1>1, <1>2, <1>3, <1>4, <1>5, <1>6, <1>7, <1>8, <1>9, <1>10, <1>11, <1>12,
    <1>13, <1>14, <1>15, <1>16, <1>17 DEF HostAct, HostStep

LEMMA WaitingCall == ASSUME NEW c \in Caller, TypeOK, WaitingOK, CallAct(c) PROVE WaitingOK'
<1> USE DEF TypeOK, WaitingOK
<1>1. CASE SignalWrite(c) BY <1>1 DEF SignalWrite, hostVars, threadVars
<1>2. CASE SignalLock(c) BY <1>2 DEF SignalLock, hostVars, threadVars
<1>3. CASE SignalVisit(c) BY <1>3 DEF SignalVisit, hostVars, threadVars
<1>4. CASE SignalWakes(c) BY <1>4 DEF SignalWakes, hostVars
<1>5. CASE SignalReady(c) BY <1>5 DEF SignalReady, hostVars
<1>6. CASE SignalUnpulse(c) BY <1>6 DEF SignalUnpulse, hostVars, threadVars
<1>7. CASE SuspendWrite(c) BY <1>7 DEF SuspendWrite, hostVars
<1>8. CASE ResumeReady(c) BY <1>8 DEF ResumeReady, hostVars
<1>9. CASE ResumeRun(c) BY <1>9 DEF ResumeRun, hostVars
<1>10. CASE ResumeNotify(c) BY <1>10 DEF ResumeNotify, hostVars
<1>11. CASE TerminateWake(c) BY <1>11 DEF TerminateWake, hostVars
<1>12. CASE TerminateJoin(c) BY <1>12 DEF TerminateJoin, hostVars, threadVars
<1>13. CASE ShutdownMark(c) BY <1>13 DEF ShutdownMark, hostVars
<1>14. CASE ShutdownWake(c) BY <1>14 DEF ShutdownWake, hostVars
<1>15. CASE ShutdownUnlock(c) BY <1>15 DEF ShutdownUnlock, hostVars, threadVars
<1>16. CASE ShutdownJoin(c) BY <1>16 DEF ShutdownJoin, hostVars, threadVars
<1>17. CASE ShutdownBegin(c) BY <1>17 DEF ShutdownBegin, hostVars, threadVars
<1>18. ASSUME NEW o \in Object, Reset(c, o) PROVE WaitingOK'
  BY <1>18 DEF Reset, hostVars, threadVars
<1>19. ASSUME NEW o \in Object, NEW op \in SignalOps, SignalBegin(c, op, o) PROVE WaitingOK'
  BY <1>19 DEF SignalBegin, hostVars, threadVars
<1>20. ASSUME NEW t \in Thread, SuspendBegin(c, t) PROVE WaitingOK'
  BY <1>20 DEF SuspendBegin, hostVars
<1>21. ASSUME NEW t \in Thread, ResumeBegin(c, t) PROVE WaitingOK'
  BY <1>21 DEF ResumeBegin, hostVars
<1>22. ASSUME NEW t \in Thread, TerminateBegin(c, t) PROVE WaitingOK'
  BY <1>22 DEF TerminateBegin, hostVars
<1> QED BY <1>1, <1>2, <1>3, <1>4, <1>5, <1>6, <1>7, <1>8, <1>9, <1>10, <1>11, <1>12,
    <1>13, <1>14, <1>15, <1>16, <1>17, <1>18, <1>19, <1>20, <1>21, <1>22 DEF CallAct,
        CallStep

\* No call but a terminate or a shutdown past its wake takes a wake off its way,
\* and a wake leaves its thread neither asleep nor in the gap before it.
LEMMA SleepersCall ==
  ASSUME NEW c \in Caller, TypeOK, CallsOK, SleepersOK, CallAct(c) PROVE SleepersOK'
<1> DEFINE Sleeper(t) == pc[t] = "wait" /\ cv[t] \in {"gap", "asleep"} /\ Pred(t, "wait")
<1>1. \A d \in Caller \ {c} : call'[d] = call[d] BY CallFrame DEF CallFrameOf, CallsOK
<1>2. call' \in [Caller -> CallRec] /\ call[c] \in CallRec
  BY CallMoved DEF CallMoves, CallsOK
<1>3. \A t \in Thread : cv'[t] \in {"gap", "asleep"} => cv'[t] = cv[t]
  <2>1. CASE cv' = cv BY <2>1
  <2>2. ASSUME NEW t, Notify(t)
        PROVE \A u \in Thread : cv'[u] \in {"gap", "asleep"} => cv'[u] = cv[u]
    BY <2>2 DEF Notify, TypeOK
  <2>3. cv' = cv \/ \E t : Notify(t)
    <3> USE DEF hostVars, threadVars
<3>1. CASE SignalWrite(c) BY <3>1 DEF SignalWrite
<3>2. CASE SignalLock(c) BY <3>2 DEF SignalLock
<3>3. CASE SignalVisit(c) BY <3>3 DEF SignalVisit
<3>4. CASE SignalWakes(c) BY <3>4 DEF SignalWakes, SignalWake
<3>5. CASE SignalReady(c) BY <3>5 DEF SignalReady
<3>6. CASE SignalUnpulse(c) BY <3>6 DEF SignalUnpulse
<3>7. CASE SuspendWrite(c) BY <3>7 DEF SuspendWrite
<3>8. CASE ResumeReady(c) BY <3>8 DEF ResumeReady
<3>9. CASE ResumeRun(c) BY <3>9 DEF ResumeRun
<3>10. CASE ResumeNotify(c) BY <3>10 DEF ResumeNotify
<3>11. CASE TerminateWake(c) BY <3>11 DEF TerminateWake, SignalWake
<3>12. CASE TerminateJoin(c) BY <3>12 DEF TerminateJoin
<3>13. CASE ShutdownMark(c) BY <3>13 DEF ShutdownMark
<3>14. CASE ShutdownWake(c) BY <3>14 DEF ShutdownWake, SignalWake
<3>15. CASE ShutdownUnlock(c) BY <3>15 DEF ShutdownUnlock
<3>16. CASE ShutdownJoin(c) BY <3>16 DEF ShutdownJoin
<3>17. CASE ShutdownBegin(c) BY <3>17 DEF ShutdownBegin
<3>18. ASSUME NEW o \in Object, Reset(c, o) PROVE cv' = cv \/ \E u : Notify(u)
  BY <3>18 DEF Reset
<3>19. ASSUME NEW o \in Object, NEW op \in SignalOps, SignalBegin(c, op, o)
       PROVE cv' = cv \/ \E u : Notify(u)
  BY <3>19 DEF SignalBegin
<3>20. ASSUME NEW t \in Thread, SuspendBegin(c, t) PROVE cv' = cv \/ \E u : Notify(u)
  BY <3>20 DEF SuspendBegin
<3>21. ASSUME NEW t \in Thread, ResumeBegin(c, t) PROVE cv' = cv \/ \E u : Notify(u)
  BY <3>21 DEF ResumeBegin
<3>22. ASSUME NEW t \in Thread, TerminateBegin(c, t) PROVE cv' = cv \/ \E u : Notify(u)
  BY <3>22 DEF TerminateBegin
<3> QED BY <3>1, <3>2, <3>3, <3>4, <3>5, <3>6, <3>7, <3>8, <3>9, <3>10, <3>11, <3>12,
    <3>13, <3>14, <3>15, <3>16, <3>17, <3>18, <3>19, <3>20, <3>21, <3>22 DEF CallAct,
        CallStep
  <2> QED BY <2>1, <2>2, <2>3
<1>4. pc' = pc BY CallFrame DEF CallFrameOf, CallsOK
<1>5. ASSUME NEW u \in Thread, Sleeper(u)'
      PROVE (Sleeper(u) \/ WakeComing(u)') /\ (WakeComing(u) => WakeComing(u)')
  <2>1. pc[u] = "wait" /\ cv'[u] = cv[u] /\ cv[u] \in {"gap", "asleep"} BY <1>3, <1>4, <1>5
  <2>2. ASSUME UNCHANGED <<wait_signaled, should_run>>
        PROVE Sleeper(u) BY <1>5, <2>1, <2>2 DEF Pred
  <2>3. ASSUME ~(At(c, "terminate", "wake") \/ At(c, "shutdown", "wake"))
        PROVE WakeComing(u) => WakeComing(u)'
    BY <1>1, <2>3 DEF WakeComing, At
  <2>4. ASSUME SignalWake(call[c].t, "ok") \/ SignalWake(call[c].t, "stop")
        PROVE call[c].t # u /\ wait_signaled'[u] = wait_signaled[u]
    BY <1>3, <2>1, <2>4 DEF SignalWake, Notify, MutexFree, TypeOK
  <2>5. ASSUME call[c].t # u
        PROVE WakeComing(u) => WakeComing(u)' BY <1>1, <2>5 DEF WakeComing, At
  <2> USE DEF hostVars, threadVars, waitVars
  <2>6. CASE SignalWrite(c) BY <2>6, <2>2, <2>3 DEF SignalWrite, At, SignalOps
  <2>7. CASE SignalLock(c) BY <2>7, <2>2, <2>3 DEF SignalLock, At, SignalOps
  <2>8. CASE SignalVisit(c) BY <2>8, <2>2, <2>3 DEF SignalVisit, At, SignalOps
  <2>9. CASE SignalWakes(c)
    BY <2>9, <1>5, <2>1, <2>3, <2>4 DEF SignalWakes, At, SignalOps, Pred
  <2>10. CASE SignalReady(c) BY <2>10, <2>2, <2>3 DEF SignalReady, At, SignalOps
  <2>11. CASE SignalUnpulse(c) BY <2>11, <2>2, <2>3 DEF SignalUnpulse, At, SignalOps
  <2>12. CASE SuspendWrite(c) BY <2>12, <2>2, <2>3 DEF SuspendWrite, At, SignalOps
  <2>13. CASE ResumeReady(c) BY <2>13, <2>2, <2>3 DEF ResumeReady, At, SignalOps
  <2>14. CASE ResumeRun(c) BY <2>14, <1>5, <2>1, <2>3 DEF ResumeRun, At, Pred, TypeOK
  <2>15. CASE ResumeNotify(c) BY <2>15, <2>2, <2>3 DEF ResumeNotify, At, SignalOps
  <2>16. CASE TerminateWake(c) BY <2>16, <1>5, <2>1, <2>4, <2>5 DEF TerminateWake, Pred
  <2>17. CASE TerminateJoin(c) BY <2>17, <2>2, <2>3 DEF TerminateJoin, At, SignalOps
  <2>18. CASE ShutdownMark(c) 
      <4>1. CASE call[c].t = u
        <5>1. "wake" \in Marks /\ Step(c, "wake") BY <2>18 DEF ShutdownMark, Marks
        <5>2. call'[c].op = call[c].op /\ call'[c].at = "wake" /\ call'[c].t = call[c].t
          BY <5>1, StepTo DEF CallsOK
        <5>3. WakeComing(u)' BY <2>18, <4>1, <5>2 DEF ShutdownMark, At, WakeComing
        <5> QED BY <5>3
      <4>2. CASE call[c].t # u
        BY <2>18, <4>2, <1>5, <2>1, <2>5 DEF ShutdownMark, Pred, TypeOK
      <4> QED BY <4>1, <4>2
  <2>19. CASE ShutdownWake(c) BY <2>19, <1>5, <2>1, <2>4, <2>5 DEF ShutdownWake, Pred
  <2>20. CASE ShutdownUnlock(c) BY <2>20, <2>2, <2>3 DEF ShutdownUnlock, At, SignalOps
  <2>21. CASE ShutdownJoin(c) BY <2>21, <2>2, <2>3 DEF ShutdownJoin, At, SignalOps
  <2>22. CASE ShutdownBegin(c)
    BY <2>22, <2>2, <2>3 DEF ShutdownBegin, At, SignalOps, Begin, Idle
  <2>23. ASSUME NEW o \in Object, Reset(c, o)
         PROVE (Sleeper(u) \/ WakeComing(u)') /\ (WakeComing(u) => WakeComing(u)')
    BY <2>23, <2>2, <2>3 DEF Reset, At, SignalOps, Begin, Idle
  <2>24. ASSUME NEW o \in Object, NEW op \in SignalOps, SignalBegin(c, op, o)
         PROVE (Sleeper(u) \/ WakeComing(u)') /\ (WakeComing(u) => WakeComing(u)')
    BY <2>24, <2>2, <2>3 DEF SignalBegin, At, SignalOps, Begin, Idle
  <2>25. ASSUME NEW t \in Thread, SuspendBegin(c, t)
         PROVE (Sleeper(u) \/ WakeComing(u)') /\ (WakeComing(u) => WakeComing(u)')
    BY <2>25, <2>2, <2>3 DEF SuspendBegin, At, SignalOps, Begin, Idle
  <2>26. ASSUME NEW t \in Thread, ResumeBegin(c, t)
         PROVE (Sleeper(u) \/ WakeComing(u)') /\ (WakeComing(u) => WakeComing(u)')
    BY <2>26, <2>2, <2>3 DEF ResumeBegin, At, SignalOps, Begin, Idle
  <2>27. ASSUME NEW t \in Thread, TerminateBegin(c, t)
         PROVE (Sleeper(u) \/ WakeComing(u)') /\ (WakeComing(u) => WakeComing(u)')
    
      <4>0. "wake" \in Marks BY DEF Marks
      <4>1. CASE t = u
        BY <2>27, <4>0, <4>1, <1>2, <2>3, BeginTo DEF TerminateBegin, At, WakeComing,
           Begin, Idle, CallsOK
      <4>2. CASE t # u
        BY <2>27, <4>2, <1>5, <2>1, <2>3 DEF TerminateBegin, Pred, TypeOK, Begin, Idle, At
      <4> QED BY <4>1, <4>2
  <2> QED BY <2>6, <2>7, <2>8, <2>9, <2>10, <2>11, <2>12, <2>13, <2>14, <2>15, <2>16,
      <2>17, <2>18, <2>19, <2>20, <2>21, <2>22, <2>23, <2>24, <2>25, <2>26, <2>27
          DEF CallAct, CallStep
<1> QED BY <1>5 DEF SleepersOK

-----------------------------------------------------------------------------
(* The inductive invariant                                                 *)

LEMMA InitIInv == Init => IInv
<1> SUFFICES ASSUME Init PROVE IInv OBVIOUS
<1> USE ThreadSchedulerAssumption DEF ThreadSchedulerAssumption, Init
<1>1. TypeOK
  <2>1. 1 \in 1 .. (N + 1) /\ 0 \in 0 .. N OBVIOUS
  <2> QED BY <2>1 DEF TypeOK, States, Points, Idle
<1>2. CallsOK
  <2>1. Idle \in CallRec BY DEF Idle, CallRec, Marks
  <2> QED BY <2>1 DEF CallsOK, Idle, SignalOps, OnThread
<1>3. TargetsOK /\ WaitingOK /\ SleepersOK BY DEF TargetsOK, WaitingOK, SleepersOK
<1>4. LockOK BY DEF LockOK, Locked, Idle, SignalOps
<1> QED BY <1>1, <1>2, <1>3, <1>4 DEF IInv

LEMMA CreateIInv ==
  ASSUME NEW t \in Thread, NEW b \in BOOLEAN, IInv, Create(t, b) PROVE IInv'
<1>1. TypeOK' BY TypeCreate DEF IInv
<1> USE CreateFrame DEF waitVars
<1>2. CallsOK'
  <2>1. made <= made' /\ \A c \in Caller : call[c].t \in Nat
    BY ThreadSchedulerAssumption DEF IInv, CallsOK, CallRec, TypeOK,
       ThreadSchedulerAssumption
  <2>2. made \in Nat BY DEF IInv, TypeOK
  <2> QED BY <2>1, <2>2 DEF IInv, CallsOK
<1>3. TargetsOK' /\ WaitingOK' BY DEF IInv, TargetsOK, WaitingOK
<1>4. SleepersOK' BY DEF IInv, SleepersOK, Pred, WakeComing, At
<1>5. LockOK' BY DEF IInv, LockOK, Locked
<1> QED BY <1>1, <1>2, <1>3, <1>4, <1>5 DEF IInv

LEMMA HostIInv == ASSUME NEW t \in Thread, IInv, HostAct(t) PROVE IInv'
<1>0. HostFrameOf(t) BY HostFrame DEF IInv
<1>1. TypeOK' BY TypeHost DEF IInv
<1>2. CallsOK' /\ LockOK' BY <1>0 DEF HostFrameOf, IInv, CallsOK, LockOK, Locked
<1>3. TargetsOK'
  <2>1. (Target(t) /\ Seen(t))' BY TargetsHost DEF IInv
  <2> QED BY <1>0, <2>1 DEF HostFrameOf, HostKeeps, IInv, TargetsOK, Target, Seen
<1>4. WaitingOK'
  <2>1. (state[t] = "Waiting" => pc[t] \in {"marked", "wait", "clear", "back"})'
    BY WaitingHost DEF IInv
  <2> QED BY <1>0, <2>1 DEF HostFrameOf, HostKeeps, IInv, WaitingOK
<1>5. SleepersOK'
  <2>1. (pc[t] = "wait" /\ cv[t] \in {"gap", "asleep"} /\ Pred(t, "wait") => WakeComing(t))'
    BY SleepersHost DEF IInv
  <2> QED BY <1>0, <2>1 DEF HostFrameOf, HostKeeps, IInv, SleepersOK, Pred, WakeComing, At
<1> QED BY <1>1, <1>2, <1>3, <1>4, <1>5 DEF IInv

LEMMA CallIInv == ASSUME NEW c \in Caller, IInv, CallAct(c) PROVE IInv'
<1>1. TypeOK' /\ CallsOK' /\ LockOK' BY TypeCall, CallsCall, LockCall DEF IInv
<1>2. TargetsOK' BY CallFrame DEF CallFrameOf, IInv, CallsOK, TargetsOK
<1>3. WaitingOK' /\ SleepersOK' BY WaitingCall, SleepersCall DEF IInv
<1> QED BY <1>1, <1>2, <1>3 DEF IInv

LEMMA Inductive == IInv /\ [Next]_vars => IInv'
<1> SUFFICES ASSUME IInv, [Next]_vars PROVE IInv' OBVIOUS
<1>1. CASE UNCHANGED vars
  BY <1>1 DEF vars, hostVars, waitVars, IInv, TypeOK, CallsOK, TargetsOK, WaitingOK,
     SleepersOK,
              Pred, WakeComing, At, LockOK, Locked
<1>2. CASE Next BY <1>2, NextSplit, CreateIInv, HostIInv, CallIInv
<1> QED BY <1>1, <1>2

LEMMA Invariant == Spec => []IInv
BY InitIInv, Inductive, PTL DEF Spec

\* Every reachable state is well typed: no suspend count, semaphore or thread
\* number leaves its bound.
THEOREM TypeCorrect == Spec => []TypeOK
<1>1. IInv => TypeOK BY DEF IInv
<1> QED BY <1>1, Invariant, PTL

\* block_until_signaled never sleeps through a wake, for any number of guest
\* threads, objects and callers, and whatever the calls they make.
THEOREM NoLostWake == Spec => []NoSleepOverWake
<1>1. IInv => NoSleepOverWake BY DEF IInv, SleepersOK, NoSleepOverWake, InCv
<1> QED BY <1>1, Invariant, PTL

\* The branch of the main loop for state Waiting, in which a thread would block
\* with nobody to wake it, is dead code.
THEOREM LoopRuns == Spec => []LoopNeverWaits
<1>1. IInv => LoopNeverWaits BY DEF IInv, WaitingOK, LoopNeverWaits
<1> QED BY <1>1, Invariant, PTL

-----------------------------------------------------------------------------
(* Waits without a timeout, of threads that nobody resumes.  A timeout or a *)
(* resumption lets a thread leave its wait and enter another between the    *)
(* visit of a signal_object and its wake: SuccessMeansSignalled is false    *)
(* of them.                                                                 *)

Untimed == TimedWaits = FALSE /\ "resume" \notin Calls

CallsMade == \A c \in Caller : call[c].op \in Calls \cup {"none"}
NotTimed == \A t \in Thread : ~timed[t]

\* A thread that a stop is about to wake has been told to stop.
StopOK ==
  \A c \in Caller :
    call[c].op \in {"terminate", "shutdown"} /\ call[c].at = "wake" => ~should_run[call[c].t]

FreshOK ==
  \A t \in Thread : target[t] \in Object /\ Signalling(target[t]) => fresh[t]

\* The thread a signal is about to wake waits for that signal's object, and has
\* not been woken.
Wakes(c) == call[c].op \in SignalOps /\ call[c].at = "wake"
WakeRight(c, t) == /\ pc[t] \in {"marked", "wait"} /\ target[t] = call[c].o
                   /\ pc[t] = "wait" => ~wait_signaled[t]
WakersOK == \A c \in Caller : Wakes(c) /\ should_run[call[c].t] => WakeRight(c, call[c].t)

WaitsFor(t) == pc[t] \in {"marked", "wait", "clear"} => wait_object[t] = target[t]
WaitsForTarget == \A t \in Thread : WaitsFor(t)

\* A woken thread whose state is still Waiting is about to be set Ready by the
\* signal that woke it, which holds threads_mutex_: no other signal visits it.
Woken(t) == /\ should_run[t] /\ state[t] = "Waiting"
            /\ pc[t] \in {"clear", "back"} \/ (pc[t] = "wait" /\ wait_signaled[t])
Readies(c, t) == call[c].op \in SignalOps /\ call[c].at = "ready" /\ call[c].t = t
WokenOK == \A t \in Thread : Woken(t) => \E c \in Caller : Readies(c, t)

WokenFresh(t) == pc[t] = "wait" /\ wait_signaled[t] /\ should_run[t] => fresh[t]
SuccessOK == \A t \in Thread : WokenFresh(t)

WInv == /\ CallsMade /\ NotTimed /\ StopOK /\ FreshOK
        /\ WakersOK /\ WaitsForTarget /\ WokenOK /\ SuccessOK

HostWaits(t) ==
  /\ ~timed[t]
  /\ target[t] \in Object /\ Signalling(target[t]) => fresh[t]
  /\ \A c \in Caller : Wakes(c) /\ call[c].t = t /\ should_run[t] => WakeRight(c, t)
  /\ WaitsFor(t) /\ (Woken(t) => \E c \in Caller : Readies(c, t)) /\ WokenFresh(t)

LEMMA NotTimedHost ==
  ASSUME NEW t \in Thread, Untimed, TypeOK, HostWaits(t), HostAct(t)
  PROVE  ~timed'[t]
<1> USE DEF Untimed, TypeOK, HostWaits, Kinds, hostVars, waitVars
<1>1. CASE CvEnter(t) BY <1>1 DEF CvEnter, InCv
<1>2. CASE CvSleep(t) BY <1>2 DEF CvSleep, InCv
<1>3. CASE StartPass(t) BY <1>3 DEF StartPass, InCv, Goto
<1>4. CASE Loop(t) BY <1>4 DEF Loop, Goto
<1>5. CASE SuspPass(t) BY <1>5 DEF SuspPass, InCv, Goto
<1>6. CASE Enter(t) BY <1>6 DEF Enter, Goto
<1>7. CASE Take(t) BY <1>7 DEF Take, Back, Goto
<1>8. CASE KeRecheck(t) BY <1>8 DEF KeRecheck, Goto
<1>9. CASE KeFallback(t) BY <1>9 DEF KeFallback, Back, Goto
<1>10. CASE Mark(t) BY <1>10 DEF Mark, Goto
<1>11. CASE Block(t) BY <1>11 DEF Block
<1>12. CASE WaitWake(t) BY <1>12 DEF WaitWake, InCv, Goto, Succeeds
<1>13. CASE Clear(t) BY <1>13 DEF Clear, Goto
<1>14. CASE Return(t) BY <1>14 DEF Return, Back, Goto
<1>15. CASE BatchEnd(t) BY <1>15 DEF BatchEnd, Goto
<1>16. CASE WaitTimeout(t) BY <1>16 DEF WaitTimeout, InCv, Goto
<1>17. ASSUME NEW o \in Object, NEW b \in BOOLEAN, KeWait(t, o, b) PROVE ~timed'[t]
  BY <1>17 DEF KeWait, Goto
<1> QED BY <1>1, <1>2, <1>3, <1>4, <1>5, <1>6, <1>7, <1>8, <1>9, <1>10, <1>11, <1>12,
    <1>13, <1>14, <1>15, <1>16, <1>17 DEF HostAct, HostStep

LEMMA FreshHost ==
  ASSUME NEW t \in Thread, Untimed, TypeOK, HostWaits(t), HostAct(t)
  PROVE  (target[t] \in Object /\ Signalling(target[t]) => fresh[t])'
<1> USE ThreadSchedulerAssumption DEF ThreadSchedulerAssumption, Untimed, TypeOK,
    HostWaits, Signalling, Kinds, hostVars, waitVars
<1>1. CASE CvEnter(t) BY <1>1 DEF CvEnter, InCv
<1>2. CASE CvSleep(t) BY <1>2 DEF CvSleep, InCv
<1>3. CASE StartPass(t) BY <1>3 DEF StartPass, InCv, Goto
<1>4. CASE Loop(t) BY <1>4 DEF Loop, Goto
<1>5. CASE SuspPass(t) BY <1>5 DEF SuspPass, InCv, Goto
<1>6. CASE Enter(t) BY <1>6 DEF Enter, Goto
<1>7. CASE Take(t) BY <1>7 DEF Take, Back, Goto
<1>8. CASE KeRecheck(t) BY <1>8 DEF KeRecheck, Goto
<1>9. CASE KeFallback(t) BY <1>9 DEF KeFallback, Back, Goto
<1>10. CASE Mark(t) BY <1>10 DEF Mark, Goto
<1>11. CASE Block(t) BY <1>11 DEF Block
<1>12. CASE WaitWake(t) BY <1>12 DEF WaitWake, InCv, Goto, Succeeds
<1>13. CASE Clear(t) BY <1>13 DEF Clear, Goto
<1>14. CASE Return(t) BY <1>14 DEF Return, Back, Goto
<1>15. CASE BatchEnd(t) BY <1>15 DEF BatchEnd, Goto
<1>16. CASE WaitTimeout(t) BY <1>16 DEF WaitTimeout, InCv, Goto
<1>17. ASSUME NEW o \in Object, NEW b \in BOOLEAN, KeWait(t, o, b)
       PROVE (target[t] \in Object /\ Signalling(target[t]) => fresh[t])'
  BY <1>17 DEF KeWait, Goto
<1> QED BY <1>1, <1>2, <1>3, <1>4, <1>5, <1>6, <1>7, <1>8, <1>9, <1>10, <1>11, <1>12,
    <1>13, <1>14, <1>15, <1>16, <1>17 DEF HostAct, HostStep

LEMMA WakersHost ==
  ASSUME NEW t \in Thread, Untimed, TypeOK, HostWaits(t), HostAct(t)
  PROVE  (\A c \in Caller : Wakes(c) /\ call[c].t = t /\ should_run[t] => WakeRight(c, t))'
<1> USE DEF Untimed, TypeOK, HostWaits, Wakes, WakeRight, Pred, Kinds, hostVars, waitVars
<1>1. CASE CvEnter(t) BY <1>1 DEF CvEnter, InCv
<1>2. CASE CvSleep(t) BY <1>2 DEF CvSleep, InCv
<1>3. CASE StartPass(t) BY <1>3 DEF StartPass, InCv, Goto
<1>4. CASE Loop(t) BY <1>4 DEF Loop, Goto
<1>5. CASE SuspPass(t) BY <1>5 DEF SuspPass, InCv, Goto
<1>6. CASE Enter(t) BY <1>6 DEF Enter, Goto
<1>7. CASE Take(t) BY <1>7 DEF Take, Back, Goto
<1>8. CASE KeRecheck(t) BY <1>8 DEF KeRecheck, Goto
<1>9. CASE KeFallback(t) BY <1>9 DEF KeFallback, Back, Goto
<1>10. CASE Mark(t) BY <1>10 DEF Mark, Goto
<1>11. CASE Block(t) BY <1>11 DEF Block
<1>12. CASE WaitWake(t) BY <1>12 DEF WaitWake, InCv, Goto, Succeeds
<1>13. CASE Clear(t) BY <1>13 DEF Clear, Goto
<1>14. CASE Return(t) BY <1>14 DEF Return, Back, Goto
<1>15. CASE BatchEnd(t) BY <1>15 DEF BatchEnd, Goto
<1>16. CASE WaitTimeout(t) BY <1>16 DEF WaitTimeout, InCv, Goto
<1>17. ASSUME NEW o \in Object, NEW b \in BOOLEAN, KeWait(t, o, b)
       PROVE (\A c \in Caller : Wakes(c) /\ call[c].t = t /\ should_run[t] => WakeRight(c,
           t))'
  BY <1>17 DEF KeWait, Goto
<1> QED BY <1>1, <1>2, <1>3, <1>4, <1>5, <1>6, <1>7, <1>8, <1>9, <1>10, <1>11, <1>12,
    <1>13, <1>14, <1>15, <1>16, <1>17 DEF HostAct, HostStep

LEMMA WaitsForHost ==
  ASSUME NEW t \in Thread, Untimed, TypeOK, HostWaits(t), HostAct(t)
  PROVE  WaitsFor(t)'
<1> USE DEF Untimed, TypeOK, HostWaits, WaitsFor, Kinds, hostVars, waitVars
<1>1. CASE CvEnter(t) BY <1>1 DEF CvEnter, InCv
<1>2. CASE CvSleep(t) BY <1>2 DEF CvSleep, InCv
<1>3. CASE StartPass(t) BY <1>3 DEF StartPass, InCv, Goto
<1>4. CASE Loop(t) BY <1>4 DEF Loop, Goto
<1>5. CASE SuspPass(t) BY <1>5 DEF SuspPass, InCv, Goto
<1>6. CASE Enter(t) BY <1>6 DEF Enter, Goto
<1>7. CASE Take(t) BY <1>7 DEF Take, Back, Goto
<1>8. CASE KeRecheck(t) BY <1>8 DEF KeRecheck, Goto
<1>9. CASE KeFallback(t) BY <1>9 DEF KeFallback, Back, Goto
<1>10. CASE Mark(t) BY <1>10 DEF Mark, Goto
<1>11. CASE Block(t) BY <1>11 DEF Block
<1>12. CASE WaitWake(t) BY <1>12 DEF WaitWake, InCv, Goto, Succeeds
<1>13. CASE Clear(t) BY <1>13 DEF Clear, Goto
<1>14. CASE Return(t) BY <1>14 DEF Return, Back, Goto
<1>15. CASE BatchEnd(t) BY <1>15 DEF BatchEnd, Goto
<1>16. CASE WaitTimeout(t) BY <1>16 DEF WaitTimeout, InCv, Goto
<1>17. ASSUME NEW o \in Object, NEW b \in BOOLEAN, KeWait(t, o, b) PROVE WaitsFor(t)'
  BY <1>17 DEF KeWait, Goto
<1> QED BY <1>1, <1>2, <1>3, <1>4, <1>5, <1>6, <1>7, <1>8, <1>9, <1>10, <1>11, <1>12,
    <1>13, <1>14, <1>15, <1>16, <1>17 DEF HostAct, HostStep

LEMMA WokenHost ==
  ASSUME NEW t \in Thread, Untimed, TypeOK, HostWaits(t), WaitingOK, HostAct(t)
  PROVE  (Woken(t) => \E c \in Caller : Readies(c, t))'
<1> USE DEF Untimed, TypeOK, HostWaits, Woken, Readies, Pred, WaitingOK, Kinds, hostVars,
    waitVars
<1>1. CASE CvEnter(t) BY <1>1 DEF CvEnter, InCv
<1>2. CASE CvSleep(t) BY <1>2 DEF CvSleep, InCv
<1>3. CASE StartPass(t) BY <1>3 DEF StartPass, InCv, Goto
<1>4. CASE Loop(t) BY <1>4 DEF Loop, Goto
<1>5. CASE SuspPass(t) BY <1>5 DEF SuspPass, InCv, Goto
<1>6. CASE Enter(t) BY <1>6 DEF Enter, Goto
<1>7. CASE Take(t) BY <1>7 DEF Take, Back, Goto
<1>8. CASE KeRecheck(t) BY <1>8 DEF KeRecheck, Goto
<1>9. CASE KeFallback(t) BY <1>9 DEF KeFallback, Back, Goto
<1>10. CASE Mark(t) BY <1>10 DEF Mark, Goto
<1>11. CASE Block(t) BY <1>11 DEF Block
<1>12. CASE WaitWake(t) BY <1>12 DEF WaitWake, InCv, Goto, Succeeds
<1>13. CASE Clear(t) BY <1>13 DEF Clear, Goto
<1>14. CASE Return(t) BY <1>14 DEF Return, Back, Goto
<1>15. CASE BatchEnd(t) BY <1>15 DEF BatchEnd, Goto
<1>16. CASE WaitTimeout(t) BY <1>16 DEF WaitTimeout, InCv, Goto
<1>17. ASSUME NEW o \in Object, NEW b \in BOOLEAN, KeWait(t, o, b)
       PROVE (Woken(t) => \E c \in Caller : Readies(c, t))'
  BY <1>17 DEF KeWait, Goto
<1> QED BY <1>1, <1>2, <1>3, <1>4, <1>5, <1>6, <1>7, <1>8, <1>9, <1>10, <1>11, <1>12,
    <1>13, <1>14, <1>15, <1>16, <1>17 DEF HostAct, HostStep

LEMMA SuccessHost ==
  ASSUME NEW t \in Thread, Untimed, TypeOK, HostWaits(t), HostAct(t)
  PROVE  WokenFresh(t)'
<1> USE DEF Untimed, TypeOK, HostWaits, WokenFresh, Kinds, hostVars, waitVars
<1>1. CASE CvEnter(t) BY <1>1 DEF CvEnter, InCv
<1>2. CASE CvSleep(t) BY <1>2 DEF CvSleep, InCv
<1>3. CASE StartPass(t) BY <1>3 DEF StartPass, InCv, Goto
<1>4. CASE Loop(t) BY <1>4 DEF Loop, Goto
<1>5. CASE SuspPass(t) BY <1>5 DEF SuspPass, InCv, Goto
<1>6. CASE Enter(t) BY <1>6 DEF Enter, Goto
<1>7. CASE Take(t) BY <1>7 DEF Take, Back, Goto
<1>8. CASE KeRecheck(t) BY <1>8 DEF KeRecheck, Goto
<1>9. CASE KeFallback(t) BY <1>9 DEF KeFallback, Back, Goto
<1>10. CASE Mark(t) BY <1>10 DEF Mark, Goto
<1>11. CASE Block(t) BY <1>11 DEF Block
<1>12. CASE WaitWake(t) BY <1>12 DEF WaitWake, InCv, Goto, Succeeds
<1>13. CASE Clear(t) BY <1>13 DEF Clear, Goto
<1>14. CASE Return(t) BY <1>14 DEF Return, Back, Goto
<1>15. CASE BatchEnd(t) BY <1>15 DEF BatchEnd, Goto
<1>16. CASE WaitTimeout(t) BY <1>16 DEF WaitTimeout, InCv, Goto
<1>17. ASSUME NEW o \in Object, NEW b \in BOOLEAN, KeWait(t, o, b) PROVE WokenFresh(t)'
  BY <1>17 DEF KeWait, Goto
<1> QED BY <1>1, <1>2, <1>3, <1>4, <1>5, <1>6, <1>7, <1>8, <1>9, <1>10, <1>11, <1>12,
    <1>13, <1>14, <1>15, <1>16, <1>17 DEF HostAct, HostStep

LEMMA WaitsHost == ASSUME NEW t \in Thread, Untimed, IInv, WInv, HostAct(t) PROVE WInv'
<1>1. HostFrameOf(t) BY HostFrame DEF IInv
<1>2. HostWaits(t)
  BY DEF HostWaits, WInv, NotTimed, FreshOK, WakersOK, WaitsForTarget, WokenOK, SuccessOK,
     Wakes
<1>3. TypeOK /\ WaitingOK BY DEF IInv
<1>4. HostWaits(t)'
  <2>1. ~timed'[t] /\ WaitsFor(t)' /\ WokenFresh(t)'
    BY <1>2, <1>3, NotTimedHost, WaitsForHost, SuccessHost
  <2>2. /\ (target[t] \in Object /\ Signalling(target[t]) => fresh[t])'
        /\ (\A c \in Caller : Wakes(c) /\ call[c].t = t /\ should_run[t] => WakeRight(c, t))'
        /\ (Woken(t) => \E c \in Caller : Readies(c, t))'
    BY <1>2, <1>3, FreshHost, WakersHost, WokenHost
  <2> QED BY <2>1, <2>2 DEF HostWaits
<1>5. CallsMade' /\ StopOK' BY <1>1 DEF HostFrameOf, WInv, CallsMade, StopOK
<1>6. NotTimed' BY <1>1, <1>4 DEF HostFrameOf, HostKeeps, HostWaits, WInv, NotTimed
<1>7. FreshOK'
  BY <1>1, <1>4 DEF HostFrameOf, HostKeeps, HostWaits, WInv, FreshOK, Signalling
<1>8. WakersOK'
  <2>1. \A c \in Caller : Wakes(c) => call[c].t \in Thread
    BY ThreadSchedulerAssumption DEF Wakes, IInv, CallsOK, CallRec, OnThread, Thread,
       TypeOK, ThreadSchedulerAssumption
  <2> QED BY <1>1, <1>4, <2>1 DEF HostFrameOf, HostKeeps, HostWaits, WInv, WakersOK, Wakes,
      WakeRight
<1>9. WaitsForTarget'
  BY <1>1, <1>4 DEF HostFrameOf, HostKeeps, HostWaits, WInv, WaitsForTarget, WaitsFor
<1>10. WokenOK'
  BY <1>1, <1>4 DEF HostFrameOf, HostKeeps, HostWaits, WInv, WokenOK, Woken, Readies
<1>11. SuccessOK'
  BY <1>1, <1>4 DEF HostFrameOf, HostKeeps, HostWaits, WInv, SuccessOK, WokenFresh
<1> QED BY <1>5, <1>6, <1>7, <1>8, <1>9, <1>10, <1>11 DEF WInv

LEMMA WaitsCreate ==
  ASSUME NEW t \in Thread, NEW b \in BOOLEAN, IInv, WInv, Create(t, b) PROVE WInv'
<1> USE CreateFrame DEF waitVars, IInv
<1>1. CallsMade' /\ NotTimed' BY DEF WInv, CallsMade, NotTimed
<1>2. \A c \in Caller : call[c].at \in OnThread => call[c].t # t /\ call[c].t \in Thread
  <2>1. t = made + 1 /\ made \in 0 .. N /\ N \in Nat
    BY ThreadSchedulerAssumption DEF TypeOK, ThreadSchedulerAssumption
  <2>2. \A c \in Caller : /\ call[c].t \in 1 .. (N + 1)
                          /\ call[c].at \in OnThread => call[c].t <= made
    BY DEF CallsOK, CallRec
  <2> HIDE DEF IInv
  <2> QED BY <2>1, <2>2 DEF Thread
<1>3. StopOK' /\ WakersOK' BY <1>2 DEF WInv, StopOK, WakersOK, Wakes, WakeRight, OnThread
<1>4. FreshOK' BY DEF WInv, FreshOK, Signalling
<1>5. WaitsForTarget' /\ SuccessOK'
  BY DEF WInv, WaitsForTarget, WaitsFor, SuccessOK, WokenFresh
<1>6. WokenOK' BY DEF WInv, WokenOK, Woken, Readies
<1> QED BY <1>1, <1>3, <1>4, <1>5, <1>6 DEF WInv

LEMMA CallsMadeCall ==
  ASSUME NEW c \in Caller, IInv, CallsMade, CallAct(c) PROVE CallsMade'
<1>1. CallMoves(c) /\ CallFrameOf(c) BY CallMoved, CallFrame DEF IInv, CallsOK
<1>2. call'[c].op \in Calls \cup {"none"}
  BY <1>1 DEF CallMoves, SignalMove, OtherMove, NewMove, Went, Ended, Advanced, Began,
     CallsMade, Idle
<1> QED BY <1>1, <1>2 DEF CallsMade, CallFrameOf

\* What the calls do to the threads.  A thread told to stop is never told to run
\* again, none is set Waiting, and a wake reaches the thread of its call alone.
CallKeepsOf(c) ==
  /\ \A t \in Thread : should_run'[t] => should_run[t]
  /\ \A t \in Thread : state'[t] = "Waiting" => state[t] = "Waiting"
  /\ \A t \in Thread : fresh[t] => fresh'[t]
  /\ \A t \in Thread : wait_signaled'[t] =>
       \/ wait_signaled[t]
       \/ call[c].t = t /\ call[c].at = "wake" /\ call[c].op \in SignalOps \cup {"terminate", "shutdown"}

LEMMA CallKeeps ==
  ASSUME NEW c \in Caller, Untimed, IInv, CallsMade, CallAct(c)
  PROVE  CallKeepsOf(c)
<1> USE DEF CallKeepsOf, Wakes, Untimed, CallsMade, IInv, TypeOK, threadVars, hostVars,
    waitVars
<1>1. CASE SignalWrite(c) BY <1>1 DEF SignalWrite, At
<1>2. CASE SignalLock(c) BY <1>2 DEF SignalLock, At
<1>3. CASE SignalVisit(c) BY <1>3 DEF SignalVisit, At
<1>4. CASE SignalWakes(c) BY <1>4 DEF SignalWakes, At, SignalWake
<1>5. CASE SignalReady(c) BY <1>5 DEF SignalReady, At
<1>6. CASE SignalUnpulse(c) BY <1>6 DEF SignalUnpulse, At
<1>7. CASE SuspendWrite(c) BY <1>7 DEF SuspendWrite, At
<1>8. CASE ResumeReady(c) BY <1>8 DEF ResumeReady, At
<1>9. CASE ResumeRun(c) BY <1>9 DEF ResumeRun, At
<1>10. CASE ResumeNotify(c) BY <1>10 DEF ResumeNotify, At
<1>11. CASE TerminateWake(c) BY <1>11 DEF TerminateWake, At, SignalWake
<1>12. CASE TerminateJoin(c) BY <1>12 DEF TerminateJoin, At
<1>13. CASE ShutdownMark(c) BY <1>13 DEF ShutdownMark, At
<1>14. CASE ShutdownWake(c) BY <1>14 DEF ShutdownWake, At, SignalWake
<1>15. CASE ShutdownUnlock(c) BY <1>15 DEF ShutdownUnlock, At
<1>16. CASE ShutdownJoin(c) BY <1>16 DEF ShutdownJoin, At
<1>17. CASE ShutdownBegin(c) BY <1>17 DEF ShutdownBegin, At, Begin
<1>18. ASSUME NEW o \in Object, Reset(c, o) PROVE CallKeepsOf(c)
  BY <1>18 DEF Reset, At
<1>19. ASSUME NEW o \in Object, NEW op \in SignalOps, SignalBegin(c, op, o)
       PROVE CallKeepsOf(c)
  BY <1>19 DEF SignalBegin, At, Begin
<1>20. ASSUME NEW t \in Thread, SuspendBegin(c, t) PROVE CallKeepsOf(c)
  BY <1>20 DEF SuspendBegin, At, Begin
<1>21. ASSUME NEW t \in Thread, ResumeBegin(c, t) PROVE CallKeepsOf(c)
  BY <1>21 DEF ResumeBegin, At, Begin
<1>22. ASSUME NEW t \in Thread, TerminateBegin(c, t) PROVE CallKeepsOf(c)
  BY <1>22 DEF TerminateBegin, At, Begin
<1> QED BY <1>1, <1>2, <1>3, <1>4, <1>5, <1>6, <1>7, <1>8, <1>9, <1>10, <1>11, <1>12,
    <1>13, <1>14, <1>15, <1>16, <1>17, <1>18, <1>19, <1>20, <1>21, <1>22 DEF CallAct,
        CallStep

\* A stop that is about to wake a thread has told it to stop.
StopToldOf(c) ==
  call'[c].op \in {"terminate", "shutdown"} /\ call'[c].at = "wake" => ~should_run'[call'[c].t]

\* A signal that begins is fresh for the threads whose wait is on its object.
FreshToldOf(c) ==
  call'[c].op \in SignalOps /\ (call[c].op \in SignalOps => call'[c].o # call[c].o)
    => \A t \in Thread : target[t] = call'[c].o => fresh'[t]

LEMMA StopTold ==
  ASSUME NEW c \in Caller, TypeOK, CallsOK, StopOK, CallAct(c)
  PROVE  StopToldOf(c)
<1>0. /\ call \in [Caller -> CallRec] /\ call[c] \in CallRec /\ 1 \in Thread
      /\ {"none", "lock", "locking", "visit", "wake", "ready", "unpulse", "write", "run",
          "notify", "join", "mark", "end"} = Marks
      /\ call[c].at = "wake" => call[c].t <= made
  BY ThreadSchedulerAssumption DEF CallsOK, Marks, ThreadSchedulerAssumption, Thread,
     OnThread
<1> USE <1>0 DEF StopToldOf, SignalOps, TypeOK
<1>1. CASE SignalWrite(c) BY <1>1, StepTo DEF SignalWrite, At
<1>2. CASE SignalLock(c) BY <1>2, StepTo DEF SignalLock, At
<1>3. CASE SignalVisit(c) 
  <2>1. call[c].op \in SignalOps BY <1>3 DEF SignalVisit
  <2>2. CallMoves(c) BY CallMoved
  <2>3. call'[c] = call[c] \/ call'[c] = Idle \/ call'[c].op \in SignalOps
    BY <2>1, <2>2 DEF CallMoves, SignalMove, OtherMove, NewMove, Went, Ended, Advanced,
       Idle, SignalOps
  <2> QED BY <2>1, <2>3 DEF Idle, SignalOps
<1>4. CASE SignalWakes(c) BY <1>4, StepTo DEF SignalWakes, At
<1>5. CASE SignalReady(c) 
  <2>1. call[c].op \in SignalOps BY <1>5 DEF SignalReady
  <2>2. CallMoves(c) BY CallMoved
  <2>3. call'[c] = call[c] \/ call'[c] = Idle \/ call'[c].op \in SignalOps
    BY <2>1, <2>2 DEF CallMoves, SignalMove, OtherMove, NewMove, Went, Ended, Advanced,
       Idle, SignalOps
  <2> QED BY <2>1, <2>3 DEF Idle, SignalOps
<1>6. CASE SignalUnpulse(c) BY <1>6, DoneTo DEF SignalUnpulse, At, Idle
<1>7. CASE SuspendWrite(c) BY <1>7, DoneTo DEF SuspendWrite, At, Idle
<1>8. CASE ResumeReady(c) BY <1>8, StepTo DEF ResumeReady, At
<1>9. CASE ResumeRun(c) BY <1>9, StepTo DEF ResumeRun, At
<1>10. CASE ResumeNotify(c) BY <1>10, DoneTo DEF ResumeNotify, At, Idle
<1>11. CASE TerminateWake(c) BY <1>11, StepTo DEF TerminateWake, At
<1>12. CASE TerminateJoin(c) BY <1>12, DoneTo DEF TerminateJoin, At, Idle
<1>13. CASE ShutdownMark(c) 
  <2>1. call[c].t \in Thread /\ Step(c, "wake")
    BY <1>13, ThreadSchedulerAssumption DEF ShutdownMark, ThreadSchedulerAssumption,
       CallRec, Thread
  <2>2. call'[c].t = call[c].t BY <2>1, StepTo
  <2>3. ~should_run'[call[c].t] BY <1>13, <2>1 DEF ShutdownMark
  <2> QED BY <2>2, <2>3
<1>14. CASE ShutdownWake(c) BY <1>14, FurtherTo DEF ShutdownWake, At
<1>15. CASE ShutdownUnlock(c) BY <1>15, StepTo DEF ShutdownUnlock, At
<1>16. CASE ShutdownJoin(c) BY <1>16, StepTo DEF ShutdownJoin, At
<1>17. CASE ShutdownBegin(c) BY <1>17, BeginTo DEF ShutdownBegin, At, Begin
<1>18. ASSUME NEW o \in Object, Reset(c, o) PROVE StopToldOf(c)
  BY <1>18 DEF Reset, StopOK, threadVars
<1>19. ASSUME NEW o \in Object, NEW op \in SignalOps, SignalBegin(c, op, o)
       PROVE StopToldOf(c)
  BY <1>19, BeginTo DEF SignalBegin, At, Begin
<1>20. ASSUME NEW t \in Thread, SuspendBegin(c, t) PROVE StopToldOf(c)
  
  <2>1. should_run' = should_run /\ (call' = call \/ Begin(c, "suspend", "write", t,
      NoObject))
    BY <1>20 DEF SuspendBegin
  <2>2. CASE call' = call BY <2>1, <2>2 DEF StopOK
  <2>3. CASE Begin(c, "suspend", "write", t, NoObject)
    <3>1. call'[c].op = "suspend" BY <2>3 DEF Begin
    <3> QED BY <3>1
  <2> QED BY <2>1, <2>2, <2>3
<1>21. ASSUME NEW t \in Thread, ResumeBegin(c, t) PROVE StopToldOf(c)
  
  <2>1. should_run' = should_run /\ (call' = call \/ Begin(c, "resume", "ready", t,
      NoObject))
    BY <1>21 DEF ResumeBegin
  <2>2. CASE call' = call BY <2>1, <2>2 DEF StopOK
  <2>3. CASE Begin(c, "resume", "ready", t, NoObject)
    <3>1. call'[c].op = "resume" BY <2>3 DEF Begin
    <3> QED BY <3>1
  <2> QED BY <2>1, <2>2, <2>3
<1>22. ASSUME NEW t \in Thread, TerminateBegin(c, t) PROVE StopToldOf(c)
  BY <1>22, BeginTo DEF TerminateBegin, At, Begin
<1> QED BY <1>1, <1>2, <1>3, <1>4, <1>5, <1>6, <1>7, <1>8, <1>9, <1>10, <1>11, <1>12,
    <1>13, <1>14, <1>15, <1>16, <1>17, <1>18, <1>19, <1>20, <1>21, <1>22 DEF CallAct,
        CallStep

LEMMA FreshTold == ASSUME NEW c \in Caller, TypeOK, CallsOK, CallAct(c) PROVE FreshToldOf(c)
<1>0. /\ call \in [Caller -> CallRec] /\ call[c] \in CallRec /\ 1 \in Thread
      /\ {"none", "lock", "locking", "visit", "wake", "ready", "unpulse", "write", "run",
          "notify", "join", "mark", "end"} = Marks
      /\ call[c].at = "wake" => call[c].t <= made
      /\ made \in 0 .. N
  BY ThreadSchedulerAssumption DEF CallsOK, TypeOK, Marks, ThreadSchedulerAssumption,
     Thread, OnThread
<1> USE <1>0 DEF FreshToldOf
<1>1. CASE SignalWrite(c) BY <1>1, StepTo DEF SignalWrite, At
<1>2. CASE SignalLock(c) BY <1>2, StepTo DEF SignalLock, At
<1>3. CASE SignalVisit(c) 
  <2>1. CallMoves(c) /\ call[c].op \in SignalOps BY <1>3, CallMoved DEF SignalVisit
  <2>2. call'[c] = Idle \/ call'[c].o = call[c].o
    BY <2>1 DEF CallMoves, SignalMove, OtherMove, NewMove, Went, Ended, Advanced, Idle,
       SignalOps
  <2> QED BY <2>1, <2>2 DEF Idle, SignalOps
<1>4. CASE SignalWakes(c) BY <1>4, StepTo DEF SignalWakes, At
<1>5. CASE SignalReady(c) 
  <2>1. CallMoves(c) /\ call[c].op \in SignalOps BY <1>5, CallMoved DEF SignalReady
  <2>2. call'[c] = Idle \/ call'[c].o = call[c].o
    BY <2>1 DEF CallMoves, SignalMove, OtherMove, NewMove, Went, Ended, Advanced, Idle,
       SignalOps
  <2> QED BY <2>1, <2>2 DEF Idle, SignalOps
<1>6. CASE SignalUnpulse(c) BY <1>6, DoneTo DEF SignalUnpulse, At, Idle, SignalOps
<1>7. CASE SuspendWrite(c) BY <1>7, DoneTo DEF SuspendWrite, At, Idle, SignalOps
<1>8. CASE ResumeReady(c) BY <1>8, StepTo DEF ResumeReady, At
<1>9. CASE ResumeRun(c) BY <1>9, StepTo DEF ResumeRun, At
<1>10. CASE ResumeNotify(c) BY <1>10, DoneTo DEF ResumeNotify, At, Idle, SignalOps
<1>11. CASE TerminateWake(c) BY <1>11, StepTo DEF TerminateWake, At
<1>12. CASE TerminateJoin(c) BY <1>12, DoneTo DEF TerminateJoin, At, Idle, SignalOps
<1>13. CASE ShutdownMark(c) BY <1>13, StepTo DEF ShutdownMark, At
<1>14. CASE ShutdownWake(c) BY <1>14, FurtherTo DEF ShutdownWake, At
<1>15. CASE ShutdownUnlock(c) BY <1>15, StepTo DEF ShutdownUnlock, At
<1>16. CASE ShutdownJoin(c) BY <1>16, StepTo DEF ShutdownJoin, At
<1>17. CASE ShutdownBegin(c) 
  <2>1. call' = call \/ call'[c].op = "shutdown" BY <1>17 DEF ShutdownBegin, Begin
  <2> QED BY <2>1 DEF SignalOps
<1>18. ASSUME NEW o \in Object, Reset(c, o) PROVE FreshToldOf(c)
  BY <1>18 DEF Reset, threadVars
<1>19. ASSUME NEW o \in Object, NEW op \in SignalOps, SignalBegin(c, op, o)
       PROVE FreshToldOf(c)
  
  <2>1. call'[c].o = o BY <1>19 DEF SignalBegin, Begin
  <2> QED BY <1>19, <2>1 DEF SignalBegin, TypeOK
<1>20. ASSUME NEW t \in Thread, SuspendBegin(c, t) PROVE FreshToldOf(c)
  
  <2>1. call' = call \/ call'[c].op = "suspend" BY <1>20 DEF SuspendBegin, Begin
  <2> QED BY <2>1 DEF SignalOps
<1>21. ASSUME NEW t \in Thread, ResumeBegin(c, t) PROVE FreshToldOf(c)
  
  <2>1. call' = call \/ call'[c].op = "resume" BY <1>21 DEF ResumeBegin, Begin
  <2> QED BY <2>1 DEF SignalOps
<1>22. ASSUME NEW t \in Thread, TerminateBegin(c, t) PROVE FreshToldOf(c)
  
  <2>1. call' = call \/ call'[c].op = "terminate" BY <1>22 DEF TerminateBegin, Begin
  <2> QED BY <2>1 DEF SignalOps
<1> QED BY <1>1, <1>2, <1>3, <1>4, <1>5, <1>6, <1>7, <1>8, <1>9, <1>10, <1>11, <1>12,
    <1>13, <1>14, <1>15, <1>16, <1>17, <1>18, <1>19, <1>20, <1>21, <1>22 DEF CallAct,
        CallStep

LEMMA StopCall == ASSUME NEW c \in Caller, Untimed, IInv, WInv, CallAct(c) PROVE StopOK'
<1>1. /\ \A d \in Caller \ {c} : call'[d] = call[d]
      /\ \A t \in Thread : should_run'[t] => should_run[t]
  BY CallFrame, CallKeeps DEF IInv, CallsOK, WInv, CallFrameOf, CallKeepsOf
<1>2. \A d \in Caller : call[d].at = "wake" => call[d].t \in Thread
  BY ThreadSchedulerAssumption DEF IInv, CallsOK, CallRec, OnThread, Thread, TypeOK,
     ThreadSchedulerAssumption
<1>3. ASSUME call'[c].op \in {"terminate", "shutdown"}, call'[c].at = "wake"
      PROVE ~should_run'[call'[c].t]
  BY <1>3, StopTold DEF StopToldOf, IInv, WInv
<1> QED BY <1>1, <1>2, <1>3 DEF WInv, StopOK

LEMMA FreshCall == ASSUME NEW c \in Caller, Untimed, IInv, WInv, CallAct(c) PROVE FreshOK'
<1>1. CallFrameOf(c) /\ CallKeepsOf(c) /\ FreshToldOf(c)
  BY CallFrame, CallKeeps, FreshTold DEF IInv, CallsOK, WInv
<1> SUFFICES ASSUME NEW t \in Thread, target[t] \in Object, Signalling(target[t])',
    target' = target
             PROVE  fresh'[t]
  BY <1>1 DEF FreshOK, CallFrameOf, Signalling
<1>2. CASE Signalling(target[t]) BY <1>1, <1>2 DEF CallKeepsOf, WInv, FreshOK
<1>3. CASE ~Signalling(target[t])
  <2>1. call'[c].op \in SignalOps /\ call'[c].o = target[t]
    BY <1>1, <1>3 DEF Signalling, CallFrameOf
  <2>2. call[c].op \in SignalOps => call[c].o # target[t] BY <1>3 DEF Signalling
  <2> QED BY <1>1, <2>1, <2>2 DEF FreshToldOf
<1> QED BY <1>2, <1>3

LEMMA WakersCall == ASSUME NEW c \in Caller, Untimed, IInv, WInv, CallAct(c) PROVE WakersOK'
<1>1. CallFrameOf(c) /\ CallKeepsOf(c) /\ CallMoves(c)
  BY CallFrame, CallKeeps, CallMoved DEF IInv, CallsOK, WInv
<1>2. pc' = pc /\ target' = target /\ wait_object' = wait_object BY <1>1 DEF CallFrameOf
<1>3. \A d \in Caller : Wakes(d) => call[d].t \in Thread /\ lock = d
  BY ThreadSchedulerAssumption, SMTT(40)
  DEF Wakes, IInv, CallsOK, CallRec, OnThread, Thread, TypeOK, ThreadSchedulerAssumption,
      LockOK, Locked
<1>4. ASSUME NEW d \in Caller \ {c}, Wakes(d)', should_run'[call'[d].t]
      PROVE  WakeRight(d, call[d].t)'
  <2>1. call'[d] = call[d] /\ Wakes(d) /\ call[d].t \in Thread
    BY <1>1, <1>3, <1>4 DEF CallFrameOf, Wakes
  <2>2. should_run[call[d].t] /\ WakeRight(d, call[d].t)
    BY <1>1, <1>4, <2>1 DEF CallKeepsOf, WInv, WakersOK
  <2>3. ASSUME wait_signaled'[call[d].t], ~wait_signaled[call[d].t] PROVE FALSE
    <3>1. /\ call[c].t = call[d].t /\ call[c].at = "wake"
          /\ call[c].op \in SignalOps \cup {"terminate", "shutdown"}
      BY <1>1, <2>1, <2>3 DEF CallKeepsOf
    <3>2. CASE call[c].op \in SignalOps BY <1>3, <2>1, <3>1, <3>2 DEF Wakes
    <3>3. CASE call[c].op \in {"terminate", "shutdown"} BY <2>2, <3>1, <3>3 DEF WInv, StopOK
    <3> QED BY <3>1, <3>2, <3>3
  <2>4. wait_signaled' \in [Thread -> BOOLEAN] /\ wait_signaled \in [Thread -> BOOLEAN]
    BY TypeCall DEF IInv, TypeOK
  <2> QED BY <1>2, <2>1, <2>2, <2>3, <2>4 DEF WakeRight
<1>5. ASSUME Wakes(c)', should_run'[call'[c].t] PROVE WakeRight(c, call[c].t)'
  <2> DEFINE t == call[c].t
  <2>1. /\ call[c].op \in SignalOps /\ call[c].at = "visit" /\ t <= made /\ call'[c].t = t /\ call'[c].o = call[c].o
        /\ state[t] = "Waiting" /\ wait_object[t] = call[c].o /\ UNCHANGED wait_signaled
    <3> USE <1>5 DEF Wakes, Went, Ended, Advanced, Began, Idle, SignalOps
    <3>1. CASE SignalMove(c) BY <3>1 DEF SignalMove
    <3>2. CASE OtherMove(c) BY <3>2 DEF OtherMove
    <3>3. CASE NewMove(c)
      <4>1. ASSUME NEW op, NEW at, NEW u, NEW o, Began(c, op, at, u, o)
            PROVE call'[c].op = op /\ call'[c].at = at
        BY <4>1
      <4> HIDE DEF Began
      <4> QED BY <3>3, <4>1 DEF NewMove
    <3>4. CASE call[c] = Idle /\ call'[c] = call[c] BY <3>4
    <3> QED BY <1>1, <3>1, <3>2, <3>3, <3>4 DEF CallMoves
  <2>2. t \in Thread
    BY <2>1, ThreadSchedulerAssumption DEF IInv, CallsOK, CallRec, Thread, TypeOK,
       ThreadSchedulerAssumption
  <2>3. should_run[t] BY <1>1, <1>5, <2>1, <2>2 DEF CallKeepsOf
  <2>4. lock = c BY <2>1 DEF IInv, LockOK, Locked
  <2>5. ~Woken(t)
    <3>1. \A d \in Caller : ~Readies(d, t)
      <4> SUFFICES ASSUME NEW d \in Caller, Readies(d, t) PROVE FALSE OBVIOUS
      <4>1. lock = d BY DEF Readies, IInv, LockOK, Locked
      <4> QED BY <2>1, <2>4, <4>1 DEF Readies
    <3> QED BY <2>2, <3>1 DEF WInv, WokenOK
  <2>6. pc[t] \in {"marked", "wait"} /\ (pc[t] = "wait" => ~wait_signaled[t])
    BY <2>1, <2>2, <2>3, <2>5 DEF Woken, IInv, WaitingOK
  <2>7. target[t] = call[c].o BY <2>1, <2>2, <2>6 DEF WInv, WaitsForTarget, WaitsFor
  <2> QED BY <1>2, <2>1, <2>6, <2>7 DEF WakeRight
<1> QED BY <1>4, <1>5 DEF WakersOK

LEMMA CallReady ==
  ASSUME NEW c \in Caller, call[c].op \in SignalOps, call[c].at = "ready", CallAct(c)
  PROVE  SignalReady(c)
<1>1. CASE SignalWrite(c) BY <1>1 DEF SignalWrite, At, SignalOps
<1>2. CASE SignalLock(c) BY <1>2 DEF SignalLock, At, SignalOps
<1>3. CASE SignalVisit(c) BY <1>3 DEF SignalVisit, At, SignalOps
<1>4. CASE SignalWakes(c) BY <1>4 DEF SignalWakes, At, SignalOps
<1>5. CASE SignalReady(c) BY <1>5
<1>6. CASE SignalUnpulse(c) BY <1>6 DEF SignalUnpulse, At, SignalOps
<1>7. CASE SuspendWrite(c) BY <1>7 DEF SuspendWrite, At, SignalOps
<1>8. CASE ResumeReady(c) BY <1>8 DEF ResumeReady, At, SignalOps
<1>9. CASE ResumeRun(c) BY <1>9 DEF ResumeRun, At, SignalOps
<1>10. CASE ResumeNotify(c) BY <1>10 DEF ResumeNotify, At, SignalOps
<1>11. CASE TerminateWake(c) BY <1>11 DEF TerminateWake, At, SignalOps
<1>12. CASE TerminateJoin(c) BY <1>12 DEF TerminateJoin, At, SignalOps
<1>13. CASE ShutdownMark(c) BY <1>13 DEF ShutdownMark, At, SignalOps
<1>14. CASE ShutdownWake(c) BY <1>14 DEF ShutdownWake, At, SignalOps
<1>15. CASE ShutdownUnlock(c) BY <1>15 DEF ShutdownUnlock, At, SignalOps
<1>16. CASE ShutdownJoin(c) BY <1>16 DEF ShutdownJoin, At, SignalOps
<1>17. CASE ShutdownBegin(c) BY <1>17 DEF ShutdownBegin, Begin, Idle, SignalOps
<1>18. ASSUME NEW o \in Object, Reset(c, o) PROVE SignalReady(c)
  BY <1>18 DEF Reset, Begin, Idle, SignalOps
<1>19. ASSUME NEW o \in Object, NEW op \in SignalOps, SignalBegin(c, op, o)
       PROVE SignalReady(c)
  BY <1>19 DEF SignalBegin, Begin, Idle, SignalOps
<1>20. ASSUME NEW t \in Thread, SuspendBegin(c, t) PROVE SignalReady(c)
  BY <1>20 DEF SuspendBegin, Begin, Idle, SignalOps
<1>21. ASSUME NEW t \in Thread, ResumeBegin(c, t) PROVE SignalReady(c)
  BY <1>21 DEF ResumeBegin, Begin, Idle, SignalOps
<1>22. ASSUME NEW t \in Thread, TerminateBegin(c, t) PROVE SignalReady(c)
  BY <1>22 DEF TerminateBegin, Begin, Idle, SignalOps
<1> QED BY <1>1, <1>2, <1>3, <1>4, <1>5, <1>6, <1>7, <1>8, <1>9, <1>10, <1>11, <1>12,
    <1>13, <1>14, <1>15, <1>16, <1>17, <1>18, <1>19, <1>20, <1>21, <1>22 DEF CallAct,
        CallStep

LEMMA WokenCall == ASSUME NEW c \in Caller, Untimed, IInv, WInv, CallAct(c) PROVE WokenOK'
<1>1. CallFrameOf(c) /\ CallKeepsOf(c) /\ CallMoves(c)
  BY CallFrame, CallKeeps, CallMoved DEF IInv, CallsOK, WInv
<1> SUFFICES ASSUME NEW t \in Thread, Woken(t)' PROVE \E d \in Caller : Readies(d, t)'
  BY DEF WokenOK
<1>2. /\ should_run[t] /\ state[t] = "Waiting" /\ pc'[t] = pc[t]
      /\ pc[t] \in {"clear", "back"} \/ (pc[t] = "wait" /\ wait_signaled'[t])
  BY <1>1 DEF Woken, CallFrameOf, CallKeepsOf
<1>3. CASE Woken(t)
  <2>1. PICK d \in Caller : Readies(d, t) BY <1>3 DEF WInv, WokenOK
  <2>2. CASE d # c BY <1>1, <2>1, <2>2 DEF CallFrameOf, Readies
  <2>3. CASE d = c
    <3>1. call[c].op \in SignalOps /\ call[c].at = "ready" /\ call[c].t = t
      BY <2>1, <2>3 DEF Readies
    <3>2. state'[t] # "Waiting"
      <4>1. SignalReady(c) BY <3>1, CallReady
      <4> QED BY <3>1, <4>1 DEF SignalReady, IInv, TypeOK
    <3> QED BY <3>2 DEF Woken
  <2> QED BY <2>2, <2>3
<1>4. CASE ~Woken(t)
  <2>1. ~wait_signaled[t] /\ wait_signaled'[t] BY <1>2, <1>4 DEF Woken
  <2>2. /\ call[c].t = t /\ call[c].at = "wake"
        /\ call[c].op \in SignalOps \cup {"terminate", "shutdown"}
    BY <1>1, <2>1 DEF CallKeepsOf
  <2>3. call[c].op \in SignalOps BY <1>2, <2>2 DEF WInv, StopOK
  <2>4. Readies(c, t)'
    <3> USE DEF Went, Ended, Advanced, Began, Idle, SignalOps
    <3>1. CASE SignalMove(c) BY <2>2, <2>3, <3>1 DEF SignalMove, Readies
    <3>2. CASE OtherMove(c) \/ NewMove(c) \/ call[c] = Idle
      BY <2>3, <3>2 DEF OtherMove, NewMove
    <3> QED BY <1>1, <3>1, <3>2 DEF CallMoves
  <2> QED BY <2>4
<1> QED BY <1>3, <1>4

LEMMA SuccessCall ==
  ASSUME NEW c \in Caller, Untimed, IInv, WInv, CallAct(c)
  PROVE  SuccessOK'
<1>1. CallFrameOf(c) /\ CallKeepsOf(c) BY CallFrame, CallKeeps DEF IInv, CallsOK, WInv
<1> SUFFICES ASSUME NEW t \in Thread, pc'[t] = "wait", wait_signaled'[t],
    should_run'[t] PROVE fresh'[t]
  BY DEF SuccessOK, WokenFresh
<1>2. pc[t] = "wait" /\ should_run[t] BY <1>1 DEF CallFrameOf, CallKeepsOf
<1>3. CASE wait_signaled[t] BY <1>1, <1>2, <1>3 DEF CallKeepsOf, WInv, SuccessOK, WokenFresh
<1>4. CASE ~wait_signaled[t]
  <2>1. /\ call[c].t = t /\ call[c].at = "wake"
        /\ call[c].op \in SignalOps \cup {"terminate", "shutdown"}
    BY <1>1, <1>4 DEF CallKeepsOf
  <2>2. call[c].op \in SignalOps BY <1>2, <2>1 DEF WInv, StopOK
  <2>3. target[t] = call[c].o BY <1>2, <2>1, <2>2 DEF WInv, WakersOK, Wakes, WakeRight
  <2>4. Signalling(target[t]) /\ target[t] \in Object
    BY <2>2, <2>3 DEF Signalling, IInv, CallsOK
  <2>5. fresh[t] BY <2>4 DEF WInv, FreshOK
  <2> QED BY <1>1, <2>5 DEF CallKeepsOf
<1> QED BY <1>3, <1>4

LEMMA WaitsCall == ASSUME NEW c \in Caller, Untimed, IInv, WInv, CallAct(c) PROVE WInv'
<1>1. CallsMade' /\ StopOK' /\ FreshOK' BY CallsMadeCall, StopCall, FreshCall DEF WInv
<1>2. WakersOK' /\ WokenOK' /\ SuccessOK' BY WakersCall, WokenCall, SuccessCall
<1>3. NotTimed' /\ WaitsForTarget'
  BY CallFrame DEF CallFrameOf, IInv, CallsOK, WInv, NotTimed, WaitsForTarget, WaitsFor
<1> QED BY <1>1, <1>2, <1>3 DEF WInv

LEMMA WaitsInit == Init => WInv
<1> SUFFICES ASSUME Init PROVE WInv OBVIOUS
<1> USE ThreadSchedulerAssumption DEF ThreadSchedulerAssumption, Init
<1>1. CallsMade /\ NotTimed /\ StopOK BY DEF CallsMade, NotTimed, StopOK, Idle
<1>2. FreshOK /\ WakersOK BY DEF FreshOK, WakersOK, Wakes, Idle, SignalOps
<1>3. WaitsForTarget /\ WokenOK /\ SuccessOK
  BY DEF WaitsForTarget, WaitsFor, WokenOK, Woken, SuccessOK, WokenFresh
<1> QED BY <1>1, <1>2, <1>3 DEF WInv

LEMMA WaitsInductive == ASSUME Untimed PROVE IInv /\ WInv /\ [Next]_vars => WInv'
<1> SUFFICES ASSUME IInv, WInv, [Next]_vars PROVE WInv' OBVIOUS
<1>1. CASE UNCHANGED vars
  BY <1>1 DEF vars, hostVars, waitVars, WInv, CallsMade, NotTimed, StopOK, FreshOK,
     Signalling, WakersOK,
     Wakes, WakeRight, WaitsForTarget, WaitsFor, WokenOK, Woken, Readies, SuccessOK, WokenFresh
<1>2. CASE Next BY <1>2, NextSplit, WaitsCreate, WaitsHost, WaitsCall
<1> QED BY <1>1, <1>2

LEMMA WaitsInvariant == ASSUME Untimed PROVE Spec => [](IInv /\ WInv)
<1>1. Init => IInv /\ WInv BY InitIInv, WaitsInit
<1>2. IInv /\ WInv /\ [Next]_vars => (IInv /\ WInv)' BY Inductive, WaitsInductive
<1> QED BY <1>1, <1>2, PTL DEF Spec

\* A blocked wait without a timeout returns success only if its own object was
\* signalled during the wait, for any number of threads, objects and callers.
THEOREM SuccessIsSignalled == ASSUME Untimed PROVE Spec => SuccessMeansSignalled
<1>1. IInv /\ WInv /\ [Next]_vars => [\A t \in Thread : Succeeds(t) /\ WaitWake(t) => fresh[t]]_vars
  BY DEF WInv, SuccessOK, WokenFresh, Succeeds, InCv
<1> QED BY <1>1, WaitsInvariant, PTL DEF Spec, SuccessMeansSignalled

-----------------------------------------------------------------------------
(* Why waits end.  The kernel call's own check of the word is a step before *)
(* wait_for_object's: in between only a signal makes the word nonzero.  A   *)
(* semaphore is the exception when threads share it: the count a thread     *)
(* read is written back, less one, over what the others took meanwhile.     *)

OwnCount == N = 1 \/ \A o \in Object : Type[o] # "semaphore"

RecheckOf(t) == pc[t] = "recheck" /\ signal_state[target[t]] # 0 => fresh[t]
RecheckOK == \A t \in Thread : RecheckOf(t)

LEMMA RecheckHost ==
  ASSUME NEW t \in Thread, TypeOK, TargetsOK, RecheckOK, HostAct(t)
  PROVE  RecheckOf(t)'
<1> USE ThreadSchedulerAssumption DEF ThreadSchedulerAssumption, TypeOK, TargetsOK,
    RecheckOK, RecheckOf, Kinds, hostVars, waitVars
<1>1. CASE CvEnter(t) BY <1>1 DEF CvEnter, InCv
<1>2. CASE CvSleep(t) BY <1>2 DEF CvSleep, InCv
<1>3. CASE StartPass(t) BY <1>3 DEF StartPass, InCv, Goto
<1>4. CASE Loop(t) BY <1>4 DEF Loop, Goto
<1>5. CASE SuspPass(t) BY <1>5 DEF SuspPass, InCv, Goto
<1>6. CASE Enter(t) BY <1>6 DEF Enter, Goto
<1>7. CASE Take(t) BY <1>7 DEF Take, Back, Goto
<1>8. CASE KeRecheck(t) BY <1>8 DEF KeRecheck, Goto
<1>9. CASE KeFallback(t) BY <1>9 DEF KeFallback, Back, Goto
<1>10. CASE Mark(t) BY <1>10 DEF Mark, Goto
<1>11. CASE Block(t) BY <1>11 DEF Block
<1>12. CASE WaitWake(t) BY <1>12 DEF WaitWake, InCv, Goto, Succeeds
<1>13. CASE Clear(t) BY <1>13 DEF Clear, Goto
<1>14. CASE Return(t) BY <1>14 DEF Return, Back, Goto
<1>15. CASE BatchEnd(t) BY <1>15 DEF BatchEnd, Goto
<1>16. CASE WaitTimeout(t) BY <1>16 DEF WaitTimeout, InCv, Goto
<1>17. ASSUME NEW o \in Object, NEW b \in BOOLEAN, KeWait(t, o, b) PROVE RecheckOf(t)'
  BY <1>17 DEF KeWait, Goto
<1> QED BY <1>1, <1>2, <1>3, <1>4, <1>5, <1>6, <1>7, <1>8, <1>9, <1>10, <1>11, <1>12,
    <1>13, <1>14, <1>15, <1>16, <1>17 DEF HostAct, HostStep

LEMMA RecheckOthers ==
  ASSUME OwnCount, NEW t \in Thread, TypeOK, TargetsOK, RecheckOK, HostAct(t),
         NEW u \in Thread \ {t}
  PROVE  RecheckOf(u)'
<1>1. HostFrameOf(t) BY HostFrame
<1>2. pc[u] = "recheck" => target[u] \in Object BY DEF TargetsOK
<1>3. Type \in [Object -> {"notification", "synchronization", "semaphore"}]
  BY ThreadSchedulerAssumption DEF ThreadSchedulerAssumption
<1>4. N # 1 BY DEF Thread
<1>5. \A p \in Object : signal_state'[p] = signal_state[p] \/ signal_state'[p] = 0
  <2> USE DEF TypeOK, TargetsOK, waitVars, hostVars
  <2>1. CASE CvEnter(t) BY <2>1 DEF CvEnter
  <2>2. CASE CvSleep(t) BY <2>2 DEF CvSleep
  <2>3. CASE StartPass(t) BY <2>3 DEF StartPass
  <2>4. CASE Loop(t) BY <2>4 DEF Loop
  <2>5. CASE SuspPass(t) BY <2>5 DEF SuspPass
  <2>6. CASE Enter(t) BY <2>6 DEF Enter
  <2>7. CASE Take(t) BY <2>7, <1>3, <1>4 DEF Take, OwnCount
  <2>8. CASE KeRecheck(t) BY <2>8 DEF KeRecheck
  <2>9. CASE KeFallback(t) BY <2>9 DEF KeFallback
  <2>10. CASE Mark(t) BY <2>10 DEF Mark
  <2>11. CASE Block(t) BY <2>11 DEF Block
  <2>12. CASE WaitWake(t) BY <2>12 DEF WaitWake
  <2>13. CASE Clear(t) BY <2>13 DEF Clear
  <2>14. CASE Return(t) BY <2>14 DEF Return
  <2>15. CASE BatchEnd(t) BY <2>15 DEF BatchEnd
  <2>16. CASE WaitTimeout(t) BY <2>16 DEF WaitTimeout
  <2>17. ASSUME NEW o \in Object, NEW b \in BOOLEAN, KeWait(t, o, b)
         PROVE \A p \in Object : signal_state'[p] = signal_state[p] \/ signal_state'[p] = 0
    BY <2>17 DEF KeWait
  <2> QED BY <2>1, <2>2, <2>3, <2>4, <2>5, <2>6, <2>7, <2>8, <2>9, <2>10, <2>11, <2>12,
      <2>13, <2>14, <2>15, <2>16, <2>17 DEF HostAct, HostStep
<1> QED BY <1>1, <1>2, <1>5 DEF HostFrameOf, HostKeeps, RecheckOK, RecheckOf

LEMMA RecheckCall ==
  ASSUME NEW c \in Caller, TypeOK, CallsOK, TargetsOK, FreshOK, RecheckOK, CallAct(c)
  PROVE  RecheckOK'
<1>0. /\ pc' = pc /\ target' = target
      /\ \A t \in Thread : pc[t] = "recheck" => target[t] \in Object
  BY CallFrame DEF CallFrameOf, CallsOK, TargetsOK
<1> USE DEF threadVars, hostVars
<1>1. CASE SignalWrite(c) 
  <2>1. \A p \in Object : p # call[c].o => signal_state'[p] = signal_state[p]
    BY <1>1 DEF SignalWrite, TypeOK
  <2>2. \A t \in Thread : target[t] = call[c].o /\ target[t] \in Object => fresh[t]
    BY <1>1 DEF SignalWrite, FreshOK, Signalling
  <2>3. fresh' = fresh BY <1>1 DEF SignalWrite
  <2> QED BY <1>0, <2>1, <2>2, <2>3 DEF RecheckOK, RecheckOf
<1>2. CASE SignalLock(c) BY <1>2, <1>0 DEF SignalLock, RecheckOK, RecheckOf, TypeOK
<1>3. CASE SignalVisit(c) BY <1>3, <1>0 DEF SignalVisit, RecheckOK, RecheckOf, TypeOK
<1>4. CASE SignalWakes(c) BY <1>4, <1>0 DEF SignalWakes, RecheckOK, RecheckOf, TypeOK
<1>5. CASE SignalReady(c) 
  <2>1. call[c].o \in Object BY <1>5 DEF SignalReady, CallsOK
  <2>2. \A p \in Object : signal_state'[p] # 0 => signal_state[p] # 0
    BY <1>5, <2>1 DEF SignalReady, TypeOK
  <2>3. fresh' = fresh BY <1>5 DEF SignalReady
  <2> QED BY <1>0, <2>2, <2>3 DEF RecheckOK, RecheckOf
<1>6. CASE SignalUnpulse(c)
  BY <1>6, <1>0 DEF SignalUnpulse, At, RecheckOK, RecheckOf, TypeOK
<1>7. CASE SuspendWrite(c) BY <1>7, <1>0 DEF SuspendWrite, At, RecheckOK, RecheckOf, TypeOK
<1>8. CASE ResumeReady(c) BY <1>8, <1>0 DEF ResumeReady, At, RecheckOK, RecheckOf, TypeOK
<1>9. CASE ResumeRun(c) BY <1>9, <1>0 DEF ResumeRun, At, RecheckOK, RecheckOf, TypeOK
<1>10. CASE ResumeNotify(c)
  BY <1>10, <1>0 DEF ResumeNotify, At, RecheckOK, RecheckOf, TypeOK
<1>11. CASE TerminateWake(c)
  BY <1>11, <1>0 DEF TerminateWake, At, RecheckOK, RecheckOf, TypeOK
<1>12. CASE TerminateJoin(c)
  BY <1>12, <1>0 DEF TerminateJoin, At, RecheckOK, RecheckOf, TypeOK
<1>13. CASE ShutdownMark(c)
  BY <1>13, <1>0 DEF ShutdownMark, At, RecheckOK, RecheckOf, TypeOK
<1>14. CASE ShutdownWake(c)
  BY <1>14, <1>0 DEF ShutdownWake, At, RecheckOK, RecheckOf, TypeOK
<1>15. CASE ShutdownUnlock(c)
  BY <1>15, <1>0 DEF ShutdownUnlock, At, RecheckOK, RecheckOf, TypeOK
<1>16. CASE ShutdownJoin(c)
  BY <1>16, <1>0 DEF ShutdownJoin, At, RecheckOK, RecheckOf, TypeOK
<1>17. CASE ShutdownBegin(c) BY <1>17, <1>0 DEF ShutdownBegin, RecheckOK, RecheckOf, TypeOK
<1>18. ASSUME NEW o \in Object, Reset(c, o) PROVE RecheckOK'
  BY <1>18, <1>0 DEF Reset, RecheckOK, RecheckOf, TypeOK
<1>19. ASSUME NEW o \in Object, NEW op \in SignalOps, SignalBegin(c, op, o) PROVE RecheckOK'
  
  <2>1. \A p \in Object : p # o => signal_state'[p] = signal_state[p]
    BY <1>19 DEF SignalBegin, TypeOK
  <2>2. \A t \in Thread : fresh'[t] = (fresh[t] \/ target[t] = o) BY <1>19 DEF SignalBegin
  <2> QED BY <1>0, <2>1, <2>2 DEF RecheckOK, RecheckOf
<1>20. ASSUME NEW t \in Thread, SuspendBegin(c, t) PROVE RecheckOK'
  BY <1>20, <1>0 DEF SuspendBegin, RecheckOK, RecheckOf, TypeOK
<1>21. ASSUME NEW t \in Thread, ResumeBegin(c, t) PROVE RecheckOK'
  BY <1>21, <1>0 DEF ResumeBegin, RecheckOK, RecheckOf, TypeOK
<1>22. ASSUME NEW t \in Thread, TerminateBegin(c, t) PROVE RecheckOK'
  BY <1>22, <1>0 DEF TerminateBegin, RecheckOK, RecheckOf, TypeOK
<1> QED BY <1>1, <1>2, <1>3, <1>4, <1>5, <1>6, <1>7, <1>8, <1>9, <1>10, <1>11, <1>12,
    <1>13, <1>14, <1>15, <1>16, <1>17, <1>18, <1>19, <1>20, <1>21, <1>22 DEF CallAct,
        CallStep

LEMMA RecheckInductive ==
  ASSUME Untimed, OwnCount PROVE IInv /\ WInv /\ RecheckOK /\ [Next]_vars => RecheckOK'
<1> SUFFICES ASSUME IInv, WInv, RecheckOK, [Next]_vars PROVE RecheckOK' OBVIOUS
<1>1. CASE UNCHANGED vars BY <1>1 DEF vars, hostVars, RecheckOK, RecheckOf
<1>2. ASSUME NEW t \in Thread, NEW b \in BOOLEAN, Create(t, b) PROVE RecheckOK'
  BY <1>2, CreateFrame DEF RecheckOK, RecheckOf, IInv
<1>3. ASSUME NEW t \in Thread, HostAct(t) PROVE RecheckOK'
  BY <1>3, RecheckHost, RecheckOthers DEF RecheckOK, IInv
<1>4. ASSUME NEW c \in Caller, CallAct(c)
      PROVE RecheckOK' BY <1>4, RecheckCall DEF IInv, WInv
<1> QED BY <1>1, <1>2, <1>3, <1>4, NextSplit

\* How a wait of t ends: no call ends one, and t itself only for a cause.
LEMMA EndHost ==
  ASSUME NEW t \in Thread, TypeOK, RecheckOK, SuccessOK, HostAct(t)
  PROVE  EndsForCause(t, Returns)
<1> USE DEF EndsForCause, Returns, TypeOK, RecheckOK, RecheckOf, SuccessOK, WokenFresh, Kinds, Pred
<1>1. CASE CvEnter(t) BY <1>1 DEF CvEnter, InCv
<1>2. CASE CvSleep(t) BY <1>2 DEF CvSleep, InCv
<1>3. CASE StartPass(t) BY <1>3 DEF StartPass, InCv, Goto
<1>4. CASE Loop(t) BY <1>4 DEF Loop, Goto
<1>5. CASE SuspPass(t) BY <1>5 DEF SuspPass, InCv, Goto
<1>6. CASE Enter(t) BY <1>6 DEF Enter, Goto
<1>7. CASE Take(t) BY <1>7 DEF Take, Back, Goto
<1>8. CASE KeRecheck(t) BY <1>8 DEF KeRecheck, Goto
<1>9. CASE KeFallback(t) BY <1>9 DEF KeFallback, Back, Goto
<1>10. CASE Mark(t) BY <1>10 DEF Mark, Goto
<1>11. CASE Block(t) BY <1>11 DEF Block
<1>12. CASE WaitWake(t) BY <1>12 DEF WaitWake, InCv, Goto, Succeeds
<1>13. CASE Clear(t) BY <1>13 DEF Clear, Goto
<1>14. CASE Return(t) BY <1>14 DEF Return, Back, Goto
<1>15. CASE BatchEnd(t) BY <1>15 DEF BatchEnd, Goto
<1>16. CASE WaitTimeout(t) BY <1>16 DEF WaitTimeout, InCv, Goto
<1>17. ASSUME NEW o \in Object, NEW b \in BOOLEAN, KeWait(t, o, b) PROVE EndsForCause(t, Returns)
  BY <1>17 DEF KeWait, Goto
<1> QED BY <1>1, <1>2, <1>3, <1>4, <1>5, <1>6, <1>7, <1>8, <1>9, <1>10, <1>11, <1>12,
    <1>13, <1>14, <1>15, <1>16, <1>17 DEF HostAct, HostStep

\* A wait without a timeout that entered wait_for_object ends because its object
\* was signalled or because the thread is told to stop: for any number of threads
\* on events, or for one on any objects.
THEOREM WaitsEndForCause ==
  ASSUME Untimed, OwnCount PROVE Spec => InfiniteWaitEndsForCause
<1>1. Init => RecheckOK BY DEF Init, RecheckOK, RecheckOf
<1>2. IInv /\ WInv /\ RecheckOK /\ [Next]_vars => RecheckOK' BY RecheckInductive
<1>3. IInv /\ WInv /\ RecheckOK /\ [Next]_vars => [\A t \in Thread : EndsForCause(t, Returns)]_vars
  <2> SUFFICES ASSUME IInv, WInv, RecheckOK, Next,
      NEW t \in Thread PROVE EndsForCause(t, Returns) OBVIOUS
  <2>1. ASSUME NEW u \in Thread, NEW b \in BOOLEAN, Create(u, b) PROVE EndsForCause(t, Returns)
    BY <2>1, CreateFrame DEF EndsForCause, Returns, IInv
  <2>2. ASSUME NEW u \in Thread, HostAct(u) PROVE EndsForCause(t, Returns)
    <3>1. CASE u = t BY <2>2, <3>1, EndHost DEF IInv, WInv
    <3>2. CASE u # t BY <2>2, <3>2, HostFrame DEF HostFrameOf, HostKeeps, EndsForCause, Returns, IInv
    <3> QED BY <3>1, <3>2
  <2>3. ASSUME NEW c \in Caller, CallAct(c) PROVE EndsForCause(t, Returns)
    BY <2>3, CallFrame DEF CallFrameOf, EndsForCause, Returns, IInv, CallsOK
  <2> QED BY <2>1, <2>2, <2>3, NextSplit
<1>4. Spec => []RecheckOK BY <1>1, <1>2, WaitsInvariant, PTL DEF Spec
<1> QED BY <1>3, <1>4, WaitsInvariant, PTL DEF Spec, InfiniteWaitEndsForCause
=============================================================================
