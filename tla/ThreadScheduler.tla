-------------------------- MODULE ThreadScheduler --------------------------
(***************************************************************************)
(* cpu/xenon/threading.cpp: the scheduler that runs every guest thread on  *)
(* a host thread of its own, and the kernel calls that block and wake one  *)
(* (kernel/hle/xboxkrnl.cpp: KeWaitForSingleObject, KeSetEvent,            *)
(* KeResetEvent, KePulseEvent, KeReleaseSemaphore).                        *)
(*                                                                         *)
(* Host thread t runs create_thread's lambda; pc[t] is where it stands.    *)
(* Every other caller of the scheduler is a member of Caller and has at    *)
(* most one call in progress, call[c].  In a condition-variable wait of    *)
(* kind pc[t], cv[t] is                                                    *)
(*   "check"   the predicate is about to be evaluated (no lock yet)        *)
(*   "gap"     it was false; wait_mutex is held until ...                  *)
(*   "asleep"  ... the thread sleeps.                                      *)
(* wait_mutex is held in "gap" only; what is written without it, as        *)
(* resume_thread does, can fall there.                                     *)
(***************************************************************************)
EXTENDS Naturals

CONSTANTS
  N,                \* bound: guest threads, numbered in the order of threads_
  Object,           \* dispatcher objects in guest memory
  NoObject,         \* wait_object = 0
  Type,             \* the type byte of each object
  Caller,           \* callers outside the modelled host threads
  Calls,            \* the calls the callers make
  MaxSuspend,       \* bound: suspend_count
  MaxCount,         \* bound: the limit of a semaphore
  StartSuspended,   \* may threads be created with CREATE_SUSPENDED?
  TimedWaits,       \* may the guest wait with a finite timeout?
  BlockingWaits     \* does KeWaitForSingleObject find its thread?  At this
                    \* commit it never does: get_current_thread looks in
                    \* hw_threads_, and what fills it (threading.cpp:1096) is
                    \* not run.  FALSE is the program; TRUE checks what
                    \* wait_for_object promises once a call enters it.

Thread == 1..N
Nobody == "nobody"        \* nobody holds threads_mutex_
AllCalls == {"set", "reset", "pulse", "release", "suspend", "resume",
             "terminate", "shutdown"}

ASSUME ThreadSchedulerAssumption ==
  /\ N \in Nat \ {0}
  /\ NoObject \notin Object
  /\ Nobody \notin Caller
  /\ Type \in [Object -> {"notification", "synchronization", "semaphore"}]
  /\ Calls \subseteq AllCalls
  /\ MaxSuspend \in Nat \ {0}
  /\ MaxCount \in Nat \ {0}
  /\ {StartSuspended, TimedWaits, BlockingWaits} \subseteq BOOLEAN

VARIABLES
  made,            \* threads created so far
  state,           \* GuestThread::state
  should_run,      \* GuestThread::should_run
  suspend_count,   \* GuestThread::suspend_count
  wait_object,     \* GuestThread::wait_object
  wait_signaled,   \* GuestThread::wait_signaled
  wait_result,     \* GuestThread::wait_result
  pc,              \* where the host thread stands
  cv,              \* how far it is in a condition-variable wait
  target,          \* the object of the guest's current wait call
  timed,           \* the current wait has a timeout
  seen,            \* the signal state the current wait call read
  fresh,           \* history: a signal of target overlapped the current wait call
  signal_state,    \* the object's word in guest memory
  lock,            \* who holds threads_mutex_
  call             \* the call each caller is in

hostVars == <<made, pc, cv, target, timed, seen>>
waitVars == <<wait_object, wait_signaled, wait_result>>
vars == <<hostVars, waitVars, state, should_run, suspend_count, fresh,
          signal_state, lock, call>>

Idle == [op |-> "none", at |-> "none", t |-> 1, o |-> NoObject]
SignalOps == {"set", "pulse", "release"}

Kinds == {"start", "susp", "wait"}
MutexFree(t) == cv[t] # "gap"
Notify(t) == cv' = IF cv[t] = "asleep" THEN [cv EXCEPT ![t] = "check"] ELSE cv

\* The predicates of the three waits on wait_cv.
Pred(t, k) ==
  CASE k = "start" -> should_run[t]
    [] k = "susp"  -> suspend_count[t] = 0 \/ ~should_run[t]
    [] k = "wait"  -> wait_signaled[t] \/ ~should_run[t]

InCv(t, k, at) == pc[t] = k /\ cv[t] = at
Goto(t, where) == /\ pc' = [pc EXCEPT ![t] = where]
                  /\ cv' = [cv EXCEPT ![t] = IF where \in Kinds THEN "check" ELSE "no"]

\* A call of signal_object(o) is in progress.
Signalling(o) == \E c \in Caller : call[c].op \in SignalOps /\ call[c].o = o

Init ==
  /\ made = 0
  /\ state = [t \in Thread |-> "Created"]
  /\ should_run = [t \in Thread |-> FALSE]
  /\ suspend_count = [t \in Thread |-> 0]
  /\ wait_object = [t \in Thread |-> NoObject]
  /\ wait_signaled = [t \in Thread |-> FALSE]
  /\ wait_result = [t \in Thread |-> "ok"]
  /\ pc = [t \in Thread |-> "none"]
  /\ cv = [t \in Thread |-> "no"]
  /\ target = [t \in Thread |-> NoObject]
  /\ timed = [t \in Thread |-> FALSE]
  /\ seen = [t \in Thread |-> 0]
  /\ fresh = [t \in Thread |-> FALSE]
  /\ signal_state = [o \in Object |-> 0]
  /\ lock = Nobody
  /\ call = [c \in Caller |-> Idle]
-----------------------------------------------------------------------------
(* The host thread of guest thread t *)

\* create_thread, under threads_mutex_; not once the shutdown has begun.
Create(t, suspended) ==
  /\ lock = Nobody
  /\ t = made + 1
  /\ suspended => StartSuspended
  /\ \A c \in Caller : call[c].op # "shutdown"
  /\ made' = t
  /\ state' = [state EXCEPT ![t] = IF suspended THEN "Suspended" ELSE "Ready"]
  /\ suspend_count' = [suspend_count EXCEPT ![t] = IF suspended THEN 1 ELSE 0]
  /\ should_run' = [should_run EXCEPT ![t] = ~suspended]
  /\ Goto(t, "start")
  /\ UNCHANGED <<target, timed, seen, waitVars, fresh, signal_state, lock, call>>

\* A wait whose predicate is false takes the mutex and goes to sleep.
CvEnter(t) ==
  \E k \in Kinds :
    /\ InCv(t, k, "check") /\ ~Pred(t, k)
    /\ cv' = [cv EXCEPT ![t] = "gap"]
    /\ UNCHANGED <<made, pc, target, timed, seen, waitVars, state, should_run,
                   suspend_count, fresh, signal_state, lock, call>>

CvSleep(t) ==
  \E k \in Kinds :
    /\ InCv(t, k, "gap")
    /\ cv' = [cv EXCEPT ![t] = "asleep"]
    /\ UNCHANGED <<made, pc, target, timed, seen, waitVars, state, should_run,
                   suspend_count, fresh, signal_state, lock, call>>

StartPass(t) ==
  /\ InCv(t, "start", "check") /\ Pred(t, "start")
  /\ Goto(t, "loop")
  /\ UNCHANGED <<made, target, timed, seen, waitVars, state, should_run,
                 suspend_count, fresh, signal_state, lock, call>>

\* The head of the main loop.  Its branch for state Waiting is never taken
\* (LoopNeverWaits) and left out.
Loop(t) ==
  /\ pc[t] = "loop"
  /\ Goto(t, CASE ~should_run[t] \/ state[t] = "Terminated" -> "done"
               [] should_run[t] /\ state[t] = "Suspended" -> "susp"
               [] OTHER -> "enter")
  /\ UNCHANGED <<made, target, timed, seen, waitVars, state, should_run,
                 suspend_count, fresh, signal_state, lock, call>>

SuspPass(t) ==
  /\ InCv(t, "susp", "check") /\ Pred(t, "susp")
  /\ state' = IF suspend_count[t] = 0 THEN [state EXCEPT ![t] = "Ready"] ELSE state
  /\ Goto(t, "loop")
  /\ UNCHANGED <<made, target, timed, seen, waitVars, should_run,
                 suspend_count, fresh, signal_state, lock, call>>

\* state = Running, whatever was written since the head of the loop.
Enter(t) ==
  /\ pc[t] = "enter"
  /\ state' = [state EXCEPT ![t] = "Running"]
  /\ Goto(t, "run")
  /\ UNCHANGED <<made, target, timed, seen, waitVars, should_run,
                 suspend_count, fresh, signal_state, lock, call>>

\* A batch of guest code ends, or the guest's entry function returns.
BatchEnd(t) ==
  /\ pc[t] = "run"
  /\ \/ Goto(t, "loop") /\ UNCHANGED state
     \/ Goto(t, "done") /\ state' = [state EXCEPT ![t] = "Terminated"]
  /\ UNCHANGED <<made, target, timed, seen, waitVars, should_run,
                 suspend_count, fresh, signal_state, lock, call>>
-----------------------------------------------------------------------------
(* KeWaitForSingleObject and ThreadScheduler::wait_for_object on thread t  *)

\* The call returns to the guest.
Back(t) ==
  /\ Goto(t, "run")
  /\ target' = [target EXCEPT ![t] = NoObject]
  /\ timed' = [timed EXCEPT ![t] = FALSE]
  /\ seen' = [seen EXCEPT ![t] = 0]
  /\ fresh' = [fresh EXCEPT ![t] = FALSE]

\* The kernel call's own check of the signal state.
KeWait(t, o, withTimeout) ==
  /\ pc[t] = "run"
  /\ withTimeout => TimedWaits
  /\ target' = [target EXCEPT ![t] = o]
  /\ timed' = [timed EXCEPT ![t] = withTimeout]
  /\ seen' = [seen EXCEPT ![t] = signal_state[o]]
  /\ fresh' = [fresh EXCEPT ![t] = Signalling(o)]
  /\ Goto(t, IF signal_state[o] > 0 THEN "take" ELSE "recheck")
  /\ UNCHANGED <<made, waitVars, state, should_run, suspend_count,
                 signal_state, lock, call>>

\* Signalled: consume it and return success.  The word was read a step ago.
Take(t) ==
  /\ pc[t] = "take"
  /\ signal_state' =
       CASE Type[target[t]] = "synchronization" -> [signal_state EXCEPT ![target[t]] = 0]
         [] Type[target[t]] = "semaphore" -> [signal_state EXCEPT ![target[t]] = seen[t] - 1]
         [] OTHER -> signal_state
  /\ Back(t)
  /\ UNCHANGED <<made, waitVars, state, should_run, suspend_count, lock, call>>

\* wait_for_object's check; it does not count a semaphore down.
KeRecheck(t) ==
  /\ pc[t] = "recheck" /\ BlockingWaits
  /\ Goto(t, IF signal_state[target[t]] = 0 THEN "mark"
             ELSE IF Type[target[t]] = "synchronization" THEN "take" ELSE "back")
  /\ UNCHANGED <<made, target, timed, seen, waitVars, state, should_run,
                 suspend_count, fresh, signal_state, lock, call>>

\* The call returns STATUS_TIMEOUT at once: the timeout was zero, or
\* get_current_thread found no thread.
KeFallback(t) ==
  /\ pc[t] = "recheck" /\ (timed[t] \/ ~BlockingWaits)
  /\ Back(t)
  /\ UNCHANGED <<made, waitVars, state, should_run, suspend_count,
                 signal_state, lock, call>>

Mark(t) ==
  /\ pc[t] = "mark"
  /\ state' = [state EXCEPT ![t] = "Waiting"]
  /\ wait_object' = [wait_object EXCEPT ![t] = target[t]]
  /\ wait_signaled' = [wait_signaled EXCEPT ![t] = FALSE]
  /\ Goto(t, "marked")
  /\ UNCHANGED <<made, target, timed, seen, wait_result, should_run,
                 suspend_count, fresh, signal_state, lock, call>>

MutBlock(t) ==           \* the thread sleeps without looking at should_run
  /\ pc[t] = "marked"
  /\ wait_signaled' = [wait_signaled EXCEPT ![t] = FALSE]
  /\ pc' = [pc EXCEPT ![t] = "wait"]
  /\ cv' = [cv EXCEPT ![t] = "asleep"]
  /\ UNCHANGED <<made, target, timed, seen, wait_object, wait_result, state,
                 should_run, suspend_count, fresh, signal_state, lock, call>>

\* block_until_signaled takes wait_mutex, clears wait_signaled and evaluates
\* the predicate, in one critical section.
Block(t) ==
  /\ pc[t] = "marked"
  /\ wait_signaled' = [wait_signaled EXCEPT ![t] = FALSE]
  /\ pc' = [pc EXCEPT ![t] = IF should_run[t] THEN "wait" ELSE "back"]
  /\ cv' = [cv EXCEPT ![t] = IF should_run[t] THEN "gap" ELSE "no"]
  /\ UNCHANGED <<made, target, timed, seen, wait_object, wait_result, state,
                 should_run, suspend_count, fresh, signal_state, lock, call>>

\* The wait succeeds: it was woken, by a signal and not by a stop.
Succeeds(t) == /\ InCv(t, "wait", "check")
               /\ wait_signaled[t] /\ should_run[t] /\ wait_result[t] = "ok"

WaitWake(t) ==
  /\ InCv(t, "wait", "check") /\ Pred(t, "wait")
  /\ Goto(t, IF Succeeds(t) /\ Type[target[t]] = "synchronization"
               THEN "clear" ELSE "back")
  /\ UNCHANGED <<made, target, timed, seen, waitVars, state, should_run,
                 suspend_count, fresh, signal_state, lock, call>>

MutWaitTimeout(t) ==     \* timeout 0 no longer means infinite
  /\ InCv(t, "wait", "asleep") /\ ~Pred(t, "wait")
  /\ Goto(t, "back")
  /\ UNCHANGED <<made, target, timed, seen, waitVars, state, should_run,
                 suspend_count, fresh, signal_state, lock, call>>

\* wait_for's timeout, with the predicate false.
WaitTimeout(t) ==
  /\ InCv(t, "wait", "asleep") /\ timed[t] /\ ~Pred(t, "wait")
  /\ Goto(t, "back")
  /\ UNCHANGED <<made, target, timed, seen, waitVars, state, should_run,
                 suspend_count, fresh, signal_state, lock, call>>

\* A successful wait clears the synchronization event, again.
Clear(t) ==
  /\ pc[t] = "clear"
  /\ signal_state' = [signal_state EXCEPT ![target[t]] = 0]
  /\ Goto(t, "back")
  /\ UNCHANGED <<made, target, timed, seen, waitVars, state, should_run,
                 suspend_count, fresh, lock, call>>

MutReturn(t) ==          \* the kernel call does not yield
  /\ pc[t] = "back"
  /\ wait_object' = [wait_object EXCEPT ![t] = NoObject]
  /\ Back(t)
  /\ UNCHANGED <<made, wait_signaled, wait_result, state, should_run, suspend_count,
                 signal_state, lock, call>>

\* wait_object = 0; the kernel call yields if the state is still Waiting.
Return(t) ==
  /\ pc[t] = "back"
  /\ wait_object' = [wait_object EXCEPT ![t] = NoObject]
  /\ state' = IF state[t] = "Waiting" THEN [state EXCEPT ![t] = "Ready"] ELSE state
  /\ Back(t)
  /\ UNCHANGED <<made, wait_signaled, wait_result, should_run, suspend_count,
                 signal_state, lock, call>>
-----------------------------------------------------------------------------
(* Calls on other threads *)

At(c, op, at) == call[c].op = op /\ call[c].at = at
Step(c, at) == call' = [call EXCEPT ![c].at = at]
Done(c) == call' = [call EXCEPT ![c] = Idle]
Begin(c, op, at, t, o) ==
  /\ op \in Calls
  /\ call[c] = Idle
  /\ call' = [call EXCEPT ![c] = [op |-> op, at |-> at, t |-> t, o |-> o]]

MutSignalWake(t, result) ==      \* the notification is missing
  /\ MutexFree(t)
  /\ wait_signaled' = [wait_signaled EXCEPT ![t] = TRUE]
  /\ wait_result' = [wait_result EXCEPT ![t] = result]
  /\ UNCHANGED cv

\* GuestThread::signal_wake; the notification is merged with the writes.
SignalWake(t, result) ==
  /\ MutexFree(t)
  /\ wait_signaled' = [wait_signaled EXCEPT ![t] = TRUE]
  /\ wait_result' = [wait_result EXCEPT ![t] = result]
  /\ Notify(t)

threadVars == <<hostVars, waitVars, state, should_run,
                suspend_count>>

\* KeSetEvent, KePulseEvent and KeReleaseSemaphore write the word ...
SignalBegin(c, op, o) ==
  /\ op \in SignalOps
  /\ (op = "release") = (Type[o] = "semaphore")
  /\ Begin(c, op, "lock", 1, o)
  /\ signal_state' = [signal_state EXCEPT ![o] =
                        IF op # "release" THEN 1 ELSE IF @ < MaxCount THEN @ + 1 ELSE @]
  /\ fresh' = [t \in Thread |-> fresh[t] \/ target[t] = o]
  /\ UNCHANGED <<threadVars, lock>>

\* ... and signal_object writes an event's again, then takes threads_mutex_.
SignalWrite(c) ==
  /\ call[c].op \in SignalOps /\ call[c].at = "lock"
  /\ signal_state' = IF Type[call[c].o] = "semaphore" THEN signal_state
                     ELSE [signal_state EXCEPT ![call[c].o] = 1]
  /\ Step(c, "locking")
  /\ UNCHANGED <<threadVars, fresh, lock>>

SignalLock(c) ==
  /\ call[c].op \in SignalOps /\ call[c].at = "locking"
  /\ lock = Nobody
  /\ lock' = c
  /\ Step(c, "visit")
  /\ UNCHANGED <<threadVars, fresh, signal_state>>

\* signal_object leaves its loop: unlock; a pulse then clears the event.
Leave(c) ==
  /\ lock' = Nobody
  /\ IF call[c].op = "pulse" THEN Step(c, "unpulse") ELSE Done(c)
Further(c) == /\ call' = [call EXCEPT ![c].t = @ + 1, ![c].at = "visit"]
              /\ UNCHANGED lock

MutSignalVisit(c) ==         \* any waiting thread is woken
  LET t == call[c].t IN
  /\ call[c].op \in SignalOps /\ call[c].at = "visit"
  /\ CASE t > made -> Leave(c)
       [] t <= made /\ state[t] = "Waiting"
            -> Step(c, "wake") /\ UNCHANGED lock
       [] OTHER -> Further(c)
  /\ UNCHANGED <<threadVars, fresh, signal_state>>

SignalVisit(c) ==
  LET t == call[c].t IN
  /\ call[c].op \in SignalOps /\ call[c].at = "visit"
  /\ CASE t > made -> Leave(c)
       [] t <= made /\ state[t] = "Waiting" /\ wait_object[t] = call[c].o
            -> Step(c, "wake") /\ UNCHANGED lock
       [] OTHER -> Further(c)
  /\ UNCHANGED <<threadVars, fresh, signal_state>>

SignalWakes(c) ==
  /\ call[c].op \in SignalOps /\ call[c].at = "wake"
  /\ SignalWake(call[c].t, "ok")
  /\ Step(c, "ready")
  /\ UNCHANGED <<made, pc, target, timed, seen, wait_object, state, should_run,
                 suspend_count, fresh, signal_state, lock>>

\* The woken thread's state is set after it was woken; an event of type
\* synchronization is cleared, a semaphore counted down.
SignalReady(c) ==
  LET t == call[c].t
      o == call[c].o
  IN
  /\ call[c].op \in SignalOps /\ call[c].at = "ready"
  /\ state' = [state EXCEPT ![t] = "Ready"]
  /\ signal_state' =
       CASE Type[o] = "synchronization" -> [signal_state EXCEPT ![o] = 0]
         [] Type[o] = "semaphore" /\ signal_state[o] > 0
              -> [signal_state EXCEPT ![o] = @ - 1]
         [] OTHER -> signal_state
  /\ IF Type[o] = "synchronization" \/ (Type[o] = "semaphore" /\ signal_state[o] <= 1)
       THEN Leave(c) ELSE Further(c)
  /\ UNCHANGED <<made, target, timed, seen, waitVars, pc, cv, should_run,
                 suspend_count, fresh>>

SignalUnpulse(c) ==
  /\ At(c, "pulse", "unpulse")
  /\ signal_state' = [signal_state EXCEPT ![call[c].o] = 0]
  /\ Done(c)
  /\ UNCHANGED <<threadVars, fresh, lock>>

\* KeResetEvent.
Reset(c, o) ==
  /\ "reset" \in Calls /\ call[c] = Idle /\ Type[o] # "semaphore"
  /\ signal_state' = [signal_state EXCEPT ![o] = 0]
  /\ UNCHANGED <<threadVars, fresh, lock, call>>

\* suspend_thread only stops a thread it finds Ready.
SuspendBegin(c, t) ==
  /\ t <= made /\ suspend_count[t] < MaxSuspend
  /\ suspend_count' = [suspend_count EXCEPT ![t] = @ + 1]
  /\ IF suspend_count[t] = 0 /\ state[t] = "Ready"
       THEN Begin(c, "suspend", "write", t, NoObject)
       ELSE "suspend" \in Calls /\ call[c] = Idle /\ UNCHANGED call
  /\ UNCHANGED <<hostVars, waitVars, state, should_run, fresh, signal_state, lock>>

SuspendWrite(c) ==
  /\ At(c, "suspend", "write")
  /\ state' = [state EXCEPT ![call[c].t] = "Suspended"]
  /\ Done(c)
  /\ UNCHANGED <<hostVars, waitVars, should_run, suspend_count, fresh, signal_state, lock>>

\* resume_thread writes state and should_run and notifies without wait_mutex.
ResumeBegin(c, t) ==
  /\ t <= made /\ suspend_count[t] > 0
  /\ suspend_count' = [suspend_count EXCEPT ![t] = @ - 1]
  /\ IF suspend_count[t] = 1 /\ state[t] = "Suspended"
       THEN Begin(c, "resume", "ready", t, NoObject)
       ELSE "resume" \in Calls /\ call[c] = Idle /\ UNCHANGED call
  /\ UNCHANGED <<hostVars, waitVars, state, should_run, fresh, signal_state, lock>>

ResumeReady(c) ==
  /\ At(c, "resume", "ready")
  /\ state' = [state EXCEPT ![call[c].t] = "Ready"]
  /\ Step(c, "run")
  /\ UNCHANGED <<hostVars, waitVars, should_run, suspend_count, fresh, signal_state, lock>>

ResumeRun(c) ==
  /\ At(c, "resume", "run")
  /\ should_run' = [should_run EXCEPT ![call[c].t] = TRUE]
  /\ Step(c, "notify")
  /\ UNCHANGED <<hostVars, waitVars, state, suspend_count, fresh, signal_state, lock>>

ResumeNotify(c) ==
  /\ At(c, "resume", "notify")
  /\ Notify(call[c].t)
  /\ Done(c)
  /\ UNCHANGED <<made, pc, target, timed, seen, waitVars, state, should_run,
                 suspend_count, fresh, signal_state, lock>>

\* The host thread object is moved or joined by one call only: two at once
\* are undefined behaviour and left out.
Joining(t) == \E c \in Caller : \/ call[c].op = "terminate" /\ call[c].t = t
                                \/ call[c].op = "shutdown"

TerminateBegin(c, t) ==
  /\ t <= made /\ ~Joining(t)
  /\ Begin(c, "terminate", "wake", t, NoObject)
  /\ state' = [state EXCEPT ![t] = "Terminated"]
  /\ should_run' = [should_run EXCEPT ![t] = FALSE]
  /\ UNCHANGED <<hostVars, waitVars, suspend_count, fresh, signal_state, lock>>

TerminateWake(c) ==
  /\ At(c, "terminate", "wake")
  /\ SignalWake(call[c].t, "stop")
  /\ Step(c, "join")
  /\ UNCHANGED <<made, pc, target, timed, seen, wait_object, state, should_run,
                 suspend_count, fresh, signal_state, lock>>

TerminateJoin(c) ==
  /\ At(c, "terminate", "join")
  /\ pc[call[c].t] = "done"
  /\ Done(c)
  /\ UNCHANGED <<threadVars, fresh, signal_state, lock>>

\* shutdown, under threads_mutex_: every thread is told to stop and woken ...
ShutdownBegin(c) ==
  /\ \A t \in Thread : ~Joining(t)
  /\ lock = Nobody
  /\ lock' = c
  /\ Begin(c, "shutdown", "mark", 1, NoObject)
  /\ UNCHANGED <<threadVars, fresh, signal_state>>

ShutdownMark(c) ==
  LET t == call[c].t IN
  /\ At(c, "shutdown", "mark") /\ t <= made
  /\ should_run' = [should_run EXCEPT ![t] = FALSE]
  /\ state' = [state EXCEPT ![t] = "Terminated"]
  /\ Step(c, "wake")
  /\ UNCHANGED <<hostVars, waitVars, suspend_count, fresh, signal_state, lock>>

ShutdownWake(c) ==
  /\ At(c, "shutdown", "wake")
  /\ SignalWake(call[c].t, "stop")
  /\ call' = [call EXCEPT ![c].t = @ + 1, ![c].at = "mark"]
  /\ UNCHANGED <<made, pc, target, timed, seen, wait_object, state, should_run,
                 suspend_count, fresh, signal_state, lock>>

\* ... and then joined; threads_ is cleared.
ShutdownUnlock(c) ==
  /\ At(c, "shutdown", "mark") /\ call[c].t > made
  /\ lock' = Nobody
  /\ Step(c, "join")
  /\ UNCHANGED <<threadVars, fresh, signal_state>>

ShutdownJoin(c) ==
  /\ At(c, "shutdown", "join")
  /\ \A t \in 1..made : pc[t] = "done"
  /\ Step(c, "end")
  /\ UNCHANGED <<threadVars, fresh, signal_state, lock>>
-----------------------------------------------------------------------------
HostStep(t) ==
  \/ CvEnter(t) \/ CvSleep(t) \/ StartPass(t) \/ Loop(t)
  \/ SuspPass(t) \/ Enter(t) \/ Take(t) \/ KeRecheck(t) \/ KeFallback(t)
  \/ Mark(t) \/ Block(t) \/ WaitWake(t) \/ Clear(t) \/ Return(t)

CallStep(c) ==
  \/ SignalWrite(c) \/ SignalLock(c) \/ SignalVisit(c) \/ SignalWakes(c)
  \/ SignalReady(c) \/ SignalUnpulse(c) \/ SuspendWrite(c)
  \/ ResumeReady(c) \/ ResumeRun(c) \/ ResumeNotify(c)
  \/ TerminateWake(c) \/ TerminateJoin(c)
  \/ ShutdownMark(c) \/ ShutdownWake(c) \/ ShutdownUnlock(c) \/ ShutdownJoin(c)

Next ==
  \/ \E t \in Thread :
       \/ \E b \in BOOLEAN : Create(t, b)
       \/ HostStep(t) \/ BatchEnd(t) \/ WaitTimeout(t)
       \/ \E o \in Object, b \in BOOLEAN : KeWait(t, o, b)
  \/ \E c \in Caller :
       \/ CallStep(c) \/ ShutdownBegin(c)
       \/ \E o \in Object : Reset(c, o) \/ \E op \in SignalOps : SignalBegin(c, op, o)
       \/ \E t \in Thread : SuspendBegin(c, t) \/ ResumeBegin(c, t) \/ TerminateBegin(c, t)

Spec == Init /\ [][Next]_vars

\* The operating system runs every host thread; a batch of guest code is
\* bounded in cycles; a call in progress goes on, and gets the mutexes it asks
\* for.  Nobody has to make a call.
Fairness ==
  /\ \A t \in Thread : WF_vars(HostStep(t)) /\ SF_vars(BatchEnd(t))
  /\ \A c \in Caller : SF_vars(CallStep(c))

FairSpec == Spec /\ Fairness
-----------------------------------------------------------------------------
States == {"Created", "Ready", "Running", "Waiting", "Suspended", "Terminated"}
Points == {"none", "loop", "enter", "run", "take", "recheck", "mark", "marked",
           "clear", "back", "done"}

TypeOK ==
  /\ made \in 0..N
  /\ state \in [Thread -> States]
  /\ should_run \in [Thread -> BOOLEAN]
  /\ suspend_count \in [Thread -> 0..MaxSuspend]
  /\ wait_object \in [Thread -> Object \cup {NoObject}]
  /\ wait_signaled \in [Thread -> BOOLEAN]
  /\ wait_result \in [Thread -> {"ok", "stop"}]
  /\ pc \in [Thread -> Points \cup Kinds]
  /\ cv \in [Thread -> {"no", "check", "gap", "asleep"}]
  /\ target \in [Thread -> Object \cup {NoObject}]
  /\ timed \in [Thread -> BOOLEAN]
  /\ seen \in [Thread -> 0..MaxCount]
  /\ fresh \in [Thread -> BOOLEAN]
  /\ signal_state \in [Object -> 0..MaxCount]
  /\ lock \in Caller \cup {Nobody}
  /\ \A c \in Caller : call[c].t \in 1..(N + 1)

\* A call is about to wake t for a stop or a resume.
WakeComing(t) ==
  \E c \in Caller :
    \/ At(c, "terminate", "wake") /\ call[c].t = t
    \/ At(c, "shutdown", "wake") /\ call[c].t = t

\* block_until_signaled never sleeps through a wake: a thread asleep in it whose
\* wait is over (it was signalled, or told to stop) has its wake on the way.
NoSleepOverWake ==
  \A t \in Thread :
    InCv(t, "wait", "asleep") /\ Pred(t, "wait") => WakeComing(t)

\* No thread comes back to its loop in state Waiting, where it would block with
\* nobody to wake it: a wait that timed out leaves the state to its caller.
LoopNeverWaits == \A t \in Thread : pc[t] = "loop" => state[t] # "Waiting"

\* A blocked wait returns success only if a signal_object of its own object
\* was in progress during the wait ("Successfully signaled").
SuccessMeansSignalled ==
  [][\A t \in Thread : Succeeds(t) /\ WaitWake(t) => fresh[t]]_vars

\* A wait without a timeout that leaves where it waits by one of these ways
\* does so because its object was signalled or the thread is told to stop.
EndsForCause(t, ways) ==
  (pc[t] \in {"recheck", "marked", "wait"} /\ pc'[t] \in ways /\ ~timed[t])
    => (fresh[t] \/ ~should_run[t] \/ wait_result[t] = "stop")
Returns == {"take", "clear", "back"}     \* the ways out of wait_for_object

\* A wait without a timeout that entered wait_for_object ends because its object
\* was signalled or because the thread is told to stop, never otherwise.
InfiniteWaitEndsForCause ==
  [][\A t \in Thread : EndsForCause(t, Returns)]_vars

\* KeWaitForSingleObject "actually blocks host thread": a wait without a timeout
\* does not come back to the guest without a cause, by the fallback either.
GuestWaitBlocks ==
  [][\A t \in Thread : EndsForCause(t, Returns \cup {"run"})]_vars

\* A host thread that got past its first wait ends once it is told to stop,
\* wherever it stands: in guest code, blocked, suspended, or on its way there;
\* unless a resume_thread already under way tells it to run again.
StartedThreadStops ==
  \A t \in Thread : (pc[t] \notin {"none", "start"} /\ ~should_run[t])
                      ~> (pc[t] = "done" \/ should_run[t])

\* shutdown "wakes any blocked threads" and returns when every host thread has
\* been joined.
ShutdownReturns ==
  \A c \in Caller : At(c, "shutdown", "mark") ~> At(c, "shutdown", "end")
=============================================================================
