------------------------------ MODULE XObjects ------------------------------
(***************************************************************************)
(* kernel/xevent.cpp and kernel/xthread.cpp: the host's waitable objects,   *)
(* the threads that wait for them, and XScheduler's slices.                 *)
(*                                                                         *)
(* A wait tests its object, resets its own flags, joins the object's list  *)
(* and sleeps, each a step; a signal, the wake of the list and the reset   *)
(* of an auto-reset object are steps too, and the notify takes no mutex of  *)
(* the sleeper's. Left out: APC routines, priorities and the weights they   *)
(* give, what XKernel keeps in guest memory. Assumed: a mutant is released  *)
(* by the thread that holds it. "by" and "held" are history: the object     *)
(* whose list a wake came from, and how often a thread was granted one.     *)
(***************************************************************************)
EXTENDS Integers, Sequences, FiniteSets, Functions

CONSTANTS
  Threads,      \* XThreads that wait
  Objects,      \* what they wait for
  Offered,      \* the kinds of object there may be
  Nobody,       \* no thread, no object
  MaxCount      \* bounds a semaphore's count and a mutant's recursion

VARIABLES
  objs,         \* XObject: its kind, its state, waiters_
  xthread,      \* XThread: where it is in a call, and its flags
  caller,       \* the host thread that signals objects, and where it is in a call
  slice         \* XScheduler::run_for: the thread objects left to run

xvars == <<objs, xthread, caller, slice>>

Kinds == {"none", "notification", "synchronization", "semaphore", "mutant",
          "timer_notification", "timer_synchronization", "thread"}

\* level: signaled_, count_, recursion_count_; status: a thread's state_, or
\* what a timer does when it is due.
Blank == [kind |-> "none", level |-> 0, owner |-> Nobody, status |-> "", waiters_ |-> <<>>]
Away == [pc |-> "out", on |-> Nobody, until |-> "now", wait_satisfied_ |-> FALSE,
         wait_result_ |-> "", by |-> Nobody, held |-> [o \in Objects |-> 0]]
Idle == [pc |-> "idle", on |-> Nobody]

Init ==
  /\ objs = [o \in Objects |-> Blank]
  /\ xthread = [t \in Threads |-> Away]
  /\ caller = Idle /\ slice = {}
-----------------------------------------------------------------------------
Kind(o) == objs[o].kind
IsTimer(o) == Kind(o) \in {"timer_notification", "timer_synchronization"}
AutoReset(o) == Kind(o) \in {"synchronization", "timer_synchronization"}

is_signaled(o) ==
  CASE Kind(o) = "mutant" -> objs[o].owner = Nobody
    [] Kind(o) = "thread" -> objs[o].status = "Terminated"
    [] OTHER -> objs[o].level > 0

\* wake_from_wait: flags first, then notify_all, which reaches a sleeper only.
Woken(w, result) == [w EXCEPT !.wait_result_ = result, !.wait_satisfied_ = TRUE,
                              !.pc = IF @ = "asleep" THEN "test" ELSE @]
WokenBy(w, o) == [Woken(w, "object") EXCEPT !.by = o]

Chosen(o, count) == SubSeq(objs[o].waiters_, 1, IF count < Len(objs[o].waiters_)
                                                THEN count ELSE Len(objs[o].waiters_))
wake_waiters(o, count, obj) ==   \* under waiters_mutex_; obj: o as the caller leaves it
  LET woken == Range(Chosen(o, count)) IN
  /\ objs' = [objs EXCEPT ![o] = [obj EXCEPT !.waiters_ = SubSeq(@, Len(Chosen(o, count)) + 1, Len(@))]]
  /\ xthread' = [t \in Threads |-> IF t \in woken THEN WokenBy(xthread[t], o) ELSE xthread[t]]

Everyone == Cardinality(Threads)
Create(o, kind) ==
  /\ Kind(o) = "none"
  /\ objs' = [objs EXCEPT ![o] = [Blank EXCEPT !.kind = kind,
                                     !.status = IF kind = "thread" THEN "Suspended" ELSE ""]]
  /\ UNCHANGED <<xthread, caller, slice>>
-----------------------------------------------------------------------------
(* Signals. A call raises the object, wakes its waiters, lowers it.          *)
Raised(o, obj) == objs' = [objs EXCEPT ![o] = obj] /\ UNCHANGED xthread  \* the first store
CallAt(pc, o) == caller' = [pc |-> pc, on |-> o]
Free == caller = Idle

set(o) ==
  /\ Free /\ Kind(o) \in {"notification", "synchronization"}
  /\ Raised(o, [objs[o] EXCEPT !.level = 1])
  /\ CallAt(IF AutoReset(o) THEN "wake_one" ELSE "wake_all", o) /\ UNCHANGED slice
pulse(o) ==
  /\ Free /\ Kind(o) \in {"notification", "synchronization"}
  /\ Raised(o, [objs[o] EXCEPT !.level = 1])
  /\ CallAt("pulse_all", o) /\ UNCHANGED slice
reset(o) ==
  /\ Free /\ Kind(o) \in {"notification", "synchronization"}
  /\ objs' = [objs EXCEPT ![o].level = 0] /\ UNCHANGED <<xthread, caller, slice>>
release_semaphore(o) ==     \* capped at maximum_; waits take nothing from it
  /\ Free /\ Kind(o) = "semaphore"
  /\ \E n \in 1..MaxCount : Raised(o, [objs[o] EXCEPT !.level = IF @ + n > MaxCount THEN MaxCount ELSE @ + n])
  /\ CallAt("wake_count", o) /\ UNCHANGED slice
set_timer(o) ==
  /\ Free /\ IsTimer(o)
  /\ \E due \in {"once", "periodic"} :
       objs' = [objs EXCEPT ![o].level = 0, ![o].status = due]
  /\ UNCHANGED <<xthread, caller, slice>>
cancel_timer(o) ==
  /\ Free /\ IsTimer(o)
  /\ objs' = [objs EXCEPT ![o].level = 0, ![o].status = ""] /\ UNCHANGED <<xthread, caller, slice>>
check_and_fire(o) ==
  /\ Free /\ IsTimer(o) /\ objs[o].status # ""
  /\ Raised(o, [objs[o] EXCEPT !.level = 1])
  /\ CallAt(IF AutoReset(o) THEN "fire_one" ELSE "fire_all", o) /\ UNCHANGED slice

\* The wake, and what the call does after it.
Wake ==
  LET o == caller.on IN
  /\ caller.pc \in {"wake_all", "wake_one", "wake_count", "pulse_all", "fire_all", "fire_one"}
  /\ wake_waiters(o, CASE caller.pc \in {"wake_one", "fire_one"} -> 1
                       [] caller.pc = "wake_count" -> objs[o].level
                       [] OTHER -> Everyone, objs[o])
  /\ IF caller.pc \in {"wake_all", "wake_count"} THEN caller' = Idle
     ELSE CallAt(IF caller.pc \in {"fire_all", "fire_one"} THEN "rearm" ELSE "lower", o)
  /\ UNCHANGED slice
Lower ==
  /\ caller.pc \in {"lower", "rearm"}
  /\ objs' = [objs EXCEPT ![caller.on].level = IF caller.pc = "rearm" /\ ~AutoReset(caller.on) THEN @ ELSE 0,
                          ![caller.on].status = IF caller.pc = "rearm" /\ @ # "periodic" THEN "" ELSE @]
  /\ caller' = Idle /\ UNCHANGED <<xthread, slice>>
-----------------------------------------------------------------------------
(* Threads as objects, and the scheduler's slices.                          *)
IsThread(o) == Kind(o) = "thread"
SetState(o, state) ==
  /\ objs' = [objs EXCEPT ![o].status = state] /\ UNCHANGED <<xthread, caller, slice>>

start(o) == IsThread(o) /\ objs[o].status # "Terminated" /\ SetState(o, "Ready")
suspend(o) == IsThread(o) /\ SetState(o, "Suspended")
resume(o) == IsThread(o) /\ objs[o].status = "Suspended" /\ SetState(o, "Ready")
exit(o) ==
  /\ IsThread(o) /\ Free
  /\ Raised(o, [objs[o] EXCEPT !.status = "Terminated"])
  /\ CallAt("wake_all", o) /\ UNCHANGED slice

run_for ==                  \* who is ready now runs, whatever becomes of it
  /\ slice = {}
  /\ slice' = {o \in Objects : IsThread(o) /\ objs[o].status \in {"Ready", "Running"}}
  /\ slice' # {} /\ UNCHANGED <<objs, xthread, caller>>
Run(o) ==
  /\ o \in slice /\ objs[o].status # "Running"
  /\ objs' = [objs EXCEPT ![o].status = "Running"] /\ UNCHANGED <<xthread, caller, slice>>
SliceEnds(o) ==
  /\ o \in slice
  /\ objs' = [objs EXCEPT ![o].status = IF @ = "Running" THEN "Ready" ELSE @]
  /\ slice' = slice \ {o} /\ UNCHANGED <<xthread, caller>>
-----------------------------------------------------------------------------
(* XThread::wait.                                                           *)
At(t, pc) == xthread[t].pc = pc
Step(t, w) == xthread' = [xthread EXCEPT ![t] = w] /\ UNCHANGED <<caller, slice>>
Untils == {"now", "later", "ever"}
Begin(t, o, until) ==       \* signaled, or polling: it returns at once
  /\ At(t, "out") /\ Kind(o) # "none" /\ ~is_signaled(o) /\ until # "now"
  /\ Step(t, [xthread[t] EXCEPT !.pc = "arm", !.on = o, !.until = until, !.by = Nobody])
  /\ UNCHANGED objs
wait_multiple(t, on, until) ==   \* all of them: it waits for the first unsignaled one
  \E i \in DOMAIN on :
    /\ \A j \in 1..(i - 1) : Kind(on[j]) # "none" /\ is_signaled(on[j])
    /\ Begin(t, on[i], until)

Arm(t) ==
  /\ At(t, "arm")
  /\ Step(t, [xthread[t] EXCEPT !.pc = "add", !.wait_satisfied_ = FALSE, !.wait_result_ = "timeout"])
  /\ UNCHANGED objs
add_waiter(t) ==
  /\ At(t, "add") /\ Step(t, [xthread[t] EXCEPT !.pc = "test"])
  /\ objs' = [objs EXCEPT ![xthread[t].on].waiters_ = Append(@, t)]
Test(t) ==                  \* wait_cv_.wait's predicate
  /\ At(t, "test") /\ UNCHANGED objs
  /\ Step(t, [xthread[t] EXCEPT !.pc = IF xthread[t].wait_satisfied_ THEN "clean" ELSE "block"])
Block(t) == At(t, "block") /\ Step(t, [xthread[t] EXCEPT !.pc = "asleep"]) /\ UNCHANGED objs
Timeout(t) ==
  /\ At(t, "asleep") /\ xthread[t].until = "later"
  /\ Step(t, [xthread[t] EXCEPT !.pc = "clean"]) /\ UNCHANGED objs
MutRemove(t) ==             \* the entry stays in the list
  /\ At(t, "clean") /\ Step(t, [xthread[t] EXCEPT !.pc = "leave"]) /\ UNCHANGED objs
Without(list, t) ==         \* list::remove
  LET kept == {i \in DOMAIN list : list[i] # t}
      Place(i) == Cardinality({j \in kept : j <= i})
  IN [k \in 1..Cardinality(kept) |-> list[CHOOSE i \in kept : Place(i) = k]]
remove_waiter(t) ==
  /\ At(t, "clean") /\ Step(t, [xthread[t] EXCEPT !.pc = "leave"])
  /\ objs' = [objs EXCEPT ![xthread[t].on].waiters_ = Without(@, t)]
Leave(t) ==
  /\ At(t, "leave") /\ UNCHANGED objs
  /\ Step(t, [Away EXCEPT !.held = xthread[t].held])
alert(t) ==                 \* it may also come before the wait resets its flags
  /\ ~At(t, "out")
  /\ Step(t, Woken(xthread[t], "apc")) /\ UNCHANGED objs
-----------------------------------------------------------------------------
(* XMutant.                                                                 *)
Granted(t, o, recursion) ==
  /\ objs' = [objs EXCEPT ![o].owner = t, ![o].level = recursion]
  /\ Step(t, [Away EXCEPT !.held = [xthread[t].held EXCEPT ![o] = @ + 1]])
acquire(t, o, until) ==
  /\ At(t, "out") /\ Kind(o) = "mutant"
  /\ \/ objs[o].owner = Nobody /\ Granted(t, o, 1)
     \/ objs[o].owner = t /\ objs[o].level < MaxCount /\ Granted(t, o, objs[o].level + 1)
     \/ /\ objs[o].owner \notin {Nobody, t} /\ until # "now" /\ UNCHANGED objs
        /\ Step(t, [xthread[t] EXCEPT !.pc = "acquire", !.on = o, !.until = until])
AcquireTest(t) ==           \* the predicate, under acquire_mutex_
  LET o == xthread[t].on IN
  /\ At(t, "acquire")
  /\ \/ objs[o].owner = Nobody /\ Granted(t, o, 1)
     \/ objs[o].owner # Nobody /\ Step(t, [xthread[t] EXCEPT !.pc = "acquire_wait"]) /\ UNCHANGED objs
AcquireTimeout(t) ==
  /\ At(t, "acquire_wait") /\ xthread[t].until = "later"
  /\ Step(t, [Away EXCEPT !.held = xthread[t].held]) /\ UNCHANGED objs

release(t, o) ==            \* recursion_count_--, without acquire_mutex_
  /\ At(t, "out") /\ Kind(o) = "mutant" /\ xthread[t].held[o] > 0
  /\ objs' = [objs EXCEPT ![o].level = @ - 1]
  /\ Step(t, [xthread[t] EXCEPT !.pc = IF objs[o].level = 1 THEN "disown" ELSE "out",
                                !.on = IF objs[o].level = 1 THEN o ELSE Nobody, !.held[o] = @ - 1])
Disown(t) ==                \* owner_ = nullptr: the mutant is signaled
  LET o == xthread[t].on IN
  /\ At(t, "disown") /\ objs' = [objs EXCEPT ![o].owner = Nobody]
  /\ Step(t, [xthread[t] EXCEPT !.pc = "tell"])
Tell(t) ==                  \* wake_waiters(1), and notify_one of acquire_cv_
  LET o == xthread[t].on
      quiet == [Away EXCEPT !.held = xthread[t].held]
      asleep == {u \in Threads : At(u, "acquire_wait") /\ xthread[u].on = o} IN
  /\ At(t, "tell")
  /\ objs' = [objs EXCEPT ![o].waiters_ = SubSeq(@, Len(Chosen(o, 1)) + 1, Len(@))]
  /\ \E notified \in IF asleep = {} THEN {Nobody} ELSE asleep :
       xthread' = [u \in Threads |->
         IF u = t THEN quiet
         ELSE IF u \in Range(Chosen(o, 1)) THEN WokenBy(xthread[u], o)
         ELSE IF u = notified THEN [xthread[u] EXCEPT !.pc = "acquire"] ELSE xthread[u]]
  /\ UNCHANGED <<caller, slice>>
-----------------------------------------------------------------------------
Lists == {on \in [1..2 -> Objects] : on[1] # on[2]}
WaitStep(t) ==
  \/ Arm(t) \/ add_waiter(t) \/ Test(t) \/ Block(t) \/ Timeout(t) \/ remove_waiter(t) \/ Leave(t)
  \/ AcquireTest(t) \/ AcquireTimeout(t) \/ Disown(t) \/ Tell(t)
Signals(o) ==
  \/ set(o) \/ pulse(o) \/ reset(o) \/ release_semaphore(o)
  \/ set_timer(o) \/ cancel_timer(o) \/ check_and_fire(o)
  \/ start(o) \/ suspend(o) \/ resume(o) \/ exit(o) \/ Run(o) \/ SliceEnds(o)

Next ==
  \/ \E o \in Objects : Signals(o) \/ \E kind \in Offered : Create(o, kind)
  \/ Wake \/ Lower \/ run_for
  \/ \E t \in Threads :
       \/ WaitStep(t) \/ alert(t)
       \/ \E o \in Objects : release(t, o) \/ \E until \in Untils : Begin(t, o, until) \/ acquire(t, o, until)
       \/ \E on \in Lists, until \in Untils : wait_multiple(t, on, until)

Spec == Init /\ [][Next]_xvars
-----------------------------------------------------------------------------
TypeOK ==
  /\ \A o \in Objects : Kind(o) \in Kinds /\ objs[o].level \in 0..MaxCount
                        /\ Range(objs[o].waiters_) \subseteq Threads
  /\ \A t \in Threads : \A o \in Objects : xthread[t].held[o] \in 0..MaxCount
  /\ slice \subseteq Objects

(* A wait that is about to report its object was woken by that object since  *)
(* it began: no wake meant for an earlier wait reaches it.                   *)
WakesAreOfThisWait ==
  \A t \in Threads : At(t, "leave") /\ xthread[t].wait_result_ = "object" => xthread[t].by = xthread[t].on

(* A list holds only threads that are in a wait for that object, each once: *)
(* when a thread goes away no object keeps its address.                     *)
ListsHoldWaiters ==
  \A o \in Objects :
    /\ \A t \in Range(objs[o].waiters_) : xthread[t].on = o /\ ~At(t, "leave")
    /\ Cardinality(Range(objs[o].waiters_)) = Len(objs[o].waiters_)

(* A mutant is held by one thread at most, the one it names, though release *)
(* does not take the mutex that acquire does.                               *)
MutantExclusive ==
  \A o \in Objects, t \in Threads : xthread[t].held[o] > 0 =>
    objs[o].owner = t /\ objs[o].level = xthread[t].held[o]

\* Threads, the lists of what they wait for and the mutants they hold name each
\* other rightly.
WaitersAgree == WakesAreOfThisWait /\ ListsHoldWaiters /\ MutantExclusive
=============================================================================
