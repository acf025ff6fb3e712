--------------------------- MODULE KernelThreads ---------------------------
(***************************************************************************)
(* kernel/threading.cpp: the waitable objects of KernelThreadManager and   *)
(* the threads that wait for them, as the calls of                         *)
(* hle/xboxkrnl_threading.cpp reach them.                                  *)
(*                                                                         *)
(* A wait gathers its objects under objects_mutex_ and then works on bare  *)
(* pointers: it tests them, takes what it tested, or sleeps on the first    *)
(* one's condition variable, each a step that others come between. The     *)
(* 1:1 threads have no current thread of a processor, so a wait is never    *)
(* alerted and a mutant never gets an owner: it stays signaled. Left out:   *)
(* critical sections, thread-local values, delays; a semaphore's count--    *)
(* is one step; a handle is closed when no wait is using it.                *)
(***************************************************************************)
EXTENDS Integers, SequencesExt, FiniteSetsExt

CONSTANTS
  Waiters,      \* the threads that wait
  g_ktm,        \* whether a manager was there to be registered
  MaxHandles, MaxCount, MaxPosted  \* bounds: objects, a semaphore's maximum, packets of a port

VARIABLES
  objects_,     \* handle |-> what it names
  next_handle_,
  wait          \* thread |-> the wait it is in

kvars == <<objects_, next_handle_, wait>>

Kinds == {"notification", "synchronization", "semaphore", "mutant", "timer", "port"}
\* signal: signaled of an event or a timer, a semaphore's count. due: what an
\* active timer does when it expires. posted counts a port's packets, which are
\* numbered; removed is the history of those taken out.
Fresh(kind, signal) == [kind |-> kind, signal |-> signal, due |-> "never",
                        packet_queue |-> <<>>, posted |-> 0, removed |-> <<>>]
Out == [pc |-> "out", on |-> <<>>, for |-> "any", until |-> "now", at |-> 0]

Init == objects_ = <<>> /\ next_handle_ = 1 /\ wait = [t \in Waiters |-> Out]
-----------------------------------------------------------------------------
is_signaled(h) ==
  CASE objects_[h].kind = "mutant" -> TRUE
    [] objects_[h].kind = "port" -> objects_[h].packet_queue # <<>>
    [] OTHER -> objects_[h].signal > 0

Taken(o) ==                 \* on_wait_satisfied
  CASE o.kind \in {"synchronization", "timer"} -> [o EXCEPT !.signal = 0]
    [] o.kind = "semaphore" /\ o.signal > 0 -> [o EXCEPT !.signal = @ - 1]
    [] OTHER -> o

check_wait_satisfied(w) ==
  IF w.for = "all" THEN \A i \in DOMAIN w.on : is_signaled(w.on[i])
                   ELSE \E i \in DOMAIN w.on : is_signaled(w.on[i])

Named(h, kinds) == h \in DOMAIN objects_ /\ objects_[h].kind \in kinds

\* notify_all on the object's condition variable: it does not take wait_mutex,
\* so it reaches those who sleep already and no one who is about to.
wake_waiters(hs) ==
  wait' = [t \in Waiters |->
             IF wait[t].pc = "asleep" /\ wait[t].on[1] \in hs
             THEN [wait[t] EXCEPT !.pc = "test"] ELSE wait[t]]

\* A pulse, and a periodic timer's firing, hold objects_mutex_ between their two
\* steps: signaled, and unsignaled again.
Unlocked == \A h \in DOMAIN objects_ : objects_[h].due # "reset"

Put(h, o) == objects_' = [objects_ EXCEPT ![h] = o] /\ UNCHANGED next_handle_
Quietly == UNCHANGED wait
-----------------------------------------------------------------------------
(* Objects and their handles.                                               *)
allocate_handle(o) ==
  /\ next_handle_ <= MaxHandles
  /\ objects_' = [h \in DOMAIN objects_ \union {next_handle_} |->
                    IF h = next_handle_ THEN o ELSE objects_[h]]
  /\ next_handle_' = next_handle_ + 1
  /\ Quietly

create_event(kind, on) == allocate_handle(Fresh(kind, on))
create_semaphore(count) == allocate_handle(Fresh("semaphore", count))
create_mutant == allocate_handle(Fresh("mutant", 0))
create_timer == allocate_handle(Fresh("timer", 0))
create_io_completion == allocate_handle(Fresh("port", 0))

close_handle(h) ==          \* no kernel call reaches it; no wait is using h
  /\ h \in DOMAIN objects_
  /\ \A t \in Waiters : \A i \in DOMAIN wait[t].on : wait[t].on[i] # h
  /\ objects_' = [k \in DOMAIN objects_ \ {h} |-> objects_[k]]
  /\ UNCHANGED next_handle_ /\ Quietly
-----------------------------------------------------------------------------
(* What signals them.                                                       *)
Events == {"notification", "synchronization"}

set_event(h) ==
  /\ Named(h, Events)
  /\ Put(h, [objects_[h] EXCEPT !.signal = 1]) /\ wake_waiters({h})

clear_event(h) ==
  /\ Named(h, Events)
  /\ Put(h, [objects_[h] EXCEPT !.signal = 0]) /\ Quietly

pulse_event(h) ==           \* set, woken and reset under one lock: two steps
  /\ Named(h, Events)       \* to a wait, which tests without it
  /\ Put(h, [objects_[h] EXCEPT !.signal = 1, !.due = "reset"]) /\ wake_waiters({h})

After(o) == IF o.kind = "timer" THEN "periodic" ELSE "never"
Unsignal(h) ==              \* the pulse ends; a periodic timer goes on to its next period
  /\ h \in DOMAIN objects_ /\ objects_[h].due = "reset"
  /\ Put(h, [objects_[h] EXCEPT !.signal = 0, !.due = After(objects_[h])]) /\ Quietly

MutRelease(h, n) ==         \* the limit is not looked at
  /\ Named(h, {"semaphore"}) /\ objects_[h].signal <= MaxCount
  /\ Put(h, [objects_[h] EXCEPT !.signal = @ + n]) /\ wake_waiters({h})
release_semaphore(h, n) ==
  /\ Named(h, {"semaphore"}) /\ objects_[h].signal + n <= MaxCount
  /\ Put(h, [objects_[h] EXCEPT !.signal = @ + n]) /\ wake_waiters({h})

release_mutant(h) ==        \* nobody owns it, and nobody is who calls
  /\ Named(h, {"mutant"})
  /\ UNCHANGED <<objects_, next_handle_>> /\ wake_waiters({h})

set_timer(h, due) ==
  /\ Named(h, {"timer"})
  /\ Put(h, [objects_[h] EXCEPT !.signal = 0, !.due = due]) /\ Quietly

cancel_timer(h) ==
  /\ Named(h, {"timer"})
  /\ Put(h, [objects_[h] EXCEPT !.signal = 0, !.due = "never"]) /\ Quietly

process_timer_queue(h) ==   \* of the active timers whose time has come, one at a time
  /\ Named(h, {"timer"}) /\ objects_[h].due \in {"once", "periodic"}
  /\ Put(h, [objects_[h] EXCEPT !.signal = 1,
                                !.due = IF objects_[h].due = "periodic" THEN "reset" ELSE "never"])
  /\ wake_waiters({h})

set_io_completion(h) ==
  /\ Named(h, {"port"}) /\ objects_[h].posted < MaxPosted
  /\ Put(h, [objects_[h] EXCEPT !.posted = @ + 1, !.packet_queue = Append(@, objects_[h].posted + 1)])
  /\ wake_waiters({h})
-----------------------------------------------------------------------------
(* Waits.                                                                   *)
Enter(t, on, for, until) ==
  /\ wait[t].pc = "out"
  /\ \A i \in DOMAIN on : on[i] \in DOMAIN objects_
  /\ wait' = [wait EXCEPT ![t] = [pc |-> "test", on |-> on, for |-> for, until |-> until, at |-> 0]]
  /\ UNCHANGED <<objects_, next_handle_>>

wait_for_single_object(t, h, until) == Enter(t, <<h>>, "any", until)
wait_for_multiple_objects(t, on, for, until) == Len(on) > 1 /\ Enter(t, on, for, until)
remove_io_completion(t, h, until) == Named(h, {"port"}) /\ Enter(t, <<h>>, "packet", until)

Goto(t, pc) == wait' = [wait EXCEPT ![t].pc = pc, ![t].at = 1]
Leave(t) == wait' = [wait EXCEPT ![t] = Out]

Test(t) ==
  /\ wait[t].pc = "test" /\ wait[t].for # "packet"
  /\ UNCHANGED <<objects_, next_handle_>>
  /\ \/ check_wait_satisfied(wait[t]) /\ Goto(t, "take")
     \/ ~check_wait_satisfied(wait[t]) /\ wait[t].until # "ever" /\ Leave(t)
     \/ ~check_wait_satisfied(wait[t]) /\ wait[t].until # "now" /\ Goto(t, "sleep")

Here(t) == wait[t].on[wait[t].at]

Take(t) ==                  \* is_signaled again, object by object
  /\ wait[t].pc = "take"
  /\ UNCHANGED <<objects_, next_handle_>>
  /\ \/ is_signaled(Here(t)) /\ wait' = [wait EXCEPT ![t].pc = "satisfy"]
     \/ /\ ~is_signaled(Here(t)) /\ wait[t].at < Len(wait[t].on)
        /\ wait' = [wait EXCEPT ![t].at = @ + 1]
     \/ ~is_signaled(Here(t)) /\ wait[t].at = Len(wait[t].on) /\ Leave(t)

Satisfy(t) ==
  /\ wait[t].pc = "satisfy"
  /\ Put(Here(t), Taken(objects_[Here(t)]))
  /\ IF wait[t].for = "any" \/ wait[t].at = Len(wait[t].on) THEN Leave(t)
     ELSE wait' = [wait EXCEPT ![t].pc = "take", ![t].at = @ + 1]

Dequeue(t) ==               \* under queue_mutex
  /\ wait[t].pc = "test" /\ wait[t].for = "packet"
  /\ LET o == objects_[wait[t].on[1]] IN
     \/ /\ o.packet_queue # <<>>
        /\ Put(wait[t].on[1], [o EXCEPT !.packet_queue = Tail(@),
                                        !.removed = Append(@, Head(o.packet_queue))])
        /\ Leave(t)
     \/ /\ o.packet_queue = <<>> /\ UNCHANGED <<objects_, next_handle_>>
        /\ \/ wait[t].until # "ever" /\ Leave(t)
           \/ wait[t].until # "now" /\ Goto(t, "sleep")

Sleep(t) ==                 \* wait_mutex is taken, and only then is t in wait_cv
  /\ wait[t].pc = "sleep" /\ Goto(t, "asleep")
  /\ UNCHANGED <<objects_, next_handle_>>

MutWaitUntilTold(t) ==      \* wait where the timeout is infinite, not wait_for
  /\ wait[t].pc = "asleep" /\ wait[t].until # "ever" /\ Goto(t, "test")
  /\ UNCHANGED <<objects_, next_handle_>>
WaitedEnough(t) ==          \* no sleep is longer than 5 ms
  /\ wait[t].pc = "asleep" /\ Goto(t, "test")
  /\ UNCHANGED <<objects_, next_handle_>>

WaitStep(t) == Test(t) \/ Take(t) \/ Satisfy(t) \/ Dequeue(t) \/ Sleep(t) \/ WaitedEnough(t)
-----------------------------------------------------------------------------
(* The kernel's calls, which fail at once when no manager is registered.     *)
Called == g_ktm /\ Unlocked

NtCreateEvent == Called /\ \E kind \in Events, on \in {0, 1} : create_event(kind, on)
NtSetEvent(h) == Called /\ set_event(h)
NtClearEvent(h) == Called /\ clear_event(h)
NtPulseEvent(h) == Called /\ pulse_event(h)
NtCreateSemaphore == Called /\ \E count \in 0..MaxCount : create_semaphore(count)
NtReleaseSemaphore(h) == Called /\ \E n \in 1..MaxCount : release_semaphore(h, n)
NtCreateMutant == Called /\ create_mutant
NtReleaseMutant(h) == Called /\ release_mutant(h)
NtCreateTimer == Called /\ create_timer
NtSetTimer(h) == Called /\ \E due \in {"once", "periodic"} : set_timer(h, due)
NtCancelTimer(h) == Called /\ cancel_timer(h)
NtCreateIoCompletion == Called /\ create_io_completion
NtSetIoCompletion(h) == Called /\ set_io_completion(h)

Invalid(h) == Called /\ h \notin DOMAIN objects_ /\ UNCHANGED kvars  \* STATUS_INVALID_HANDLE

Untils == {"now", "later", "ever"}  \* a zero, a finite and no timeout
Lists == {on \in [1..2 -> DOMAIN objects_] : on[1] # on[2]}
NtWaitForSingleObject(t) ==
  Called /\ \E h \in DOMAIN objects_, until \in Untils : wait_for_single_object(t, h, until)
NtWaitForMultipleObjects(t) ==
  Called /\ \E on \in Lists, for \in {"any", "all"}, until \in Untils :
             wait_for_multiple_objects(t, on, for, until)
NtRemoveIoCompletion(t) ==
  Called /\ \E h \in DOMAIN objects_, until \in Untils : remove_io_completion(t, h, until)

Create == NtCreateEvent \/ NtCreateSemaphore \/ NtCreateMutant \/ NtCreateTimer \/ NtCreateIoCompletion
Signal(h) ==
  \/ NtSetEvent(h) \/ NtClearEvent(h) \/ NtPulseEvent(h)
  \/ NtReleaseSemaphore(h) \/ NtReleaseMutant(h)
  \/ NtSetTimer(h) \/ NtCancelTimer(h) \/ NtSetIoCompletion(h)

Next ==
  \/ Create
  \/ \E h \in DOMAIN objects_ :
       \/ Signal(h) \/ Unsignal(h)
       \/ Unlocked /\ (close_handle(h) \/ process_timer_queue(h))
  \/ \E h \in (1..(MaxHandles + 1)) \ DOMAIN objects_ : Invalid(h)
  \/ \E t \in Waiters :
       \/ NtWaitForSingleObject(t) \/ NtWaitForMultipleObjects(t) \/ NtRemoveIoCompletion(t)
       \/ WaitStep(t)

Spec == Init /\ [][Next]_kvars
-----------------------------------------------------------------------------
TypeOK ==
  /\ \A h \in DOMAIN objects_ :
       /\ objects_[h].kind \in Kinds /\ objects_[h].signal \in 0..MaxCount
       /\ objects_[h].due \in {"never", "once", "periodic", "reset"}
  /\ next_handle_ \in 1..(MaxHandles + 1)
  /\ \A t \in Waiters : wait[t].pc \in {"out", "test", "take", "satisfy", "sleep", "asleep"}

(* What was removed from a port and what is still in it are the packets     *)
(* posted to it, in the order they were posted, whoever removed them.       *)
PacketsOnceInOrder ==
  \A h \in DOMAIN objects_ :
    LET o == objects_[h] IN o.removed \o o.packet_queue = [i \in 1..o.posted |-> i]

(* A wait is to end when what it waits for stays signaled, though set and   *)
(* post notify without the mutex it sleeps under: no thread stays Answered.  *)
Answered(t) ==
  /\ wait[t].pc # "out"
  /\ check_wait_satisfied(wait[t])
=============================================================================
