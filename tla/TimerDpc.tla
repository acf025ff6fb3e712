------------------------------ MODULE TimerDpc ------------------------------
(***************************************************************************)
(* The kernel's timer queue and DPC queue (KernelState, kernel/xobject.cpp)*)
(* with everyone who touches them: the emulation thread, which expires     *)
(* timers and runs DPCs from XKernel::run_for and signal_vblank, and guest *)
(* threads in KeSetTimerEx, KeCancelTimer, KeInsertQueueDpc and            *)
(* KeSetEventBoostPriority, which runs DPCs too.  Neither queue's mutex is *)
(* held while a timer fires or a DPC runs.                                 *)
(*                                                                         *)
(* A DPC runs on the CPU's context 0, under that context's mutex; a kernel *)
(* call it makes goes through Kernel::handle_syscall, which looks for the  *)
(* guest thread of the host thread it is on.                               *)
(***************************************************************************)
EXTENDS Naturals, Sequences, FiniteSets

CONSTANTS
  Timer,        \* guest KTIMERs
  Dpc,          \* guest KDPCs
  NoDpc,        \* the null KDPC pointer
  Guest,        \* guest threads
  Emu,          \* the emulation thread
  Event,        \* guest events
  Routine,      \* what each KDPC's DeferredRoutine is
  DpcEvent,     \* the event a routine that sets one sets
  Period,       \* periods a guest asks for; 0 is a one-shot timer
  MaxTime,      \* bound: the system time
  MaxSet,       \* bound: KeSetTimerEx calls
  MaxDpc,       \* bound: DPCs queued by KeInsertQueueDpc
  MaxAsked      \* bound: calls of the two kinds together

Thread == Guest \cup {Emu}
Routines == {"none",     \* DeferredRoutine 0
             "invalid",  \* outside the ranges process_dpcs takes for executable
             "quiet",    \* returns without a kernel call
             "sets"}     \* calls KeSetEventBoostPriority on DpcEvent

ASSUME TimerDpcAssumption ==
  /\ NoDpc \notin Dpc
  /\ Emu \notin Guest
  /\ IsFiniteSet(Guest)
  /\ Routine \in [Dpc -> Routines]
  /\ DpcEvent \in [Dpc -> Event]
  /\ Period \subseteq Nat
  /\ MaxTime \in Nat /\ MaxSet \in Nat /\ MaxDpc \in Nat

VARIABLES
  now,           \* system_time()
  timer_queue,   \* KernelState::timer_queue_
  dpc_queue,     \* KernelState::dpc_queue_
  memory_,       \* KernelState::memory_ is set: shutdown has not run
  signal_state,  \* KTIMER.Header.SignalState
  signalled,     \* events whose SignalState is 1
  todo,          \* the emulation thread's calls up to its next choice
  current_time,  \* process_timer_queue's local
  expired,       \* process_timer_queue's local
  last,          \* history: the pass that last copied a periodic setting out
  pc,            \* where each thread is
  arg,           \* the arguments of a guest thread's call
  to_process,    \* process_dpcs' local, the entry being run first
  ctx0,          \* who holds context_mutexes_[0]
  settings,      \* history: every KeSetTimerEx, in the order of queue_timer
  fired,         \* history: how often each setting set SignalState
  withdrawn,     \* history: settings cancelled (answer TRUE), replaced or cleared
  wiped,         \* history: settings whose SignalState a later call took back
  inserted,      \* history: DPCs queued by KeInsertQueueDpc
  queued,        \* history: DPC entries queued, their numbers 1, 2, ...
  done           \* history: how often each entry was run, skipped or cleared

sharedVars == <<timer_queue, dpc_queue, signal_state, signalled>>
emuVars == <<todo, current_time, expired, last>>
threadVars == <<pc, arg, to_process, ctx0>>
setHistory == <<settings, fired, withdrawn, wiped>>
dpcHistory == <<inserted, queued, done>>
vars == <<now, memory_, sharedVars, emuVars, threadVars, setHistory, dpcHistory>>

Setting == 1..MaxSet
MaxEntry == MaxDpc + MaxSet * (MaxTime + 1)
Entry == 1..MaxEntry

NoArg == [timer |-> NoDpc]
Members(q) == {q[i] : i \in DOMAIN q}
\* What is left of q when all but S is erased, or is copied out of it.
Filter(q, S) ==
  LET f[i \in 0 .. Len(q)] ==
        IF i = 0 THEN <<>> ELSE IF q[i] \in S THEN Append(f[i - 1], q[i]) ELSE f[i - 1]
  IN f[Len(q)]
SettingsOf(t) == {s \in DOMAIN settings : settings[s].timer = t}

Goto(p, l) == pc' = [pc EXCEPT ![p] = l]

\* The calls the emulation thread makes: XKernel::run_for processes timers,
\* DPCs, DPCs again and timers again; XKernel::signal_vblank timers and DPCs.
RunFor == <<"timers", "dpcs", "dpcs", "timers">>
SignalVblank == <<"timers", "dpcs">>
-----------------------------------------------------------------------------
Init ==
  /\ now = 0
  /\ timer_queue = <<>> /\ dpc_queue = <<>>
  /\ memory_ = TRUE
  /\ signal_state = [t \in Timer |-> 0]
  /\ signalled = {}
  /\ todo = <<>> /\ current_time = 0 /\ expired = <<>>
  /\ last = [s \in Setting |-> 0]
  /\ pc = [p \in Thread |-> "idle"]
  /\ arg = [g \in Guest |-> NoArg]
  /\ to_process = [p \in Thread |-> <<>>]
  /\ ctx0 = NoDpc
  /\ settings = <<>>
  /\ fired = [s \in Setting |-> 0]
  /\ withdrawn = {} /\ wiped = {}
  /\ inserted = 0 /\ queued = 0
  /\ done = [n \in Entry |-> 0]

Tick ==
  /\ now < MaxTime
  /\ now' = now + 1
  /\ UNCHANGED <<memory_, sharedVars, emuVars, threadVars, setHistory, dpcHistory>>

\* KernelState::queue_dpc, under dpc_mutex_.
QueueDpc(d) ==
  /\ queued' = queued + 1
  /\ dpc_queue' = Append(dpc_queue, [dpc |-> d, n |-> queued + 1])

Sets == Len(settings) + Cardinality({h \in Guest : pc[h] = "set"})
-----------------------------------------------------------------------------
(* Guest threads.                                                          *)

\* HLE_KeSetTimerEx: clear SignalState, make the due time absolute ...
SetTimer(g, t, due, period, d) ==
  /\ pc[g] = "idle"
  /\ Sets < MaxSet /\ Sets + inserted < MaxAsked
  /\ signal_state' = [signal_state EXCEPT ![t] = 0]
  /\ wiped' = wiped \cup SettingsOf(t)
  /\ arg' = [arg EXCEPT ![g] = [timer |-> t, due |-> due, period |-> period, dpc |-> d]]
  /\ Goto(g, "set")
  /\ UNCHANGED <<now, memory_, timer_queue, dpc_queue, signalled, emuVars, to_process,
                 ctx0, settings, fired, withdrawn, dpcHistory>>

\* ... and KernelState::queue_timer: update the timer's entry, or append one.
QueueTimer(g) ==
  LET s == Len(settings) + 1
      e == [timer |-> arg[g].timer, due |-> arg[g].due, period |-> arg[g].period,
            dpc |-> arg[g].dpc, set |-> s]
      Same == {i \in DOMAIN timer_queue : timer_queue[i].timer = e.timer}
  IN  /\ pc[g] = "set"
      /\ settings' = Append(settings, [timer |-> e.timer, due |-> e.due, period |-> e.period])
      /\ timer_queue' = IF Same = {} THEN Append(timer_queue, e)
                        ELSE [timer_queue EXCEPT ![CHOOSE i \in Same : TRUE] = e]
      /\ withdrawn' = withdrawn \cup {timer_queue[i].set : i \in Same}
      /\ arg' = [arg EXCEPT ![g] = NoArg]
      /\ Goto(g, "idle")
      /\ UNCHANGED <<now, memory_, dpc_queue, signal_state, signalled, emuVars,
                     to_process, ctx0, fired, wiped, dpcHistory>>

\* HLE_KeCancelTimer: KernelState::cancel_timer ...
CancelTimer(g, t) ==
  LET own == {e \in Members(timer_queue) : e.timer = t}
  IN  /\ pc[g] = "idle"
      /\ timer_queue' = Filter(timer_queue, Members(timer_queue) \ own)
      /\ withdrawn' = withdrawn \cup {e.set : e \in own}
      /\ arg' = [arg EXCEPT ![g] = [timer |-> t]]
      /\ Goto(g, "clear")
      /\ UNCHANGED <<now, memory_, dpc_queue, signal_state, signalled, emuVars,
                     to_process, ctx0, settings, fired, wiped, dpcHistory>>

\* ... and, timer_mutex_ released, clear SignalState.
ClearSignal(g) ==
  LET t == arg[g].timer
  IN  /\ pc[g] = "clear"
      /\ signal_state' = [signal_state EXCEPT ![t] = 0]
      /\ wiped' = wiped \cup SettingsOf(t)
      /\ arg' = [arg EXCEPT ![g] = NoArg]
      /\ Goto(g, "idle")
      /\ UNCHANGED <<now, memory_, timer_queue, dpc_queue, signalled, emuVars,
                     to_process, ctx0, settings, fired, withdrawn, dpcHistory>>

\* HLE_KeInsertQueueDpc: the same KDPC may be queued any number of times.
InsertQueueDpc(g, d) ==
  /\ pc[g] = "idle"
  /\ inserted < MaxDpc /\ Sets + inserted < MaxAsked
  /\ inserted' = inserted + 1
  /\ QueueDpc(d)
  /\ UNCHANGED <<now, memory_, timer_queue, signal_state, signalled, emuVars,
                 threadVars, setHistory, done>>

\* KeSetEventBoostPriority: set the event, then process_dpcs.
SetEvent(g, e) ==
  /\ pc[g] = "idle"
  /\ signalled' = signalled \cup {e}
  /\ arg' = [arg EXCEPT ![g] = [timer |-> NoDpc, event |-> e]]
  /\ Goto(g, "dpcs")
  /\ UNCHANGED <<now, memory_, timer_queue, dpc_queue, signal_state, emuVars,
                 to_process, ctx0, setHistory, dpcHistory>>
-----------------------------------------------------------------------------
(* The emulation thread.                                                   *)

\* emulation_thread_main: the next call of XKernel::run_for or signal_vblank,
\* which is chosen when the last one is over.  process_timer_queue reads the time.
NextCall ==
  /\ memory_
  /\ pc[Emu] = "idle"
  /\ \E calls \in IF todo = <<>> THEN {RunFor, SignalVblank} ELSE {todo} :
       /\ Goto(Emu, Head(calls))
       /\ todo' = Tail(calls)
       /\ current_time' = IF Head(calls) = "timers" THEN now ELSE 0
  /\ UNCHANGED <<now, memory_, sharedVars, expired, last, arg, to_process, ctx0,
                 setHistory, dpcHistory>>

\* What is left of the call: go on with the loop, or return.
Continue(p, rest, l) == Goto(p, IF rest = <<>> THEN "idle" ELSE l)
NextTimer(rest) ==
  /\ expired' = rest
  /\ Continue(Emu, rest, "fire")
  /\ current_time' = IF rest = <<>> THEN 0 ELSE current_time

\* The history of the periodic timers that a pass copies out.
Stamped(due) ==
  LET periodic == {e.set : e \in {x \in due : x.period # 0}}
  IN  last' = [s \in Setting |-> IF s \in periodic THEN current_time ELSE last[s]]

MutExpire ==     \* a periodic timer that is late catches up
  LET due == {e \in Members(timer_queue) : e.due <= current_time}
      kept == Filter(timer_queue, Members(timer_queue) \ {e \in due : e.period = 0})
  IN  /\ pc[Emu] = "timers"
      /\ NextTimer(Filter(timer_queue, due))
      /\ Stamped(due)
      /\ timer_queue' = [i \in DOMAIN kept |->
           IF kept[i] \in due THEN [kept[i] EXCEPT !.due = kept[i].due + kept[i].period]
                           ELSE kept[i]]
      /\ UNCHANGED <<now, memory_, dpc_queue, signal_state, signalled, todo,
                     arg, to_process, ctx0, setHistory, dpcHistory>>

MutKeepExpired ==     \* a one-shot timer that is due is not erased
  LET due == {e \in Members(timer_queue) : e.due <= current_time}
  IN  /\ pc[Emu] = "timers"
      /\ NextTimer(Filter(timer_queue, due))
      /\ Stamped(due)
      /\ timer_queue' = [i \in DOMAIN timer_queue |->
           IF timer_queue[i] \in due
             THEN [timer_queue[i] EXCEPT !.due = current_time + 1] ELSE timer_queue[i]]
      /\ UNCHANGED <<now, memory_, dpc_queue, signal_state, signalled, todo,
                     arg, to_process, ctx0, setHistory, dpcHistory>>

\* process_timer_queue under timer_mutex_: copy what is due, move a periodic
\* timer one period on, erase a one-shot timer.
Expire ==
  LET due == {e \in Members(timer_queue) : e.due <= current_time}
      kept == Filter(timer_queue, Members(timer_queue) \ {e \in due : e.period = 0})
  IN  /\ pc[Emu] = "timers"
      /\ NextTimer(Filter(timer_queue, due))
      /\ Stamped(due)
      /\ timer_queue' = [i \in DOMAIN kept |->
           IF kept[i] \in due THEN [kept[i] EXCEPT !.due = current_time + kept[i].period]
                           ELSE kept[i]]
      /\ UNCHANGED <<now, memory_, dpc_queue, signal_state, signalled, todo,
                     arg, to_process, ctx0, setHistory, dpcHistory>>

HasRoutine(d) == d \in Dpc /\ Routine[d] # "none"

MutFire ==     \* a timer with a DPC only queues the DPC
  LET e == Head(expired)
  IN  /\ pc[Emu] = "fire"
      /\ signal_state' = IF HasRoutine(e.dpc) THEN signal_state
                         ELSE [signal_state EXCEPT ![e.timer] = 1]
      /\ fired' = [fired EXCEPT ![e.set] = @ + 1]
      /\ IF HasRoutine(e.dpc) THEN Goto(Emu, "link") /\ UNCHANGED <<expired, current_time>>
                              ELSE NextTimer(Tail(expired))
      /\ UNCHANGED <<now, memory_, timer_queue, dpc_queue, signalled, todo, last, arg,
                     to_process, ctx0, settings, withdrawn, wiped, dpcHistory>>

\* The mutex released: SignalState = 1 for the first timer in expired ...
Fire ==
  LET e == Head(expired)
  IN  /\ pc[Emu] = "fire"
      /\ signal_state' = [signal_state EXCEPT ![e.timer] = 1]
      /\ fired' = [fired EXCEPT ![e.set] = @ + 1]
      /\ IF HasRoutine(e.dpc) THEN Goto(Emu, "link") /\ UNCHANGED <<expired, current_time>>
                              ELSE NextTimer(Tail(expired))
      /\ UNCHANGED <<now, memory_, timer_queue, dpc_queue, signalled, todo, last, arg,
                     to_process, ctx0, settings, withdrawn, wiped, dpcHistory>>

\* ... and its DPC, if it has one with a routine, is queued.
LinkDpc ==
  /\ pc[Emu] = "link"
  /\ QueueDpc(Head(expired).dpc)
  /\ NextTimer(Tail(expired))
  /\ UNCHANGED <<now, memory_, timer_queue, signal_state, signalled, todo, last,
                 arg, to_process, ctx0, setHistory, inserted, done>>
-----------------------------------------------------------------------------
(* process_dpcs, in the emulation thread and in KeSetEventBoostPriority.   *)

\* What is left of to_process: run its first entry, or return.
NextDpc(p, rest) ==
  /\ to_process' = [to_process EXCEPT ![p] = rest]
  /\ Continue(p, rest, "run")
  /\ arg' = IF p \in Guest /\ rest = <<>> THEN [arg EXCEPT ![p] = NoArg] ELSE arg
Finish(p) ==
  /\ done' = [done EXCEPT ![Head(to_process[p]).n] = @ + 1]
  /\ NextDpc(p, Tail(to_process[p]))

MutSwap(p) ==     \* the entries are copied, not swapped out
  /\ pc[p] = "dpcs"
  /\ NextDpc(p, dpc_queue)
  /\ UNCHANGED <<now, memory_, sharedVars, emuVars, ctx0, setHistory, dpcHistory>>

\* Take the whole queue, under dpc_mutex_.
Swap(p) ==
  /\ pc[p] = "dpcs"
  /\ NextDpc(p, dpc_queue)
  /\ dpc_queue' = <<>>
  /\ UNCHANGED <<now, memory_, timer_queue, signal_state, signalled, emuVars, ctx0,
                 setHistory, dpcHistory>>

Runnable(e) == memory_ /\ Routine[e.dpc] \in {"quiet", "sets"}

\* An entry without an executable routine, or after shutdown, is passed over.
Skip(p) ==
  /\ pc[p] = "run"
  /\ ~Runnable(Head(to_process[p]))
  /\ Finish(p)
  /\ UNCHANGED <<now, memory_, sharedVars, emuVars, ctx0, setHistory, inserted, queued>>

\* Cpu::execute_with_context(0, ctx, ...): lock context_mutexes_[0] and run.
Execute(p) ==
  /\ pc[p] = "run"
  /\ Runnable(Head(to_process[p]))
  /\ ctx0 = NoDpc
  /\ ctx0' = p
  /\ Goto(p, IF Routine[Head(to_process[p]).dpc] = "sets" THEN "call" ELSE "ret")
  /\ UNCHANGED <<now, memory_, sharedVars, emuVars, arg, to_process, setHistory,
                 dpcHistory>>

\* Kernel::handle_syscall for a call of the routine.  On the emulation thread
\* there is no guest thread: the call is dropped.  On a guest thread it takes
\* that thread's arguments, those of the KeSetEventBoostPriority in progress.
CallOnEmu ==
  /\ pc[Emu] = "call"
  /\ Goto(Emu, "ret")
  /\ UNCHANGED <<now, memory_, sharedVars, emuVars, arg, to_process, ctx0, setHistory,
                 dpcHistory>>

CallOnGuest(g) ==
  /\ pc[g] = "call"
  /\ signalled' = signalled \cup {arg[g].event}
  /\ Goto(g, "nested")
  /\ UNCHANGED <<now, memory_, timer_queue, dpc_queue, signal_state, emuVars, arg,
                 to_process, ctx0, setHistory, dpcHistory>>

\* That call's own process_dpcs swaps the queue and passes over what has no
\* routine.  For an entry that has one it locks context_mutexes_[0] again: the
\* mutex is not recursive and this thread holds it, so it blocks for ever.
NestedDpcs(g) ==
  LET stuck == \E e \in Members(dpc_queue) : Runnable(e)
      first == CHOOSE i \in 0..Len(dpc_queue) :
                 /\ \A j \in 1..i : ~Runnable(dpc_queue[j])
                 /\ i < Len(dpc_queue) => Runnable(dpc_queue[i + 1])
      skipped == {dpc_queue[j].n : j \in 1..first}
  IN  /\ pc[g] = "nested"
      /\ done' = [n \in Entry |-> IF n \in skipped THEN done[n] + 1 ELSE done[n]]
      /\ dpc_queue' = <<>>
      /\ to_process' = [to_process EXCEPT
           ![g] = @ \o SubSeq(dpc_queue, first + 1, Len(dpc_queue))]
      /\ Goto(g, IF stuck THEN "stuck" ELSE "ret")
      /\ UNCHANGED <<now, memory_, timer_queue, signal_state, signalled, emuVars, arg,
                     ctx0, setHistory, inserted, queued>>

\* The routine returned, or made its one kernel call: execute_with_context
\* returns after a call, and process_dpcs goes on to the next entry.
EndDpc(p) ==
  /\ pc[p] = "ret"
  /\ Finish(p)
  /\ ctx0' = NoDpc
  /\ UNCHANGED <<now, memory_, sharedVars, emuVars, setHistory, inserted, queued>>

\* KernelState::shutdown, once Emulator::shutdown has joined the emulation
\* thread; guest threads still run.
Shutdown ==
  /\ memory_
  /\ pc[Emu] = "idle" /\ todo = <<>>
  /\ memory_' = FALSE
  /\ dpc_queue' = <<>>
  /\ timer_queue' = <<>>
  /\ withdrawn' = withdrawn \cup {e.set : e \in Members(timer_queue)}
  /\ done' = [n \in Entry |-> IF n \in {e.n : e \in Members(dpc_queue)}
                                THEN done[n] + 1 ELSE done[n]]
  /\ UNCHANGED <<now, signal_state, signalled, emuVars, threadVars, settings,
                 fired, wiped, inserted, queued>>

EmuStep == NextCall \/ Expire \/ Fire \/ LinkDpc \/ CallOnEmu
DpcStep(p) == Swap(p) \/ Skip(p) \/ Execute(p) \/ EndDpc(p)
GuestStep(g) == QueueTimer(g) \/ ClearSignal(g) \/ CallOnGuest(g) \/ NestedDpcs(g)
GuestCall(g) ==
  \/ \E t \in Timer, due \in now..MaxTime, period \in Period, d \in Dpc \cup {NoDpc} :
       SetTimer(g, t, due, period, d)
  \/ \E t \in Timer : CancelTimer(g, t)
  \/ \E d \in Dpc : InsertQueueDpc(g, d)
  \/ \E e \in Event : SetEvent(g, e)

Next ==
  \/ Tick \/ EmuStep \/ Shutdown
  \/ \E p \in Thread : DpcStep(p)
  \/ \E g \in Guest : GuestStep(g) \/ GuestCall(g)

Spec == Init /\ [][Next]_vars
-----------------------------------------------------------------------------
Arg == {NoArg} \cup [timer : Timer] \cup [timer : {NoDpc}, event : Event]
         \cup [timer : Timer, due : 0..MaxTime, period : Period, dpc : Dpc \cup {NoDpc}]
Timers == [timer : Timer, due : Nat, period : Period, dpc : Dpc \cup {NoDpc}, set : Setting]
Entries == [dpc : Dpc, n : Entry]

TypeOK ==
  /\ now \in 0..MaxTime /\ current_time \in 0..MaxTime
  /\ Members(timer_queue) \cup Members(expired) \subseteq Timers
  /\ Members(dpc_queue) \subseteq Entries
  /\ \A p \in Thread : Members(to_process[p]) \subseteq Entries
  /\ memory_ \in BOOLEAN
  /\ last \in [Setting -> 0..MaxTime]
  /\ signal_state \in [Timer -> 0..1] /\ signalled \subseteq Event
  /\ Members(todo) \subseteq {"timers", "dpcs"}
  /\ pc \in [Thread -> {"idle", "set", "clear", "timers", "fire", "link", "dpcs",
                         "run", "call", "ret", "nested", "stuck"}]
  /\ arg \in [Guest -> Arg]
  /\ ctx0 \in Thread \cup {NoDpc}
  /\ Len(settings) <= MaxSet /\ fired \in [Setting -> 0..MaxTime + 1]
  /\ withdrawn \subseteq DOMAIN settings /\ wiped \subseteq DOMAIN settings
  /\ inserted <= MaxDpc /\ queued <= MaxEntry /\ done \in [Entry -> Nat]

Copies(q, s) == Cardinality({i \in DOMAIN q : q[i].set = s})
Numbered(q, n) == Cardinality({i \in DOMAIN q : q[i].n = n})
InFlight(s) == Copies(expired, s) - (IF pc[Emu] = "link" /\ Head(expired).set = s THEN 1 ELSE 0)

\* Every one-shot KeSetTimerEx comes to exactly one end: its timer fires once,
\* or KeCancelTimer answers TRUE for it, or a later KeSetTimerEx replaces it, or
\* shutdown clears it; until then it is pending or in the expired list.
OneShotOnce ==
  \A s \in DOMAIN settings : settings[s].period = 0 =>
     fired[s] + InFlight(s) + Copies(timer_queue, s) + (IF s \in withdrawn THEN 1 ELSE 0) = 1

Expiries(s) == fired[s] + InFlight(s)

\* A periodic timer is never early and never catches up in a burst: a pass that
\* fires a setting fires it once, not before its due time, and a period or more
\* after the pass that fired it before, however late that one was.
FiringsApart ==
  [][\A s \in DOMAIN settings : Expiries(s)' > Expiries(s) =>
       /\ Expiries(s)' = Expiries(s) + 1
       /\ current_time >= settings[s].due
       /\ Expiries(s) > 0 => current_time >= last[s] + settings[s].period]_vars

\* A firing is not erased by the KeSetTimerEx that asked for it: SignalState
\* stays 1 until a later call on the timer takes it back.
FiringNotErased ==
  \A s \in DOMAIN settings : (fired[s] > 0 /\ s \notin wiped) =>
     signal_state[settings[s].timer] = 1

\* A queued DPC is run, or passed over, once, however many threads process the
\* queue at the same time; none is lost in between.
DpcOnce ==
  \A n \in 1..queued :
     \/ done[n] + Numbered(dpc_queue, n) = 1 /\ \A p \in Thread : Numbered(to_process[p], n) = 0
     \/ /\ done[n] + Numbered(dpc_queue, n) = 0
        /\ \E p \in Thread : /\ Numbered(to_process[p], n) = 1
                            /\ \A q \in Thread \ {p} : Numbered(to_process[q], n) = 0

\* kernel.cpp: "the DPC routines themselves signal the correct events".
DpcSignals ==
  [][\A p \in Thread : EndDpc(p) =>
       LET d == Head(to_process[p]).dpc
       IN  Routine[d] = "sets" => DpcEvent[d] \in signalled]_vars
=============================================================================
