------------------------- MODULE EmulatorLifecycle -------------------------
(***************************************************************************)
(* The Emulator (core/emulator.cpp): the calls the application makes on it *)
(* and the emulation thread they start, pause, step, stop and join through *)
(* four atomic flags, a mutex and a condition variable.                    *)
(*                                                                         *)
(* A call is the sequence of its steps, in prog; the emulation thread and  *)
(* the guest threads run between any two of them.  The flags running and   *)
(* paused are written under the mutex by run, pause and stop; should_stop  *)
(* and step_frame, and paused at the end of a single-stepped frame, are    *)
(* written without it.                                                     *)
(***************************************************************************)
EXTENDS Naturals, Sequences, FiniteSets

CONSTANTS
  Game,         \* games the application can load
  BatchLimit,   \* batches after which a frame ends anyway (1000 in the code)
  MaxModules,   \* bound: entries of Kernel::modules_
  MaxMains      \* bound: main guest threads of one session

ASSUME LifecycleAssumption ==
  /\ BatchLimit \in Nat \ {0}
  /\ MaxModules \in Nat /\ MaxMains \in Nat

VARIABLES
  state,        \* Emulator::state_
  parts,        \* the subsystems that exist: the unique_ptrs that are not null
  prog,         \* the steps left of the call the application is in
  modules,      \* Kernel::modules_
  mains,        \* the main guest threads the scheduler runs, by their game
  running, paused, should_stop, step_frame,   \* EmulationThread's flags
  emu,          \* where the emulation thread is
  single_step,  \* the emulation thread's local
  batches,      \* its cpu_batches
  late,         \* history: batches it began since pause() wrote the flag
  frames,       \* history: unstepped frames it began since stop() did
  stepped       \* history: step_frame() was called in this session

flags == <<running, paused, should_stop, step_frame>>
local == <<emu, single_step, batches>>
history == <<late, frames, stepped>>
vars == <<state, parts, prog, modules, mains, flags, local, history>>

InitOrder == <<"memory", "cpu", "gpu", "apu", "vfs", "kernel", "scheduler", "xkernel", "emu_thread">>
(* Mutant: the kernel destroyed under the guest threads. *)
MutDestroyOrder == <<"xkernel", "kernel", "scheduler", "vfs", "apu", "gpu", "cpu", "memory", "emu_thread">>
DestroyOrder == <<"xkernel", "scheduler", "kernel", "vfs", "apu", "gpu", "cpu", "memory", "emu_thread">>
Parts == {InitOrder[i] : i \in DOMAIN InitOrder}
MayFail == {"memory", "cpu", "gpu", "vfs", "kernel"}
States == {"Uninitialized", "Ready", "Loaded", "Running", "Paused", "Stopped"}
Steps == Parts \cup {"prepare", "spawn", "unpause", "notify", "running", "pause", "paused",
  "clear", "stopped", "wipe", "ready", "should_stop", "join", "uninitialized"}

Places == {"none", "top", "lock", "blocking", "asleep", "woken", "check", "batch", "end", "done"}

(* mutex is held by the emulation thread between two of its own steps only *)
(* when its predicate was false and it is about to block.                  *)
Unlocked == emu # "blocking"
Joinable == emu # "none"

----------------------------------------------------------------------------
(* Calls, as the steps they are made of                                     *)

(* Mutant: the thread notified before the flags are set. *)
MutRunSteps == <<"prepare", "spawn", "notify", "unpause", "running">>
RunSteps == <<"prepare", "spawn", "unpause", "notify", "running">>
PauseSteps == <<"pause", "paused">>
StopSteps == IF state \in {"Running", "Paused"} THEN <<"clear", "notify", "stopped">> ELSE <<>>

Begin(steps) ==
  /\ prog = <<>>
  /\ prog' = steps
  /\ UNCHANGED <<modules, mains, flags, local, history>>

Initialize ==
  /\ state = "Uninitialized"
  /\ \/ \E n \in {i \in DOMAIN InitOrder : InitOrder[i] \in MayFail} :
          /\ parts' = parts \cup {InitOrder[i] : i \in 1 .. n}
          /\ UNCHANGED state
     \/ /\ \E missing \in SUBSET {"apu"} : parts' = Parts \ missing
        /\ state' = "Ready"
  /\ Begin(<<>>)

LoadGame(g) ==
  /\ state \notin {"Uninitialized", "Running"}
  /\ prog = <<>>
  /\ Len(modules) < MaxModules
  /\ modules' = Append(modules, g)
  /\ state' = "Loaded"
  /\ UNCHANGED <<parts, prog, mains, flags, local, history>>

Run ==
  /\ state \in {"Loaded", "Paused", "Stopped"}
  /\ Len(mains) < MaxMains
  /\ Begin(RunSteps)
  /\ UNCHANGED <<state, parts>>

Pause ==
  /\ state = "Running"
  /\ Begin(PauseSteps)
  /\ UNCHANGED <<state, parts>>

Stop ==
  /\ state \in {"Running", "Paused"}
  /\ Begin(StopSteps)
  /\ UNCHANGED <<state, parts>>

(* Called only once the emulator was initialized: the code does not check. *)
Reset ==
  /\ state # "Uninitialized"
  /\ Begin(StopSteps \o <<"wipe", "prepare">> \o (IF state = "Running" THEN RunSteps ELSE <<>>))
  /\ UNCHANGED <<state, parts>>

UnloadGame ==
  /\ state # "Uninitialized"
  /\ Begin((IF state = "Running" THEN StopSteps ELSE <<>>) \o <<"wipe", "ready">>)
  /\ UNCHANGED <<state, parts>>

StepFrame ==
  /\ state = "Paused"
  /\ prog = <<>>
  /\ step_frame' = TRUE
  /\ stepped' = TRUE
  /\ prog' = <<"notify">>
  /\ UNCHANGED <<state, parts, modules, mains, running, paused, should_stop, local, late, frames>>

SaveState ==
  /\ state \in {"Paused", "Running"}
  /\ Len(mains) < MaxMains
  /\ Begin(IF state = "Running" THEN PauseSteps \o RunSteps ELSE <<>>)
  /\ UNCHANGED <<state, parts>>

(* The state is Paused once the file is restored, whatever it was before.  *)
LoadState ==
  /\ state # "Uninitialized"
  /\ Len(mains) < MaxMains
  /\ \E restored \in BOOLEAN :
       Begin((IF state = "Running" THEN PauseSteps ELSE <<>>)
             \o (IF restored THEN <<"paused">> ELSE <<>>)
             \o (IF restored /\ state = "Running" THEN RunSteps ELSE <<>>))
  /\ UNCHANGED <<state, parts>>

JoinSteps == IF "emu_thread" \in parts /\ Joinable THEN <<"should_stop", "notify", "join">> ELSE <<>>

Shutdown ==
  /\ Begin(StopSteps \o JoinSteps \o DestroyOrder \o <<"uninitialized">>)
  /\ UNCHANGED <<state, parts>>

----------------------------------------------------------------------------
(* The steps of a call                                                      *)

Step(s) ==
  /\ prog # <<>>
  /\ Head(prog) = s
  /\ prog' = Tail(prog)

(* Kernel::prepare_entry starts the entry point of the first module, on a  *)
(* host thread of its own.                                                 *)
Prepare ==
  /\ Step("prepare")
  /\ mains' = IF modules = <<>> THEN mains ELSE Append(mains, Head(modules))
  /\ UNCHANGED <<state, parts, modules, flags, local, history>>

Spawn ==
  /\ Step("spawn")
  /\ IF Joinable THEN UNCHANGED <<should_stop, emu>>
                 ELSE should_stop' = FALSE /\ emu' = "top"
  /\ UNCHANGED <<state, parts, modules, mains, running, paused, step_frame, single_step, batches, history>>

SetFlags(s, r, p) ==
  /\ Step(s)
  /\ Unlocked
  /\ running' = r /\ paused' = p
  /\ late' = 0 /\ frames' = 0
  /\ UNCHANGED <<state, parts, modules, mains, should_stop, step_frame, local, stepped>>

Unpause == SetFlags("unpause", TRUE, FALSE)
SetPaused == SetFlags("pause", running, TRUE)
Clear == SetFlags("clear", FALSE, FALSE)

(* A thread that is not asleep on the condition variable misses it.        *)
Notify ==
  /\ Step("notify")
  /\ emu' = IF emu = "asleep" THEN "lock" ELSE emu
  /\ UNCHANGED <<state, parts, modules, mains, flags, single_step, batches, history>>

SetState ==
  /\ \E s \in {<<"running", "Running">>, <<"paused", "Paused">>, <<"stopped", "Stopped">>,
               <<"ready", "Ready">>, <<"uninitialized", "Uninitialized">>} :
       Step(s[1]) /\ state' = s[2]
  /\ UNCHANGED <<parts, modules, mains, flags, local, history>>

(* Every subsystem reset; the kernel forgets its modules, the scheduler    *)
(* none of its guest threads.                                              *)
Wipe ==
  /\ Step("wipe")
  /\ modules' = <<>>
  /\ UNCHANGED <<state, parts, mains, flags, local, history>>

ShouldStop ==
  /\ Step("should_stop")
  /\ should_stop' = TRUE
  /\ UNCHANGED <<state, parts, modules, mains, running, paused, step_frame, local, history>>

Join ==
  /\ Step("join")
  /\ emu = "done"
  /\ emu' = "none"
  /\ UNCHANGED <<state, parts, modules, mains, flags, single_step, batches, history>>

(* The scheduler's destructor joins the guest threads' host threads.       *)
Destroy(p) ==
  /\ Step(p)
  /\ parts' = parts \ {p}
  /\ mains' = IF p = "scheduler" THEN <<>> ELSE mains
  /\ modules' = IF p = "kernel" THEN <<>> ELSE modules
  /\ IF p = "emu_thread"
     THEN /\ running' = FALSE /\ paused' = FALSE /\ should_stop' = FALSE /\ step_frame' = FALSE
          /\ late' = 0 /\ frames' = 0 /\ stepped' = FALSE
     ELSE UNCHANGED <<flags, history>>
  /\ UNCHANGED <<state, local>>

Controller ==
  \/ Prepare \/ Spawn \/ Unpause \/ SetPaused \/ Clear \/ Notify \/ SetState \/ Wipe
  \/ ShouldStop \/ Join \/ (\E p \in Parts : Destroy(p))

----------------------------------------------------------------------------
(* The emulation thread                                                     *)

Emu(from) ==
  /\ emu = from
  /\ UNCHANGED <<state, parts, prog, modules, mains, running, should_stop, stepped>>

LoopTop ==
  /\ Emu("top")
  /\ emu' = IF should_stop THEN "done" ELSE "lock"
  /\ UNCHANGED <<paused, step_frame, single_step, batches, late, frames>>

(* Mutant: running left out of the predicate. *)
MutWaitPredicate == should_stop \/ ~paused \/ step_frame
WaitPredicate == should_stop \/ (running /\ ~paused) \/ step_frame

TestPredicate ==
  /\ Emu("lock")
  /\ emu' = IF WaitPredicate THEN "woken" ELSE "blocking"
  /\ UNCHANGED <<paused, step_frame, single_step, batches, late, frames>>

Block ==
  /\ Emu("blocking")
  /\ emu' = "asleep"
  /\ UNCHANGED <<paused, step_frame, single_step, batches, late, frames>>

SpuriousWakeup ==
  /\ Emu("asleep")
  /\ emu' = "lock"
  /\ UNCHANGED <<paused, step_frame, single_step, batches, late, frames>>

BeginFrame ==
  /\ Emu("woken")
  /\ emu' = IF should_stop THEN "done" ELSE "check"
  /\ IF should_stop THEN UNCHANGED <<step_frame, single_step, frames>>
     ELSE /\ single_step' = step_frame
          /\ step_frame' = FALSE
          /\ frames' = IF ~running /\ ~step_frame /\ frames < 2 THEN frames + 1 ELSE frames
  /\ batches' = 0
  /\ UNCHANGED <<paused, late>>

(* Mutant: the pause flag left out of the batch loop. *)
MutGoOn == ~should_stop
GoOn == ~paused /\ ~should_stop

CheckLoop ==
  /\ Emu("check")
  /\ emu' = IF GoOn THEN "batch" ELSE "end"
  /\ UNCHANGED <<paused, step_frame, single_step, batches, late, frames>>

(* Mutant: the batch limit off by one. *)
MutBatch ==
  /\ Emu("batch")
  /\ batches' = batches + 1
  /\ \E frame_complete \in BOOLEAN :
       emu' = IF frame_complete \/ batches' > BatchLimit THEN "end" ELSE "check"
  /\ late' = IF paused /\ late < 2 THEN late + 1 ELSE late
  /\ UNCHANGED <<paused, step_frame, single_step, frames>>

(* One batch of the scheduler, the kernel, the GPU and audio; the GPU may   *)
(* have finished the frame.                                                *)
Batch ==
  /\ Emu("batch")
  /\ batches' = batches + 1
  /\ \E frame_complete \in BOOLEAN :
       emu' = IF frame_complete \/ batches' >= BatchLimit THEN "end" ELSE "check"
  /\ late' = IF paused /\ late < 2 THEN late + 1 ELSE late
  /\ UNCHANGED <<paused, step_frame, single_step, frames>>

(* Presenting and frame pacing change nothing the calls see.               *)
EndFrame ==
  /\ Emu("end")
  /\ emu' = "top"
  /\ paused' = (paused \/ single_step)
  /\ UNCHANGED <<step_frame, single_step, batches, late, frames>>

EmulationThread ==
  LoopTop \/ TestPredicate \/ Block \/ BeginFrame \/ CheckLoop \/ Batch \/ EndFrame

----------------------------------------------------------------------------
Init ==
  /\ state = "Uninitialized" /\ parts = {} /\ prog = <<>> /\ modules = <<>> /\ mains = <<>>
  /\ running = FALSE /\ paused = FALSE /\ should_stop = FALSE /\ step_frame = FALSE
  /\ emu = "none" /\ single_step = FALSE /\ batches = 0
  /\ late = 0 /\ frames = 0 /\ stepped = FALSE

Call ==
  \/ Initialize \/ (\E g \in Game : LoadGame(g)) \/ Run \/ Pause \/ Stop \/ Reset
  \/ UnloadGame \/ StepFrame \/ SaveState \/ LoadState \/ Shutdown

Next == Call \/ Controller \/ EmulationThread \/ SpuriousWakeup

(* The application need not make another call, and nothing promises a      *)
(* spurious wakeup; a call that was made goes on, and so does the thread.  *)
Spec == Init /\ [][Next]_vars /\ WF_vars(Controller) /\ WF_vars(EmulationThread)

----------------------------------------------------------------------------
(* Type invariant.                                                          *)
TypeOK ==
  /\ state \in States
  /\ parts \subseteq Parts
  /\ prog \in Seq(Steps)
  /\ modules \in Seq(Game) /\ mains \in Seq(Game)
  /\ running \in BOOLEAN /\ paused \in BOOLEAN /\ should_stop \in BOOLEAN /\ step_frame \in BOOLEAN
  /\ single_step \in BOOLEAN /\ stepped \in BOOLEAN
  /\ emu \in Places
  /\ batches \in 0 .. BatchLimit
  /\ late \in 0 .. 2 /\ frames \in 0 .. 2

(* shutdown() destroys no subsystem that a thread still uses: not the ones *)
(* the emulation loop calls while that thread runs, nor the memory, CPU,   *)
(* GPU and kernel while a guest thread does.                               *)
NoUseAfterFree ==
  /\ emu \notin {"none", "done"} =>
       {"scheduler", "xkernel", "gpu", "memory", "cpu", "kernel", "emu_thread"} \subseteq parts
  /\ mains # <<>> => {"scheduler", "memory", "cpu", "gpu", "kernel"} \subseteq parts

(* After pause() wrote the flag the emulation thread runs at most the one  *)
(* batch it had already decided on, until run() or stop() clears it.       *)
PauseStops == late <= 1

(* After stop() the emulation thread begins at most one more frame, the    *)
(* one it had already been woken for, unless one is stepped.               *)
StopEndsFrame == frames <= 1

(* Once run() returned, a batch is run sooner or later, or the application *)
(* makes another call that changes the state: the wakeup is not lost.      *)
(* Sessions that single-step are left out: see the README.                 *)
RunningRuns == (state = "Running" /\ ~stepped) ~> (emu = "batch" \/ state # "Running")

(* emulator.cpp:193: shutdown() waits for the emulation thread to finish   *)
(* and then returns.                                                       *)
ShutdownReturns == (prog # <<>> /\ prog[Len(prog)] = "uninitialized") ~> (prog = <<>>)
=============================================================================
