--------------------------- MODULE EmulatorProofs ---------------------------
(***************************************************************************)
(* Proofs about EmulatorLifecycle, for every number of games, batches to a *)
(* frame, loaded modules and main threads: its types; that pause() and     *)
(* stop() take effect within one batch and one frame; and that shutdown()  *)
(* destroys no subsystem a thread still uses, whatever sequence of calls   *)
(* came before it, however initialization failed, and wherever the         *)
(* emulation thread is.                                                    *)
(*                                                                         *)
(* The last argument is about the order of the steps left in prog: a step  *)
(* that destroys waits behind the join, the guest's subsystems wait behind *)
(* the scheduler, and a call that destroys starts no thread and runs to    *)
(* its last step, which leaves the emulator Uninitialized.                 *)
(*                                                                         *)
(* After these, in parts of their own, the components whose runs are       *)
(* beside it: the application's screens (AppLifecycle), the controls       *)
(* (Input), saved states (SaveStates), the guest's memory (GuestMemory)    *)
(* and the shaders in memory and on disk (ShaderCache).                    *)
(***************************************************************************)
EXTENDS EmulatorLifecycle, SequenceTheorems, FiniteSetTheorems, WellFoundedInduction, TLAPS

(* Why one batch is enough: once one ran with the flag set, the flag is     *)
(* still set, and the thread will not decide on another.                   *)
PauseHolds == late \in {0, 1} /\ (late = 1 => paused /\ emu # "batch")

(* Why one frame is enough: once one began after stop(), running is still  *)
(* clear, and only a step or the end wakes the thread for another.         *)
StopHolds ==
  /\ frames \in {0, 1}
  /\ frames = 1 => ~running /\ (emu = "woken" => should_stop \/ step_frame)

BatchesLeft == emu \in {"check", "batch"} => batches < BatchLimit

IInv == TypeOK /\ PauseHolds /\ StopHolds /\ BatchesLeft

(* The sequences of steps the calls are made of.                           *)
LEMMA PartsValue ==
  Parts = {"memory", "cpu", "gpu", "apu", "vfs", "kernel", "scheduler", "xkernel", "emu_thread"}
<1>1. DOMAIN InitOrder = 1 .. 9
  BY DEF InitOrder
<1>2. 1 .. 9 = {1, 2, 3, 4, 5, 6, 7, 8, 9}
  BY SMT
<1> QED
  BY <1>1, <1>2 DEF Parts, InitOrder

LEMMA StepSequences ==
  /\ RunSteps \in Seq(Steps) /\ PauseSteps \in Seq(Steps) /\ StopSteps \in Seq(Steps)
  /\ JoinSteps \in Seq(Steps) /\ DestroyOrder \in Seq(Steps)
<1>1. RunSteps \in Seq(Steps) /\ PauseSteps \in Seq(Steps)
  BY DEF RunSteps, PauseSteps, Steps
<1>2. StopSteps \in Seq(Steps)
  <2>1. <<>> \in Seq(Steps) /\ <<"clear", "notify", "stopped">> \in Seq(Steps)
    BY DEF Steps
  <2> QED
    BY <2>1, Zenon DEF StopSteps
<1>3. JoinSteps \in Seq(Steps)
  <2>1. <<>> \in Seq(Steps) /\ <<"should_stop", "notify", "join">> \in Seq(Steps)
    BY DEF Steps
  <2> QED
    BY <2>1, Zenon DEF JoinSteps
<1>4. DestroyOrder \in Seq(Steps)
  BY PartsValue DEF DestroyOrder, Steps
<1> QED
  BY <1>1, <1>2, <1>3, <1>4

THEOREM InitIInv == Init => IInv
<1> SUFFICES ASSUME Init PROVE IInv
  OBVIOUS
<1>1. TypeOK
  <2>1. prog \in Seq(Steps) /\ modules \in Seq(Game) /\ mains \in Seq(Game)
    BY EmptySeq DEF Init
  <2>3. /\ running \in BOOLEAN /\ paused \in BOOLEAN /\ should_stop \in BOOLEAN
        /\ step_frame \in BOOLEAN /\ single_step \in BOOLEAN /\ stepped \in BOOLEAN
    BY DEF Init
  <2>4. state \in States /\ parts \subseteq Parts /\ emu \in Places
    BY DEF Init, States, Places
  <2>5. batches \in 0 .. BatchLimit /\ late \in 0 .. 2 /\ frames \in 0 .. 2
    BY LifecycleAssumption DEF Init
  <2> QED
    BY <2>1, <2>3, <2>4, <2>5 DEF TypeOK
<1>2. PauseHolds /\ StopHolds /\ BatchesLeft
  BY DEF Init, PauseHolds, StopHolds, BatchesLeft
<1> QED
  BY <1>1, <1>2 DEF IInv

(* A call that only queues its steps leaves the thread's part alone.        *)
LEMMA BeginKeeps ==
  ASSUME IInv, NEW steps \in Seq(Steps), Begin(steps),
         state' \in States, parts' \subseteq Parts
  PROVE  IInv'
<1>1. TypeOK'
  BY DEF Begin, IInv, TypeOK, flags, local, history
<1>2. PauseHolds' /\ StopHolds' /\ BatchesLeft'
  BY DEF Begin, IInv, PauseHolds, StopHolds, BatchesLeft, flags, local, history
<1> QED
  BY <1>1, <1>2 DEF IInv

(* Every call of the application leaves it in IInv.                        *)
LEMMA CallKeeps == ASSUME IInv, Call PROVE IInv'
<1>types. state \in States /\ parts \subseteq Parts
  BY DEF IInv, TypeOK
<1>none. <<>> \in Seq(Steps)
  BY EmptySeq
<1>1. CASE Initialize
  <2>1. DOMAIN InitOrder = 1 .. 9
    BY DEF InitOrder
  <2>2. \A n \in DOMAIN InitOrder : {InitOrder[i] : i \in 1 .. n} \subseteq Parts
    BY <2>1 DEF Parts
  <2>3. parts' \subseteq Parts
    BY <1>1, <1>types, <2>2 DEF Initialize
  <2>4. state' \in States
    BY <1>1, <1>types DEF Initialize, States
  <2> QED
    BY <1>1, <2>3, <2>4, <1>none, BeginKeeps DEF Initialize
<1>2. CASE \E g \in Game : LoadGame(g)
  <2> PICK g \in Game : LoadGame(g)
    BY <1>2
  <2>1. modules' \in Seq(Game)
    BY AppendProperties DEF LoadGame, IInv, TypeOK
  <2>2. TypeOK'
    BY <2>1 DEF LoadGame, IInv, TypeOK, States, flags, local, history
  <2>3. PauseHolds' /\ StopHolds' /\ BatchesLeft'
    BY DEF LoadGame, IInv, PauseHolds, StopHolds, BatchesLeft, flags, local, history
  <2> QED
    BY <2>2, <2>3 DEF IInv
<1>3. CASE Run
  BY <1>3, <1>types, StepSequences, BeginKeeps DEF Run
<1>4. CASE Pause
  BY <1>4, <1>types, StepSequences, BeginKeeps DEF Pause
<1>5. CASE Stop
  BY <1>5, <1>types, StepSequences, BeginKeeps DEF Stop
<1>6. CASE Reset
  <2>1. <<"wipe", "prepare">> \in Seq(Steps)
    BY DEF Steps
  <2>2. (IF state = "Running" THEN RunSteps ELSE <<>>) \in Seq(Steps)
    BY <1>none, StepSequences
  <2>3. StopSteps \o <<"wipe", "prepare">> \o (IF state = "Running" THEN RunSteps ELSE <<>>) \in Seq(Steps)
    BY <2>1, <2>2, StepSequences, ConcatProperties
  <2> QED
    BY <1>6, <1>types, <2>3, BeginKeeps DEF Reset
<1>7. CASE UnloadGame
  <2>1. <<"wipe", "ready">> \in Seq(Steps)
    BY DEF Steps
  <2>2. (IF state = "Running" THEN StopSteps ELSE <<>>) \in Seq(Steps)
    BY <1>none, StepSequences
  <2>3. (IF state = "Running" THEN StopSteps ELSE <<>>) \o <<"wipe", "ready">> \in Seq(Steps)
    BY <2>1, <2>2, ConcatProperties
  <2> QED
    BY <1>7, <1>types, <2>3, BeginKeeps DEF UnloadGame
<1>8. CASE StepFrame
  <2>1. <<"notify">> \in Seq(Steps)
    BY DEF Steps
  <2>2. TypeOK'
    BY <1>8, <2>1 DEF StepFrame, IInv, TypeOK, local
  <2>3. PauseHolds' /\ StopHolds' /\ BatchesLeft'
    BY <1>8 DEF StepFrame, IInv, PauseHolds, StopHolds, BatchesLeft, local
  <2> QED
    BY <2>2, <2>3 DEF IInv
<1>9. CASE SaveState
  <2>1. (IF state = "Running" THEN PauseSteps \o RunSteps ELSE <<>>) \in Seq(Steps)
    BY <1>none, StepSequences, ConcatProperties
  <2> QED
    BY <1>9, <1>types, <2>1, BeginKeeps DEF SaveState
<1>10. CASE LoadState
  <2> PICK restored \in BOOLEAN :
        Begin((IF state = "Running" THEN PauseSteps ELSE <<>>)
              \o (IF restored THEN <<"paused">> ELSE <<>>)
              \o (IF restored /\ state = "Running" THEN RunSteps ELSE <<>>))
    BY <1>10 DEF LoadState
  <2>1. <<"paused">> \in Seq(Steps)
    BY DEF Steps
  <2>2. /\ (IF state = "Running" THEN PauseSteps ELSE <<>>) \in Seq(Steps)
        /\ (IF restored THEN <<"paused">> ELSE <<>>) \in Seq(Steps)
        /\ (IF restored /\ state = "Running" THEN RunSteps ELSE <<>>) \in Seq(Steps)
    BY <1>none, <2>1, StepSequences
  <2>3. (IF state = "Running" THEN PauseSteps ELSE <<>>)
        \o (IF restored THEN <<"paused">> ELSE <<>>)
        \o (IF restored /\ state = "Running" THEN RunSteps ELSE <<>>) \in Seq(Steps)
    BY <2>2, ConcatProperties
  <2> QED
    BY <1>10, <1>types, <2>3, BeginKeeps DEF LoadState
<1>11. CASE Shutdown
  <2>1. <<"uninitialized">> \in Seq(Steps)
    BY DEF Steps
  <2>2. StopSteps \o JoinSteps \o DestroyOrder \o <<"uninitialized">> \in Seq(Steps)
    BY <2>1, StepSequences, ConcatProperties
  <2> QED
    BY <1>11, <1>types, <2>2, BeginKeeps DEF Shutdown
<1> QED
  BY <1>1, <1>2, <1>3, <1>4, <1>5, <1>6, <1>7, <1>8, <1>9, <1>10, <1>11 DEF Call

(* Every step of a call leaves it in IInv.  What a step shares with the     *)
(* others: the rest of the call is still a sequence of steps.              *)
LEMMA StepTail == ASSUME TypeOK, NEW s, Step(s) PROVE prog' \in Seq(Steps)
  BY HeadTailProperties DEF TypeOK, Step

LEMMA ControllerKeeps == ASSUME IInv, Controller PROVE IInv'
<1>types. TypeOK
  BY DEF IInv
<1>1. CASE Prepare
  <2>1. prog' \in Seq(Steps)
    BY <1>1, <1>types, StepTail DEF Prepare
  <2>2. mains' \in Seq(Game)
    BY <1>1, <1>types, HeadTailProperties, AppendProperties DEF Prepare, TypeOK
  <2>3. TypeOK'
    BY <1>1, <2>1, <2>2 DEF Prepare, IInv, TypeOK, flags, local, history
  <2>4. PauseHolds' /\ StopHolds' /\ BatchesLeft'
    BY <1>1 DEF Prepare, IInv, PauseHolds, StopHolds, BatchesLeft, flags, local, history
  <2> QED
    BY <2>3, <2>4 DEF IInv
<1>2. CASE Spawn
  <2>1. prog' \in Seq(Steps)
    BY <1>2, <1>types, StepTail DEF Spawn
  <2>2. should_stop' \in BOOLEAN /\ emu' \in Places
    BY <1>2 DEF Spawn, TypeOK, IInv, Places
  <2>3. TypeOK'
    BY <1>2, <2>1, <2>2 DEF Spawn, IInv, TypeOK, history
  <2>4. PauseHolds' /\ StopHolds' /\ BatchesLeft'
    BY <1>2 DEF Spawn, IInv, PauseHolds, StopHolds, BatchesLeft, history, Joinable
  <2> QED
    BY <2>3, <2>4 DEF IInv
<1>3. CASE Unpause \/ SetPaused \/ Clear
  <2>1. PICK s \in {"unpause", "pause", "clear"}, r \in BOOLEAN, p \in BOOLEAN : SetFlags(s, r, p)
    BY <1>3, <1>types DEF Unpause, SetPaused, Clear, TypeOK
  <2>2. prog' \in Seq(Steps)
    BY <2>1, <1>types, StepTail DEF SetFlags
  <2>3. TypeOK'
    BY <2>1, <2>2 DEF SetFlags, IInv, TypeOK, local
  <2>4. PauseHolds' /\ StopHolds' /\ BatchesLeft'
    BY <2>1 DEF SetFlags, IInv, PauseHolds, StopHolds, BatchesLeft, local
  <2> QED
    BY <2>3, <2>4 DEF IInv
<1>4. CASE Notify
  <2>1. prog' \in Seq(Steps)
    BY <1>4, <1>types, StepTail DEF Notify
  <2>2. emu' \in Places
    BY <1>4 DEF Notify, TypeOK, IInv, Places
  <2>3. TypeOK'
    BY <1>4, <2>1, <2>2 DEF Notify, IInv, TypeOK, flags, history
  <2>4. PauseHolds' /\ StopHolds' /\ BatchesLeft'
    BY <1>4 DEF Notify, IInv, PauseHolds, StopHolds, BatchesLeft, flags, history
  <2> QED
    BY <2>3, <2>4 DEF IInv
<1>5. CASE SetState
  <2>1. PICK s \in {<<"running", "Running">>, <<"paused", "Paused">>, <<"stopped", "Stopped">>,
                    <<"ready", "Ready">>, <<"uninitialized", "Uninitialized">>} :
          Step(s[1]) /\ state' = s[2]
    BY <1>5 DEF SetState
  <2>2. prog' \in Seq(Steps)
    BY <2>1, <1>types, StepTail
  <2>3. state' \in States
    BY <2>1 DEF States
  <2>4. TypeOK'
    BY <1>5, <2>2, <2>3 DEF SetState, IInv, TypeOK, flags, local, history
  <2>5. PauseHolds' /\ StopHolds' /\ BatchesLeft'
    BY <1>5 DEF SetState, IInv, PauseHolds, StopHolds, BatchesLeft, flags, local, history
  <2> QED
    BY <2>4, <2>5 DEF IInv
<1>6. CASE Wipe
  <2>1. prog' \in Seq(Steps) /\ <<>> \in Seq(Game)
    BY <1>6, <1>types, StepTail, EmptySeq DEF Wipe
  <2>2. TypeOK'
    BY <1>6, <2>1 DEF Wipe, IInv, TypeOK, flags, local, history
  <2>3. PauseHolds' /\ StopHolds' /\ BatchesLeft'
    BY <1>6 DEF Wipe, IInv, PauseHolds, StopHolds, BatchesLeft, flags, local, history
  <2> QED
    BY <2>2, <2>3 DEF IInv
<1>7. CASE ShouldStop
  <2>1. prog' \in Seq(Steps)
    BY <1>7, <1>types, StepTail DEF ShouldStop
  <2>2. TypeOK'
    BY <1>7, <2>1 DEF ShouldStop, IInv, TypeOK, local, history
  <2>3. PauseHolds' /\ StopHolds' /\ BatchesLeft'
    BY <1>7 DEF ShouldStop, IInv, PauseHolds, StopHolds, BatchesLeft, local, history
  <2> QED
    BY <2>2, <2>3 DEF IInv
<1>8. CASE Join
  <2>1. prog' \in Seq(Steps) /\ emu' \in Places
    BY <1>8, <1>types, StepTail DEF Join, Places
  <2>2. TypeOK'
    BY <1>8, <2>1 DEF Join, IInv, TypeOK, flags, history
  <2>3. PauseHolds' /\ StopHolds' /\ BatchesLeft'
    BY <1>8 DEF Join, IInv, PauseHolds, StopHolds, BatchesLeft, flags, history
  <2> QED
    BY <2>2, <2>3 DEF IInv
<1>9. CASE \E p \in Parts : Destroy(p)
  <2> PICK p \in Parts : Destroy(p)
    BY <1>9
  <2>1. prog' \in Seq(Steps)
    BY <1>types, StepTail DEF Destroy
  <2>2. parts' \subseteq Parts
    BY <1>types DEF Destroy, TypeOK
  <2>3. mains' \in Seq(Game) /\ modules' \in Seq(Game)
    BY <1>types, EmptySeq DEF Destroy, TypeOK
  <2>4. /\ running' \in BOOLEAN /\ paused' \in BOOLEAN /\ should_stop' \in BOOLEAN
        /\ step_frame' \in BOOLEAN /\ stepped' \in BOOLEAN
    BY <1>types, Zenon DEF Destroy, TypeOK, flags, history
  <2>5. late' \in 0 .. 2 /\ frames' \in 0 .. 2
    BY <1>types DEF Destroy, TypeOK, flags, history
  <2>6. TypeOK'
    BY <1>types, <2>1, <2>2, <2>3, <2>4, <2>5 DEF Destroy, TypeOK, local
  <2>7. PauseHolds' /\ StopHolds' /\ BatchesLeft'
    BY DEF Destroy, IInv, PauseHolds, StopHolds, BatchesLeft, flags, local, history
  <2> QED
    BY <2>6, <2>7 DEF IInv
<1> QED
  BY <1>1, <1>2, <1>3, <1>4, <1>5, <1>6, <1>7, <1>8, <1>9 DEF Controller

(* Every step of the emulation thread leaves it in IInv.                   *)
LEMMA ThreadKeeps == ASSUME IInv, EmulationThread \/ SpuriousWakeup PROVE IInv'
<1>types. TypeOK
  BY DEF IInv
<1>1. CASE LoopTop
  <2>1. TypeOK'
    BY <1>1 DEF LoopTop, Emu, IInv, TypeOK, Places
  <2>2. PauseHolds' /\ StopHolds' /\ BatchesLeft'
    BY <1>1 DEF LoopTop, Emu, IInv, PauseHolds, StopHolds, BatchesLeft
  <2> QED
    BY <2>1, <2>2 DEF IInv
<1>2. CASE TestPredicate
  <2>1. TypeOK'
    BY <1>2 DEF TestPredicate, Emu, IInv, TypeOK, Places
  <2>2. PauseHolds' /\ BatchesLeft'
    BY <1>2 DEF TestPredicate, Emu, IInv, PauseHolds, BatchesLeft
  <2>3. StopHolds'
    BY <1>2 DEF TestPredicate, Emu, IInv, StopHolds, WaitPredicate
  <2> QED
    BY <2>1, <2>2, <2>3 DEF IInv
<1>3. CASE Block \/ SpuriousWakeup
  <2>1. TypeOK'
    BY <1>3 DEF Block, SpuriousWakeup, Emu, IInv, TypeOK, Places
  <2>2. PauseHolds' /\ StopHolds' /\ BatchesLeft'
    BY <1>3 DEF Block, SpuriousWakeup, Emu, IInv, PauseHolds, StopHolds, BatchesLeft
  <2> QED
    BY <2>1, <2>2 DEF IInv
<1>4. CASE BeginFrame
  <2>1. single_step' \in BOOLEAN /\ step_frame' \in BOOLEAN
    BY <1>4, <1>types, Zenon DEF BeginFrame, TypeOK
  <2>2. frames' \in {0, 1} /\ (frames' = 1 => ~running')
    BY <1>4 DEF BeginFrame, Emu, IInv, StopHolds
  <2>3. emu' \in {"done", "check"} /\ batches' = 0
    BY <1>4 DEF BeginFrame
  <2>4. TypeOK'
    BY <1>4, <2>1, <2>2, <2>3, LifecycleAssumption DEF BeginFrame, Emu, IInv, TypeOK, Places
  <2>5. PauseHolds' /\ StopHolds' /\ BatchesLeft'
    BY <1>4, <2>2, <2>3, LifecycleAssumption DEF BeginFrame, Emu, IInv, PauseHolds, StopHolds, BatchesLeft
  <2> QED
    BY <2>4, <2>5 DEF IInv
<1>5. CASE CheckLoop
  <2>1. TypeOK'
    BY <1>5 DEF CheckLoop, Emu, IInv, TypeOK, Places
  <2>2. PauseHolds'
    BY <1>5 DEF CheckLoop, Emu, IInv, PauseHolds, GoOn
  <2>3. StopHolds' /\ BatchesLeft'
    BY <1>5 DEF CheckLoop, Emu, IInv, StopHolds, BatchesLeft
  <2> QED
    BY <2>1, <2>2, <2>3 DEF IInv
<1>6. CASE Batch
  <2>1. /\ batches' = batches + 1 /\ batches < BatchLimit /\ batches \in Nat
        /\ emu' \in {"end", "check"} /\ (emu' = "check" => batches' < BatchLimit)
    BY <1>6, LifecycleAssumption DEF Batch, Emu, IInv, TypeOK, BatchesLeft
  <2>2. late' \in {0, 1} /\ (late' = 1 => paused')
    BY <1>6 DEF Batch, Emu, IInv, PauseHolds
  <2>3. TypeOK'
    BY <1>6, <2>1, <2>2, LifecycleAssumption DEF Batch, Emu, IInv, TypeOK, Places
  <2>4. PauseHolds' /\ StopHolds' /\ BatchesLeft'
    BY <1>6, <2>1, <2>2 DEF Batch, Emu, IInv, PauseHolds, StopHolds, BatchesLeft
  <2> QED
    BY <2>3, <2>4 DEF IInv
<1>7. CASE EndFrame
  <2>1. paused' \in BOOLEAN /\ (paused => paused')
    BY <1>7, <1>types, Zenon DEF EndFrame, TypeOK
  <2>2. TypeOK'
    BY <1>7, <2>1 DEF EndFrame, Emu, IInv, TypeOK, Places
  <2>3. PauseHolds' /\ StopHolds' /\ BatchesLeft'
    BY <1>7, <2>1 DEF EndFrame, Emu, IInv, PauseHolds, StopHolds, BatchesLeft
  <2> QED
    BY <2>2, <2>3 DEF IInv
<1> QED
  BY <1>1, <1>2, <1>3, <1>4, <1>5, <1>6, <1>7 DEF EmulationThread

THEOREM Inductive == IInv /\ [Next]_vars => IInv'
<1> SUFFICES ASSUME IInv, [Next]_vars PROVE IInv'
  OBVIOUS
<1>1. CASE Next
  BY <1>1, CallKeeps, ControllerKeeps, ThreadKeeps DEF Next
<1>2. CASE UNCHANGED vars
  BY <1>2 DEF vars, flags, local, history, IInv, TypeOK, PauseHolds, StopHolds, BatchesLeft
<1> QED
  BY <1>1, <1>2

THEOREM Invariant == Spec => []IInv
  BY InitIInv, Inductive, PTL DEF Spec

(* Every variable keeps its type, and no frame runs more batches than its   *)
(* limit (EmulationThread's loop).                                         *)
THEOREM TypeCorrect == Spec => []TypeOK
<1>1. IInv => TypeOK
  BY DEF IInv
<1> QED
  BY <1>1, Invariant, PTL

(* pause(): once it wrote the flag the loop runs at most one more batch,   *)
(* whatever calls and frames surround it.                                  *)
THEOREM PauseTakesEffect == Spec => []PauseStops
<1>1. IInv => PauseStops
  BY DEF IInv, PauseHolds, PauseStops
<1> QED
  BY <1>1, Invariant, PTL

(* stop(): once it cleared the flags at most one more frame begins.        *)
THEOREM StopTakesEffect == Spec => []StopEndsFrame
<1>1. IInv => StopEndsFrame
  BY DEF IInv, StopHolds, StopEndsFrame
<1> QED
  BY <1>1, Invariant, PTL
-----------------------------------------------------------------------------
GuestNeeds == {"scheduler", "memory", "cpu", "gpu", "kernel"}
LoopNeeds == GuestNeeds \cup {"xkernel", "emu_thread"}
Up == LoopNeeds \subseteq parts

Starts == {"spawn", "prepare"}
Ends == Parts \cup {"uninitialized"}
Moves == {"running", "paused", "stopped", "ready"}
Left == {prog[i] : i \in 1 .. Len(prog)}

(* While the emulation thread is joinable, a destruction has the join      *)
(* before it.                                                              *)
JoinFirst ==
  \A i \in 1 .. Len(prog) :
    prog[i] \in Parts /\ emu # "none" => \E j \in 1 .. i - 1 : prog[j] = "join"

(* While guest threads run, what they use is destroyed after the scheduler. *)
GuestsFirst ==
  \A i \in 1 .. Len(prog) :
    prog[i] \in GuestNeeds \ {"scheduler"} /\ mains # <<>> =>
      \E j \in 1 .. i - 1 : prog[j] = "scheduler"

(* A call that destroys starts nothing, and ends Uninitialized.            *)
EndsStartNothing == Left \cap Ends # {} => Left \cap Starts = {}
EndIsLast ==
  \A i \in 1 .. Len(prog) :
    /\ prog[i] \in Parts => prog[Len(prog)] = "uninitialized"
    /\ prog[i] = "uninitialized" => i = Len(prog)

(* A thread that runs has its subsystems; they are missing only before the *)
(* emulator was initialized or while a shutdown is under way.              *)
InUse == (emu # "none" => Up) /\ (mains # <<>> => GuestNeeds \subseteq parts)
DownIsOver == ~Up => "uninitialized" \in Left \/ state = "Uninitialized"
NothingBegun == state = "Uninitialized" => Left \cap (Starts \cup Moves) = {}

TInv ==
  /\ JoinFirst /\ GuestsFirst /\ EndsStartNothing /\ EndIsLast
  /\ InUse /\ DownIsOver /\ NothingBegun

----------------------------------------------------------------------------
LEMMA GuestNeedsValue == GuestNeeds \subseteq LoopNeeds /\ LoopNeeds \subseteq Parts
  BY PartsValue DEF GuestNeeds, LoopNeeds

LEMMA NotParts ==
  Parts \cap (Starts \cup Moves \cup {"join", "uninitialized", "unpause", "notify", "pause",
                                       "clear", "wipe", "should_stop"}) = {}
  BY PartsValue DEF Starts, Moves

(* Where nothing is left to do, only InUse and DownIsOver say anything.    *)
LEMMA Idle == ASSUME prog = <<>> PROVE Len(prog) = 0 /\ Left = {} /\ 1 .. Len(prog) = {}
<1>1. Len(prog) = 0
  BY EmptySeq
<1>2. 1 .. 0 = {}
  BY SMT
<1> QED
  BY <1>1, <1>2 DEF Left

THEOREM InitTInv == Init => TInv
<1> SUFFICES ASSUME Init PROVE TInv
  OBVIOUS
<1>1. Left = {} /\ 1 .. Len(prog) = {}
  BY Idle DEF Init
<1>2. JoinFirst /\ GuestsFirst /\ EndsStartNothing /\ EndIsLast
  BY <1>1 DEF JoinFirst, GuestsFirst, EndsStartNothing, EndIsLast
<1>3. InUse /\ DownIsOver /\ NothingBegun
  BY <1>1 DEF Init, InUse, DownIsOver, NothingBegun
<1> QED
  BY <1>2, <1>3 DEF TInv

----------------------------------------------------------------------------
(* Calls                                                                    *)

(* A call none of whose steps destroys.                                    *)
LEMMA OrdinaryCall ==
  ASSUME TypeOK, TInv, NEW steps \in Seq(Steps \ Ends), Begin(steps),
         state' = state, parts' = parts, steps = <<>> \/ state # "Uninitialized"
  PROVE  TInv'
<1>1. /\ prog = <<>> /\ prog' = steps /\ mains' = mains /\ emu' = emu
  BY DEF Begin, local
<1>2. /\ Len(steps) \in Nat
      /\ \A i \in 1 .. Len(steps) : steps[i] \in Steps \ Ends
  BY ElementOfSeq, LenProperties
<1>3. Left' \cap Ends = {}
  BY <1>1, <1>2 DEF Left
<1>4. \A i \in 1 .. Len(prog') : prog'[i] \notin Parts /\ prog'[i] # "uninitialized"
  BY <1>1, <1>2 DEF Ends
<1>5. JoinFirst' /\ EndIsLast'
  BY <1>4 DEF JoinFirst, EndIsLast
<1>6. GuestsFirst'
  BY <1>4, GuestNeedsValue DEF GuestsFirst
<1>7. EndsStartNothing'
  BY <1>3 DEF EndsStartNothing
<1>8. InUse'
  BY <1>1 DEF TInv, InUse, Up
<1>9. Left = {}
  BY <1>1, Idle
<1>10. DownIsOver'
  BY <1>1, <1>9 DEF TInv, DownIsOver, Up
<1>11. NothingBegun'
  <2>1. CASE steps = <<>>
    <3>1. Left' = {}
      BY <1>1, <2>1, EmptySeq, SMT DEF Left
    <3> QED
      BY <3>1 DEF NothingBegun
  <2>2. CASE state # "Uninitialized"
    BY <2>2 DEF NothingBegun
  <2> QED
    BY <2>1, <2>2
<1> QED
  BY <1>5, <1>6, <1>7, <1>8, <1>10, <1>11 DEF TInv

LEMMA OrdinarySequences ==
  /\ <<>> \in Seq(Steps \ Ends)
  /\ RunSteps \in Seq(Steps \ Ends) /\ PauseSteps \in Seq(Steps \ Ends) /\ StopSteps \in Seq(Steps \ Ends)
  /\ <<"wipe", "prepare">> \in Seq(Steps \ Ends) /\ <<"wipe", "ready">> \in Seq(Steps \ Ends)
  /\ <<"paused">> \in Seq(Steps \ Ends) /\ <<"notify">> \in Seq(Steps \ Ends)
<1>1. {"prepare", "spawn", "unpause", "notify", "running", "pause", "paused", "clear", "stopped",
       "wipe", "ready"} \subseteq Steps \ Ends
  BY PartsValue DEF Steps, Ends
<1>2. <<>> \in Seq(Steps \ Ends) /\ <<"clear", "notify", "stopped">> \in Seq(Steps \ Ends)
  BY <1>1
<1>3. RunSteps \in Seq(Steps \ Ends) /\ PauseSteps \in Seq(Steps \ Ends)
  BY <1>1 DEF RunSteps, PauseSteps
<1>4. StopSteps \in Seq(Steps \ Ends)
  BY <1>2, Zenon DEF StopSteps
<1>5. /\ <<"wipe", "prepare">> \in Seq(Steps \ Ends) /\ <<"wipe", "ready">> \in Seq(Steps \ Ends)
      /\ <<"paused">> \in Seq(Steps \ Ends) /\ <<"notify">> \in Seq(Steps \ Ends)
  BY <1>1
<1> QED
  BY <1>2, <1>3, <1>4, <1>5

(* What shutdown() destroys, and in what order.                            *)
Teardown == DestroyOrder \o <<"uninitialized">>

LEMMA TeardownSteps ==
  /\ Teardown \in Seq(Steps) /\ Len(Teardown) = 10
  /\ Teardown[2] = "scheduler" /\ Teardown[10] = "uninitialized"
  /\ \A k \in 1 .. 9 : Teardown[k] \in Parts
  /\ \A k \in 1 .. 10 : Teardown[k] \in GuestNeeds \ {"scheduler"} => 2 < k
  /\ \A k \in 1 .. 10 : Teardown[k] \in Ends
<1>1. DestroyOrder \in Seq(Steps) /\ <<"uninitialized">> \in Seq(Steps)
  BY StepSequences DEF Steps
<1>2. Len(DestroyOrder) = 9 /\ Len(<<"uninitialized">>) = 1
  BY DEF DestroyOrder
<1>3. /\ Teardown \in Seq(Steps) /\ Len(Teardown) = 10
      /\ \A k \in 1 .. 10 : Teardown[k] = IF k <= 9 THEN DestroyOrder[k] ELSE <<"uninitialized">>[k - 9]
  <2>1. /\ Teardown \in Seq(Steps)
        /\ Len(Teardown) = Len(DestroyOrder) + Len(<<"uninitialized">>)
        /\ \A k \in 1 .. Len(DestroyOrder) + Len(<<"uninitialized">>) : Teardown[k] =
             IF k <= Len(DestroyOrder) THEN DestroyOrder[k]
             ELSE <<"uninitialized">>[k - Len(DestroyOrder)]
    BY <1>1, ConcatProperties, Zenon DEF Teardown
  <2>2. 9 + 1 = 10
    OBVIOUS
  <2> QED
    BY <2>1, <2>2, <1>2, Zenon
<1>4. Teardown[10] = "uninitialized"
  BY <1>3
<1>5. \A k \in 1 .. 9 : Teardown[k] = DestroyOrder[k]
  BY <1>3
<1>6. \A k \in 1 .. 9 : DestroyOrder[k] \in Parts
  BY PartsValue DEF DestroyOrder
<1>7. DestroyOrder[1] = "xkernel" /\ DestroyOrder[2] = "scheduler"
  BY DEF DestroyOrder
<1>8. \A k \in 1 .. 10 : Teardown[k] \in GuestNeeds \ {"scheduler"} => 2 < k
  <2> SUFFICES ASSUME NEW k \in 1 .. 10, ~(2 < k) PROVE Teardown[k] \notin GuestNeeds \ {"scheduler"}
    OBVIOUS
  <2>1. k = 1 \/ k = 2
    OBVIOUS
  <2>2. Teardown[k] \in {"xkernel", "scheduler"}
    BY <2>1, <1>5, <1>7
  <2> QED
    BY <2>2 DEF GuestNeeds
<1>9. \A k \in 1 .. 10 : Teardown[k] \in Ends
  <2> TAKE k \in 1 .. 10
  <2>1. k \in 1 .. 9 \/ k = 10
    OBVIOUS
  <2> QED
    BY <2>1, <1>4, <1>5, <1>6 DEF Ends
<1>10. Teardown[2] = "scheduler" /\ \A k \in 1 .. 9 : Teardown[k] \in Parts
  BY <1>5, <1>6, <1>7
<1>11. Teardown \in Seq(Steps) /\ Len(Teardown) = 10
  BY <1>3
<1> QED
  BY <1>4, <1>8, <1>9, <1>10, <1>11, Zenon

(* What shutdown() does before: stop() and the join.                       *)
Before == {"clear", "notify", "stopped", "should_stop", "join"}
Quieting == StopSteps \o JoinSteps

LEMMA QuietingSteps ==
  ASSUME TInv
  PROVE  /\ Quieting \in Seq(Before)
         /\ state = "Uninitialized" => Quieting \in Seq(Before \ {"stopped"})
         /\ emu # "none" => Len(Quieting) \in Nat \ {0} /\ Quieting[Len(Quieting)] = "join"
<1>1. <<"clear", "notify", "stopped">> \in Seq(Before) /\ Len(<<"clear", "notify", "stopped">>) = 3
  BY DEF Before
<1>2. /\ <<"should_stop", "notify", "join">> \in Seq(Before \ {"stopped"})
      /\ Len(<<"should_stop", "notify", "join">>) = 3
  BY DEF Before
<1>3. /\ <<>> \in Seq(Before) /\ <<>> \in Seq(Before \ {"stopped"})
      /\ <<"should_stop", "notify", "join">> \in Seq(Before)
  BY <1>2, EmptySeq, SeqMonotonic
<1>4. StopSteps \in Seq(Before) /\ JoinSteps \in Seq(Before) /\ JoinSteps \in Seq(Before \ {"stopped"})
  BY <1>1, <1>2, <1>3, Zenon DEF StopSteps, JoinSteps
<1>5. Quieting \in Seq(Before)
  BY <1>4, ConcatProperties DEF Quieting
<1>6. ASSUME state = "Uninitialized" PROVE Quieting \in Seq(Before \ {"stopped"})
  <2>1. StopSteps = <<>>
    BY <1>6 DEF StopSteps
  <2> QED
    BY <2>1, <1>3, <1>4, ConcatProperties DEF Quieting
<1>7. ASSUME emu # "none" PROVE Len(Quieting) \in Nat \ {0} /\ Quieting[Len(Quieting)] = "join"
  <2>1. JoinSteps = <<"should_stop", "notify", "join">>
    BY <1>7 DEF JoinSteps, Joinable, TInv, InUse, Up, LoopNeeds
  <2>2. Len(JoinSteps) = 3 /\ JoinSteps[3] = "join"
    BY <2>1
  <2>3. Len(StopSteps) \in Nat
    BY <1>4, LenProperties
  <2>4. Len(Quieting) = Len(StopSteps) + 3
    BY <1>4, <2>2, ConcatProperties DEF Quieting
  <2>5. Quieting[Len(StopSteps) + 3] = JoinSteps[3]
    <3>1. Len(StopSteps) + 3 \in 1 .. Len(StopSteps) + Len(JoinSteps)
      BY <2>2, <2>3
    <3>2. Quieting[Len(StopSteps) + 3] = JoinSteps[(Len(StopSteps) + 3) - Len(StopSteps)]
      BY <3>1, <1>4, <2>3, ConcatProperties DEF Quieting
    <3> QED
      BY <3>2, <2>3
  <2> QED
    BY <2>2, <2>3, <2>4, <2>5
<1> QED
  BY <1>5, <1>6, <1>7

LEMMA BeforeValue ==
  Before \subseteq Steps /\ Before \cap (Ends \cup Starts) = {} /\ Before \cap Moves = {"stopped"}
  BY PartsValue DEF Before, Steps, Ends, Starts, Moves

LEMMA ShutdownKeeps == ASSUME TypeOK, TInv, Shutdown PROVE TInv'
<1> DEFINE m == Len(Quieting)
<1>1. /\ Quieting \in Seq(Steps) /\ Teardown \in Seq(Steps) /\ m \in Nat
      /\ \A i \in 1 .. m : Quieting[i] \in Before
  <2>1. Quieting \in Seq(Before)
    BY QuietingSteps
  <2>2. Quieting \in Seq(Steps)
    BY <2>1, BeforeValue, SeqMonotonic
  <2> QED
    BY <2>1, <2>2, LenProperties, ElementOfSeq, TeardownSteps
<1>2. /\ prog' = Quieting \o Teardown /\ prog = <<>>
      /\ state' = state /\ parts' = parts /\ mains' = mains /\ emu' = emu
  <2>1. <<"uninitialized">> \in Seq(Steps)
    BY DEF Steps
  <2>2. (Quieting \o DestroyOrder) \o <<"uninitialized">> = Quieting \o Teardown
    BY <1>1, <2>1, StepSequences, ConcatAssociative, SMTT(40) DEF Teardown
  <2> QED
    BY <2>2 DEF Shutdown, Begin, local, Quieting
<1>3. /\ Len(prog') = m + 10
      /\ \A i \in 1 .. m + 10 : prog'[i] = IF i <= m THEN Quieting[i] ELSE Teardown[i - m]
  <2>1. Len(Teardown) = 10
    BY TeardownSteps
  <2> HIDE DEF m
  <2>2. Len(Quieting) = m
    BY DEF m
  <2>3. /\ Len(Quieting \o Teardown) = Len(Quieting) + Len(Teardown)
        /\ \A i \in 1 .. Len(Quieting) + Len(Teardown) : (Quieting \o Teardown)[i] =
             IF i <= Len(Quieting) THEN Quieting[i] ELSE Teardown[i - Len(Quieting)]
    BY <1>1, ConcatProperties, Zenon
  <2> QED
    BY <1>2, <2>1, <2>2, <2>3, Zenon
<1> HIDE DEF m
<1>4. \A i \in 1 .. m : prog'[i] = Quieting[i] /\ prog'[i] \in Before
  BY <1>1, <1>3
<1>5. \A k \in 1 .. 10 : prog'[m + k] = Teardown[k]
  <2> TAKE k \in 1 .. 10
  <2>1. m + k \in 1 .. m + 10 /\ ~(m + k <= m) /\ (m + k) - m = k
    BY <1>1
  <2> QED
    BY <2>1, <1>3
<1>6. \A i \in 1 .. Len(prog') : i \in 1 .. m \/ \E k \in 1 .. 10 : i = m + k
  <2> TAKE i \in 1 .. Len(prog')
  <2>1. CASE i <= m
    BY <2>1, <1>1, <1>3
  <2>2. CASE ~(i <= m)
    <3>1. i - m \in 1 .. 10 /\ i = m + (i - m)
      BY <2>2, <1>1, <1>3
    <3> QED
      BY <3>1
  <2> QED
    BY <2>1, <2>2
<1>7. \A k \in 1 .. 10 : \A j \in 1 .. k - 1 : m + j \in 1 .. (m + k) - 1
  BY <1>1
<1>8. Left' \cap Starts = {}
  <2> SUFFICES ASSUME NEW i \in 1 .. Len(prog') PROVE prog'[i] \notin Starts
    BY DEF Left
  <2>1. prog'[i] \in Before \cup Ends
    <3>1. CASE i \in 1 .. m
      BY <3>1, <1>4
    <3>2. CASE \E k \in 1 .. 10 : i = m + k
      BY <3>2, <1>5, TeardownSteps
    <3> QED
      BY <3>1, <3>2, <1>6
  <2> QED
    BY <2>1, BeforeValue, PartsValue DEF Ends, Starts
<1>9. JoinFirst'
  <2> SUFFICES ASSUME NEW i \in 1 .. Len(prog'), prog'[i] \in Parts, emu # "none"
               PROVE  \E j \in 1 .. i - 1 : prog'[j] = "join"
    BY <1>2 DEF JoinFirst
  <2>1. PICK k \in 1 .. 10 : i = m + k
    BY <1>4, <1>6, BeforeValue DEF Ends
  <2>2. m \in Nat \ {0} /\ Quieting[m] = "join"
    BY QuietingSteps DEF m
  <2>3. m \in 1 .. i - 1 /\ m \in 1 .. m
    BY <2>1, <2>2
  <2> QED
    BY <2>2, <2>3, <1>4
<1>10. GuestsFirst'
  <2> SUFFICES ASSUME NEW i \in 1 .. Len(prog'), prog'[i] \in GuestNeeds \ {"scheduler"}
               PROVE  \E j \in 1 .. i - 1 : prog'[j] = "scheduler"
    BY DEF GuestsFirst
  <2>1. PICK k \in 1 .. 10 : i = m + k
    BY <1>4, <1>6, BeforeValue, GuestNeedsValue DEF Ends
  <2>2. 2 < k
    BY <2>1, <1>5, TeardownSteps
  <2>3. m + 2 \in 1 .. i - 1 /\ 2 \in 1 .. 10
    BY <2>1, <2>2, <1>1
  <2>4. prog'[m + 2] = "scheduler"
    BY <2>3, <1>5, TeardownSteps
  <2> QED
    BY <2>3, <2>4
<1>11. EndsStartNothing'
  BY <1>8 DEF EndsStartNothing
<1>12. EndIsLast'
  <2>1. prog'[Len(prog')] = "uninitialized"
    BY <1>3, <1>5, TeardownSteps
  <2>2. ASSUME NEW i \in 1 .. Len(prog'), prog'[i] = "uninitialized" PROVE i = Len(prog')
    <3>1. PICK k \in 1 .. 10 : i = m + k
      BY <2>2, <1>4, <1>6, BeforeValue DEF Ends
    <3>2. Teardown[k] \notin Parts
      BY <3>1, <2>2, <1>5, NotParts
    <3>3. k = 10
      BY <3>2, TeardownSteps
    <3> QED
      BY <3>1, <3>3, <1>3
  <2> QED
    BY <2>1, <2>2 DEF EndIsLast
<1>13. InUse'
  BY <1>2 DEF TInv, InUse, Up
<1>14. DownIsOver'
  <2>1. prog'[m + 10] = "uninitialized" /\ m + 10 \in 1 .. Len(prog')
    BY <1>1, <1>3, <1>5, TeardownSteps
  <2> QED
    BY <2>1 DEF DownIsOver, Left
<1>15. NothingBegun'
  <2> SUFFICES ASSUME state = "Uninitialized", NEW i \in 1 .. Len(prog') PROVE prog'[i] \notin Moves
    BY <1>2, <1>8 DEF NothingBegun, Left
  <2>1. CASE i \in 1 .. m
    <3>1. Quieting \in Seq(Before \ {"stopped"})
      BY QuietingSteps
    <3>2. Quieting[i] \in Before \ {"stopped"}
      BY <3>1, <2>1, ElementOfSeq DEF m
    <3> QED
      BY <3>2, <2>1, <1>4, BeforeValue
  <2>2. CASE \E k \in 1 .. 10 : i = m + k
    <3>1. prog'[i] \in Ends
      BY <2>2, <1>5, TeardownSteps
    <3> QED
      BY <3>1, PartsValue DEF Ends, Moves
  <2> QED
    BY <2>1, <2>2, <1>6
<1> QED
  BY <1>9, <1>10, <1>11, <1>12, <1>13, <1>14, <1>15 DEF TInv

(* Initialization adds subsystems and has no step left.                    *)
LEMMA InitializeKeeps == ASSUME TInv, Initialize PROVE TInv'
<1>1. prog = <<>> /\ prog' = <<>> /\ emu' = emu /\ mains' = mains
  BY DEF Initialize, Begin, local
<1>2. Left' = {} /\ Left = {} /\ 1 .. Len(prog') = {}
  BY <1>1, Idle DEF Left
<1>3. parts \subseteq parts' \/ LoopNeeds \subseteq parts'
  <2>1. Parts \ {"apu"} \subseteq parts' => LoopNeeds \subseteq parts'
    BY PartsValue DEF LoopNeeds, GuestNeeds
  <2> QED
    BY <2>1 DEF Initialize
<1>4. JoinFirst' /\ GuestsFirst' /\ EndsStartNothing' /\ EndIsLast' /\ NothingBegun'
  BY <1>2 DEF JoinFirst, GuestsFirst, EndsStartNothing, EndIsLast, NothingBegun
<1>5. InUse'
  BY <1>1, <1>3, GuestNeedsValue DEF TInv, InUse, Up
<1>6. DownIsOver'
  <2>1. state' = "Uninitialized" \/ LoopNeeds \subseteq parts'
    BY PartsValue DEF Initialize, LoopNeeds, GuestNeeds
  <2> QED
    BY <2>1 DEF DownIsOver, Up
<1> QED
  BY <1>4, <1>5, <1>6 DEF TInv

LEMMA CallKeepsT == ASSUME TypeOK, TInv, Call PROVE TInv'
<1>1. CASE Initialize
  BY <1>1, InitializeKeeps
<1>2. CASE \E g \in Game : LoadGame(g)
  <2>1. /\ prog = <<>> /\ prog' = <<>> /\ emu' = emu /\ mains' = mains /\ parts' = parts
        /\ state # "Uninitialized" /\ state' = "Loaded"
    BY <1>2 DEF LoadGame, local
  <2>2. Left' = {} /\ Left = {} /\ 1 .. Len(prog') = {}
    BY <2>1, Idle DEF Left
  <2>3. JoinFirst' /\ GuestsFirst' /\ EndsStartNothing' /\ EndIsLast' /\ NothingBegun'
    BY <2>2 DEF JoinFirst, GuestsFirst, EndsStartNothing, EndIsLast, NothingBegun
  <2>4. InUse' /\ DownIsOver'
    BY <2>1, <2>2 DEF TInv, InUse, DownIsOver, Up
  <2> QED
    BY <2>3, <2>4 DEF TInv
<1>3. CASE Run
  BY <1>3, OrdinarySequences, OrdinaryCall DEF Run
<1>4. CASE Pause
  BY <1>4, OrdinarySequences, OrdinaryCall DEF Pause
<1>5. CASE Stop
  BY <1>5, OrdinarySequences, OrdinaryCall DEF Stop
<1>6. CASE Reset
  <2>1. (IF state = "Running" THEN RunSteps ELSE <<>>) \in Seq(Steps \ Ends)
    BY OrdinarySequences
  <2>2. StopSteps \o <<"wipe", "prepare">> \o (IF state = "Running" THEN RunSteps ELSE <<>>)
          \in Seq(Steps \ Ends)
    BY <2>1, OrdinarySequences, ConcatProperties
  <2> QED
    BY <1>6, <2>2, OrdinaryCall DEF Reset
<1>7. CASE UnloadGame
  <2>1. (IF state = "Running" THEN StopSteps ELSE <<>>) \in Seq(Steps \ Ends)
    BY OrdinarySequences
  <2>2. (IF state = "Running" THEN StopSteps ELSE <<>>) \o <<"wipe", "ready">> \in Seq(Steps \ Ends)
    BY <2>1, OrdinarySequences, ConcatProperties
  <2> QED
    BY <1>7, <2>2, OrdinaryCall DEF UnloadGame
<1>8. CASE StepFrame
  <2>1. /\ prog = <<>> /\ prog' = <<"notify">> /\ emu' = emu /\ mains' = mains /\ parts' = parts
        /\ state' = state /\ state # "Uninitialized"
    BY <1>8 DEF StepFrame, local
  <2>2. Len(prog') = 1 /\ prog'[1] = "notify" /\ \A i \in 1 .. Len(prog') : prog'[i] = "notify"
    BY <2>1
  <2>3. Left' = {"notify"} /\ Left = {}
    BY <2>1, <2>2, Idle DEF Left
  <2>4. JoinFirst' /\ EndIsLast'
    BY <2>2, NotParts DEF JoinFirst, EndIsLast
  <2>5. GuestsFirst'
    BY <2>2, NotParts, GuestNeedsValue DEF GuestsFirst
  <2>6. EndsStartNothing' /\ NothingBegun'
    BY <2>1, <2>3 DEF EndsStartNothing, NothingBegun, Starts
  <2>7. InUse' /\ DownIsOver'
    BY <2>1, <2>3 DEF TInv, InUse, DownIsOver, Up
  <2> QED
    BY <2>4, <2>5, <2>6, <2>7 DEF TInv
<1>9. CASE SaveState
  <2>1. PauseSteps \o RunSteps \in Seq(Steps \ Ends)
    BY OrdinarySequences, ConcatProperties
  <2>2. (IF state = "Running" THEN PauseSteps \o RunSteps ELSE <<>>) \in Seq(Steps \ Ends)
    BY <2>1, OrdinarySequences
  <2>3. state # "Uninitialized" /\ state' = state /\ parts' = parts
        /\ Begin(IF state = "Running" THEN PauseSteps \o RunSteps ELSE <<>>)
    BY <1>9 DEF SaveState
  <2> QED
    BY <2>2, <2>3, OrdinaryCall
<1>10. CASE LoadState
  <2> PICK restored \in BOOLEAN :
        Begin((IF state = "Running" THEN PauseSteps ELSE <<>>)
              \o (IF restored THEN <<"paused">> ELSE <<>>)
              \o (IF restored /\ state = "Running" THEN RunSteps ELSE <<>>))
    BY <1>10 DEF LoadState
  <2>1. /\ (IF state = "Running" THEN PauseSteps ELSE <<>>) \in Seq(Steps \ Ends)
        /\ (IF restored THEN <<"paused">> ELSE <<>>) \in Seq(Steps \ Ends)
        /\ (IF restored /\ state = "Running" THEN RunSteps ELSE <<>>) \in Seq(Steps \ Ends)
    BY OrdinarySequences
  <2>2. (IF state = "Running" THEN PauseSteps ELSE <<>>)
          \o (IF restored THEN <<"paused">> ELSE <<>>)
          \o (IF restored /\ state = "Running" THEN RunSteps ELSE <<>>) \in Seq(Steps \ Ends)
    BY <2>1, ConcatProperties
  <2>3. state # "Uninitialized" /\ state' = state /\ parts' = parts
    BY <1>10 DEF LoadState
  <2> QED
    BY <2>2, <2>3, OrdinaryCall
<1>11. CASE Shutdown
  BY <1>11, ShutdownKeeps
<1> QED
  BY <1>1, <1>2, <1>3, <1>4, <1>5, <1>6, <1>7, <1>8, <1>9, <1>10, <1>11 DEF Call

----------------------------------------------------------------------------
(* Steps                                                                    *)

(* What a step says of the steps left: the first is taken off.             *)
LEMMA Shorter ==
  ASSUME TypeOK, NEW s, Step(s)
  PROVE  /\ Len(prog) \in Nat \ {0} /\ prog[1] = s /\ Len(prog') = Len(prog) - 1
         /\ \A i \in 1 .. Len(prog') : i + 1 \in 1 .. Len(prog) /\ prog'[i] = prog[i + 1]
<1>1. prog \in Seq(Steps) /\ prog # <<>> /\ prog' = Tail(prog) /\ Head(prog) = s
  BY DEF TypeOK, Step
<1>2. Len(prog) \in Nat \ {0}
  BY <1>1, EmptySeq
<1>3. Len(prog') = Len(prog) - 1 /\ \A i \in 1 .. Len(prog') : prog'[i] = prog[i + 1]
  BY <1>1, HeadTailProperties
<1>4. prog[1] = s
  BY <1>1
<1>5. \A i \in 1 .. Len(prog') : i + 1 \in 1 .. Len(prog)
  BY <1>2, <1>3
<1> QED
  BY <1>2, <1>3, <1>4, <1>5

(* What follows whatever the step is.  A destruction that waited behind a  *)
(* step x waits behind it still, unless the step was x.                    *)
LEMMA StepOrder ==
  ASSUME TypeOK, TInv, NEW s, Step(s)
  PROVE  /\ s \in Left /\ Left' \subseteq Left
         /\ EndsStartNothing' /\ EndIsLast'
         /\ s = "uninitialized" => Left' = {}
         /\ s # "uninitialized" /\ "uninitialized" \in Left => "uninitialized" \in Left'
         /\ s # "join" /\ (emu' # "none" => emu # "none") => JoinFirst'
         /\ s # "scheduler" /\ (mains' # <<>> => mains # <<>>) => GuestsFirst'
<1>1. /\ Len(prog) \in Nat \ {0} /\ prog[1] = s /\ Len(prog') = Len(prog) - 1
      /\ \A i \in 1 .. Len(prog') : i + 1 \in 1 .. Len(prog) /\ prog'[i] = prog[i + 1]
  BY Shorter
<1>2. s \in Left
  <2>1. 1 \in 1 .. Len(prog)
    BY <1>1
  <2> QED
    BY <1>1, <2>1 DEF Left
<1>3. Left' \subseteq Left
  BY <1>1 DEF Left
<1>4. EndsStartNothing'
  BY <1>3 DEF TInv, EndsStartNothing
<1>5. \A i \in 1 .. Len(prog) : prog[i] = "uninitialized" => i = Len(prog)
  BY DEF TInv, EndIsLast
<1>6. EndIsLast'
  <2> SUFFICES ASSUME NEW i \in 1 .. Len(prog')
               PROVE  /\ prog'[i] \in Parts => prog'[Len(prog')] = "uninitialized"
                      /\ prog'[i] = "uninitialized" => i = Len(prog')
    BY DEF EndIsLast
  <2>1. Len(prog') \in 1 .. Len(prog') /\ Len(prog') + 1 = Len(prog)
    BY <1>1
  <2>2. prog'[Len(prog')] = prog[Len(prog)]
    BY <1>1, <2>1
  <2>3. prog'[i] = prog[i + 1] /\ i + 1 \in 1 .. Len(prog)
    BY <1>1
  <2>4. prog[i + 1] \in Parts => prog[Len(prog)] = "uninitialized"
    BY <2>3 DEF TInv, EndIsLast
  <2>5. prog[i + 1] = "uninitialized" => i = Len(prog')
    BY <2>1, <2>3, <1>5
  <2> QED
    BY <2>2, <2>3, <2>4, <2>5
<1>7. ASSUME s = "uninitialized" PROVE Left' = {}
  <2>1. Len(prog) = 1
    BY <1>1, <1>5, <1>7
  <2>2. 1 .. Len(prog') = {}
    BY <1>1, <2>1
  <2> QED
    BY <2>2 DEF Left
<1>8. ASSUME s # "uninitialized", "uninitialized" \in Left PROVE "uninitialized" \in Left'
  <2>1. PICK i \in 1 .. Len(prog) : prog[i] = "uninitialized"
    BY <1>8 DEF Left
  <2>2. i # 1
    BY <1>1, <1>8, <2>1
  <2>3. i - 1 \in 1 .. Len(prog') /\ (i - 1) + 1 = i
    BY <1>1, <2>2
  <2>4. prog'[i - 1] = prog[i]
    BY <1>1, <2>3
  <2> QED
    BY <2>1, <2>3, <2>4 DEF Left
<1>9. ASSUME NEW x, s # x, NEW i \in 1 .. Len(prog'), \E j \in 1 .. (i + 1) - 1 : prog[j] = x
      PROVE  \E j \in 1 .. i - 1 : prog'[j] = x
  <2>1. PICK j \in 1 .. (i + 1) - 1 : prog[j] = x
    BY <1>9
  <2>2. j # 1
    BY <1>1, <1>9, <2>1
  <2>3. j - 1 \in 1 .. i - 1 /\ j - 1 \in 1 .. Len(prog') /\ (j - 1) + 1 = j
    BY <1>1, <2>2
  <2>4. prog'[j - 1] = prog[j]
    BY <1>1, <2>3
  <2> QED
    BY <2>1, <2>3, <2>4
<1>10. ASSUME s # "join", emu' # "none" => emu # "none" PROVE JoinFirst'
  <2> SUFFICES ASSUME NEW i \in 1 .. Len(prog'), prog'[i] \in Parts, emu' # "none"
               PROVE  \E j \in 1 .. i - 1 : prog'[j] = "join"
    BY DEF JoinFirst
  <2>1. i + 1 \in 1 .. Len(prog) /\ prog[i + 1] \in Parts
    BY <1>1
  <2>2. \E j \in 1 .. (i + 1) - 1 : prog[j] = "join"
    BY <2>1, <1>10 DEF TInv, JoinFirst
  <2> QED
    BY <2>2, <1>9, <1>10
<1>11. ASSUME s # "scheduler", mains' # <<>> => mains # <<>> PROVE GuestsFirst'
  <2> SUFFICES ASSUME NEW i \in 1 .. Len(prog'), prog'[i] \in GuestNeeds \ {"scheduler"}, mains' # <<>>
               PROVE  \E j \in 1 .. i - 1 : prog'[j] = "scheduler"
    BY DEF GuestsFirst
  <2>1. i + 1 \in 1 .. Len(prog) /\ prog[i + 1] \in GuestNeeds \ {"scheduler"}
    BY <1>1
  <2>2. \E j \in 1 .. (i + 1) - 1 : prog[j] = "scheduler"
    BY <2>1, <1>11 DEF TInv, GuestsFirst
  <2> QED
    BY <2>2, <1>9, <1>11
<1> QED
  BY <1>2, <1>3, <1>4, <1>6, <1>7, <1>8, <1>10, <1>11

(* A step that starts a thread finds every subsystem, and no call that     *)
(* destroys any behind it.                                                 *)
LEMMA StartsWhenUp ==
  ASSUME TypeOK, TInv, NEW s \in Starts, Step(s)
  PROVE  Up /\ \A i \in 1 .. Len(prog') : prog'[i] \notin Ends
<1>1. s \in Left /\ Left' \subseteq Left
  BY StepOrder
<1>2. Left \cap Ends = {}
  BY <1>1 DEF TInv, EndsStartNothing
<1>3. Up
  BY <1>1, <1>2 DEF TInv, DownIsOver, NothingBegun, Ends
<1> QED
  BY <1>1, <1>2, <1>3 DEF Left

(* A step that starts, joins, moves and destroys nothing.                  *)
LEMMA OtherStep ==
  ASSUME TypeOK, TInv, NEW s, s \notin {"join", "scheduler", "uninitialized"}, Step(s),
         UNCHANGED <<state, parts, mains>>, emu' = "none" <=> emu = "none"
  PROVE  TInv'
<1>1. /\ Left' \subseteq Left /\ EndsStartNothing' /\ EndIsLast' /\ JoinFirst' /\ GuestsFirst'
      /\ "uninitialized" \in Left => "uninitialized" \in Left'
  BY StepOrder
<1>2. InUse' /\ DownIsOver' /\ NothingBegun'
  BY <1>1 DEF TInv, InUse, DownIsOver, NothingBegun, Up
<1> QED
  BY <1>1, <1>2 DEF TInv

LEMMA DestroyKeeps == ASSUME TypeOK, TInv, NEW p \in Parts, Destroy(p) PROVE TInv'
<1>1. /\ Step(p) /\ parts' = parts \ {p} /\ state' = state /\ emu' = emu
      /\ mains' = IF p = "scheduler" THEN <<>> ELSE mains
  BY DEF Destroy, local
<1>2. p # "join" /\ p # "uninitialized"
  BY NotParts
<1>3. /\ p \in Left /\ Left' \subseteq Left /\ EndsStartNothing' /\ EndIsLast'
      /\ "uninitialized" \in Left => "uninitialized" \in Left'
      /\ JoinFirst' /\ (p # "scheduler" => GuestsFirst')
  BY <1>1, <1>2, StepOrder
<1>4. Len(prog) \in Nat \ {0} /\ prog[1] = p /\ 1 \in 1 .. Len(prog) /\ 1 .. 1 - 1 = {}
  BY <1>1, Shorter
<1>5. emu = "none"
  BY <1>4 DEF TInv, JoinFirst
<1>6. GuestsFirst'
  <2>1. CASE p = "scheduler"
    BY <2>1, <1>1 DEF GuestsFirst
  <2> QED
    BY <2>1, <1>3
<1>7. InUse'
  <2>1. ASSUME mains' # <<>> PROVE GuestNeeds \subseteq parts'
    <3>1. p # "scheduler" /\ mains # <<>>
      BY <2>1, <1>1
    <3>2. p \notin GuestNeeds
      BY <3>1, <1>4 DEF TInv, GuestsFirst
    <3> QED
      BY <3>1, <3>2, <1>1 DEF TInv, InUse
  <2> QED
    BY <2>1, <1>1, <1>5 DEF InUse
<1>8. DownIsOver'
  <2>1. prog[Len(prog)] = "uninitialized" /\ Len(prog) \in 1 .. Len(prog)
    BY <1>4 DEF TInv, EndIsLast
  <2>2. "uninitialized" \in Left
    BY <2>1 DEF Left
  <2> QED
    BY <2>2, <1>3 DEF DownIsOver
<1>9. NothingBegun'
  BY <1>1, <1>3 DEF TInv, NothingBegun
<1> QED
  BY <1>3, <1>6, <1>7, <1>8, <1>9 DEF TInv

LEMMA ControllerKeepsT == ASSUME TypeOK, TInv, Controller PROVE TInv'
<1>1. CASE Prepare
  <2>1. Step("prepare") /\ state' = state /\ parts' = parts /\ emu' = emu
    BY <1>1 DEF Prepare, local
  <2>2. Up /\ \A i \in 1 .. Len(prog') : prog'[i] \notin Ends
    BY <2>1, StartsWhenUp DEF Starts
  <2>3. /\ Left' \subseteq Left /\ EndsStartNothing' /\ EndIsLast' /\ JoinFirst'
        /\ "uninitialized" \in Left => "uninitialized" \in Left'
    BY <2>1, StepOrder
  <2>4. GuestsFirst'
    BY <2>2, GuestNeedsValue DEF GuestsFirst, Ends
  <2>5. InUse' /\ DownIsOver'
    BY <2>1, <2>2, GuestNeedsValue DEF InUse, DownIsOver, Up
  <2>6. NothingBegun'
    BY <2>1, <2>3 DEF TInv, NothingBegun
  <2> QED
    BY <2>3, <2>4, <2>5, <2>6 DEF TInv
<1>2. CASE Spawn
  <2>1. Step("spawn") /\ state' = state /\ parts' = parts /\ mains' = mains
    BY <1>2 DEF Spawn
  <2>2. Up /\ \A i \in 1 .. Len(prog') : prog'[i] \notin Ends
    BY <2>1, StartsWhenUp DEF Starts
  <2>3. /\ Left' \subseteq Left /\ EndsStartNothing' /\ EndIsLast' /\ GuestsFirst'
    BY <2>1, StepOrder
  <2>4. JoinFirst'
    BY <2>2 DEF JoinFirst, Ends
  <2>5. InUse' /\ DownIsOver'
    BY <2>1, <2>2, GuestNeedsValue DEF InUse, DownIsOver, Up
  <2>6. NothingBegun'
    BY <2>1, <2>3 DEF TInv, NothingBegun
  <2> QED
    BY <2>3, <2>4, <2>5, <2>6 DEF TInv
<1>3. CASE Unpause \/ SetPaused \/ Clear
  <2>1. PICK s \in {"unpause", "pause", "clear"} :
          Step(s) /\ UNCHANGED <<state, parts, mains>> /\ emu' = emu
    BY <1>3 DEF Unpause, SetPaused, Clear, SetFlags, local
  <2>2. s \notin {"join", "scheduler", "uninitialized"}
    OBVIOUS
  <2> QED
    BY <2>1, <2>2, OtherStep
<1>4. CASE Notify \/ Wipe \/ ShouldStop
  <2>1. PICK s \in {"notify", "wipe", "should_stop"} :
          Step(s) /\ UNCHANGED <<state, parts, mains>> /\ (emu' = "none" <=> emu = "none")
    BY <1>4 DEF Notify, Wipe, ShouldStop, local
  <2>2. s \notin {"join", "scheduler", "uninitialized"}
    OBVIOUS
  <2> QED
    BY <2>1, <2>2, OtherStep
<1>5. CASE SetState
  <2>1. PICK s \in Moves \cup {"uninitialized"} :
          Step(s) /\ UNCHANGED <<parts, mains>> /\ emu' = emu
          /\ (s = "uninitialized" <=> state' = "Uninitialized")
    <3>1. PICK e \in {<<"running", "Running">>, <<"paused", "Paused">>, <<"stopped", "Stopped">>,
                      <<"ready", "Ready">>, <<"uninitialized", "Uninitialized">>} :
            Step(e[1]) /\ state' = e[2]
      BY <1>5 DEF SetState
    <3>2. e[1] \in Moves \cup {"uninitialized"} /\ (e[1] = "uninitialized" <=> e[2] = "Uninitialized")
      BY <3>1 DEF Moves
    <3>3. UNCHANGED <<parts, mains>> /\ emu' = emu
      BY <1>5 DEF SetState, local
    <3> QED
      BY <3>1, <3>2, <3>3
  <2>2. s # "join" /\ s # "scheduler"
    BY DEF Moves
  <2>3. /\ s \in Left /\ Left' \subseteq Left /\ EndsStartNothing' /\ EndIsLast'
        /\ JoinFirst' /\ GuestsFirst'
        /\ s = "uninitialized" => Left' = {}
        /\ s # "uninitialized" /\ "uninitialized" \in Left => "uninitialized" \in Left'
    BY <2>1, <2>2, StepOrder
  <2>4. InUse'
    BY <2>1 DEF TInv, InUse, Up
  <2>5. s # "uninitialized" => state # "Uninitialized"
    BY <2>3 DEF TInv, NothingBegun
  <2>6. DownIsOver' /\ NothingBegun'
    BY <2>1, <2>3, <2>5 DEF TInv, DownIsOver, NothingBegun, Up
  <2> QED
    BY <2>3, <2>4, <2>6 DEF TInv
<1>6. CASE Join
  <2>1. Step("join") /\ emu' = "none" /\ UNCHANGED <<state, parts, mains>>
    BY <1>6 DEF Join
  <2>2. /\ Left' \subseteq Left /\ EndsStartNothing' /\ EndIsLast' /\ GuestsFirst'
        /\ "uninitialized" \in Left => "uninitialized" \in Left'
    BY <2>1, StepOrder
  <2>3. JoinFirst'
    BY <2>1 DEF JoinFirst
  <2>4. InUse' /\ DownIsOver' /\ NothingBegun'
    BY <2>1, <2>2 DEF TInv, InUse, DownIsOver, NothingBegun, Up
  <2> QED
    BY <2>2, <2>3, <2>4 DEF TInv
<1>7. CASE \E p \in Parts : Destroy(p)
  BY <1>7, DestroyKeeps
<1> QED
  BY <1>1, <1>2, <1>3, <1>4, <1>5, <1>6, <1>7 DEF Controller

(* The emulation thread's steps and the calls concern each other only      *)
(* through emu, which is "none" before and after them or neither.          *)
LEMMA Untouched ==
  ASSUME TInv, UNCHANGED <<state, parts, prog, mains>>, emu' = "none" <=> emu = "none"
  PROVE  TInv'
  BY DEF TInv, JoinFirst, GuestsFirst, EndsStartNothing, EndIsLast, InUse, DownIsOver, NothingBegun, Up, Left

LEMMA ThreadKeepsT == ASSUME TInv, EmulationThread \/ SpuriousWakeup PROVE TInv'
<1>1. UNCHANGED <<state, parts, prog, mains>> /\ emu # "none" /\ emu' # "none"
  BY DEF EmulationThread, SpuriousWakeup, LoopTop, TestPredicate, Block, BeginFrame, CheckLoop,
         Batch, EndFrame, Emu
<1> QED
  BY <1>1, Untouched

THEOREM TeardownInductive == TypeOK /\ TInv /\ [Next]_vars => TInv'
<1> SUFFICES ASSUME TypeOK, TInv, [Next]_vars PROVE TInv'
  OBVIOUS
<1>1. CASE Next
  BY <1>1, CallKeepsT, ControllerKeepsT, ThreadKeepsT DEF Next
<1>2. CASE UNCHANGED vars
  BY <1>2, Untouched DEF vars, local
<1> QED
  BY <1>1, <1>2

(* shutdown(): no subsystem is destroyed while the emulation thread or a   *)
(* guest thread still uses it.                                             *)
THEOREM TeardownSafe == Spec => []NoUseAfterFree
<1>1. TInv => NoUseAfterFree
  BY DEF TInv, InUse, Up, LoopNeeds, GuestNeeds, NoUseAfterFree
<1> QED
  BY <1>1, InitTInv, TeardownInductive, TypeCorrect, PTL DEF Spec
-----------------------------------------------------------------------------
(* AppLifecycle: the activity, its screens and the load of a game            *)
CONSTANTS Screen
VARIABLES state_, activity, screen, load, menu, window, surface, listener, unseen_run
App == INSTANCE AppLifecycle

AppInv == App!TypeOK /\ App!AppKeepsUp

\* A call that runs the game records who started it unseen; one that does not
\* leaves no game running that was not.
LEMMA RunRecorded ==
  ASSUME App!TypeOK, App!RunsSeen, NEW caller \in {"load", "resume"}, App!Run(caller),
         App!Seen => App!Seen'
  PROVE  App!RunsSeen' /\ state_' \in {"Ready", "closed", "Running"} /\ unseen_run' \in {"", "load", "resume"}
<1>1. App!SeenThen <=> App!Seen' BY DEF App!SeenThen, App!Seen, App!Shown
<1>. QED BY <1>1 DEF App!TypeOK, App!RunsSeen, App!Run, App!Ran

LEMMA HaltForgets ==
  ASSUME App!TypeOK, App!Pause \/ App!Stop
  PROVE  /\ state_' # "Running"
         /\ App!RunsSeen'
         /\ state_' \in {"Ready", "Loaded", "Running", "Paused", "Stopped", "closed"}
         /\ unseen_run' \in {"", "load", "resume"}
  BY DEF App!TypeOK, App!RunsSeen, App!Pause, App!Stop, App!Halted, App!Stopped, App!Forget

LEMMA DisposedKeeps ==
  ASSUME AppInv, NEW gone \in SUBSET Screen, App!Disposed(gone)
  PROVE  /\ App!NothingOfTheGone'
         /\ screen' \in [Screen -> {"absent", "shown", "leaving"}]
         /\ load' \in [Screen -> {"none", "launched", "native", "loaded", "failed", "orphan"}]
         /\ menu' \in [Screen -> BOOLEAN] /\ window' \subseteq Screen
         /\ surface' \in Screen \cup {App!None} /\ listener' \in Screen \cup {App!None}
<1>1. \A s \in Screen : App!Cancelled(load[s]) \in {"none", "launched", "native", "loaded", "failed", "orphan"}
  BY DEF AppInv, App!TypeOK, App!Cancelled
<1>2. load' \in [Screen -> {"none", "launched", "native", "loaded", "failed", "orphan"}]
  <2>1. load' = [s \in Screen |-> IF s \in gone THEN App!Cancelled(load[s]) ELSE load[s]]
    BY DEF App!Disposed
  <2>. QED BY <1>1, <2>1 DEF AppInv, App!TypeOK
<1>3. menu' \in [Screen -> BOOLEAN] BY Zenon DEF App!Disposed
<1>. QED BY <1>2, <1>3 DEF AppInv, App!TypeOK, App!Disposed, App!AppKeepsUp, App!NothingOfTheGone

LEMMA AppStep == ASSUME AppInv, [App!Next]_(App!avars) PROVE AppInv'
<1>. USE DEF AppInv, App!AppKeepsUp
<1>1. ASSUME NEW s \in Screen, App!Open(s) PROVE AppInv'
  <2>1. App!Seen => App!Seen' BY <1>1 DEF App!Open, App!Seen, App!Shown, App!TypeOK
  <2>. QED BY <1>1, <2>1 DEF App!Open, App!TypeOK, App!RunsSeen, App!NothingOfTheGone
<1>2. ASSUME NEW s \in Screen, App!BeginLoad(s) PROVE AppInv'
  BY <1>2 DEF App!BeginLoad, App!TypeOK, App!RunsSeen, App!NothingOfTheGone, App!Seen, App!Shown
<1>3. ASSUME NEW s \in Screen, App!EndLoad(s) PROVE AppInv'
  BY <1>3 DEF App!EndLoad, App!Forget, App!TypeOK, App!RunsSeen, App!NothingOfTheGone, App!Seen, App!Shown
<1>4. ASSUME NEW s \in Screen, App!LoadReturns(s) PROVE AppInv'
  <2>1. App!Seen <=> App!Seen' BY <1>4 DEF App!LoadReturns, App!Seen, App!Shown
  <2>2. CASE App!Run("load")
    BY <1>4, <2>1, <2>2, RunRecorded DEF App!LoadReturns, App!TypeOK, App!NothingOfTheGone
  <2>3. CASE UNCHANGED <<state_, unseen_run>>
    BY <1>4, <2>1, <2>3 DEF App!LoadReturns, App!TypeOK, App!RunsSeen, App!NothingOfTheGone
  <2>. QED BY <1>4, <2>2, <2>3 DEF App!LoadReturns
<1>5. ASSUME NEW s \in Screen, App!Back(s) PROVE AppInv'
  <2>1. App!Stop BY <1>5 DEF App!Back
  <2>. QED BY <1>5, <2>1, HaltForgets DEF App!Back, App!TypeOK, App!NothingOfTheGone
<1>6. ASSUME NEW s \in Screen, App!EndTransition(s) PROVE AppInv'
  <2>1. App!Seen => App!Seen'
    BY <1>6 DEF App!EndTransition, App!Disposed, App!TypeOK, App!Seen, App!Shown
  <2>2. App!Disposed({s}) /\ {s} \in SUBSET Screen BY <1>6 DEF App!EndTransition
  <2>. QED BY <1>6, <2>1, <2>2, DisposedKeeps DEF App!EndTransition, App!TypeOK, App!RunsSeen
<1>7. ASSUME NEW s \in Screen, App!OpenMenu(s) PROVE AppInv'
  <2>1. App!Pause BY <1>7 DEF App!OpenMenu
  <2>. QED BY <1>7, <2>1, HaltForgets DEF App!OpenMenu, App!TypeOK, App!NothingOfTheGone
<1>8. ASSUME NEW s \in Screen, App!CloseMenu(s) PROVE AppInv'
  <2>1. App!Seen' /\ App!SeenThen
    BY <1>8 DEF App!CloseMenu, App!TypeOK, App!Seen, App!SeenThen, App!Shown
  <2>2. CASE App!Run("menu")
    BY <1>8, <2>1, <2>2 DEF App!CloseMenu, App!Run, App!Ran, App!TypeOK, App!RunsSeen, App!NothingOfTheGone
  <2>3. CASE UNCHANGED <<state_, unseen_run>>
    BY <1>8, <2>1, <2>3 DEF App!CloseMenu, App!TypeOK, App!RunsSeen, App!NothingOfTheGone
  <2>4. CASE App!Stop
    BY <1>8, <2>4, HaltForgets DEF App!CloseMenu, App!TypeOK, App!NothingOfTheGone
  <2>. QED BY <1>8, <2>2, <2>3, <2>4 DEF App!CloseMenu
<1>9. ASSUME NEW s \in Screen, App!LoadState(s) PROVE AppInv'
  BY <1>9 DEF App!LoadState, App!Halted, App!Forget, App!TypeOK, App!RunsSeen, App!NothingOfTheGone,
       App!Seen, App!Shown
<1>10. ASSUME NEW s \in Screen, App!EndOrphan(s) PROVE AppInv'
  BY <1>10 DEF App!EndOrphan, App!TypeOK, App!RunsSeen, App!NothingOfTheGone, App!Seen, App!Shown
<1>11. CASE App!OnPause
  <2>1. App!Pause BY <1>11 DEF App!OnPause
  <2>. QED BY <1>11, <2>1, HaltForgets DEF App!OnPause, App!TypeOK, App!NothingOfTheGone
<1>12. CASE App!Hide
  BY <1>12 DEF App!Hide, App!TypeOK, App!RunsSeen, App!NothingOfTheGone, App!Seen, App!Shown
<1>13. CASE App!OnResume
  <2>1. ~App!Seen BY <1>13 DEF App!OnResume, App!Seen
  <2>2. App!NothingOfTheGone' /\ window' \subseteq Screen /\ surface' \in Screen \cup {App!None}
    BY <1>13 DEF App!OnResume, App!NothingOfTheGone, App!TypeOK
  <2>3. CASE App!Run("resume")
    BY <1>13, <2>1, <2>2, <2>3, RunRecorded DEF App!OnResume, App!TypeOK
  <2>4. CASE UNCHANGED <<state_, unseen_run>>
    BY <1>13, <2>1, <2>2, <2>4 DEF App!OnResume, App!TypeOK, App!RunsSeen
  <2>. QED BY <1>13, <2>3, <2>4 DEF App!OnResume
<1>14. CASE App!OnDestroy
  <2>1. App!Disposed(Screen) /\ Screen \in SUBSET Screen BY <1>14 DEF App!OnDestroy
  <2>. QED BY <1>14, <2>1, DisposedKeeps DEF App!OnDestroy, App!Forget, App!TypeOK, App!RunsSeen
<1>15. CASE App!Recreate
  BY <1>15 DEF App!Recreate, App!TypeOK, App!RunsSeen, App!NothingOfTheGone
<1>16. CASE UNCHANGED App!avars
  BY <1>16 DEF App!avars, App!TypeOK, App!RunsSeen, App!NothingOfTheGone, App!Seen, App!Shown
<1>. QED BY <1>1, <1>2, <1>3, <1>4, <1>5, <1>6, <1>7, <1>8, <1>9, <1>10, <1>11, <1>12, <1>13, <1>14,
     <1>15, <1>16 DEF App!Next

\* The application: no game runs where nobody sees it unless a late load or the
\* activity's resume started it there; the GPU never draws on a window that is
\* gone, nor does a visit that is gone get the vibrations.
THEOREM AppKept == App!Init /\ [][App!Next]_(App!avars) => [](App!TypeOK /\ App!AppKeepsUp)
<1>1. ASSUME App!Init PROVE AppInv
  BY <1>1 DEF App!Init, AppInv, App!AppKeepsUp, App!TypeOK, App!RunsSeen, App!NothingOfTheGone
<1>2. AppInv /\ [App!Next]_(App!avars) => AppInv' BY AppStep
<1>3. AppInv => App!TypeOK /\ App!AppKeepsUp BY DEF AppInv
<1>. QED BY <1>1, <1>2, <1>3, PTL
-----------------------------------------------------------------------------
(* Input: the controller between the screen and the game                     *)
CONSTANTS Button, Trigger, Stick, Pointer, MaxTouch, Far
VARIABLES gamepad, connected, touch_points, dead_zone, input_states, call, hand, finger
Pad == INSTANCE Input

\* A finger is no control and neither is nothing; a screen has a size.
Screened ==
  /\ MaxTouch \in Nat /\ Far \in Nat \ {0}
  /\ {"none", "up", "outside"} \cap Pad!Control = {} /\ "none" \notin Pointer

\* The control a call of the overlay is about to write.
Pending(c) == call.step = "set" /\ call.control = c
\* A touch point has the zone its finger came down in.
Tracks(i, c) == touch_points[i].id \in Pointer /\ touch_points[i].zone = c

PadTypes ==
  /\ Pad!TypeOK
  /\ call.step = "idle" => call = Pad!Idle
  /\ call.step # "idle" => call.control \in Pad!Control
\* What the overlay writes is moved only by a hand.
ByHand == call.step = "set" /\ call.value = 1 => hand[call.control] # 0
\* A finger with a point is on the screen, in the zone of the point, and has one.
Points ==
  /\ \A i \in 1..MaxTouch :
       /\ touch_points[i].id = Pad!Nothing <=> touch_points[i].zone = Pad!Nothing
       /\ touch_points[i].id \in Pointer => finger[touch_points[i].id] = touch_points[i].zone
  /\ \A i, j \in 1..MaxTouch :
       touch_points[i].id \in Pointer /\ touch_points[i].id = touch_points[j].id => i = j
\* A control that is moved is one a hand pushes, or a finger with a point has,
\* or one the overlay is about to write.
Caused(c) == hand[c] # 0 \/ Pending(c) \/ \E i \in 1..MaxTouch : Tracks(i, c)
MovedForCause == \A c \in Pad!Control : gamepad[c] = 1 => Caused(c)

PadInv == PadTypes /\ ByHand /\ Points /\ MovedForCause

LEMMA FirstIn ==
  ASSUME MaxTouch \in Nat, NEW U \in SUBSET (1..MaxTouch), U # {}
  PROVE  Pad!First(U) \in U
<1>1. U \in SUBSET Nat OBVIOUS
<1>2. PICK x \in U : \A y \in U : ~(<<y, x>> \in OpToRel(<, Nat))
  BY <1>1, NatLessThanWellFounded, WFMin
<1>3. \A y \in U : ~(y < x) BY <1>1, <1>2 DEF OpToRel
<1>4. \A y \in U : x <= y BY <1>3
<1>. QED BY <1>4 DEF Pad!First

LEMMA PadStep == ASSUME Screened, PadInv, [Pad!Next]_(Pad!ivars) PROVE PadInv'
<1>. USE DEF PadInv, PadTypes, Screened
<1>0. /\ gamepad \in [Pad!Control -> 0..1] /\ input_states \in [Pad!Control -> 0..1]
      /\ hand \in [Pad!Control -> 0..Far] /\ finger \in [Pointer -> Pad!Place]
      /\ touch_points \in [1..MaxTouch -> [id : Pointer \cup {Pad!Nothing}, zone : Pad!Control \cup {Pad!Nothing}]]
  BY DEF Pad!TypeOK
<1>1. Pad!Synced \in [Pad!Control -> 0..1] BY DEF Pad!Synced, Pad!TypeOK
<1>2. ASSUME NEW c \in Pad!Control, NEW raw \in 0..Far, Pad!Move(c, raw) PROVE PadInv'
  <2> DEFINE v == IF c \in Button THEN (IF raw = 0 THEN 0 ELSE 1) ELSE Pad!ApplyDeadZone(raw)
  <2>1. v \in 0..1 /\ (v = 1 => raw # 0) BY DEF Pad!ApplyDeadZone, Pad!TypeOK
  <2> HIDE DEF v
  <2>2. call' = [step |-> "set", control |-> c, value |-> v] /\ hand' = [hand EXCEPT ![c] = raw]
    BY <1>2 DEF Pad!Move, v
  <2>3. hand'[c] = raw /\ \A d \in Pad!Control : d # c => hand'[d] = hand[d] BY <1>0, <2>2
  <2>4. call = Pad!Idle /\ UNCHANGED <<gamepad, connected, touch_points, dead_zone, input_states, finger>>
    BY <1>2 DEF Pad!Move
  <2>5. PadTypes' BY <2>1, <2>2, <2>4 DEF Pad!TypeOK
  <2>6. ByHand' BY <2>1, <2>2, <2>3 DEF ByHand
  <2>7. Points' BY <2>4 DEF Points
  <2>8. MovedForCause' BY <2>2, <2>3, <2>4 DEF MovedForCause, Caused, Pending, Tracks, Pad!Idle
  <2>. QED BY <2>5, <2>6, <2>7, <2>8
<1>3. CASE Pad!Set
  <2>1. /\ gamepad' = [gamepad EXCEPT ![call.control] = call.value]
        /\ call' = [call EXCEPT !.step = "sync"] /\ call.step = "set"
        /\ UNCHANGED <<connected, touch_points, dead_zone, input_states, hand, finger>>
    BY <1>3 DEF Pad!Set
  <2>2. PadTypes' BY <2>1 DEF Pad!TypeOK
  <2>3. call'.step = "sync" BY <2>1 DEF Pad!TypeOK
  <2>4. ByHand' /\ Points' BY <2>1, <2>3 DEF ByHand, Points
  <2>5. MovedForCause'
    <3>1. ASSUME NEW c \in Pad!Control, gamepad'[c] = 1 PROVE hand[c] # 0 \/ \E i \in 1..MaxTouch : Tracks(i, c)
      <4>1. CASE c = call.control BY <1>0, <2>1, <3>1, <4>1 DEF ByHand
      <4>2. CASE c # call.control
        BY <1>0, <2>1, <3>1, <4>2 DEF MovedForCause, Caused, Pending
      <4>. QED BY <4>1, <4>2
    <3>. QED BY <2>1, <3>1 DEF MovedForCause, Caused, Tracks
  <2>. QED BY <2>2, <2>4, <2>5
<1>4. CASE Pad!SyncAfterSet
  <2>1. PadTypes' BY <1>1, <1>4 DEF Pad!SyncAfterSet, Pad!TypeOK, Pad!Idle
  <2>2. ByHand' /\ Points' BY <1>4 DEF Pad!SyncAfterSet, ByHand, Points, Pad!Idle
  <2>3. MovedForCause' BY <1>4 DEF Pad!SyncAfterSet, MovedForCause, Caused, Pending, Tracks
  <2>. QED BY <2>1, <2>2, <2>3
<1>5. ASSUME NEW f \in Pointer, NEW place \in Pad!Place, Pad!TouchDown(f, place) PROVE PadInv'
  <2>1. /\ finger' = [finger EXCEPT ![f] = place] /\ finger[f] = "up" /\ place # "up" /\ call = Pad!Idle
        /\ UNCHANGED <<connected, dead_zone, input_states, call, hand>>
    BY <1>5 DEF Pad!TouchDown
  <2>2. \A i \in 1..MaxTouch : touch_points[i].id # f
    BY <1>0, <2>1 DEF Points, Pad!Nothing
  <2>3. ByHand' BY <2>1 DEF ByHand
  <2>4. CASE place = "outside" \/ Pad!Free = {}
    <3>1. UNCHANGED <<touch_points, gamepad>> BY <1>5, <2>4 DEF Pad!TouchDown
    <3>2. PadTypes' BY <2>1, <3>1 DEF Pad!TypeOK
    <3>3. Points' BY <1>0, <2>1, <2>2, <3>1 DEF Points
    <3>4. MovedForCause' BY <2>1, <3>1 DEF MovedForCause, Caused, Pending, Tracks
    <3>. QED BY <2>3, <3>2, <3>3, <3>4
  <2>5. CASE ~(place = "outside" \/ Pad!Free = {})
    <3>1. place \in Pad!Control BY <2>1, <2>5 DEF Pad!Place
    <3>2. PICK i \in 1..MaxTouch : i = Pad!First(Pad!Free) /\ touch_points[i].id = Pad!Nothing
      BY <2>5, FirstIn DEF Pad!Free
    <3>3. /\ touch_points' = [touch_points EXCEPT ![i] = [id |-> f, zone |-> place]]
          /\ gamepad' = IF place \in Stick THEN gamepad ELSE [gamepad EXCEPT ![place] = 1]
      BY <1>5, <2>5, <3>2 DEF Pad!TouchDown, Pad!Alloc
    <3>4. touch_points'[i] = [id |-> f, zone |-> place] /\ \A j \in 1..MaxTouch : j # i => touch_points'[j] = touch_points[j]
      BY <1>0, <3>3
    <3>5. PadTypes' BY <2>1, <3>1, <3>3 DEF Pad!TypeOK
    <3>6. Points'
      <4>1. finger'[f] = place /\ \A g \in Pointer : g # f => finger'[g] = finger[g] BY <1>0, <2>1
      <4>2. ASSUME NEW j \in 1..MaxTouch
            PROVE  /\ touch_points'[j].id = Pad!Nothing <=> touch_points'[j].zone = Pad!Nothing
                   /\ touch_points'[j].id \in Pointer => finger'[touch_points'[j].id] = touch_points'[j].zone
        <5>1. CASE j = i BY <3>1, <3>4, <4>1, <5>1 DEF Pad!Nothing
        <5>2. CASE j # i BY <2>2, <3>4, <4>1, <5>2 DEF Points
        <5>. QED BY <5>1, <5>2
      <4>3. ASSUME NEW j \in 1..MaxTouch, NEW k \in 1..MaxTouch, touch_points'[j].id \in Pointer,
                   touch_points'[j].id = touch_points'[k].id
            PROVE  j = k
        BY <2>2, <3>4, <4>3 DEF Points
      <4>. QED BY <4>2, <4>3 DEF Points
    <3>7. \A c \in Pad!Control : c # place => gamepad'[c] = gamepad[c] BY <1>0, <3>1, <3>3
    <3>8. MovedForCause'
      BY <2>1, <3>2, <3>4, <3>7 DEF MovedForCause, Caused, Pending, Tracks, Pad!Nothing
    <3>. QED BY <2>3, <3>5, <3>6, <3>8
  <2>. QED BY <2>4, <2>5
<1>6. ASSUME NEW f \in Pointer, NEW raw \in 0..Far, Pad!TouchMove(f, raw) PROVE PadInv'
  <2>1. PICK i \in 1..MaxTouch : i = Pad!First(Pad!PointsOf(f)) /\ touch_points[i].id = f
    <3>1. Pad!PointsOf(f) # {} /\ Pad!PointsOf(f) \in SUBSET (1..MaxTouch)
      BY <1>6 DEF Pad!TouchMove, Pad!PointsOf
    <3>2. Pad!First(Pad!PointsOf(f)) \in Pad!PointsOf(f) BY <3>1, FirstIn
    <3>. QED BY <3>2 DEF Pad!PointsOf
  <2>2. /\ touch_points[i].zone \in Stick
        /\ gamepad' = [gamepad EXCEPT ![touch_points[i].zone] = Pad!ApplyDeadZone(raw)]
        /\ UNCHANGED <<connected, touch_points, dead_zone, input_states, call, hand, finger>>
    BY <1>6, <2>1 DEF Pad!TouchMove
  <2>3. touch_points[i].zone \in Pad!Control /\ Pad!ApplyDeadZone(raw) \in 0..1
    BY <2>2 DEF Pad!Control, Pad!ApplyDeadZone
  <2>4. PadTypes' BY <2>2, <2>3 DEF Pad!TypeOK
  <2>5. ByHand' /\ Points' BY <2>2 DEF ByHand, Points
  <2>6. MovedForCause'
    BY <1>0, <2>1, <2>2, <2>3 DEF MovedForCause, Caused, Pending, Tracks
  <2>. QED BY <2>4, <2>5, <2>6
<1>7. ASSUME NEW f \in Pointer, Pad!TouchUp(f) PROVE PadInv'
  <2>1. /\ finger' = [finger EXCEPT ![f] = "up"] /\ call = Pad!Idle
        /\ UNCHANGED <<connected, dead_zone, input_states, call, hand>>
    BY <1>7 DEF Pad!TouchUp
  <2>2. ByHand' BY <2>1 DEF ByHand
  <2>3. CASE Pad!PointsOf(f) = {}
    <3>1. UNCHANGED <<touch_points, gamepad>> BY <1>7, <2>3 DEF Pad!TouchUp
    <3>2. PadTypes' BY <2>1, <3>1 DEF Pad!TypeOK, Pad!Place
    <3>3. Points' BY <1>0, <2>1, <2>3, <3>1 DEF Points, Pad!PointsOf
    <3>4. MovedForCause' BY <2>1, <3>1 DEF MovedForCause, Caused, Pending, Tracks
    <3>. QED BY <2>2, <3>2, <3>3, <3>4
  <2>4. CASE Pad!PointsOf(f) # {}
    <3>1. PICK i \in 1..MaxTouch : i = Pad!First(Pad!PointsOf(f)) /\ touch_points[i].id = f
      <4>1. Pad!PointsOf(f) \in SUBSET (1..MaxTouch) BY DEF Pad!PointsOf
      <4>2. Pad!First(Pad!PointsOf(f)) \in Pad!PointsOf(f) BY <2>4, <4>1, FirstIn
      <4>. QED BY <4>2 DEF Pad!PointsOf
    <3>2. /\ gamepad' = [gamepad EXCEPT ![touch_points[i].zone] = 0]
          /\ touch_points' = [touch_points EXCEPT ![i] = Pad!NoPoint]
      BY <1>7, <2>4, <3>1 DEF Pad!TouchUp
    <3>3. touch_points'[i] = Pad!NoPoint /\ \A j \in 1..MaxTouch : j # i => touch_points'[j] = touch_points[j]
      BY <1>0, <3>2
    <3>4. touch_points[i].zone \in Pad!Control BY <1>0, <3>1 DEF Points, Pad!Nothing
    <3>5. PadTypes' BY <2>1, <3>2, <3>4 DEF Pad!TypeOK, Pad!Place, Pad!NoPoint
    <3>6. Points'
      <4>1. \A g \in Pointer : g # f => finger'[g] = finger[g] BY <1>0, <2>1
      <4>2. ASSUME NEW j \in 1..MaxTouch
            PROVE  /\ touch_points'[j].id = Pad!Nothing <=> touch_points'[j].zone = Pad!Nothing
                   /\ touch_points'[j].id \in Pointer => finger'[touch_points'[j].id] = touch_points'[j].zone
        <5>1. CASE j = i BY <3>3, <5>1 DEF Pad!NoPoint, Pad!Nothing
        <5>2. CASE j # i BY <3>1, <3>3, <4>1, <5>2 DEF Points
        <5>. QED BY <5>1, <5>2
      <4>3. ASSUME NEW j \in 1..MaxTouch, NEW k \in 1..MaxTouch, touch_points'[j].id \in Pointer,
                   touch_points'[j].id = touch_points'[k].id
            PROVE  j = k
        BY <3>3, <4>3 DEF Points, Pad!NoPoint, Pad!Nothing
      <4>. QED BY <4>2, <4>3 DEF Points
    <3>7. \A c \in Pad!Control : gamepad'[c] = IF c = touch_points[i].zone THEN 0 ELSE gamepad[c]
      BY <1>0, <3>2
    <3>8. MovedForCause'
      BY <2>1, <3>3, <3>7 DEF MovedForCause, Caused, Pending, Tracks
    <3>. QED BY <2>2, <3>5, <3>6, <3>8
  <2>. QED BY <2>3, <2>4
<1>8. ASSUME NEW d \in 1..Far, Pad!SetDeadZone(d) PROVE PadInv'
  BY <1>8 DEF Pad!SetDeadZone, Pad!TypeOK, ByHand, Points, MovedForCause, Caused, Pending, Tracks
<1>9. CASE Pad!SetConnected
  BY <1>9 DEF Pad!SetConnected, Pad!TypeOK, ByHand, Points, MovedForCause, Caused, Pending, Tracks
<1>10. CASE Pad!FrameSync
  BY <1>1, <1>10 DEF Pad!FrameSync, Pad!TypeOK, ByHand, Points, MovedForCause, Caused, Pending, Tracks
<1>11. CASE UNCHANGED Pad!ivars
  BY <1>11 DEF Pad!ivars, Pad!TypeOK, ByHand, Points, MovedForCause, Caused, Pending, Tracks
<1>. QED BY <1>2, <1>3, <1>4, <1>5, <1>6, <1>7, <1>8, <1>9, <1>10, <1>11 DEF Pad!Next, Pad!Ui

\* No control is stuck: between two events of the screen, a control that is
\* moved is under a finger or pushed on the overlay, for any controls, fingers
\* and number of touch points.
THEOREM ControlsLetGo == ASSUME Screened PROVE Pad!Init /\ [][Pad!Next]_(Pad!ivars) => [](Pad!TypeOK /\ Pad!NothingStuck)
<1>1. ASSUME Pad!Init PROVE PadInv
  BY <1>1 DEF Screened, Pad!Init, PadInv, PadTypes, Pad!TypeOK, ByHand, Points, MovedForCause, Pad!Idle,
       Pad!NoPoint, Pad!Nothing, Pad!Place
<1>2. PadInv /\ [Pad!Next]_(Pad!ivars) => PadInv' BY PadStep
<1>3. ASSUME PadInv PROVE Pad!TypeOK /\ Pad!NothingStuck
  <2>1. ASSUME NEW c \in Pad!Control, NEW i \in 1..MaxTouch, Tracks(i, c)
        PROVE  \E f \in Pointer : finger[f] = c
    BY <1>3, <2>1 DEF PadInv, Points, Tracks
  <2>. QED BY <1>3, <2>1 DEF PadInv, PadTypes, MovedForCause, Caused, Pending, Pad!NothingStuck, Pad!Held, Pad!Idle
<1>. QED BY <1>1, <1>2, <1>3, PTL
-----------------------------------------------------------------------------
(* SaveStates: what a save writes of a machine that goes on, and a load      *)
CONSTANTS Pages, Word, Value
VARIABLES cpu, gpu, mem, file, at, block, out, taken, restored
Saves == INSTANCE SaveStates

\* Memory has a page, and starts with zeros.
Paged == Pages \in Nat \ {0} /\ 0 \in Word /\ 0 \in Value

LEMMA SameCount == ASSUME NEW S PROVE Saves!Cardinality(S) = Cardinality(S)
  BY Zenon DEF Saves!Cardinality, Cardinality, Saves!IsFiniteSet, IsFiniteSet

\* The place of a page's bytes among those of the pages with a bit.
Place(bitmap, p) == Cardinality({q \in bitmap : q <= p})
\* A memory section of the first k pages holds each that is not zeros, in order.
Holds(b, pages, k) ==
  /\ b.is = "memory" /\ b.bitmap \subseteq 1..k
  /\ b.data \in Seq(Value) /\ Len(b.data) = Cardinality(b.bitmap)
  /\ \A p \in 1..k : pages[p] = IF p \in b.bitmap THEN b.data[Place(b.bitmap, p)] ELSE 0
\* The n-th block of a file has the machine's part that was taken.
Whole(n, b) ==
  /\ n = 1 => b.is = "header"
  /\ n = 2 => b.is = "cpu" /\ b.data = taken.cpu /\ taken.cpu \in [1..1 -> Word]
  /\ n = 3 => b.is = "gpu" /\ b.data = taken.gpu /\ taken.gpu \in [1..1 -> Word]
  /\ n = 4 => b.is = "kernel"
  /\ n = 5 => Holds(b, taken.mem, Pages) /\ taken.mem \in [1..Pages -> Value]

Section == {"header", "cpu", "gpu", "kernel", "memory"}
FileBlock == [is : Section, bitmap : SUBSET (1..Pages), data : Seq(Word \cup Value)]
Taking == [cpu : Seq(Word), gpu : Seq(Word), mem : Seq(Value)]
SavesTypes ==
  /\ cpu \in Word /\ gpu \in Word /\ mem \in [1..Pages -> Value]
  /\ at \in {"idle", "cpu", "gpu", "memory", "write", "close", "read", "failed", "loaded"}
  /\ block \in 0..5 /\ (at \notin {"write", "read"} => block = 0)
  /\ file \in Seq(FileBlock) /\ out \in Seq(FileBlock)
  /\ taken \in Taking /\ restored \in Taking
\* What is on disk is of the last save.
OneSave == Len(file) <= 5 /\ \A n \in 1..Len(file) : Whole(n, file[n])
\* A save has begun a new file, and what it serialised is of its own taking.
Saving ==
  /\ at \in {"cpu", "gpu", "memory"} => file = <<>>
  /\ at = "cpu" => taken = Saves!Nothing
  /\ at = "gpu" => Len(out) = 2 /\ taken.mem = <<>>
  /\ at = "memory" => Len(out) = 5 /\ Len(taken.mem) < Pages /\ Holds(out[5], taken.mem, Len(taken.mem))
  /\ at \in {"gpu", "memory"} => \A n \in 1..Len(out) : n < 5 => Whole(n, out[n])
  /\ at = "write" => /\ Len(out) = 5 /\ block = Len(file) /\ block < 5
                     /\ \A n \in 1..5 : Whole(n, out[n])
\* A load has restored the parts it has passed.
Loading ==
  /\ at \notin {"read", "failed", "loaded"} => restored = Saves!Nothing
  /\ at = "read" =>
       /\ block <= Len(file) /\ block < 5 /\ restored.mem = <<>>
       /\ restored.cpu = IF block >= 2 THEN taken.cpu ELSE <<>>
       /\ restored.gpu = IF block >= 3 THEN taken.gpu ELSE <<>>
  /\ at = "failed" => restored.mem = <<>>
  /\ at = "loaded" => restored = taken
SavesInv == SavesTypes /\ OneSave /\ Saving /\ Loading

LEMMA PlaceIn ==
  ASSUME NEW k \in Nat, NEW bitmap \in SUBSET (1..k), NEW p \in bitmap
  PROVE  Place(bitmap, p) \in 1..Cardinality(bitmap)
<1> DEFINE S == {q \in bitmap : q <= p}
<1>1. IsFiniteSet(bitmap) /\ S \subseteq bitmap /\ p \in S
  <2>1. IsFiniteSet(1..k) BY FS_Interval
  <2>2. IsFiniteSet(bitmap) BY <2>1, FS_Subset
  <2>3. p \in Nat BY SMT
  <2>4. p <= p BY <2>3
  <2>. QED BY <2>2, <2>4
<1>2. IsFiniteSet(S) /\ Cardinality(S) \in Nat /\ Cardinality(S) <= Cardinality(bitmap)
  BY <1>1, FS_Subset, FS_CardinalityType
<1>3. Cardinality(S) # 0 /\ Cardinality(bitmap) \in Nat BY <1>1, <1>2, FS_EmptySet, FS_CardinalityType
<1>. QED BY <1>2, <1>3 DEF Place

\* One page more: one of zeros leaves the section as it is, another gets its bit
\* and its bytes at the end.
LEMMA ZerosPage ==
  ASSUME NEW b, NEW pages \in Seq(Value), Holds(b, pages, Len(pages)), 0 \in Value
  PROVE  Holds(b, Append(pages, 0), Len(pages) + 1)
<1>1. /\ b.bitmap \subseteq 1..(Len(pages) + 1) /\ Len(pages) + 1 \notin b.bitmap
      /\ Len(pages) \in Nat
  BY DEF Holds
<1>2. Append(pages, 0)[Len(pages) + 1] = 0 /\ \A p \in 1..Len(pages) : Append(pages, 0)[p] = pages[p]
  BY AppendProperties
<1>3. ASSUME NEW p \in 1..(Len(pages) + 1)
      PROVE  Append(pages, 0)[p] = IF p \in b.bitmap THEN b.data[Place(b.bitmap, p)] ELSE 0
  <2>1. CASE p = Len(pages) + 1 BY <1>1, <1>2, <2>1
  <2>2. CASE p # Len(pages) + 1
    <3>1. p \in 1..Len(pages) BY <1>1, <2>2
    <3>. QED BY <1>2, <3>1 DEF Holds
  <2>. QED BY <2>1, <2>2
<1>. QED BY <1>1, <1>3 DEF Holds

LEMMA BytesPage ==
  ASSUME NEW b \in FileBlock, NEW pages \in Seq(Value), Holds(b, pages, Len(pages)), NEW v \in Value,
         Pages \in Nat
  PROVE  Holds([b EXCEPT !.bitmap = @ \cup {Len(pages) + 1}, !.data = Append(@, v)],
               Append(pages, v), Len(pages) + 1)
<1> DEFINE k == Len(pages)
           B == b.bitmap
           D == b.bitmap \cup {k + 1}
           c == [b EXCEPT !.bitmap = D, !.data = Append(b.data, v)]
<1>1. /\ c.is = "memory" /\ c.bitmap = D /\ c.data = Append(b.data, v) /\ k \in Nat
      /\ B \subseteq 1..k /\ k + 1 \notin B /\ D \subseteq 1..(k + 1)
      /\ b.data \in Seq(Value) /\ Len(b.data) = Cardinality(B)
  BY DEF Holds, FileBlock
<1> HIDE DEF c, k
<1>2. IsFiniteSet(B) /\ Cardinality(D) = Cardinality(B) + 1 /\ Cardinality(B) \in Nat
  <2>1. IsFiniteSet(1..k) BY <1>1, FS_Interval
  <2>2. IsFiniteSet(B) BY <1>1, <2>1, FS_Subset
  <2>. QED BY <1>1, <2>2, FS_AddElement, FS_CardinalityType
<1>3. c.data \in Seq(Value) /\ Len(c.data) = Cardinality(c.bitmap)
  BY <1>1, <1>2, AppendProperties
<1>4. \A p \in 1..k : Place(D, p) = Place(B, p) /\ (p \in D <=> p \in B)
  <2>1. TAKE p \in 1..k
  <2>2. {q \in D : q <= p} = {q \in B : q <= p}
    <3>1. p < k + 1 BY <1>1
    <3>2. ~(k + 1 <= p) BY <1>1, <3>1
    <3>3. \A q \in D : q <= p => q \in B BY <3>2
    <3>4. \A q : q \in D /\ q <= p <=> q \in B /\ q <= p BY <3>3
    <3>. QED BY <3>4
  <2>3. k + 1 # p BY <1>1
  <2>. QED BY <2>2, <2>3 DEF Place
<1>5. Place(D, k + 1) = Cardinality(D)
  <2>1. \A q \in D : q <= k + 1 BY <1>1
  <2>2. {q \in D : q <= k + 1} = D BY <2>1
  <2>. QED BY <2>2 DEF Place
<1>6. /\ Append(pages, v)[k + 1] = v /\ \A p \in 1..k : Append(pages, v)[p] = pages[p]
      /\ Append(b.data, v)[Len(b.data) + 1] = v /\ \A i \in 1..Len(b.data) : Append(b.data, v)[i] = b.data[i]
  BY <1>1, AppendProperties DEF k
<1> HIDE DEF D, B
<1>7. ASSUME NEW p \in 1..(k + 1)
      PROVE  Append(pages, v)[p] = IF p \in c.bitmap THEN c.data[Place(c.bitmap, p)] ELSE 0
  <2>1. CASE p = k + 1
    <3>1. p \in D BY <2>1 DEF D
    <3>. QED BY <1>1, <1>2, <1>5, <1>6, <2>1, <3>1
  <2>2. CASE p # k + 1
    <3>1. p \in 1..k BY <1>1, <2>2
    <3>2. pages[p] = IF p \in B THEN b.data[Place(B, p)] ELSE 0 BY <3>1 DEF Holds, B, k
    <3>3. p \in B => Place(B, p) \in 1..Len(b.data) BY <1>1, PlaceIn
    <3>. QED BY <1>1, <1>4, <1>6, <3>1, <3>2, <3>3
  <2>. QED BY <2>1, <2>2
<1>8. Holds(c, Append(pages, v), k + 1) BY <1>1, <1>3, <1>7 DEF Holds
<1>. QED BY <1>8 DEF c, D, k

\* A load reads back the pages a section holds.
LEMMA PagesBack ==
  ASSUME NEW b, NEW pages \in [1..Pages -> Value], Holds(b, pages, Pages)
  PROVE  Saves!PagesOf(b) = pages
<1>1. \A p \in 1..Pages : Saves!Cardinality({q \in b.bitmap : q <= p}) = Place(b.bitmap, p)
  BY SameCount DEF Place
<1>2. Saves!PagesOf(b) = [p \in 1..Pages |-> IF p \in b.bitmap THEN b.data[Place(b.bitmap, p)] ELSE 0]
  BY <1>1 DEF Saves!PagesOf
<1>3. Saves!PagesOf(b) = [p \in 1..Pages |-> pages[p]] BY <1>2 DEF Holds
<1>. QED BY <1>3

LEMMA FiveBlocks == Saves!SectionCount = 5 BY DEF Saves!SectionCount, Saves!Blocks

\* What becomes of a file that is cut short is still of one save.
LEMMA CutShort ==
  ASSUME SavesInv, Saves!Reaches(file), taken' = taken
  PROVE  file' \in Seq(FileBlock) /\ OneSave'
<1>1. PICK k \in 0..Len(file) : file' = SubSeq(file, 1, k) BY DEF Saves!Reaches
<1>2. file \in Seq(FileBlock) /\ Len(file) \in Nat BY DEF SavesInv, SavesTypes
<1>3. file' \in Seq(FileBlock) /\ Len(file') = k /\ \A n \in 1..k : file'[n] = file[n]
  BY <1>1, <1>2, SubSeqProperties
<1>. QED BY <1>2, <1>3 DEF SavesInv, OneSave, Whole

LEMMA BlockIs ==
  ASSUME NEW type \in Section, NEW data \in Seq(Word \cup Value)
  PROVE  /\ Saves!Block(type, {}, data) \in FileBlock /\ Saves!Block(type, {}, data).is = type
         /\ Saves!Block(type, {}, data).bitmap = {} /\ Saves!Block(type, {}, data).data = data
  BY DEF Saves!Block, FileBlock

LEMMA SequenceOf ==
  ASSUME NEW S, NEW s \in Seq(S)
  PROVE  s \in [1..Len(s) -> S] /\ Len(s) \in Nat
  OBVIOUS

LEMMA SaveSteps ==
  ASSUME Paged, SavesInv
  PROVE  /\ Saves!Save => SavesInv'
         /\ Saves!serialize_cpu => SavesInv'
         /\ Saves!serialize_gpu => SavesInv'
         /\ Saves!serialize_memory => SavesInv'
         /\ Saves!write_all => SavesInv'
         /\ Saves!EndSave => SavesInv'
<1>. USE DEF SavesInv
<1>1. CASE Saves!Save
  <2>1. /\ at = "idle" /\ file' = <<>> /\ at' = "cpu" /\ taken' = Saves!Nothing
        /\ UNCHANGED <<cpu, gpu, mem, block, out, restored>>
    BY <1>1 DEF Saves!Save, Saves!Truncated
  <2>2. <<>> \in Seq(FileBlock) /\ Len(<<>>) = 0 /\ Saves!Nothing \in Taking
    BY DEF Saves!Nothing, Taking
  <2>. QED BY <2>1, <2>2 DEF SavesTypes, OneSave, Saving, Loading
<1>2. CASE Saves!serialize_cpu
  <2> DEFINE h == Saves!Block("header", {}, <<>>)
             c == Saves!Block("cpu", {}, <<cpu>>)
  <2>1. /\ at = "cpu" /\ out' = <<h, c>> /\ taken' = [taken EXCEPT !.cpu = <<cpu>>] /\ at' = "gpu"
        /\ UNCHANGED <<cpu, gpu, mem, file, block, restored>>
    BY <1>2 DEF Saves!serialize_cpu
  <2>2. h \in FileBlock /\ h.is = "header" /\ c \in FileBlock /\ c.is = "cpu" /\ c.data = <<cpu>>
    <3>1. <<cpu>> \in Seq(Word \cup Value) /\ <<>> \in Seq(Word \cup Value) BY DEF SavesTypes
    <3>2. "header" \in Section /\ "cpu" \in Section BY DEF Section
    <3>3. h \in FileBlock /\ h.is = "header" BY ONLY <3>1, <3>2, BlockIs, Zenon
    <3>4. c \in FileBlock /\ c.is = "cpu" /\ c.data = <<cpu>> BY ONLY <3>1, <3>2, BlockIs, Zenon
    <3>. QED BY <3>3, <3>4
  <2> HIDE DEF h, c
  <2>3. <<cpu>> \in Seq(Word) /\ <<cpu>> \in [1..1 -> Word] BY DEF SavesTypes
  <2>4. taken' \in Taking /\ taken'.cpu = <<cpu>> /\ taken'.mem = <<>>
    <3>1. taken = [cpu |-> <<>>, gpu |-> <<>>, mem |-> <<>>] BY <2>1 DEF Saving, Saves!Nothing
    <3>2. taken' = [cpu |-> <<cpu>>, gpu |-> <<>>, mem |-> <<>>] BY <2>1, <3>1
    <3>3. <<>> \in Seq(Word) /\ <<>> \in Seq(Value) OBVIOUS
    <3>. QED BY <2>3, <3>2, <3>3 DEF Taking
  <2>5. SavesTypes' BY <2>1, <2>2, <2>4 DEF SavesTypes
  <2>6. OneSave' BY <2>1 DEF OneSave, Saving
  <2>7. Saving'
    <3>1. Len(out') = 2 /\ out'[1] = h /\ out'[2] = c BY <2>1
    <3>2. Whole(1, out[1])' /\ Whole(2, out[2])' BY <2>2, <2>3, <2>4, <3>1 DEF Whole
    <3>3. \A n \in 1..2 : n = 1 \/ n = 2 OBVIOUS
    <3>. QED BY <2>1, <2>4, <3>1, <3>2, <3>3 DEF Saving
  <2>8. Loading' BY <2>1 DEF Loading
  <2>. QED BY <2>5, <2>6, <2>7, <2>8
<1>3. CASE Saves!serialize_gpu
  <2> DEFINE g == Saves!Block("gpu", {}, <<gpu>>)
             k == Saves!Block("kernel", {}, <<>>)
             m == Saves!Block("memory", {}, <<>>)
  <2>1. /\ at = "gpu" /\ out' = out \o <<g, k, m>> /\ taken' = [taken EXCEPT !.gpu = <<gpu>>] /\ at' = "memory"
        /\ UNCHANGED <<cpu, gpu, mem, file, block, restored>>
    BY <1>3 DEF Saves!serialize_gpu
  <2>2. /\ g \in FileBlock /\ g.is = "gpu" /\ g.data = <<gpu>>
        /\ k \in FileBlock /\ k.is = "kernel"
        /\ m \in FileBlock /\ m.is = "memory" /\ m.bitmap = {} /\ m.data = <<>>
    <3>1. <<gpu>> \in Seq(Word \cup Value) /\ <<>> \in Seq(Word \cup Value) BY DEF SavesTypes
    <3>2. "gpu" \in Section /\ "kernel" \in Section /\ "memory" \in Section BY DEF Section
    <3>3. g \in FileBlock /\ g.is = "gpu" /\ g.data = <<gpu>> BY ONLY <3>1, <3>2, BlockIs, Zenon
    <3>4. k \in FileBlock /\ k.is = "kernel" BY ONLY <3>1, <3>2, BlockIs, Zenon
    <3>5. m \in FileBlock /\ m.is = "memory" /\ m.bitmap = {} /\ m.data = <<>>
      BY ONLY <3>1, <3>2, BlockIs, Zenon
    <3>. QED BY <3>3, <3>4, <3>5
  <2> HIDE DEF g, k, m
  <2>3. <<gpu>> \in Seq(Word) /\ <<gpu>> \in [1..1 -> Word] BY DEF SavesTypes
  <2>4. taken' \in Taking /\ taken'.gpu = <<gpu>> /\ taken'.mem = <<>> /\ taken'.cpu = taken.cpu
    BY <2>1, <2>3 DEF SavesTypes, Saving, Taking
  <2>5. /\ out' \in Seq(FileBlock) /\ Len(out') = 5 /\ out'[1] = out[1] /\ out'[2] = out[2]
        /\ out'[3] = g /\ out'[4] = k /\ out'[5] = m
    <3> DEFINE s == <<g, k, m>>
    <3>1. s \in Seq(FileBlock) /\ Len(s) = 3 /\ s[1] = g /\ s[2] = k /\ s[3] = m BY <2>2
    <3>0. out' = out \o s BY <2>1
    <3> HIDE DEF s
    <3>2. out \in Seq(FileBlock) /\ Len(out) = 2 BY <2>1 DEF SavesTypes, Saving
    <3>3. /\ out' \in Seq(FileBlock) /\ Len(out') = 5
          /\ \A i \in 1..5 : out'[i] = IF i <= 2 THEN out[i] ELSE s[i - 2]
      <4>1. Len(out) + Len(s) = 5 BY <3>1, <3>2
      <4>2. /\ out \o s \in Seq(FileBlock) /\ Len(out \o s) = Len(out) + Len(s)
            /\ \A i \in 1..(Len(out) + Len(s)) :
                 (out \o s)[i] = IF i <= Len(out) THEN out[i] ELSE s[i - Len(out)]
        BY ONLY <3>1, <3>2, ConcatProperties
      <4>. QED BY <3>0, <3>2, <4>1, <4>2
    <3>4. out'[1] = out[1] /\ out'[2] = out[2] BY <3>3
    <3>5. out'[3] = s[1] /\ out'[4] = s[2] /\ out'[5] = s[3] BY <3>3
    <3>. QED BY <3>1, <3>3, <3>4, <3>5
  <2>6. SavesTypes' BY <2>1, <2>4, <2>5 DEF SavesTypes
  <2>7. OneSave' BY <2>1 DEF OneSave, Saving
  <2>8. Saving'
    <3>1. Whole(1, out[1]) /\ Whole(2, out[2]) BY <2>1 DEF Saving
    <3>2. Whole(1, out[1])' /\ Whole(2, out[2])' /\ Whole(3, out[3])' /\ Whole(4, out[4])'
      BY <2>2, <2>3, <2>4, <2>5, <3>1 DEF Whole
    <3>3. Holds(m, <<>>, 0)
      BY <2>2, FS_EmptySet DEF Holds
    <3>4. \A n \in 1..5 : n < 5 => n = 1 \/ n = 2 \/ n = 3 \/ n = 4 OBVIOUS
    <3>5. 0 < Pages /\ Len(<<>>) = 0 BY DEF Paged
    <3>. QED BY <2>1, <2>4, <2>5, <3>2, <3>3, <3>4, <3>5 DEF Saving
  <2>9. Loading' BY <2>1 DEF Loading
  <2>. QED BY <2>6, <2>7, <2>8, <2>9
<1>4. CASE Saves!serialize_memory
  <2> DEFINE k == Len(taken.mem)
             v == mem[k + 1]
             m == out[5]
             c == [m EXCEPT !.bitmap = @ \cup {k + 1}, !.data = Append(@, v)]
  <2>1. /\ at = "memory"
        /\ out' = IF v = 0 THEN out ELSE Append(SubSeq(out, 1, Len(out) - 1), [out[Len(out)] EXCEPT !.bitmap = @ \cup {k + 1}, !.data = Append(@, v)])
        /\ taken' = [taken EXCEPT !.mem = Append(@, v)]
        /\ at' = IF k + 1 = Pages THEN "write" ELSE "memory"
        /\ UNCHANGED <<cpu, gpu, mem, file, block, restored>>
    BY <1>4 DEF Saves!serialize_memory, Saves!Last, Saves!Front
  <2>2. /\ Len(out) = 5 /\ out \in Seq(FileBlock) /\ m \in FileBlock /\ k \in Nat /\ k < Pages
        /\ taken.mem \in Seq(Value) /\ Holds(m, taken.mem, k) /\ v \in Value /\ k + 1 \in 1..Pages
    <3>1. /\ Len(out) = 5 /\ out \in Seq(FileBlock) /\ taken.mem \in Seq(Value) /\ k < Pages
          /\ Holds(m, taken.mem, k)
      BY <2>1 DEF SavesTypes, Saving, Taking
    <3>2. k \in Nat BY <3>1, SequenceOf
    <3>3. k + 1 \in 1..Pages BY <3>1, <3>2 DEF Paged
    <3>4. v \in Value BY <3>3 DEF SavesTypes
    <3>5. m \in FileBlock
      <4>1. 5 \in 1..Len(out) BY <3>1
      <4>. QED BY <3>1, <4>1, ElementOfSeq
    <3>. QED BY <3>1, <3>2, <3>3, <3>4, <3>5
  <2>3. taken' \in Taking /\ taken'.mem = Append(taken.mem, v) /\ taken'.cpu = taken.cpu /\ taken'.gpu = taken.gpu
    BY <2>1, <2>2, AppendProperties DEF SavesTypes, Taking
  <2>4. Len(taken'.mem) = k + 1 BY <2>2, <2>3, AppendProperties
  <2>5. /\ out' \in Seq(FileBlock) /\ Len(out') = 5 /\ (\A n \in 1..4 : out'[n] = out[n])
        /\ Holds(out'[5], taken'.mem, k + 1)
    <3>1. CASE v = 0 BY <2>1, <2>2, <2>3, <3>1, ZerosPage DEF Paged
    <3>2. CASE v # 0
      <4>1. c \in FileBlock
        <5>1. m.bitmap \cup {k + 1} \in SUBSET (1..Pages) BY <2>2 DEF FileBlock
        <5>2. Append(m.data, v) \in Seq(Word \cup Value) BY <2>2, AppendProperties DEF FileBlock
        <5>. QED BY <2>2, <5>1, <5>2 DEF FileBlock
      <4>2. Holds(c, Append(taken.mem, v), k + 1) BY <2>2, BytesPage DEF Paged
      <4> HIDE DEF c
      <4>3. out' = Append(SubSeq(out, 1, 4), c) BY <2>1, <2>2, <3>2 DEF c
      <4>4. /\ SubSeq(out, 1, 4) \in Seq(FileBlock) /\ Len(SubSeq(out, 1, 4)) = 4
            /\ \A n \in 1..4 : SubSeq(out, 1, 4)[n] = out[n]
        <5>1. \A i \in 1..4 : out[i] \in FileBlock
          <6>1. \A i \in 1..4 : i \in 1..Len(out) BY <2>2
          <6>. QED BY <2>2, <6>1, ElementOfSeq
        <5>2. 1 \in Int /\ 4 \in Int /\ (4 - 1) + 1 = 4 OBVIOUS
        <5>3. /\ SubSeq(out, 1, 4) \in Seq(FileBlock) /\ Len(SubSeq(out, 1, 4)) = 4
              /\ \A n \in 1..4 : SubSeq(out, 1, 4)[n] = out[(1 + n) - 1]
          BY <5>1, <5>2, SubSeqProperties
        <5>. QED BY <5>3
      <4>5. /\ out' \in Seq(FileBlock) /\ Len(out') = 5 /\ out'[5] = c
            /\ \A n \in 1..4 : out'[n] = out[n]
        BY <4>1, <4>3, <4>4, AppendProperties
      <4>. QED BY <2>3, <4>2, <4>5
    <3>. QED BY <3>1, <3>2
  <2> HIDE DEF v, m, c
  <2>6. SavesTypes' BY <2>1, <2>3, <2>5 DEF SavesTypes
  <2>7. file = <<>> /\ OneSave' BY <2>1 DEF OneSave, Saving
  <2>8. Saving'
    <3>1. \A n \in 1..4 : Whole(n, out[n]) BY <2>1, <2>2 DEF Saving
    <3>2. \A n \in 1..4 : Whole(n, out[n])' BY <2>3, <2>5, <3>1 DEF Whole
    <3>3. ASSUME k + 1 = Pages PROVE Whole(5, out[5])'
      <4>1. taken'.mem \in [1..Pages -> Value]
        <5>1. taken'.mem \in Seq(Value) BY <2>3 DEF Taking
        <5>. QED BY <2>4, <3>3, <5>1, SequenceOf
      <4>. QED BY <2>5, <3>3, <4>1 DEF Whole
    <3>4. \A n \in 1..5 : n \in 1..4 \/ n = 5 OBVIOUS
    <3>5. file' = <<>> /\ block' = 0 /\ Len(file') = 0 BY <2>1, <2>7 DEF SavesTypes
    <3>6. CASE k + 1 = Pages
      <4>1. \A n \in 1..5 : Whole(n, out[n])' BY <3>2, <3>3, <3>4, <3>6
      <4>2. at' = "write" BY <2>1, <3>6
      <4>. QED BY <2>5, <3>5, <4>1, <4>2 DEF Saving
    <3>7. CASE k + 1 # Pages
      <4>1. k + 1 < Pages BY <2>2, <3>7 DEF Paged
      <4>2. at' = "memory" BY <2>1, <3>7
      <4>3. \A n \in 1..Len(out') : n < 5 => Whole(n, out[n])'
        <5>1. \A n \in 1..5 : n < 5 => n \in 1..4 OBVIOUS
        <5>. QED BY <2>5, <3>2, <5>1
      <4>4. Len(taken'.mem) < Pages /\ Holds(out'[5], taken'.mem, Len(taken'.mem)) BY <2>4, <2>5, <4>1
      <4>. QED BY <2>5, <3>5, <4>2, <4>3, <4>4 DEF Saving
    <3>. QED BY <3>6, <3>7
  <2>9. Loading' BY <2>1 DEF Loading
  <2>. QED BY <2>6, <2>7, <2>8, <2>9
<1>5. CASE Saves!write_all
  <2> DEFINE n == block + 1
  <2>1. /\ at = "write" /\ file' = Saves!Put(file, n, out[n])
        /\ block' = (IF n = 5 THEN 0 ELSE n)
        /\ IF n = 5 THEN at' = "close" /\ out' = <<>> ELSE UNCHANGED <<at, out>>
        /\ UNCHANGED <<cpu, gpu, mem, taken, restored>>
    BY <1>5, FiveBlocks DEF Saves!write_all
  <2>2. /\ block \in Nat /\ Len(file) = block /\ n \in 1..5 /\ out[n] \in FileBlock /\ Whole(n, out[n])
        /\ file \in Seq(FileBlock)
    <3>1. Len(out) = 5 /\ block = Len(file) /\ block < 5 /\ \A i \in 1..5 : Whole(i, out[i])
      BY <2>1 DEF Saving
    <3>2. out \in Seq(FileBlock) /\ file \in Seq(FileBlock) /\ block \in Nat BY DEF SavesTypes
    <3>3. n \in 1..5 /\ n \in 1..Len(out) BY <3>1, <3>2
    <3>4. out[n] \in FileBlock BY <3>2, <3>3, ElementOfSeq
    <3>. QED BY <3>1, <3>2, <3>3, <3>4
  <2>3. file' = Append(file, out[n])
    <3>1. SubSeq(file, 1, n - 1) = file /\ SubSeq(file, n + 1, Len(file)) = <<>>
      BY <2>2, SubSeqFull, SubSeqEmpty
    <3>2. file \o <<out[n]>> \o <<>> = Append(file, out[n]) BY <2>2
    <3>. QED BY <2>1, <3>1, <3>2 DEF Saves!Put
  <2>4. /\ file' \in Seq(FileBlock) /\ Len(file') = n /\ file'[n] = out[n]
        /\ \A i \in 1..block : file'[i] = file[i]
    BY <2>2, <2>3, AppendProperties
  <2>5. \A i \in 1..n : i \in 1..block \/ i = n BY <2>2
  <2>6. OneSave'
    <3>1. \A i \in 1..n : Whole(i, file'[i]) BY <2>2, <2>4, <2>5 DEF OneSave
    <3>. QED BY <2>1, <2>2, <2>4, <3>1 DEF OneSave, Whole
  <2>7. SavesTypes'
    <3>1. out' \in Seq(FileBlock)
      <4>1. out' = <<>> \/ out' = out BY <2>1
      <4>2. <<>> \in Seq(FileBlock) /\ out \in Seq(FileBlock) BY DEF SavesTypes
      <4>. QED BY <4>1, <4>2
    <3>2. CASE n = 5 BY <2>1, <2>4, <3>1, <3>2 DEF SavesTypes
    <3>3. CASE n # 5 BY <2>1, <2>2, <2>4, <3>1, <3>3 DEF SavesTypes
    <3>. QED BY <3>2, <3>3
  <2>8. Saving'
    <3>1. CASE n = 5 BY <2>1, <3>1 DEF Saving
    <3>2. CASE n # 5 BY <2>1, <2>2, <2>4, <3>2 DEF Saving, Whole
    <3>. QED BY <3>1, <3>2
  <2>9. Loading' BY <2>1 DEF Loading
  <2>. QED BY <2>6, <2>7, <2>8, <2>9
<1>6. CASE Saves!EndSave
  <2>1. /\ at \in {"write", "close"} /\ Saves!Reaches(file) /\ at' = "idle" /\ block' = 0 /\ out' = <<>>
        /\ UNCHANGED <<cpu, gpu, mem, taken, restored>>
    BY <1>6 DEF Saves!EndSave
  <2>2. file' \in Seq(FileBlock) /\ OneSave' BY <2>1, CutShort
  <2>. QED BY <2>1, <2>2 DEF SavesTypes, Saving, Loading
<1>. QED BY <1>1, <1>2, <1>3, <1>4, <1>5, <1>6

LEMMA LoadSteps ==
  ASSUME Paged, SavesInv, Saves!ReadBlock
  PROVE  SavesInv'
<1>. USE DEF SavesInv
<1> DEFINE n == block + 1
           b == file[n]
<1>1. /\ at = "read" /\ block < Len(file)
      /\ IF n = 5 THEN at' = "loaded" /\ block' = 0 ELSE at' = at /\ block' = n
      /\ UNCHANGED <<file, out, taken>>
  BY FiveBlocks DEF Saves!ReadBlock
<1>2. \/ b.is = "header" /\ UNCHANGED <<cpu, gpu, mem, restored>>
      \/ Saves!deserialize_cpu(b) \/ Saves!deserialize_gpu(b) \/ Saves!deserialize_kernel(b)
      \/ Saves!deserialize_memory(b)
  BY DEF Saves!ReadBlock
<1>3. n \in 1..5 /\ Whole(n, b) /\ restored \in Taking /\ taken \in Taking
  BY <1>1 DEF SavesTypes, OneSave, Loading
<1>4. /\ restored.cpu = (IF block >= 2 THEN taken.cpu ELSE <<>>) /\ restored.mem = <<>>
      /\ restored.gpu = (IF block >= 3 THEN taken.gpu ELSE <<>>)
  BY <1>1 DEF Loading
<1>5. OneSave' BY <1>1 DEF OneSave, Whole
<1>6. Saving' BY <1>1 DEF Saving
<1> HIDE DEF b
<1>7. CASE n = 1 \/ n = 4
  <2>1. UNCHANGED <<cpu, gpu, mem, restored>>
    BY <1>2, <1>3, <1>7 DEF Whole, Holds, Saves!deserialize_cpu, Saves!deserialize_gpu, Saves!deserialize_kernel,
         Saves!deserialize_memory
  <2>. QED BY <1>1, <1>3, <1>4, <1>5, <1>6, <1>7, <2>1 DEF SavesTypes, Loading
<1>8. CASE n = 2
  <2>1. cpu' = b.data[1] /\ restored' = [restored EXCEPT !.cpu = b.data] /\ UNCHANGED <<gpu, mem>>
    BY <1>2, <1>3, <1>8 DEF Whole, Saves!deserialize_cpu, Saves!deserialize_gpu, Saves!deserialize_kernel,
         Saves!deserialize_memory
  <2>2. b.data = taken.cpu /\ cpu' \in Word BY <1>3, <1>8, <2>1 DEF Whole
  <2>3. /\ restored' \in Taking /\ restored'.cpu = taken.cpu /\ restored'.gpu = restored.gpu
        /\ restored'.mem = restored.mem
    BY <1>3, <2>1, <2>2 DEF Taking
  <2>. QED BY <1>1, <1>3, <1>4, <1>5, <1>6, <1>8, <2>1, <2>2, <2>3 DEF SavesTypes, Loading
<1>9. CASE n = 3
  <2>1. gpu' = b.data[1] /\ restored' = [restored EXCEPT !.gpu = b.data] /\ UNCHANGED <<cpu, mem>>
    BY <1>2, <1>3, <1>9 DEF Whole, Saves!deserialize_cpu, Saves!deserialize_gpu, Saves!deserialize_kernel,
         Saves!deserialize_memory
  <2>2. b.data = taken.gpu /\ gpu' \in Word BY <1>3, <1>9, <2>1 DEF Whole
  <2>3. /\ restored' \in Taking /\ restored'.gpu = taken.gpu /\ restored'.cpu = restored.cpu
        /\ restored'.mem = restored.mem
    BY <1>3, <2>1, <2>2 DEF Taking
  <2>. QED BY <1>1, <1>3, <1>4, <1>5, <1>6, <1>9, <2>1, <2>2, <2>3 DEF SavesTypes, Loading
<1>10. CASE n = 5
  <2>1. mem' = Saves!PagesOf(b) /\ restored' = [restored EXCEPT !.mem = Saves!PagesOf(b)] /\ UNCHANGED <<cpu, gpu>>
    BY <1>2, <1>3, <1>10 DEF Whole, Holds, Saves!deserialize_cpu, Saves!deserialize_gpu, Saves!deserialize_kernel,
         Saves!deserialize_memory
  <2>2. Saves!PagesOf(b) = taken.mem /\ taken.mem \in [1..Pages -> Value]
    BY <1>3, <1>10, PagesBack DEF Whole
  <2>3. restored' = taken
    <3>0. block >= 2 /\ block >= 3 BY <1>3, <1>10 DEF SavesTypes
    <3>1. restored.cpu = taken.cpu /\ restored.gpu = taken.gpu BY <1>4, <3>0
    <3>2. restored' = [cpu |-> restored.cpu, gpu |-> restored.gpu, mem |-> taken.mem]
      BY <1>3, <2>1, <2>2 DEF Taking
    <3>3. taken = [cpu |-> taken.cpu, gpu |-> taken.gpu, mem |-> taken.mem] BY <1>3 DEF Taking
    <3>. QED BY <3>1, <3>2, <3>3
  <2>. QED BY <1>1, <1>3, <1>5, <1>6, <1>10, <2>1, <2>2, <2>3 DEF SavesTypes, Loading
<1>. QED BY <1>3, <1>7, <1>8, <1>9, <1>10

LEMMA SavesStep == ASSUME Paged, SavesInv, [Saves!Next]_(Saves!ssvars) PROVE SavesInv'
<1>. USE DEF SavesInv
<1>1. CASE Saves!Guest
  <2>1. cpu' \in Word /\ gpu' \in Word /\ mem' \in [1..Pages -> Value]
    BY <1>1 DEF Saves!Guest, SavesTypes
  <2>. QED BY <1>1, <2>1 DEF Saves!Guest, SavesTypes, OneSave, Whole, Saving, Loading
<1>2. CASE Saves!Load
  <2>1. Len(file) \in Nat BY DEF SavesTypes
  <2>. QED BY <1>2, <2>1 DEF Saves!Load, Saves!Nothing, SavesTypes, OneSave, Whole, Saving, Loading
<1>3. CASE Saves!read_all
  BY <1>3 DEF Saves!read_all, SavesTypes, OneSave, Whole, Saving, Loading
<1>4. CASE Saves!EndLoad
  <2>1. Saves!Nothing \in Taking BY DEF Saves!Nothing, Taking
  <2>. QED BY <1>4, <2>1 DEF Saves!EndLoad, SavesTypes, OneSave, Whole, Saving, Loading
<1>5. CASE Saves!Crash
  <2>1. /\ cpu' = 0 /\ gpu' = 0 /\ mem' = Saves!Zeros /\ at' = "idle" /\ block' = 0 /\ out' = <<>>
        /\ restored' = Saves!Nothing /\ taken' = taken
    BY <1>5 DEF Saves!Crash
  <2>2. Saves!Nothing \in Taking /\ Saves!Zeros \in [1..Pages -> Value]
    BY DEF Paged, Saves!Nothing, Saves!Zeros, Taking
  <2>3. file' \in Seq(FileBlock) /\ OneSave'
    <3>1. CASE Saves!Reaches(file) BY <2>1, <3>1, CutShort
    <3>2. CASE file' = file BY <2>1, <3>2 DEF SavesTypes, OneSave, Whole
    <3>. QED BY <1>5, <3>1, <3>2 DEF Saves!Crash
  <2>. QED BY <2>1, <2>2, <2>3 DEF Paged, SavesTypes, Saving, Loading
<1>6. CASE UNCHANGED Saves!ssvars
  BY <1>6 DEF Saves!ssvars, SavesTypes, OneSave, Whole, Saving, Loading
<1>. QED BY <1>1, <1>2, <1>3, <1>4, <1>5, <1>6, SaveSteps, LoadSteps DEF Saves!Next

\* A load that answers Ok has restored what one save took of each part; a load
\* that fails has not touched memory. The guest runs on under the save, a full
\* disk or the end of the process may cut the file short anywhere.
THEOREM LoadsWhole ==
  ASSUME Paged
  PROVE  Saves!Init /\ [][Saves!Next]_(Saves!ssvars)
           => [](Saves!TypeOK /\ Saves!LoadsOneSave /\ Saves!FailedLoadKeepsMemory)
<1>1. ASSUME Saves!Init PROVE SavesInv
  <2>1. Saves!Nothing \in Taking /\ Saves!Zeros \in [1..Pages -> Value] /\ Len(<<>>) = 0
    BY DEF Paged, Saves!Nothing, Saves!Zeros, Taking
  <2>. QED BY <1>1, <2>1 DEF Saves!Init, SavesInv, Paged, SavesTypes, OneSave, Saving, Loading
<1>2. SavesInv /\ [Saves!Next]_(Saves!ssvars) => SavesInv' BY SavesStep
<1>3. ASSUME SavesInv PROVE Saves!TypeOK /\ Saves!LoadsOneSave /\ Saves!FailedLoadKeepsMemory
  <2>1. \A k \in 1..Len(file) : file[k].is = Saves!Blocks[k]
    <3>1. TAKE k \in 1..Len(file)
    <3>2. Whole(k, file[k]) /\ k \in 1..5 BY <1>3 DEF SavesInv, OneSave, SavesTypes
    <3>. QED BY <3>2 DEF Whole, Holds, Saves!Blocks
  <2>. QED BY <1>3, <2>1, FiveBlocks DEF SavesInv, SavesTypes, OneSave, Loading, Saves!TypeOK,
         Saves!LoadsOneSave, Saves!FailedLoadKeepsMemory
<1>. QED BY <1>1, <1>2, <1>3, PTL
-----------------------------------------------------------------------------
(* GuestMemory: what the guest stores, and who else is given that memory     *)
CONSTANTS RamSize, Space, GpuBase, GpuSpan, Window, Handler, LargePage, FirstVirtual, FirstPhysical,
          MaxSize, MaxRegions, MaxSections, Asked, Stores
VARIABLES regions_, virtual_allocations, physical_allocations, cursor, sections, stored, cell
Memory == INSTANCE GuestMemory

\* The two cursors begin in RAM, physical memory below virtual; each register the
\* guest stores to has a handler.
Mapped ==
  /\ RamSize \in Nat \ {0} /\ Space \in Nat /\ LargePage \in Nat \ {0} /\ MaxSize \in Nat \ {0}
  /\ FirstPhysical \in Nat /\ FirstVirtual \in Nat
  /\ FirstPhysical <= FirstVirtual /\ FirstVirtual <= RamSize
  /\ Asked \subseteq Nat /\ Stores \subseteq Nat /\ DOMAIN Handler \subseteq Nat \ {0}
  /\ \A a \in Stores : Memory!is_mmio(a) => Memory!find_mmio(Memory!translate_address(a)) \in DOMAIN Handler

Allocation == [base : Nat, size : Nat \ {0}, committed : BOOLEAN, placed : BOOLEAN]
Physical == [base : Nat, size : Nat \ {0}]
Begins(S, b) == \E r \in S : r.base = b
OnePerBase(S) == \A r, s \in S : r.base = s.base => r = s
MemoryTypes ==
  /\ regions_ \in [0..(RamSize - 1) -> Seq(Nat)]
  /\ \A b \in 0..(RamSize - 1) : \A k \in DOMAIN regions_[b] : b + regions_[b][k] <= RamSize
  /\ virtual_allocations \subseteq Allocation /\ OnePerBase(virtual_allocations)
  /\ \A v \in virtual_allocations : Memory!Fits(v)
  /\ physical_allocations \subseteq Physical /\ OnePerBase(physical_allocations)
  /\ cursor \in [{"virtual", "physical", "ext"} -> 0..Memory!Beyond]
  /\ sections \subseteq 1..MaxSize
\* Each allocation that starts at an address has a region there of its own.
Backed ==
  \A b \in 0..(RamSize - 1) :
    /\ Begins(virtual_allocations, b) \/ Begins(physical_allocations, b) => Len(regions_[b]) >= 1
    /\ Begins(virtual_allocations, b) /\ Begins(physical_allocations, b) => Len(regions_[b]) >= 2
\* A cursor has passed what it placed, and stays on its side of FirstVirtual.
Passed(a, c) == a < c.physical \/ (FirstVirtual <= a /\ a < c.virtual)
CursorsPass ==
  /\ cursor.physical <= FirstVirtual /\ FirstVirtual <= cursor.virtual
  /\ \A v \in virtual_allocations : v.placed =>
       \/ v.base + v.size <= cursor.physical
       \/ FirstVirtual <= v.base /\ v.base + v.size <= cursor.virtual
\* The mark is where the guest's address leads, in a register or behind a cursor.
MarkKept ==
  stored # Memory!Nowhere =>
    /\ stored \in Stores /\ cell = Memory!Reached(stored)
    /\ Memory!is_mmio(stored) \/ Passed(stored % RamSize, cursor)
MemoryInv == MemoryTypes /\ Backed /\ CursorsPass /\ MarkKept

(* Rounding.                                                                *)
LEMMA UpIs ==
  ASSUME NEW n \in Nat, NEW u \in Nat \ {0}
  PROVE  Memory!Up(n, u) \in Nat /\ n <= Memory!Up(n, u) /\ Memory!Up(n, 1) = n
<1> DEFINE m == n + u - 1
           q == m \div u
           r == m % u
<1>1. m \in Nat /\ q \in Int /\ r \in 0..(u - 1) /\ m = u * q + r BY SMT
<1>2. u * q = q * u /\ q * u \in Int BY <1>1, SMT
<1>3. q * u >= n BY <1>1, <1>2, SMT
<1>4. Memory!Up(n, u) = q * u BY DEF Memory!Up
<1>5. Memory!Up(n, 1) = n BY SMT DEF Memory!Up
<1>. QED BY <1>2, <1>3, <1>4, <1>5

LEMMA DownIs ==
  ASSUME NEW n \in Nat, NEW u \in Nat \ {0}
  PROVE  Memory!Down(n, u) \in Nat
<1>1. n \div u \in Nat BY SMT
<1>. QED BY <1>1 DEF Memory!Down

LEMMA PastIs ==
  ASSUME Mapped, NEW n \in Nat
  PROVE  /\ Memory!Past(n) \in 0..Memory!Beyond
         /\ n <= RamSize => Memory!Past(n) = n
         /\ n > RamSize => Memory!Past(n) = RamSize + 1
  BY DEF Memory!Past, Memory!Beyond, Mapped

LEMMA ModIs == ASSUME Mapped, NEW a \in Nat PROVE a % RamSize \in 0..(RamSize - 1)
  BY DEF Mapped

(* Addresses of one place reach one cell, and a stored mark reaches one.    *)
LEMMA OnePlace ==
  ASSUME Mapped, NEW a \in Nat, NEW b \in Nat, Memory!SamePlace(a, b)
  PROVE  Memory!Reached(a) = Memory!Reached(b)
<1>1. CASE Memory!is_mmio(a) BY <1>1 DEF Memory!SamePlace, Memory!Reached
<1>2. CASE ~Memory!is_mmio(a)
  <2>1. ~Memory!is_mmio(b) /\ a % RamSize = b % RamSize BY <1>2 DEF Memory!SamePlace
  <2>2. Memory!translate_address(a) = a % RamSize BY <1>2 DEF Memory!is_mmio, Memory!translate_address
  <2>3. Memory!translate_address(b) = b % RamSize BY <2>1 DEF Memory!is_mmio, Memory!translate_address
  <2>. QED BY <1>2, <2>1, <2>2, <2>3 DEF Memory!Reached
<1>. QED BY <1>1, <1>2

LEMMA Reaching ==
  ASSUME Mapped, NEW a \in Stores
  PROVE  /\ Memory!Reached(a) # Memory!Dropped
         /\ Memory!is_mmio(a) => Memory!Reached(a).handler # 0
         /\ ~Memory!is_mmio(a) => Memory!Reached(a) = [handler |-> 0, at |-> a % RamSize]
<1>1. CASE Memory!is_mmio(a)
  <2> DEFINE h == Memory!find_mmio(Memory!translate_address(a))
  <2>1. h \in Nat \ {0} BY <1>1 DEF Mapped
  <2> HIDE DEF h
  <2>2. Memory!Reached(a) = [handler |-> h, at |-> Memory!translate_address(a)]
    BY <1>1, <2>1 DEF Memory!Reached, h
  <2>3. Memory!Dropped.handler = -1 /\ Memory!Reached(a).handler = h BY <2>2 DEF Memory!Dropped
  <2>4. h # -1 /\ h # 0 BY <2>1
  <2>. QED BY <1>1, <2>3, <2>4
<1>2. CASE ~Memory!is_mmio(a)
  <2>1. a % RamSize < RamSize BY ModIs DEF Mapped
  <2>2. Memory!translate_address(a) = a % RamSize BY <1>2 DEF Memory!is_mmio, Memory!translate_address
  <2>3. Memory!Reached(a) = [handler |-> 0, at |-> a % RamSize] BY <1>2, <2>1, <2>2 DEF Memory!Reached
  <2>4. Memory!Dropped.handler = -1 /\ Memory!Reached(a).handler = 0 BY <2>3 DEF Memory!Dropped
  <2>. QED BY <1>2, <2>3, <2>4
<1>. QED BY <1>1, <1>2

(* The mark under an allocation. A range the guest named, or took from the  *)
(* physical allocator, is its own business.                                 *)
LEMMA Forgotten ==
  ASSUME MarkKept, NEW r, Memory!Forget(r), cursor'.physical >= cursor.physical, cursor'.virtual >= cursor.virtual,
         Mapped, CursorsPass, cursor \in [{"virtual", "physical", "ext"} -> 0..Memory!Beyond],
         cursor' \in [{"virtual", "physical", "ext"} -> 0..Memory!Beyond]
  PROVE  MarkKept'
<1>1. CASE stored' = Memory!Nowhere BY <1>1 DEF MarkKept
<1>2. CASE UNCHANGED <<stored, cell>>
  <2>1. ASSUME stored # Memory!Nowhere PROVE stored % RamSize \in 0..(RamSize - 1)
    BY <2>1, ModIs DEF MarkKept, Mapped
  <2>. QED BY <1>2, <2>1 DEF MarkKept, Passed, Mapped, Memory!Beyond
<1>. QED BY <1>1, <1>2 DEF Memory!Forget

\* The cursors go on only, each on its side.
CursorsGoOn ==
  /\ cursor' \in [{"virtual", "physical", "ext"} -> 0..Memory!Beyond]
  /\ cursor.physical <= cursor'.physical /\ cursor'.physical <= FirstVirtual
  /\ cursor.virtual <= cursor'.virtual

(* The regions.                                                             *)
LEMMA RegionAdded ==
  ASSUME Mapped, MemoryInv, NEW r \in Physical \cup Allocation, Memory!Fits(r), regions_' = Memory!Allocated(r)
  PROVE  /\ regions_' \in [0..(RamSize - 1) -> Seq(Nat)]
         /\ \A b \in 0..(RamSize - 1) : \A k \in DOMAIN regions_'[b] : b + regions_'[b][k] <= RamSize
         /\ \A b \in 0..(RamSize - 1) : Len(regions_'[b]) = Len(regions_[b]) + (IF b = r.base THEN 1 ELSE 0)
<1>1. r.base \in Nat /\ r.size \in Nat /\ r.size > 0 BY DEF Physical, Allocation
<1>2. r.base \in 0..(RamSize - 1) /\ r.base + r.size <= RamSize BY <1>1 DEF Mapped, Memory!Fits
<1>3. /\ regions_ \in [0..(RamSize - 1) -> Seq(Nat)]
      /\ \A b \in 0..(RamSize - 1) : \A k \in DOMAIN regions_[b] : b + regions_[b][k] <= RamSize
  BY DEF MemoryInv, MemoryTypes
<1>4. regions_' = [regions_ EXCEPT ![r.base] = Append(regions_[r.base], r.size)]
  BY DEF Memory!Allocated
<1>5. /\ Append(regions_[r.base], r.size) \in Seq(Nat)
      /\ Len(Append(regions_[r.base], r.size)) = Len(regions_[r.base]) + 1
      /\ \A k \in 1..Len(regions_[r.base]) : Append(regions_[r.base], r.size)[k] = regions_[r.base][k]
      /\ Append(regions_[r.base], r.size)[Len(regions_[r.base]) + 1] = r.size
  BY <1>1, <1>2, <1>3, AppendProperties
<1>6. regions_' \in [0..(RamSize - 1) -> Seq(Nat)] BY <1>2, <1>3, <1>4, <1>5
<1>7. ASSUME NEW b \in 0..(RamSize - 1)
      PROVE  /\ \A k \in DOMAIN regions_'[b] : b + regions_'[b][k] <= RamSize
             /\ Len(regions_'[b]) = Len(regions_[b]) + (IF b = r.base THEN 1 ELSE 0)
  <2>0. regions_[b] \in Seq(Nat) /\ Len(regions_[b]) \in Nat BY <1>3
  <2>1. CASE b = r.base
    <3> DEFINE s == Append(regions_[r.base], r.size)
    <3>1. regions_'[b] = s BY <1>2, <1>3, <1>4, <2>1
    <3>2. s \in Seq(Nat) /\ Len(s) = Len(regions_[b]) + 1 BY <1>5, <2>1
    <3>3. DOMAIN s = 1..(Len(regions_[b]) + 1) BY <2>0, <3>2
    <3> HIDE DEF s
    <3>4. ASSUME NEW k \in DOMAIN s PROVE b + s[k] <= RamSize
      <4>1. k \in 1..Len(regions_[b]) \/ k = Len(regions_[b]) + 1 BY <2>0, <3>3
      <4>2. CASE k \in 1..Len(regions_[b])
        <5>1. k \in DOMAIN regions_[b] BY <2>0, <4>2
        <5>2. s[k] = regions_[b][k] BY <1>5, <2>1, <4>2 DEF s
        <5>. QED BY <1>3, <5>1, <5>2
      <4>3. CASE k = Len(regions_[b]) + 1
        <5>1. s[k] = r.size BY <1>5, <2>1, <4>3 DEF s
        <5>. QED BY <1>2, <2>1, <5>1
      <4>. QED BY <4>1, <4>2, <4>3
    <3>. QED BY <2>1, <3>1, <3>2, <3>4
  <2>2. CASE b # r.base
    <3>1. regions_'[b] = regions_[b] BY <1>3, <1>4, <2>2
    <3>. QED BY <1>3, <2>0, <2>2, <3>1
  <2>. QED BY <2>1, <2>2
<1>. QED BY <1>6, <1>7

LEMMA RegionFreed ==
  ASSUME MemoryInv, NEW f \in 0..(RamSize - 1), regions_' = Memory!Freed(f)
  PROVE  /\ regions_' \in [0..(RamSize - 1) -> Seq(Nat)]
         /\ \A b \in 0..(RamSize - 1) : \A k \in DOMAIN regions_'[b] : b + regions_'[b][k] <= RamSize
         /\ \A b \in 0..(RamSize - 1) : Len(regions_'[b]) >= Len(regions_[b]) - (IF b = f THEN 1 ELSE 0)
<1>1. /\ regions_ \in [0..(RamSize - 1) -> Seq(Nat)]
      /\ \A b \in 0..(RamSize - 1) : \A k \in DOMAIN regions_[b] : b + regions_[b][k] <= RamSize
  BY DEF MemoryInv, MemoryTypes
<1> DEFINE s == IF regions_[f] = <<>> THEN regions_[f] ELSE Tail(regions_[f])
<1>2. regions_' = [regions_ EXCEPT ![f] = s] BY DEF Memory!Freed
<1>3. /\ s \in Seq(Nat) /\ Len(s) \in Nat /\ Len(s) >= Len(regions_[f]) - 1
      /\ \A k \in DOMAIN s : f + s[k] <= RamSize
  <2>0. regions_[f] \in Seq(Nat) /\ Len(regions_[f]) \in Nat BY <1>1
  <2>1. CASE regions_[f] = <<>> BY <1>1, <2>0, <2>1
  <2>2. CASE regions_[f] # <<>>
    <3>1. /\ Tail(regions_[f]) \in Seq(Nat) /\ Len(Tail(regions_[f])) = Len(regions_[f]) - 1
          /\ \A k \in 1..Len(Tail(regions_[f])) : Tail(regions_[f])[k] = regions_[f][k + 1]
      BY <2>0, <2>2, HeadTailProperties
    <3>2. s = Tail(regions_[f]) BY <2>2
    <3> HIDE DEF s
    <3>3. ASSUME NEW k \in DOMAIN s PROVE f + s[k] <= RamSize
      <4>1. k \in 1..Len(s) /\ k + 1 \in 1..Len(regions_[f]) BY <2>0, <3>1, <3>2
      <4>2. k + 1 \in DOMAIN regions_[f] /\ s[k] = regions_[f][k + 1] BY <2>0, <3>1, <3>2, <4>1
      <4>. QED BY <1>1, <4>2
    <3>4. Len(s) \in Nat /\ s \in Seq(Nat) BY <3>1, <3>2
    <3>. QED BY <2>0, <3>1, <3>2, <3>3, <3>4
  <2>. QED BY <2>1, <2>2
<1> HIDE DEF s
<1>4. \A b \in 0..(RamSize - 1) : regions_'[b] = IF b = f THEN s ELSE regions_[b] BY <1>1, <1>2
<1>5. regions_' \in [0..(RamSize - 1) -> Seq(Nat)] BY <1>1, <1>2, <1>3
<1>6. \A b \in 0..(RamSize - 1) : Len(regions_[b]) \in Nat BY <1>1
<1>. QED BY <1>1, <1>3, <1>4, <1>5, <1>6

(* The kernel holds a range: where the cursor put it, or where the guest    *)
(* named it.                                                                *)
LEMMA Holding ==
  ASSUME Mapped, MemoryInv, NEW r \in Physical, NEW commit \in BOOLEAN, NEW named \in BOOLEAN,
         Memory!Hold(r, commit, named), CursorsGoOn,
         UNCHANGED <<physical_allocations, sections>>,
         (~named /\ Memory!Fits(r)) =>
           \/ cursor.physical <= r.base /\ r.base + r.size <= cursor'.physical
           \/ cursor.virtual <= r.base /\ r.base + r.size <= cursor'.virtual
  PROVE  MemoryInv'
<1>. USE DEF MemoryInv
<1>0. /\ cursor \in [{"virtual", "physical", "ext"} -> 0..Memory!Beyond]
      /\ cursor' \in [{"virtual", "physical", "ext"} -> 0..Memory!Beyond]
      /\ cursor.physical \in Nat /\ cursor.virtual \in Nat /\ cursor'.physical \in Nat /\ cursor'.virtual \in Nat
      /\ FirstVirtual \in Nat /\ RamSize \in Nat
  BY DEF MemoryTypes, CursorsGoOn, Mapped, Memory!Beyond
<1>1. CASE ~Memory!Fits(r)
  <2>1. UNCHANGED <<regions_, virtual_allocations, stored, cell>> BY <1>1 DEF Memory!Hold
  <2>2. MemoryTypes' /\ Backed'
    BY <1>0, <2>1 DEF MemoryTypes, Backed, Memory!Fits, OnePerBase, Begins
  <2>3. CursorsPass'
    BY <1>0, <2>1 DEF CursorsGoOn, CursorsPass, MemoryTypes, Allocation
  <2>4. MarkKept'
    <3>1. ASSUME stored # Memory!Nowhere PROVE stored % RamSize \in 0..(RamSize - 1)
      BY <3>1, ModIs DEF MarkKept, Mapped
    <3>. QED BY <1>0, <2>1, <3>1 DEF MarkKept, Passed, CursorsGoOn
  <2>. QED BY <2>2, <2>3, <2>4
<1>2. CASE Memory!Fits(r)
  <2> DEFINE a == [base |-> r.base, size |-> r.size, committed |-> commit, placed |-> ~named]
  <2>1. /\ regions_' = Memory!Allocated(r)
        /\ virtual_allocations' = {v \in virtual_allocations : v.base # r.base} \cup {a}
    BY <1>2 DEF Memory!Hold, Memory!Track
  <2>2. /\ a \in Allocation /\ a.base = r.base /\ a.size = r.size /\ a.placed = ~named
        /\ Memory!Fits(a) /\ r.base \in Nat /\ r.size \in Nat \ {0}
    BY <1>2 DEF Allocation, Physical, Memory!Fits
  <2> HIDE DEF a
  <2>3. MemoryTypes'
    BY <1>0, <1>2, <2>1, <2>2, RegionAdded DEF MemoryTypes, OnePerBase, Memory!Fits
  <2>4. Backed'
    <3>1. ASSUME NEW b \in 0..(RamSize - 1)
          PROVE  /\ Begins(virtual_allocations', b) \/ Begins(physical_allocations', b) => Len(regions_'[b]) >= 1
                 /\ Begins(virtual_allocations', b) /\ Begins(physical_allocations', b) => Len(regions_'[b]) >= 2
      <4>1. Len(regions_[b]) \in Nat BY DEF MemoryTypes
      <4>2. Len(regions_'[b]) = Len(regions_[b]) + (IF b = r.base THEN 1 ELSE 0)
        BY <1>2, <2>1, RegionAdded
      <4>3. b # r.base => (Begins(virtual_allocations', b) => Begins(virtual_allocations, b))
        BY <2>1, <2>2 DEF Begins
      <4>4. Begins(physical_allocations', b) <=> Begins(physical_allocations, b) BY DEF Begins
      <4>5. /\ Begins(virtual_allocations, b) \/ Begins(physical_allocations, b) => Len(regions_[b]) >= 1
            /\ Begins(virtual_allocations, b) /\ Begins(physical_allocations, b) => Len(regions_[b]) >= 2
        BY DEF Backed
      <4> HIDE DEF Begins
      <4>6. CASE b = r.base BY <4>1, <4>2, <4>4, <4>5, <4>6
      <4>7. CASE b # r.base BY <4>1, <4>2, <4>3, <4>4, <4>5, <4>7
      <4>. QED BY <4>6, <4>7
    <3>. QED BY <3>1 DEF Backed, Begins
  <2>5. CursorsPass'
    <3>1. ASSUME NEW v \in virtual_allocations', v.placed
          PROVE  \/ v.base + v.size <= cursor'.physical
                 \/ FirstVirtual <= v.base /\ v.base + v.size <= cursor'.virtual
      <4>1. CASE v = a
        <5>1. ~named BY <2>2, <3>1, <4>1
        <5>2. \/ cursor.physical <= r.base /\ r.base + r.size <= cursor'.physical
              \/ cursor.virtual <= r.base /\ r.base + r.size <= cursor'.virtual
          BY <1>2, <5>1
        <5>3. FirstVirtual <= cursor.virtual BY DEF CursorsPass
        <5>. QED BY <1>0, <2>2, <4>1, <5>2, <5>3
      <4>2. CASE v # a
        <5>1. v \in virtual_allocations /\ v.base \in Nat /\ v.size \in Nat
          BY <2>1, <3>1, <4>2 DEF MemoryTypes, Allocation
        <5>. QED BY <1>0, <3>1, <5>1 DEF CursorsPass, CursorsGoOn
      <4>. QED BY <4>1, <4>2
    <3>. QED BY <1>0, <3>1 DEF CursorsPass, CursorsGoOn
  <2>6. MarkKept'
    <3>1. CASE Memory!Forget(r)
      BY <1>0, <3>1, Forgotten DEF CursorsGoOn
    <3>2. ASSUME stored # Memory!Nowhere, ~named
          PROVE  stored % RamSize \in Nat /\ ~(cell.handler = 0 /\ Memory!Within(cell.at, r))
      <4>1. stored \in Stores /\ cell = Memory!Reached(stored) BY <3>2 DEF MarkKept
      <4>2. stored % RamSize \in 0..(RamSize - 1) BY <4>1, ModIs DEF Mapped
      <4>3. CASE Memory!is_mmio(stored) BY <4>1, <4>2, <4>3, Reaching
      <4>4. CASE ~Memory!is_mmio(stored)
        <5>1. cell.at = stored % RamSize BY <4>1, <4>4, Reaching
        <5>2. Passed(cell.at, cursor) BY <3>2, <4>4, <5>1 DEF MarkKept
        <5>3. ~(r.base <= cell.at /\ cell.at < r.base + r.size)
          BY <1>0, <1>2, <2>2, <3>2, <4>2, <5>1, <5>2 DEF Passed, CursorsPass, CursorsGoOn
        <5>. QED BY <4>2, <5>3 DEF Memory!Within
      <4>. QED BY <4>3, <4>4
    <3>3. CASE UNCHANGED <<stored, cell>>
      <4>1. ASSUME stored # Memory!Nowhere PROVE stored % RamSize \in 0..(RamSize - 1)
        BY <4>1, ModIs DEF MarkKept, Mapped
      <4>. QED BY <1>0, <3>3, <4>1 DEF MarkKept, Passed, CursorsGoOn
    <3>4. CASE Memory!Wipe(r) /\ ~named
      <4>1. stored' = stored /\ (stored # Memory!Nowhere => cell' = cell) BY <3>2, <3>4 DEF Memory!Wipe
      <4>. QED BY <1>0, <3>2, <3>4, <4>1 DEF MarkKept, Passed, CursorsGoOn
    <3>. QED BY <1>2, <3>1, <3>3, <3>4 DEF Memory!Hold, Memory!Zeroed
  <2>. QED BY <2>3, <2>4, <2>5, <2>6
<1>. QED BY <1>1, <1>2

LEMMA Placement ==
  ASSUME Mapped, MemoryInv, NEW kind \in {"normal", "large", "physical", "top_down"}, NEW n \in {0, MaxSize},
         kind = "physical" => cursor.physical + Memory!Placed(kind, n).size <= FirstVirtual,
         cursor' = Memory!Moved(kind, Memory!Placed(kind, n))
  PROVE  LET r == Memory!Placed(kind, n) IN
         /\ r \in Physical /\ CursorsGoOn
         /\ Memory!Fits(r) =>
              \/ cursor.physical <= r.base /\ r.base + r.size <= cursor'.physical
              \/ cursor.virtual <= r.base /\ r.base + r.size <= cursor'.virtual
<1> DEFINE r == Memory!Placed(kind, n)
           page == Memory!PageOf(kind)
           asked == IF n = 0 THEN 1 ELSE n
           base == Memory!Up(cursor[Memory!CursorOf(kind)], page)
           c == cursor
<1>1. /\ page \in Nat \ {0} /\ asked \in Nat \ {0} /\ RamSize \in Nat \ {0} /\ FirstVirtual \in Nat
      /\ FirstVirtual <= RamSize
  BY DEF Memory!PageOf, Mapped
<1>2. /\ cursor \in [{"virtual", "physical", "ext"} -> 0..(RamSize + 1)]
      /\ c.physical \in 0..(RamSize + 1) /\ c.virtual \in 0..(RamSize + 1)
      /\ c.physical <= FirstVirtual /\ FirstVirtual <= c.virtual
  BY DEF MemoryInv, MemoryTypes, CursorsPass, Memory!Beyond
<1>3. Memory!Up(asked, page) \in Nat \ {0}
  <2>1. Memory!Up(asked, page) \in Nat /\ asked <= Memory!Up(asked, page) BY <1>1, UpIs
  <2> HIDE DEF page, asked
  <2>. QED BY <1>1, <2>1
<1>4. /\ r.size = Memory!Up(asked, page)
      /\ r.base = Memory!Past(IF kind = "top_down" THEN RamSize + 1 ELSE base)
      /\ r = [base |-> r.base, size |-> r.size]
  BY DEF Memory!Placed, Memory!Beyond
<1>5. /\ cursor' = CASE kind = "top_down" -> cursor
                     [] kind = "physical" -> [cursor EXCEPT !.physical = Memory!Past(r.base + r.size)]
                     [] OTHER -> [cursor EXCEPT !.virtual = Memory!Past(r.base + r.size + page)]
  BY DEF Memory!Moved
<1>6. kind = "physical" => page = 1 /\ base = Memory!Up(c.physical, 1)
  BY DEF Memory!PageOf, Memory!CursorOf
<1>7. kind \in {"normal", "large"} => base = Memory!Up(c.virtual, page) BY DEF Memory!CursorOf
<1>8. kind = "physical" => c.physical + r.size <= FirstVirtual OBVIOUS
<1> HIDE DEF r, page, base, asked
<1>9. r.size \in Nat \ {0} BY <1>3, <1>4
<1>10. CASE kind = "top_down"
  <2>1. r.base = RamSize + 1 BY <1>1, <1>4, <1>10, PastIs
  <2>2. cursor' = cursor BY <1>5, <1>10
  <2>3. ~Memory!Fits(r) BY <1>1, <1>9, <2>1 DEF Memory!Fits
  <2>4. r \in Physical BY <1>1, <1>4, <1>9, <2>1 DEF Physical
  <2>5. CursorsGoOn BY <1>1, <1>2, <2>2 DEF CursorsGoOn, Memory!Beyond
  <2>. QED BY <2>3, <2>4, <2>5 DEF r
<1>11. CASE kind = "physical"
  <2>1. base = c.physical
    <3>1. c.physical \in Nat BY <1>2
    <3>. QED BY <1>1, <1>6, <1>11, <3>1, UpIs
  <2>2. r.base = c.physical
    <3>1. c.physical \in Nat /\ c.physical <= RamSize BY <1>1, <1>2
    <3>2. Memory!Past(c.physical) = c.physical BY <3>1, PastIs
    <3>. QED BY <1>4, <1>11, <2>1, <3>2
  <2>3. r.base + r.size \in Nat /\ r.base + r.size <= RamSize /\ r.base + r.size <= FirstVirtual
    BY <1>1, <1>2, <1>8, <1>9, <1>11, <2>2
  <2>4. Memory!Past(r.base + r.size) = r.base + r.size BY <2>3, PastIs
  <2>5. cursor' = [cursor EXCEPT !.physical = r.base + r.size] BY <1>5, <1>11, <2>4
  <2>6. cursor'.physical = r.base + r.size /\ cursor'.virtual = c.virtual BY <1>2, <2>5
  <2>7. r \in Physical BY <1>2, <1>4, <1>9, <2>2 DEF Physical
  <2>8. CursorsGoOn
    <3>1. r.base + r.size \in 0..(RamSize + 1) /\ cursor.physical <= r.base + r.size BY <1>1, <1>2, <1>9, <2>2, <2>3
    <3>2. cursor' \in [{"virtual", "physical", "ext"} -> 0..(RamSize + 1)] BY <1>2, <2>5, <3>1
    <3>. QED BY <1>1, <1>2, <2>3, <2>6, <3>1, <3>2 DEF CursorsGoOn, Memory!Beyond
  <2>9. cursor.physical <= r.base /\ r.base + r.size <= cursor'.physical BY <1>2, <1>9, <2>2, <2>6
  <2>. QED BY <2>7, <2>8, <2>9 DEF r
<1>12. CASE kind \in {"normal", "large"}
  <2>1. base \in Nat /\ c.virtual <= base
    <3>1. c.virtual \in Nat BY <1>2
    <3>. QED BY <1>1, <1>7, <1>12, <3>1, UpIs
  <2>2. r.base = Memory!Past(base) BY <1>4, <1>12
  <2>3. r.base \in 0..(RamSize + 1) /\ c.virtual <= r.base
    <3>1. /\ Memory!Past(base) \in 0..Memory!Beyond /\ (base <= RamSize => Memory!Past(base) = base)
          /\ (base > RamSize => Memory!Past(base) = RamSize + 1)
      BY <2>1, PastIs
    <3>. QED BY <1>1, <1>2, <2>1, <2>2, <3>1 DEF Memory!Beyond
  <2> DEFINE end == r.base + r.size + page
  <2>4. end \in Nat BY <1>1, <1>9, <2>3
  <2>5. /\ Memory!Past(end) \in 0..Memory!Beyond /\ (end <= RamSize => Memory!Past(end) = end)
        /\ (end > RamSize => Memory!Past(end) = RamSize + 1)
    BY <2>4, PastIs
  <2>6. cursor' = [cursor EXCEPT !.virtual = Memory!Past(end)] BY <1>5, <1>12
  <2>7. cursor'.virtual = Memory!Past(end) /\ cursor'.physical = c.physical BY <1>2, <2>6
  <2>8. r.base <= Memory!Past(end) /\ (Memory!Fits(r) => r.base + r.size <= Memory!Past(end))
    BY <1>1, <1>9, <2>3, <2>5 DEF Memory!Fits
  <2>9. r \in Physical BY <1>4, <1>9, <2>3 DEF Physical
  <2> HIDE DEF end
  <2>10. CursorsGoOn
    <3>1. cursor' \in [{"virtual", "physical", "ext"} -> 0..(RamSize + 1)] BY <1>2, <2>5, <2>6 DEF Memory!Beyond
    <3>. QED BY <1>1, <1>2, <2>3, <2>5, <2>7, <2>8, <3>1 DEF CursorsGoOn, Memory!Beyond
  <2>11. Memory!Fits(r) => cursor.virtual <= r.base /\ r.base + r.size <= cursor'.virtual
    BY <2>3, <2>7, <2>8
  <2>. QED BY <2>9, <2>10, <2>11 DEF r
<1>. QED BY <1>10, <1>11, <1>12

LEMMA SameCursor == ASSUME Mapped, MemoryInv, cursor' = cursor PROVE CursorsGoOn
  BY DEF MemoryInv, MemoryTypes, CursorsPass, CursorsGoOn, Memory!Beyond, Mapped

\* The mark stays in place where no cursor moves back and it is kept or forgotten.
LEMMA MarkStays ==
  ASSUME Mapped, MemoryInv, CursorsGoOn, UNCHANGED <<stored, cell>> \/ \E r : Memory!Forget(r)
  PROVE  MarkKept'
<1>1. stored' = Memory!Nowhere \/ UNCHANGED <<stored, cell>> BY DEF Memory!Forget
<1>2. ASSUME stored # Memory!Nowhere PROVE stored % RamSize \in 0..(RamSize - 1)
  BY <1>2, ModIs DEF MemoryInv, MarkKept, Mapped
<1>3. /\ cursor.physical \in Nat /\ cursor.virtual \in Nat /\ cursor'.physical \in Nat /\ cursor'.virtual \in Nat
      /\ FirstVirtual \in Nat /\ RamSize \in Nat
  BY DEF MemoryInv, MemoryTypes, CursorsGoOn, Mapped, Memory!Beyond
<1>. QED BY <1>1, <1>2, <1>3 DEF MemoryInv, MarkKept, Passed, CursorsGoOn

\* Fewer allocations, or the same with another protection, and the cursors as they were.
LEMMA CursorsStay ==
  ASSUME MemoryInv, UNCHANGED cursor,
         \A v \in virtual_allocations' : \E w \in virtual_allocations :
           v.base = w.base /\ v.size = w.size /\ v.placed = w.placed
  PROVE  CursorsPass'
  BY DEF MemoryInv, CursorsPass

LEMMA Recommitted ==
  ASSUME Mapped, MemoryInv, NEW b, NEW to \in BOOLEAN,
         \/ virtual_allocations' = {IF v.base = b THEN [v EXCEPT !.committed = to] ELSE v : v \in virtual_allocations}
         \/ virtual_allocations' = virtual_allocations,
         UNCHANGED <<regions_, physical_allocations, cursor, sections, stored, cell>>
  PROVE  MemoryInv'
<1>1. \A v \in virtual_allocations : [v EXCEPT !.committed = to] \in Allocation
                                     /\ [v EXCEPT !.committed = to].base = v.base
                                     /\ [v EXCEPT !.committed = to].size = v.size
                                     /\ [v EXCEPT !.committed = to].placed = v.placed
  BY DEF MemoryInv, MemoryTypes, Allocation
<1>2. \A v \in virtual_allocations' : \E w \in virtual_allocations :
           /\ v.base = w.base /\ v.size = w.size /\ v.placed = w.placed /\ v \in Allocation
           /\ v = (IF w.base = b THEN [w EXCEPT !.committed = to] ELSE w) \/ v = w
  <2>1. ASSUME NEW v \in virtual_allocations'
        PROVE  \E w \in virtual_allocations : v = (IF w.base = b THEN [w EXCEPT !.committed = to] ELSE w) \/ v = w
    OBVIOUS
  <2>2. virtual_allocations \subseteq Allocation BY DEF MemoryInv, MemoryTypes
  <2>3. ASSUME NEW v, NEW w \in virtual_allocations,
               v = (IF w.base = b THEN [w EXCEPT !.committed = to] ELSE w) \/ v = w
        PROVE  v.base = w.base /\ v.size = w.size /\ v.placed = w.placed /\ v \in Allocation
    <3>1. v = w \/ v = [w EXCEPT !.committed = to] BY <2>3
    <3>2. CASE v = w BY <2>2, <3>2
    <3>3. CASE v = [w EXCEPT !.committed = to] BY <1>1, <3>3
    <3>. QED BY <3>1, <3>2, <3>3
  <2> HIDE DEF Allocation
  <2>. QED BY <2>1, <2>3
<1>3. OnePerBase(virtual_allocations)'
  <2>1. CASE virtual_allocations' = virtual_allocations BY <2>1 DEF MemoryInv, MemoryTypes, OnePerBase
  <2>2. CASE virtual_allocations' = {IF v.base = b THEN [v EXCEPT !.committed = to] ELSE v : v \in virtual_allocations}
    <3>1. ASSUME NEW v \in virtual_allocations', NEW w \in virtual_allocations', v.base = w.base PROVE v = w
      <4>1. PICK x \in virtual_allocations : v = IF x.base = b THEN [x EXCEPT !.committed = to] ELSE x BY <2>2
      <4>2. PICK y \in virtual_allocations : w = IF y.base = b THEN [y EXCEPT !.committed = to] ELSE y BY <2>2
      <4>3. x.base = y.base BY <1>1, <3>1, <4>1, <4>2
      <4>4. x = y BY <4>3 DEF MemoryInv, MemoryTypes, OnePerBase
      <4>. QED BY <4>1, <4>2, <4>4
    <3>. QED BY <3>1 DEF OnePerBase
  <2>. QED BY <2>1, <2>2
<1>4. MemoryTypes' BY <1>2, <1>3 DEF MemoryInv, MemoryTypes, Memory!Fits, OnePerBase
<1>5. Backed' BY <1>2 DEF MemoryInv, Backed, Begins
<1>6. CursorsPass' BY <1>2, CursorsStay
<1>7. MarkKept' BY SameCursor, MarkStays
<1>. QED BY <1>4, <1>5, <1>6, <1>7 DEF MemoryInv

LEMMA Freeing ==
  ASSUME Mapped, MemoryInv, NEW b \in 0..(RamSize - 1), Memory!Release(b) \/ Memory!FreePhysical(b)
  PROVE  MemoryInv'
<1>1. /\ regions_' = Memory!Freed(b) /\ UNCHANGED <<cursor, sections>>
      /\ \E r : Memory!Forget(r)
  BY DEF Memory!Release, Memory!FreePhysical
<1>2. /\ virtual_allocations' \subseteq virtual_allocations /\ physical_allocations' \subseteq physical_allocations
      /\ \/ Begins(virtual_allocations, b) /\ ~Begins(virtual_allocations', b)
         \/ Begins(physical_allocations, b) /\ ~Begins(physical_allocations', b)
  BY DEF Memory!Release, Memory!FreePhysical, Memory!Tracked, Begins
<1>3. MemoryTypes'
  BY <1>1, <1>2, RegionFreed DEF MemoryInv, MemoryTypes, OnePerBase, Memory!Fits
<1>4. Backed'
  <2>1. ASSUME NEW a \in 0..(RamSize - 1)
        PROVE  /\ Begins(virtual_allocations', a) \/ Begins(physical_allocations', a) => Len(regions_'[a]) >= 1
               /\ Begins(virtual_allocations', a) /\ Begins(physical_allocations', a) => Len(regions_'[a]) >= 2
    <3>1. Len(regions_[a]) \in Nat /\ Len(regions_'[a]) \in Nat BY <1>3 DEF MemoryInv, MemoryTypes
    <3>2. Len(regions_'[a]) >= Len(regions_[a]) - (IF a = b THEN 1 ELSE 0) BY <1>1, RegionFreed
    <3>3. /\ Begins(virtual_allocations', a) => Begins(virtual_allocations, a)
          /\ Begins(physical_allocations', a) => Begins(physical_allocations, a)
      BY <1>2 DEF Begins
    <3>4. /\ Begins(virtual_allocations, a) \/ Begins(physical_allocations, a) => Len(regions_[a]) >= 1
          /\ Begins(virtual_allocations, a) /\ Begins(physical_allocations, a) => Len(regions_[a]) >= 2
      BY DEF MemoryInv, Backed
    <3>5. CASE a = b BY <1>2, <3>1, <3>2, <3>3, <3>4, <3>5
    <3>6. CASE a # b BY <3>1, <3>2, <3>3, <3>4, <3>6
    <3>. QED BY <3>5, <3>6
  <2>. QED BY <2>1 DEF Backed, Begins
<1>5. CursorsPass' BY <1>1, <1>2, CursorsStay
<1>6. MarkKept' BY <1>1, SameCursor, MarkStays
<1>. QED BY <1>3, <1>4, <1>5, <1>6 DEF MemoryInv

LEMMA HoldingPhysical ==
  ASSUME Mapped, MemoryInv, NEW r \in Physical, Memory!HoldPhysical(r)
  PROVE  MemoryInv'
<1>1. /\ cursor' = [cursor EXCEPT !.ext = Memory!Past(r.base + r.size + 1)]
      /\ UNCHANGED <<virtual_allocations, sections>>
  BY DEF Memory!HoldPhysical
<1>2. cursor \in [{"virtual", "physical", "ext"} -> 0..Memory!Beyond] BY DEF MemoryInv, MemoryTypes
<1>3. Memory!Past(r.base + r.size + 1) \in 0..Memory!Beyond
  <2>1. r.base + r.size + 1 \in Nat BY DEF Physical
  <2>. QED BY <2>1, PastIs
<1>4. /\ cursor' \in [{"virtual", "physical", "ext"} -> 0..Memory!Beyond]
      /\ cursor'.physical = cursor.physical /\ cursor'.virtual = cursor.virtual
  BY <1>1, <1>2, <1>3
<1>5. CursorsGoOn
  BY <1>2, <1>4 DEF MemoryInv, CursorsPass, CursorsGoOn, Memory!Beyond, Mapped
<1>6. CursorsPass' BY <1>1, <1>4 DEF MemoryInv, CursorsPass
<1>7. MarkKept' BY <1>5, MarkStays DEF Memory!HoldPhysical
<1>8. CASE ~Memory!Fits(r)
  <2>1. UNCHANGED <<regions_, physical_allocations>> BY <1>8 DEF Memory!HoldPhysical
  <2>2. MemoryTypes' /\ Backed'
    BY <1>1, <1>4, <2>1 DEF MemoryInv, MemoryTypes, Backed, Begins, OnePerBase, Memory!Fits
  <2>. QED BY <1>6, <1>7, <2>2 DEF MemoryInv
<1>9. CASE Memory!Fits(r)
  <2>1. /\ regions_' = Memory!Allocated(r)
        /\ physical_allocations' = {p \in physical_allocations : p.base # r.base} \cup {r}
    BY <1>9 DEF Memory!HoldPhysical
  <2>2. MemoryTypes'
    BY <1>1, <1>4, <1>9, <2>1, RegionAdded DEF MemoryInv, MemoryTypes, OnePerBase, Memory!Fits
  <2>3. Backed'
    <3>1. ASSUME NEW b \in 0..(RamSize - 1)
          PROVE  /\ Begins(virtual_allocations', b) \/ Begins(physical_allocations', b) => Len(regions_'[b]) >= 1
                 /\ Begins(virtual_allocations', b) /\ Begins(physical_allocations', b) => Len(regions_'[b]) >= 2
      <4>1. Len(regions_[b]) \in Nat BY DEF MemoryInv, MemoryTypes
      <4>2. Len(regions_'[b]) = Len(regions_[b]) + (IF b = r.base THEN 1 ELSE 0)
        BY <1>9, <2>1, RegionAdded
      <4>3. b # r.base => (Begins(physical_allocations', b) => Begins(physical_allocations, b))
        BY <2>1 DEF Begins
      <4>4. Begins(virtual_allocations', b) <=> Begins(virtual_allocations, b) BY <1>1 DEF Begins
      <4>5. /\ Begins(virtual_allocations, b) \/ Begins(physical_allocations, b) => Len(regions_[b]) >= 1
            /\ Begins(virtual_allocations, b) /\ Begins(physical_allocations, b) => Len(regions_[b]) >= 2
        BY DEF MemoryInv, Backed
      <4>6. CASE b = r.base BY <4>1, <4>2, <4>4, <4>5, <4>6
      <4>7. CASE b # r.base BY <4>1, <4>2, <4>3, <4>4, <4>5, <4>7
      <4>. QED BY <4>6, <4>7
    <3>. QED BY <3>1 DEF Backed, Begins
  <2>. QED BY <1>6, <1>7, <2>2, <2>3 DEF MemoryInv
<1>. QED BY <1>8, <1>9

LEMMA MaxIs ==
  ASSUME NEW x \in Nat, NEW y \in Nat PROVE Memory!Max({x, y}) \in {x, y}
<1>1. \E m \in {x, y} : \A k \in {x, y} : m >= k BY SMT
<1>. QED BY <1>1 DEF Memory!Max

LEMMA Storing == ASSUME Mapped, MemoryInv, NEW a \in Stores, Memory!Store(a) PROVE MemoryInv'
<1>1. /\ stored' = a /\ cell' = Memory!Reached(a)
      /\ UNCHANGED <<regions_, virtual_allocations, physical_allocations, cursor, sections>>
      /\ \/ Memory!is_mmio(a)
         \/ \E v \in virtual_allocations : v.placed /\ v.committed /\ Memory!Within(a % RamSize, v)
  BY DEF Memory!Store
<1>2. ASSUME NEW v \in virtual_allocations, v.placed, Memory!Within(a % RamSize, v)
      PROVE  Passed(a % RamSize, cursor)
  <2>1. a % RamSize \in 0..(RamSize - 1) BY ModIs DEF Mapped
  <2>2. v.base \in Nat /\ v.size \in Nat /\ RamSize \in Nat /\ FirstVirtual \in Nat
        /\ cursor.physical \in Nat /\ cursor.virtual \in Nat
    BY DEF MemoryInv, MemoryTypes, Allocation, Mapped, Memory!Beyond
  <2>3. \/ v.base + v.size <= cursor.physical
        \/ FirstVirtual <= v.base /\ v.base + v.size <= cursor.virtual
    BY <1>2 DEF MemoryInv, CursorsPass
  <2>4. v.base <= a % RamSize /\ a % RamSize < v.base + v.size BY <1>2 DEF Memory!Within
  <2>. QED BY <2>1, <2>2, <2>3, <2>4 DEF Passed
<1>3. MarkKept' BY <1>1, <1>2 DEF MarkKept
<1>4. MemoryTypes' /\ Backed' /\ CursorsPass'
  BY <1>1 DEF MemoryInv, MemoryTypes, Backed, Begins, CursorsPass, OnePerBase, Memory!Fits
<1>. QED BY <1>3, <1>4 DEF MemoryInv

LEMMA MemoryStep == ASSUME Mapped, MemoryInv, [Memory!Next]_(Memory!mvars) PROVE MemoryInv'
<1>1. ASSUME NEW kind \in {"normal", "large", "physical", "top_down"}, NEW n \in {0, MaxSize},
             NEW commit \in BOOLEAN, Memory!AllocateAnywhere(kind, n, commit)
      PROVE  MemoryInv'
  <2> DEFINE r == Memory!Placed(kind, n)
  <2>1. /\ kind = "physical" => cursor.physical + r.size <= FirstVirtual
        /\ Memory!Hold(r, commit, FALSE) /\ cursor' = Memory!Moved(kind, r)
        /\ UNCHANGED <<physical_allocations, sections>>
    BY <1>1 DEF Memory!AllocateAnywhere
  <2>2. /\ r \in Physical /\ CursorsGoOn
        /\ Memory!Fits(r) =>
              \/ cursor.physical <= r.base /\ r.base + r.size <= cursor'.physical
              \/ cursor.virtual <= r.base /\ r.base + r.size <= cursor'.virtual
    BY <2>1, Placement
  <2> HIDE DEF r
  <2>. QED BY <2>1, <2>2, Holding
<1>2. ASSUME NEW asked \in Asked, NEW kind \in {"normal", "large"}, NEW commit \in BOOLEAN,
             Memory!AllocateAt(asked, kind, 1, commit)
      PROVE  MemoryInv'
  <2> DEFINE page == Memory!PageOf(kind)
             r == [base |-> Memory!Down(asked, page), size |-> Memory!Up(1, page)]
  <2>1. page \in Nat \ {0} BY DEF Memory!PageOf, Mapped
  <2>2. Memory!Down(asked, page) \in Nat /\ Memory!Up(1, page) \in Nat \ {0}
    <3> HIDE DEF page
    <3>1. 1 \in Nat /\ asked \in Nat BY DEF Mapped
    <3>2. Memory!Down(asked, page) \in Nat BY <2>1, <3>1, DownIs
    <3>3. Memory!Up(1, page) \in Nat /\ 1 <= Memory!Up(1, page) BY <2>1, <3>1, UpIs
    <3>. QED BY <3>2, <3>3
  <2>3. /\ IF Memory!Tracked(r.base) = {} THEN Memory!Hold(r, commit, TRUE)
           ELSE /\ virtual_allocations' =
                     {IF commit /\ v.base = r.base THEN [v EXCEPT !.committed = TRUE] ELSE v
                        : v \in virtual_allocations}
                /\ UNCHANGED <<regions_, stored, cell>>
        /\ UNCHANGED <<physical_allocations, cursor, sections>>
    BY <1>2 DEF Memory!AllocateAt
  <2>4. r \in Physical BY <2>2 DEF Physical
  <2> HIDE DEF r
  <2>5. CASE Memory!Hold(r, commit, TRUE) BY <2>3, <2>4, <2>5, SameCursor, Holding
  <2>6. CASE Memory!Tracked(r.base) # {}
    <3>1. CASE commit
      <4>1. virtual_allocations' = {IF v.base = r.base THEN [v EXCEPT !.committed = TRUE] ELSE v
                                      : v \in virtual_allocations}
        BY <2>3, <2>6, <3>1
      <4>. QED BY <2>3, <2>6, <4>1, Recommitted
    <3>2. CASE ~commit
      <4>1. virtual_allocations' = virtual_allocations BY <2>3, <2>6, <3>2
      <4>. QED BY <2>3, <2>6, <4>1, Recommitted
    <3>. QED BY <3>1, <3>2
  <2>. QED BY <2>3, <2>5, <2>6
<1>3. ASSUME NEW b \in 0..(RamSize - 1), Memory!Decommit(b) PROVE MemoryInv'
  BY <1>3, Recommitted DEF Memory!Decommit
<1>4. CASE Memory!CreateSection(0)
  <2>1. sections' = sections \cup {1} /\ 1 \in 1..MaxSize
        /\ UNCHANGED <<regions_, virtual_allocations, physical_allocations, cursor, stored, cell>>
    BY <1>4 DEF Memory!CreateSection, Mapped
  <2>2. MemoryTypes' BY <2>1 DEF MemoryInv, MemoryTypes, OnePerBase, Memory!Fits
  <2>3. Backed' /\ CursorsPass' /\ MarkKept' BY <2>1 DEF MemoryInv, Backed, Begins, CursorsPass, MarkKept
  <2>. QED BY <2>2, <2>3 DEF MemoryInv
<1>5. ASSUME NEW max_size \in sections, NEW asked \in {0} \cup Asked, NEW n \in {0, MaxSize},
             Memory!MapView(max_size, asked, n)
      PROVE  MemoryInv'
  <2> DEFINE size == IF n = 0 THEN max_size ELSE n
             r == [base |-> IF asked = 0 THEN cursor.virtual ELSE asked, size |-> size]
             end == cursor.virtual + size + 1
  <2>1. /\ cursor' = IF asked # 0 THEN cursor ELSE [cursor EXCEPT !.virtual = Memory!Past(end)]
        /\ Memory!Hold(r, TRUE, asked # 0) /\ UNCHANGED <<physical_allocations, sections>>
    BY <1>5 DEF Memory!MapView
  <2>2. size \in Nat \ {0} BY DEF MemoryInv, MemoryTypes, Mapped
  <2>3. /\ cursor \in [{"virtual", "physical", "ext"} -> 0..(RamSize + 1)]
        /\ cursor.virtual \in 0..(RamSize + 1) /\ cursor.physical \in 0..(RamSize + 1)
        /\ cursor.physical <= FirstVirtual /\ FirstVirtual <= cursor.virtual /\ RamSize \in Nat
    BY DEF MemoryInv, MemoryTypes, CursorsPass, Memory!Beyond, Mapped
  <2>4. r \in Physical /\ r.size = size /\ (asked = 0 => r.base = cursor.virtual)
    BY <2>2, <2>3 DEF Physical, Mapped
  <2>5. end \in Nat BY <2>2, <2>3
  <2> HIDE DEF size, r
  <2>6. CASE asked # 0
    <3>1. cursor' = cursor BY <2>1, <2>6
    <3>2. Memory!Hold(r, TRUE, TRUE)
      <4>1. (asked # 0) = TRUE BY <2>6
      <4>. QED BY <2>1, <4>1
    <3>. QED BY <2>1, <2>4, <3>1, <3>2, SameCursor, Holding
  <2>7. CASE asked = 0
    <3>1. /\ Memory!Past(end) \in 0..Memory!Beyond /\ (end <= RamSize => Memory!Past(end) = end)
          /\ (end > RamSize => Memory!Past(end) = RamSize + 1)
      BY <2>5, PastIs
    <3>2. cursor' = [cursor EXCEPT !.virtual = Memory!Past(end)] BY <2>1, <2>7
    <3>3. cursor'.virtual = Memory!Past(end) /\ cursor'.physical = cursor.physical BY <2>3, <3>2
    <3>4. cursor.virtual <= Memory!Past(end) BY <2>2, <2>3, <3>1
    <3>5. CursorsGoOn
      <4>1. cursor' \in [{"virtual", "physical", "ext"} -> 0..(RamSize + 1)] BY <2>3, <3>1, <3>2 DEF Memory!Beyond
      <4>. QED BY <2>3, <3>3, <3>4, <4>1 DEF CursorsGoOn, Memory!Beyond
    <3>6. Memory!Fits(r) => cursor.virtual <= r.base /\ r.base + r.size <= cursor'.virtual
      BY <2>2, <2>3, <2>4, <2>7, <3>1, <3>3 DEF Memory!Fits
    <3>7. Memory!Hold(r, TRUE, FALSE)
      <4>1. (asked # 0) = FALSE BY <2>7
      <4>. QED BY <2>1, <4>1
    <3>. QED BY <2>1, <2>4, <3>5, <3>6, <3>7, Holding
  <2>. QED BY <2>6, <2>7
<1>6. CASE Memory!AllocatePhysical(1)
  <2>1. [base |-> cursor.ext, size |-> 1] \in Physical
    BY DEF MemoryInv, MemoryTypes, Physical, Memory!Beyond, Mapped
  <2>. QED BY <1>6, <2>1, HoldingPhysical DEF Memory!AllocatePhysical
<1>7. ASSUME NEW low \in {FirstPhysical, FirstVirtual}, NEW high \in {0, FirstVirtual + 2},
             Memory!AllocatePhysicalEx(1, low, high, LargePage)
      PROVE  MemoryInv'
  <2> DEFINE size == Memory!Up(1, LargePage)
             next == Memory!Up(Memory!Max({cursor.ext, low}), LargePage)
             base == IF high # 0 /\ next + size > high THEN Memory!Up(low, LargePage) ELSE next
             r == [base |-> base, size |-> size]
  <2>1. Memory!HoldPhysical(r) BY <1>7 DEF Memory!AllocatePhysicalEx
  <2>2. LargePage \in Nat \ {0} /\ low \in Nat /\ cursor.ext \in Nat /\ 1 \in Nat
    BY DEF MemoryInv, MemoryTypes, Memory!Beyond, Mapped
  <2>3. size \in Nat /\ 1 <= size BY <2>2, UpIs
  <2>4. Memory!Max({cursor.ext, low}) \in Nat
    <3>1. Memory!Max({cursor.ext, low}) \in {cursor.ext, low} BY <2>2, MaxIs
    <3>. QED BY <2>2, <3>1
  <2>5. next \in Nat /\ Memory!Up(low, LargePage) \in Nat BY <2>2, <2>4, UpIs
  <2> HIDE DEF size, next
  <2>6. r \in Physical BY <2>3, <2>5 DEF Physical
  <2>. QED BY <2>1, <2>6, HoldingPhysical
<1>8. CASE UNCHANGED Memory!mvars
  <2>1. UNCHANGED <<regions_, virtual_allocations, physical_allocations, cursor, sections, stored, cell>>
    BY <1>8 DEF Memory!mvars
  <2>. QED BY <2>1, Recommitted
<1>. QED BY <1>1, <1>2, <1>3, <1>4, <1>5, <1>6, <1>7, <1>8, Freeing, Storing DEF Memory!Next

LEMMA CountedOnce ==
  ASSUME NEW S, OnePerBase(S), NEW b
  PROVE  Memory!Cardinality({r \in S : r.base = b}) = IF Begins(S, b) THEN 1 ELSE 0
<1>1. ASSUME NEW T PROVE Memory!Cardinality(T) = Cardinality(T)
  BY Zenon DEF Memory!Cardinality, Cardinality, Memory!IsFiniteSet, IsFiniteSet
<1>2. CASE Begins(S, b)
  <2>1. PICK r \in S : r.base = b BY <1>2 DEF Begins
  <2>2. {s \in S : s.base = b} = {r} BY <2>1 DEF OnePerBase
  <2>. QED BY <1>1, <1>2, <2>2, FS_Singleton
<1>3. CASE ~Begins(S, b)
  <2>1. {s \in S : s.base = b} = {} BY <1>3 DEF Begins
  <2>. QED BY <1>1, <1>3, <2>1, FS_EmptySet
<1>. QED BY <1>2, <1>3

\* What the guest stored in memory placed for it, or in a register, reads back
\* through every mirror until it gives the memory up; and every allocation a
\* call tracks has a region. For any map, sizes and cursors.
THEOREM MarkReadsBack ==
  ASSUME Mapped
  PROVE  Memory!Init /\ [][Memory!Next]_(Memory!mvars)
           => [](Memory!TypeOK /\ Memory!ReadsBack /\ Memory!TrackedAreBacked)
<1>1. ASSUME Memory!Init PROVE MemoryInv
  <2>1. /\ regions_ = [b \in 0..(RamSize - 1) |-> <<>>] /\ virtual_allocations = {} /\ physical_allocations = {}
        /\ cursor = [virtual |-> FirstVirtual, physical |-> FirstPhysical, ext |-> RamSize + 1]
        /\ sections = {} /\ stored = Memory!Nowhere
    BY <1>1 DEF Memory!Init, Memory!Beyond
  <2>2. FirstVirtual \in 0..(RamSize + 1) /\ FirstPhysical \in 0..(RamSize + 1) /\ RamSize + 1 \in 0..(RamSize + 1)
    BY DEF Mapped
  <2>3. MemoryTypes BY <2>1, <2>2 DEF MemoryTypes, OnePerBase, Memory!Beyond
  <2>4. Backed /\ CursorsPass /\ MarkKept BY <2>1, <2>2 DEF Backed, Begins, CursorsPass, MarkKept, Mapped
  <2>. QED BY <2>3, <2>4 DEF MemoryInv
<1>2. MemoryInv /\ [Memory!Next]_(Memory!mvars) => MemoryInv' BY MemoryStep
<1>3. ASSUME MemoryInv PROVE Memory!TypeOK /\ Memory!ReadsBack /\ Memory!TrackedAreBacked
  <2>1. Memory!TypeOK
    <3>1. ASSUME NEW v \in virtual_allocations PROVE Memory!Cardinality(Memory!Tracked(v.base)) = 1
      BY <1>3, CountedOnce DEF MemoryInv, MemoryTypes, Memory!Tracked, Begins
    <3>. QED BY <1>3, <3>1 DEF MemoryInv, MemoryTypes, Memory!TypeOK
  <2>2. Memory!ReadsBack
    <3>1. ASSUME stored # Memory!Nowhere PROVE stored \in Stores /\ cell = Memory!Reached(stored) /\ stored \in Nat
      BY <1>3, <3>1 DEF MemoryInv, MarkKept, Mapped
    <3>2. ASSUME stored # Memory!Nowhere, NEW b \in 0..(Space - 1), Memory!SamePlace(stored, b)
          PROVE  Memory!Reached(b) = cell
      BY <3>1, <3>2, OnePlace DEF Mapped
    <3>. QED BY <3>1, <3>2, Reaching DEF Memory!ReadsBack
  <2>3. Memory!TrackedAreBacked
    <3>1. ASSUME NEW b \in 0..(RamSize - 1)
          PROVE  Memory!Cardinality(Memory!Tracked(b)) + Memory!Cardinality({p \in physical_allocations : p.base = b})
                   <= Len(regions_[b])
      <4>1. /\ Memory!Cardinality(Memory!Tracked(b)) = IF Begins(virtual_allocations, b) THEN 1 ELSE 0
            /\ Memory!Cardinality({p \in physical_allocations : p.base = b})
                 = IF Begins(physical_allocations, b) THEN 1 ELSE 0
        BY <1>3, CountedOnce DEF MemoryInv, MemoryTypes, Memory!Tracked
      <4>2. /\ Begins(virtual_allocations, b) \/ Begins(physical_allocations, b) => Len(regions_[b]) >= 1
            /\ Begins(virtual_allocations, b) /\ Begins(physical_allocations, b) => Len(regions_[b]) >= 2
            /\ Len(regions_[b]) \in Nat
        BY <1>3 DEF MemoryInv, Backed, MemoryTypes
      <4>. QED BY <4>1, <4>2
    <3>. QED BY <3>1 DEF Memory!TrackedAreBacked
  <2>. QED BY <2>1, <2>2, <2>3
<1>. QED BY <1>1, <1>2, <1>3, PTL
-----------------------------------------------------------------------------
(* ShaderCache: what the cache hands to a draw was made from a whole file   *)
(* or by the translator, for any shaders, sizes, games, limits and faults.  *)
CONSTANTS Vertex, Pixel, Title, Base, Size, max_cache_size_, MaxFaults
VARIABLES files, index, process, title_id_, game_cache_path_, shader_cache_, disk_index_, lru_order_,
          total_disk_size_, draw, faults
Cache == INSTANCE ShaderCache WITH Game <- Title

DrawTypes == [vs : Vertex \cup {Cache!None}, ps : Pixel \cup {Cache!None}]
CacheTypes ==
  /\ process \in {"fresh", "up", "shut"} /\ game_cache_path_ \in Cache!Dir
  /\ title_id_ \in Title \cup {Cache!None}
  /\ shader_cache_ \in [Cache!Shader -> {Cache!None, "whole"}]
  /\ draw \in DrawTypes /\ (draw.ps # Cache!None => draw.vs # Cache!None)

(* A process that has no device has no modules, no index and no draw: none  *)
(* of them outlives a shutdown or a crash.                                  *)
NothingOutlives ==
  process # "up" =>
    /\ \A h \in Cache!Shader : shader_cache_[h] = Cache!None
    /\ disk_index_ = {} /\ draw = Cache!NoDraw

CacheInv == CacheTypes /\ NothingOutlives

LEMMA CacheBegins == Cache!Init => CacheInv
BY DEF Cache!Init, CacheInv, CacheTypes, NothingOutlives, DrawTypes, Cache!NoDraw, Cache!None, Cache!Dir,
       Cache!Shader

(* Without modules the types of the rest are all there is to show.          *)
LEMMA ModulesGone ==
  ASSUME Cache!Forget, process' \in {"fresh", "up", "shut"}, game_cache_path_' \in Cache!Dir,
         title_id_' \in Title \cup {Cache!None}, draw' = Cache!NoDraw,
         process' # "up" => disk_index_' = {}
  PROVE CacheInv'
<1>1. shader_cache_' = [h \in Cache!Shader |-> Cache!None]
  BY DEF Cache!Forget
<1> HIDE DEF Cache!Forget
<1>2. draw' \in DrawTypes /\ draw'.ps = Cache!None
  BY DEF DrawTypes, Cache!NoDraw
<1> QED
  BY <1>1, <1>2 DEF CacheInv, CacheTypes, NothingOutlives

(* A shader that is got while the device is up: the draw has it, and its    *)
(* module was made whole.                                                   *)
LEMMA ShaderGot ==
  ASSUME CacheInv, NEW h \in Cache!Shader, Cache!Asks(h), Cache!Gets(h), Cache!Fixed,
         shader_cache_' \in [Cache!Shader -> {Cache!None, "whole"}]
  PROVE CacheInv'
<1>1. process = "up" /\ process' = "up" /\ game_cache_path_' \in Cache!Dir
      /\ title_id_' \in Title \cup {Cache!None}
  BY DEF CacheInv, CacheTypes, Cache!Asks, Cache!Fixed
<1>2. draw \in DrawTypes /\ (draw.ps # Cache!None => draw.vs # Cache!None)
  BY DEF CacheInv, CacheTypes
<1>3. draw' \in DrawTypes /\ (draw'.ps # Cache!None => draw'.vs # Cache!None)
  <2>1. CASE h \in Vertex /\ draw = Cache!NoDraw
    BY <1>2, <2>1 DEF DrawTypes, Cache!Gets, Cache!NoDraw
  <2>2. CASE h \in Pixel /\ h \notin Vertex /\ draw.vs # Cache!None
    BY <1>2, <2>2 DEF DrawTypes, Cache!Gets
  <2>3. CASE h \in Vertex /\ draw.vs # Cache!None
    BY <1>2, <2>3 DEF DrawTypes, Cache!Gets, Cache!Asks, Cache!NoDraw
  <2>4. (h \in Vertex /\ draw = Cache!NoDraw) \/ (h \in Pixel /\ draw.vs # Cache!None)
    BY Zenon DEF Cache!Asks
  <2> QED
    BY <2>1, <2>2, <2>3, <2>4
<1> QED
  BY <1>1, <1>3 DEF CacheInv, CacheTypes, NothingOutlives

LEMMA CacheKept == CacheInv /\ [Cache!Next]_(Cache!shvars) => CacheInv'
<1> SUFFICES ASSUME CacheInv, [Cache!Next]_(Cache!shvars) PROVE CacheInv'
  OBVIOUS
<1> USE DEF CacheInv
<1>0. CacheTypes /\ NothingOutlives
  OBVIOUS
<1>1. CASE Cache!initialize
  <2>1. UNCHANGED <<shader_cache_, draw, title_id_>> /\ process' = "up" /\ game_cache_path_' = Base
    BY <1>1 DEF Cache!initialize
  <2> QED
    BY <1>0, <2>1 DEF CacheTypes, NothingOutlives, Cache!Dir
<1>2. CASE Cache!shutdown
  <2>1. /\ Cache!Forget /\ process' = "shut" /\ disk_index_' = {} /\ draw' = Cache!NoDraw
        /\ UNCHANGED <<title_id_, game_cache_path_>>
    BY <1>2 DEF Cache!shutdown, Cache!Cleared
  <2> QED
    BY <1>0, <2>1, ModulesGone DEF CacheTypes
<1>3. CASE Cache!DrawEnds
  <2>1. /\ draw' = Cache!NoDraw /\ draw'.ps = Cache!None
        /\ UNCHANGED <<shader_cache_, process, title_id_, game_cache_path_, disk_index_>>
    BY <1>3 DEF Cache!DrawEnds, Cache!Fixed, Cache!tables, Cache!NoDraw
  <2>2. draw' \in DrawTypes
    BY <2>1 DEF DrawTypes, Cache!NoDraw
  <2> QED
    BY <1>0, <2>1, <2>2 DEF CacheTypes, NothingOutlives
<1>4. ASSUME Cache!Dies PROVE CacheInv'
  <2>1. Base \in Cache!Dir
    BY DEF Cache!Dir
  <2> QED
    BY <1>4, <2>1, ModulesGone DEF Cache!Dies, Cache!Cleared
<1>5. ASSUME NEW t \in Title \cup {Cache!None}, Cache!set_title_id(t) PROVE CacheInv'
  <2>1. /\ Cache!Forget /\ title_id_' = t /\ draw' = Cache!NoDraw /\ process' = process
        /\ process' \in {"fresh", "up", "shut"}
    BY <1>0, <1>5 DEF Cache!set_title_id, CacheTypes
  <2>2. game_cache_path_' \in Cache!Dir
    BY <1>0, <1>5 DEF Cache!set_title_id, CacheTypes, Cache!Dir
  <2>3. process' # "up" => disk_index_' = {}
    BY <1>5, <2>1 DEF Cache!set_title_id, Cache!Cleared
  <2> QED
    BY <2>1, <2>2, <2>3, ModulesGone
<1>6. ASSUME NEW h \in Cache!Shader,
             Cache!Hit(h) \/ Cache!DiskHit(h) \/ Cache!Unsaved(h) \/ Cache!Compiled(h)
      PROVE CacheInv'
  <2>1. Cache!Asks(h) /\ Cache!Gets(h) /\ Cache!Fixed
    BY <1>6 DEF Cache!Hit, Cache!DiskHit, Cache!Unsaved, Cache!Compiled, Cache!Misses
  <2>2. shader_cache_ \in [Cache!Shader -> {Cache!None, "whole"}]
    BY <1>0 DEF CacheTypes
  <2>3. shader_cache_' \in [Cache!Shader -> {Cache!None, "whole"}]
    <3>1. CASE Cache!Hit(h)
      BY <2>2, <3>1 DEF Cache!Hit
    <3>2. CASE Cache!DiskHit(h)
      BY <2>2, <3>2 DEF Cache!DiskHit, Cache!Accepts
    <3>3. CASE Cache!Unsaved(h)
      BY <2>2, <3>3 DEF Cache!Unsaved
    <3>4. CASE Cache!Compiled(h)
      <4>1. PICK gone : shader_cache_' = [g \in Cache!Shader |-> IF g = h THEN "whole"
                          ELSE IF g \in gone THEN Cache!None ELSE shader_cache_[g]]
        BY <3>4, Zenon DEF Cache!Compiled
      <4> QED
        BY <2>2, <4>1
    <3> QED
      BY <1>6, <3>1, <3>2, <3>3, <3>4
  <2> QED
    BY <2>1, <2>3, ShaderGot
<1>7. ASSUME NEW h \in Cache!Shader, Cache!Untranslated(h) PROVE CacheInv'
  <2>1. /\ process = "up" /\ draw' = Cache!NoDraw /\ draw'.ps = Cache!None
        /\ UNCHANGED <<shader_cache_, process, title_id_, game_cache_path_>>
    BY <1>7 DEF Cache!Untranslated, Cache!Misses, Cache!Asks, Cache!Fixed, Cache!NoDraw
  <2>2. draw' \in DrawTypes
    BY <2>1 DEF DrawTypes, Cache!NoDraw
  <2> QED
    BY <1>0, <2>1, <2>2 DEF CacheTypes, NothingOutlives
<1>8. ASSUME NEW d \in Cache!Dir, NEW h \in Cache!Shader, Cache!Vanishes(d, h) PROVE CacheInv'
  BY <1>0, <1>8 DEF Cache!Vanishes, Cache!Fixed, Cache!tables, CacheTypes, NothingOutlives
<1>9. CASE UNCHANGED Cache!shvars
  BY <1>0, <1>9 DEF Cache!shvars, Cache!tables, CacheTypes, NothingOutlives
<1>10. Cache!Crash \/ Cache!CrashInSwitch \/ (\E h \in Cache!Shader : Cache!CrashInSave(h)) => Cache!Dies
  BY Zenon DEF Cache!Crash, Cache!CrashInSwitch, Cache!CrashInSave
<1> QED
  BY <1>1, <1>2, <1>3, <1>4, <1>5, <1>6, <1>7, <1>8, <1>9, <1>10 DEF Cache!Next

(* No module is made from a file that a crash or a full disk cut short, and *)
(* none is in memory without a device (ShaderCache::get_shader,             *)
(* load_shader_from_disk), for any shaders, games, sizes and faults.        *)
THEOREM WholeModules ==
  Cache!Init /\ [][Cache!Next]_(Cache!shvars) => [](Cache!OnlyWholeModules /\ NothingOutlives)
<1>1. CacheInv => Cache!OnlyWholeModules /\ NothingOutlives
  BY DEF CacheInv, CacheTypes, Cache!OnlyWholeModules
<1> QED
  BY CacheBegins, CacheKept, <1>1, PTL
=============================================================================
