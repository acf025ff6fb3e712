---------------------------- MODULE AppLifecycle ----------------------------
(* The Android application around the emulator: the activity's lifecycle    *)
(* events, the screens of the navigation host and the in-game menu on the   *)
(* main thread, and the load of a game on an IO thread, all calling the one *)
(* emulator through NativeEmulator and the JNI bridge. A screen that is     *)
(* left stays composed until its exit transition ends; a coroutine of it is *)
(* cancelled only then, and a native call it is inside goes on regardless.  *)
EXTENDS Integers

CONSTANT Screen      \* visits of the game screen

VARIABLES
  state_,            \* of the emulator, "closed" once it is deleted
  activity,          \* "resumed", "paused" or "destroyed"
  screen,            \* per visit: "absent", "shown" or "leaving"
  load,              \* its LaunchedEffect: where loadGame is
  menu,              \* showMenu of the visit
  window,            \* visits whose SurfaceView has a surface
  surface,           \* whose window the GPU has, or None
  listener,          \* whose vibration listener is registered, or None
  unseen_run         \* history: which call last made it Running where nobody
                     \* saw it, "" when it was seen
avars == <<state_, activity, screen, load, menu, window, surface, listener, unseen_run>>

None == "none"
Shown == {s \in Screen : screen[s] = "shown"}
Seen == activity = "resumed" /\ \E s \in Shown : ~menu[s]
SeenThen == activity' = "resumed" /\ \E s \in Screen : screen'[s] = "shown" /\ ~menu'[s]

TypeOK ==
  /\ state_ \in {"Ready", "Loaded", "Running", "Paused", "Stopped", "closed"}
  /\ activity \in {"resumed", "paused", "destroyed"}
  /\ screen \in [Screen -> {"absent", "shown", "leaving"}]
  /\ load \in [Screen -> {"none", "launched", "native", "loaded", "failed", "orphan"}]
  /\ menu \in [Screen -> BOOLEAN] /\ window \subseteq Screen
  /\ surface \in Screen \cup {None} /\ listener \in Screen \cup {None}
  /\ unseen_run \in {"", "load", "resume"}

\* App(): the emulator is created and initialized with the first composition.
Init ==
  /\ state_ = "Ready" /\ activity = "resumed"
  /\ screen = [s \in Screen |-> "absent"] /\ load = [s \in Screen |-> "none"]
  /\ menu = [s \in Screen |-> FALSE] /\ window = {}
  /\ surface = None /\ listener = None /\ unseen_run = ""

(* ---- Calls of the emulator --------------------------------------------- *)
Ran == IF state_ \in {"Ready", "closed"} THEN state_ ELSE "Running"
Halted == IF state_ = "Running" THEN "Paused" ELSE state_
(* Mutant: stop() leaves a running game alone.                              *)
MutStopped == IF state_ = "Paused" THEN "Stopped" ELSE state_
Stopped == IF state_ \in {"Running", "Paused"} THEN "Stopped" ELSE state_

\* run() by the named caller: a history of whether anyone sees the game start.
Run(caller) ==
  /\ state_' = Ran
  /\ unseen_run' = IF Ran # "Running" \/ state_ = "Running" THEN unseen_run
                   ELSE IF SeenThen THEN "" ELSE caller
Forget == unseen_run' = IF state_' = "Running" THEN unseen_run ELSE ""
Pause == state_' = Halted /\ Forget
Stop == state_' = Stopped /\ Forget

(* ---- Game screen ------------------------------------------------------- *)
\* A game is chosen in the library: the screen is composed, its effects
\* launch the load and register its vibration listener, its view has a window.
Open(s) ==
  /\ activity = "resumed" /\ Shown = {} /\ screen[s] = "absent" /\ load[s] = "none"
  /\ screen' = [screen EXCEPT ![s] = "shown"]
  /\ load' = [load EXCEPT ![s] = "launched"] /\ listener' = s
  /\ window' = window \cup {s} /\ surface' = s
  /\ UNCHANGED <<state_, activity, menu, unseen_run>>

\* loadGame begins on an IO thread: load_game refuses while the game runs.
BeginLoad(s) ==
  /\ load[s] = "launched" /\ state_ # "closed"
  /\ load' = [load EXCEPT ![s] = IF state_ = "Running" THEN "failed" ELSE "native"]
  /\ UNCHANGED <<state_, activity, screen, menu, window, surface, listener, unseen_run>>

\* load_game fails, or sets the state whatever it has become since.
EndLoad(s) ==
  /\ load[s] = "native" /\ state_ # "closed"
  /\ \/ load' = [load EXCEPT ![s] = "failed"] /\ UNCHANGED state_
     \/ load' = [load EXCEPT ![s] = "loaded"] /\ state_' = "Loaded"
  /\ Forget
  /\ UNCHANGED <<activity, screen, menu, window, surface, listener>>

\* Back on the main thread the effect runs the game it loaded, unless its
\* screen is gone, which cancelled it.
LoadReturns(s) ==
  /\ load[s] \in {"loaded", "failed"}
  /\ load' = [load EXCEPT ![s] = "none"]
  /\ UNCHANGED <<activity, screen, menu, window, surface, listener>>
  /\ IF load[s] = "loaded" /\ screen[s] # "absent" THEN Run("load")
     ELSE UNCHANGED <<state_, unseen_run>>

\* onBack, from the top bar or from the menu's exit.
Back(s) ==
  /\ activity = "resumed" /\ screen[s] = "shown"
  /\ Stop
  /\ screen' = [screen EXCEPT ![s] = "leaving"]
  /\ UNCHANGED <<activity, load, menu, window, surface, listener>>

\* What leaving the composition does to the visits gone: their effects are
\* cancelled and clear the listener, their views lose their windows. A native
\* load goes on; without its emulator it is left behind.
Cancelled(l) ==
  CASE l = "launched" -> "none" [] l = "native" /\ activity' = "destroyed" -> "orphan" [] OTHER -> l
Disposed(gone) ==
  /\ screen' = [s \in Screen |-> IF s \in gone THEN "absent" ELSE screen[s]]
  /\ load' = [s \in Screen |-> IF s \in gone THEN Cancelled(load[s]) ELSE load[s]]
  /\ menu' = [s \in Screen |-> s \notin gone /\ menu[s]]
  /\ listener' = IF gone = {} THEN listener ELSE None
  /\ window' = window \ gone
  /\ surface' = IF gone \cap window = {} THEN surface ELSE None

EndTransition(s) ==
  /\ screen[s] = "leaving"
  /\ UNCHANGED <<state_, activity, unseen_run>> /\ Disposed({s})

(* ---- In-game menu ------------------------------------------------------ *)
OpenMenu(s) ==
  /\ activity = "resumed" /\ screen[s] = "shown" /\ ~menu[s]
  /\ menu' = [menu EXCEPT ![s] = TRUE] /\ Pause
  /\ UNCHANGED <<activity, screen, load, window, surface, listener>>

\* Resume and the layout editor run the game; the control settings and the
\* test picture only close the menu; a reset stops a paused game.
CloseMenu(s) ==
  /\ activity = "resumed" /\ screen[s] = "shown" /\ menu[s]
  /\ menu' = [menu EXCEPT ![s] = FALSE]
  /\ UNCHANGED <<activity, screen, load, window, surface, listener>>
  /\ \/ Run("menu")
     \/ UNCHANGED <<state_, unseen_run>>
     \/ IF state_ = "Running" THEN UNCHANGED <<state_, unseen_run>> ELSE Stop

\* A save state loaded from the menu leaves a game paused that was not
\* running, whatever it was; one that fails changes nothing but a running
\* game's state.
LoadState(s) ==
  /\ activity = "resumed" /\ screen[s] = "shown" /\ menu[s]
  /\ \/ state_' = (IF state_ = "Running" THEN "Running" ELSE "Paused")
     \/ state_' = Halted
  /\ Forget
  /\ UNCHANGED <<activity, screen, load, menu, window, surface, listener>>

(* ---- Activity ---------------------------------------------------------- *)
OnPause ==
  /\ activity = "resumed" /\ activity' = "paused" /\ Pause
  /\ UNCHANGED <<screen, load, menu, window, surface, listener>>
\* A paused activity that is hidden loses the windows; shown again, the views
\* of its screens get theirs back, in any order.
Hide ==
  /\ activity = "paused" /\ window # {}
  /\ window' = {} /\ surface' = None
  /\ UNCHANGED <<state_, activity, screen, load, menu, listener, unseen_run>>
OnResume ==
  /\ activity = "paused" /\ activity' = "resumed"
  /\ LET live == {s \in Screen : screen[s] # "absent"} IN
       /\ window' = live
       /\ IF window = live THEN UNCHANGED surface ELSE surface' \in live
  /\ UNCHANGED <<screen, load, menu, listener>>
  /\ IF state_ = "Paused" THEN Run("resume") ELSE UNCHANGED <<state_, unseen_run>>
\* ON_DESTROY stops the game; the composition is disposed and close() shuts
\* the emulator down and deletes it, loads inside it or not.
OnDestroy ==
  /\ activity = "paused" /\ activity' = "destroyed"
  /\ Disposed(Screen) /\ state_' = "closed" /\ Forget
\* A load inside a deleted emulator ends, whatever it did to freed memory.
EndOrphan(s) ==
  /\ load[s] = "orphan" /\ load' = [load EXCEPT ![s] = "none"]
  /\ UNCHANGED <<state_, activity, screen, menu, window, surface, listener, unseen_run>>
\* The activity is created anew, and with its first composition an emulator.
Recreate ==
  /\ activity = "destroyed" /\ activity' = "resumed" /\ state_' = "Ready"
  /\ UNCHANGED <<screen, load, menu, window, surface, listener, unseen_run>>

Next ==
  \/ \E s \in Screen :
       \/ Open(s) \/ BeginLoad(s) \/ EndLoad(s) \/ LoadReturns(s) \/ Back(s) \/ EndTransition(s)
       \/ OpenMenu(s) \/ CloseMenu(s) \/ LoadState(s)
       \/ EndOrphan(s)
  \/ OnPause \/ Hide \/ OnResume \/ OnDestroy \/ Recreate

(* ---- Properties -------------------------------------------------------- *)
(* The game runs where nobody sees it, behind the menu, another screen or a *)
(* paused activity, only when it was started there: by a load that returned *)
(* after its screen or the activity was left, or by the activity's resume.  *)
(* Leaving a game somebody sees always halts it.                            *)
RunsSeen == (state_ = "Running" /\ ~Seen) => unseen_run # ""

(* The GPU never presents to a window that is gone, nor does a visit that   *)
(* is gone get the vibrations, though two visits overlap in a transition.   *)
NothingOfTheGone ==
  /\ surface # None => surface \in window
  /\ listener # None => screen[listener] # "absent"
AppKeepsUp == RunsSeen /\ NothingOfTheGone
=============================================================================
