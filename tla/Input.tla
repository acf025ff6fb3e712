------------------------------- MODULE Input --------------------------------
(* A player's controller from the screen to the game: the buttons of the    *)
(* overlay and the zones of the touch screen move the state the             *)
(* InputManager keeps (input_manager.cpp); Kernel::input_* copies it to XAM *)
(* after each change of the overlay, the emulation thread once a frame, and *)
(* the game reads XAM's copy (xam.cpp). A control is at rest (0) or moved   *)
(* (1); a hand moves it by a raw amount, of which the dead zone takes off   *)
(* the first part.                                                          *)
EXTENDS Naturals

CONSTANTS
  Button, Trigger, Stick,     \* the controls, by what they are
  Pointer,                    \* pointer ids of fingers on the screen
  MaxTouch,                   \* touch_points_.size()
  Far                         \* the raw amount of a control moved all the way

Control == Button \cup Trigger \cup Stick
Nothing == "none"             \* no finger, no control
NoPoint == [id |-> Nothing, zone |-> Nothing]
Idle == [step |-> "idle", control |-> Nothing, value |-> 0]

VARIABLES
  gamepad,                    \* controllers_[player].state.gamepad
  connected,                  \* controllers_[player].connected
  touch_points,
  dead_zone,                  \* the least raw amount that moves a stick or trigger
  input_states,               \* g_xam.input_states[player]
  call,                       \* the UI thread inside Kernel::input_*
  hand,                       \* how far each control of the overlay is pushed
  finger                      \* the zone each finger on the screen came down in

ivars == <<gamepad, connected, touch_points, dead_zone, input_states, call, hand, finger>>

\* A finger is up, outside every zone, or in the zone of a control.
Place == {"up", "outside"} \cup Control

TypeOK ==
  /\ gamepad \in [Control -> 0..1] /\ input_states \in [Control -> 0..1]
  /\ connected \in BOOLEAN
  /\ touch_points \in [1..MaxTouch ->
       [id : Pointer \cup {Nothing}, zone : Control \cup {Nothing}]]
  /\ dead_zone \in 1..Far
  /\ call \in [step : {"idle", "set", "sync"}, control : Control \cup {Nothing}, value : 0..1]
  /\ hand \in [Control -> 0..Far] /\ finger \in [Pointer -> Place]

\* Player 1 is connected from the start; no finger is down.
Init ==
  /\ gamepad = [c \in Control |-> 0] /\ input_states = gamepad
  /\ connected = TRUE
  /\ touch_points = [i \in 1..MaxTouch |-> NoPoint]
  /\ dead_zone = 1 /\ call = Idle
  /\ hand = [c \in Control |-> 0] /\ finger = [f \in Pointer |-> "up"]

\* apply_stick_dead_zone and apply_trigger_dead_zone: nothing below the zone.
ApplyDeadZone(raw) == IF raw < dead_zone THEN 0 ELSE 1

---------------------------------------------------------------------------
(* The UI thread: the overlay.                                              *)
---------------------------------------------------------------------------
\* A control of the overlay is pushed or let go; set_trigger and set_stick
\* filter the amount before they take the lock.
Move(c, raw) ==
  /\ call = Idle /\ raw # hand[c]
  /\ c \in Button => raw \in {0, Far}
  /\ hand' = [hand EXCEPT ![c] = raw]
  /\ call' = [step |-> "set", control |-> c,
              value |-> IF c \in Button THEN (IF raw = 0 THEN 0 ELSE 1) ELSE ApplyDeadZone(raw)]
  /\ UNCHANGED <<gamepad, connected, touch_points, dead_zone, input_states, finger>>

\* set_button, set_trigger, set_stick under the lock.
Set ==
  /\ call.step = "set"
  /\ gamepad' = [gamepad EXCEPT ![call.control] = call.value]
  /\ call' = [call EXCEPT !.step = "sync"]
  /\ UNCHANGED <<connected, touch_points, dead_zone, input_states, hand, finger>>

\* sync_to_xam: only a connected controller is copied.
Synced == IF connected THEN gamepad ELSE input_states

\* The sync of Kernel::input_*.
SyncAfterSet ==
  /\ call.step = "sync"
  /\ input_states' = Synced
  /\ call' = Idle
  /\ UNCHANGED <<gamepad, connected, touch_points, dead_zone, hand, finger>>

---------------------------------------------------------------------------
(* The UI thread: the touch screen.                                         *)
---------------------------------------------------------------------------
\* Mutant: a point is taken whether or not a finger has it.
MutFree == 1..MaxTouch
\* The points no finger has.
Free == {i \in 1..MaxTouch : touch_points[i].id = Nothing}
First(s) == CHOOSE i \in s : \A j \in s : i <= j
PointsOf(f) == {i \in 1..MaxTouch : touch_points[i].id = f}

\* alloc_touch_point: the first free one takes the finger and its zone.
Alloc(f, c) == [touch_points EXCEPT ![First(Free)] = [id |-> f, zone |-> c]]

\* on_touch_down: outside every zone, or with no touch point left, nothing
\* happens; a stick waits for the finger to move.
TouchDown(f, place) ==
  /\ call = Idle /\ finger[f] = "up" /\ place # "up"
  /\ finger' = [finger EXCEPT ![f] = place]
  /\ IF place = "outside" \/ Free = {}
       THEN UNCHANGED <<touch_points, gamepad>>
       ELSE /\ touch_points' = Alloc(f, place)
            /\ gamepad' = IF place \in Stick THEN gamepad ELSE [gamepad EXCEPT ![place] = 1]
  /\ UNCHANGED <<connected, dead_zone, input_states, call, hand>>

\* on_touch_move: only a stick follows the finger.
TouchMove(f, raw) ==
  /\ call = Idle /\ finger[f] # "up" /\ PointsOf(f) # {}
  /\ LET zone == touch_points[First(PointsOf(f))].zone IN
     /\ zone \in Stick
     /\ gamepad' = [gamepad EXCEPT ![zone] = ApplyDeadZone(raw)]
  /\ UNCHANGED <<connected, touch_points, dead_zone, input_states, call, hand, finger>>

\* on_touch_up: the finger's point lets its control go and is free again.
TouchUp(f) ==
  /\ call = Idle /\ finger[f] # "up"
  /\ finger' = [finger EXCEPT ![f] = "up"]
  /\ IF PointsOf(f) = {}
       THEN UNCHANGED <<touch_points, gamepad>>
       ELSE LET i == First(PointsOf(f)) IN
            /\ gamepad' = [gamepad EXCEPT ![touch_points[i].zone] = 0]
            /\ touch_points' = [touch_points EXCEPT ![i] = NoPoint]
  /\ UNCHANGED <<connected, dead_zone, input_states, call, hand>>

\* set_stick_dead_zone, set_trigger_dead_zone.
SetDeadZone(d) ==
  /\ call = Idle
  /\ dead_zone' = d
  /\ UNCHANGED <<gamepad, connected, touch_points, input_states, call, hand, finger>>

\* set_controller_connected: neither the state nor XAM's copy is cleared.
SetConnected ==
  /\ connected' = ~connected
  /\ UNCHANGED <<gamepad, touch_points, dead_zone, input_states, call, hand, finger>>

---------------------------------------------------------------------------
(* The emulation thread and the game.                                       *)
---------------------------------------------------------------------------
\* Once a frame, before it is presented.
FrameSync ==
  /\ input_states' = Synced
  /\ UNCHANGED <<gamepad, connected, touch_points, dead_zone, call, hand, finger>>

\* XamInputGetState: fails unless connected, else XAM's copy.
GameSees(c) == connected /\ input_states[c] = 1

Ui ==
  \/ \E c \in Control, raw \in 0..Far : Move(c, raw)
  \/ Set
  \/ SyncAfterSet
  \/ \E f \in Pointer, place \in Place : TouchDown(f, place)
  \/ \E f \in Pointer, raw \in 0..Far : TouchMove(f, raw)
  \/ \E f \in Pointer : TouchUp(f)
  \/ \E d \in 1..Far : SetDeadZone(d)
Next == Ui \/ SetConnected \/ FrameSync

---------------------------------------------------------------------------
(* Properties.                                                              *)
---------------------------------------------------------------------------
Held(c) == hand[c] # 0 \/ \E f \in Pointer : finger[f] = c

(* No control is stuck: between two events of the screen, a control the     *)
(* InputManager has moved is under a finger or pushed on the overlay,       *)
(* however fingers come and go beyond the ten it tracks.                    *)
NothingStuck ==
  call = Idle => \A c \in Control : gamepad[c] = 1 => Held(c)
=============================================================================
