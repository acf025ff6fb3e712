------------------------------ MODULE MCSystem ------------------------------
(* The emulator's run, and beside it the parts of the system it creates     *)
(* that have no run of their own, each on a small instance. A behaviour is  *)
(* one part's; the others stay as they are created.                         *)
EXTENDS EmulatorLifecycle

VARIABLE part               \* the part this behaviour is about

VARIABLES regions_, virtual_allocations, physical_allocations, cursor, sections, stored, cell
memory == <<regions_, virtual_allocations, physical_allocations, cursor, sections, stored, cell>>
\* RAM below, its mirrors, two GPU registers with the APU's over one, and a
\* window onto both: the regions of the guest's map, in its order.
Memory == INSTANCE GuestMemory WITH
  RamSize <- 7, GpuBase <- 15, GpuSpan <- 2, Space <- 30,
  Window <- {[first |-> 25, last |-> 28]},
  Handler <- <<[base |-> 15, size |-> 2], [base |-> 16, size |-> 1]>>,
  LargePage <- 2, FirstVirtual <- 3, FirstPhysical <- 2, MaxSize <- 2,
  MaxRegions <- 2, MaxSections <- 1, Asked <- {3, 5}, Stores <- {4, 11, 16, 26}

VARIABLES cpu, gpu, mem, file, at, block, out, taken, restored
savestate == <<cpu, gpu, mem, file, at, block, out, taken, restored>>
Saves == INSTANCE SaveStates WITH Pages <- 2, Word <- {0, 1}, Value <- {0, 1, 2}

VARIABLES gamepad, connected, touch_points, dead_zone, input_states, call, hand, finger
input == <<gamepad, connected, touch_points, dead_zone, input_states, call, hand, finger>>
Pad == INSTANCE Input WITH
  Button <- {"A"}, Trigger <- {}, Stick <- {"LS"}, Pointer <- {"f1", "f2"},
  MaxTouch <- 1, Far <- 2

VARIABLES loading, xex, image_data, next_block, src_offset, dst_offset, iv, image, loaded, thunks
executable == <<loading, xex, image_data, next_block, src_offset, dst_offset, iv, image, loaded, thunks>>
An(ordinal) == [address |-> FALSE, value |-> ordinal]
At(line) == [address |-> TRUE, value |-> line]
\* Two libraries out of the string table's order; with and without addresses.
Executable == INSTANCE XexLoader WITH
  state_ <- loading, file <- xex, block <- next_block, memory <- image, modules_ <- loaded,
  Blocks <- [data : 0..2, zeros : 0..1], Size <- 3, Base <- 2, Page <- 2, Half <- 4,
  Strings <- <<"xboxkrnl.exe", "xam.xex">>,
  Tables <- {<<[name |-> 1, count |-> 2, words |-> <<An(1), At(3), An(3)>>],
               [name |-> 0, count |-> 2, words |-> <<An(2), An(1), At(2)>>]>>}

VARIABLES state_, activity, screen, load, menu, window, surface, listener, unseen_run
app == <<state_, activity, screen, load, menu, window, surface, listener, unseen_run>>
App == INSTANCE AppLifecycle WITH Screen <- {"s1", "s2"}

Rest(k) ==                   \* the other parts do not move
  /\ UNCHANGED part
  /\ k # 1 => UNCHANGED vars
  /\ k # 2 => UNCHANGED memory
  /\ k # 3 => UNCHANGED savestate
  /\ k # 4 => UNCHANGED input
  /\ k # 5 => UNCHANGED executable
  /\ k # 6 => UNCHANGED app

SuiteInit ==
  /\ Init /\ Memory!Init /\ Saves!Init /\ Pad!Init /\ Executable!Init /\ App!Init
  /\ part \in {"emulator", "memory", "savestate", "input", "executable", "app"}
SuiteNext ==
  \/ part = "emulator" /\ Next /\ Rest(1)
  \/ part = "memory" /\ Memory!Next /\ Rest(2)
  \/ part = "savestate" /\ Saves!Next /\ Rest(3)
  \/ part = "input" /\ Pad!Next /\ Rest(4)
  \/ part = "executable" /\ Executable!Next /\ Rest(5)
  \/ part = "app" /\ App!Next /\ Rest(6)

svars == <<part, vars, memory, savestate, input, executable, app>>
SuiteSpec ==
  /\ SuiteInit /\ [][SuiteNext]_svars
  /\ WF_svars(part = "emulator" /\ Controller /\ Rest(1))
  /\ WF_svars(part = "emulator" /\ EmulationThread /\ Rest(1))

\* Each part keeps the types of its variables.
PartsTypeOK == TypeOK /\ Memory!TypeOK /\ Saves!TypeOK /\ Pad!TypeOK /\ Executable!TypeOK /\ App!TypeOK
(* What is put in stays until it is taken out: what the guest stores in     *)
(* memory placed for it reads back until the memory is given up; a load     *)
(* puts back what one save took, every page in its place, or leaves memory  *)
(* alone; a control is moved only while a finger or a hand is on it; a      *)
(* loaded executable is in memory as its file has it, with its thunks; a    *)
(* game the application starts where it is seen halts when it is left.      *)
StateKept ==
  /\ part = "memory" => Memory!ReadsBack /\ Memory!TrackedAreBacked
  /\ part = "savestate" => Saves!LoadsOneSave /\ Saves!FailedLoadKeepsMemory
  /\ part = "input" => Pad!NothingStuck
  /\ part = "executable" => Executable!LoadedWhole
  /\ part = "app" => App!AppKeepsUp
=============================================================================
