----------------------------- MODULE MCThreads -----------------------------
(* The end of guest threads, and beside it the other objects the source has *)
(* that threads wait for, each on a small instance. A behaviour is one      *)
(* part's; the others stay as they are created.                             *)
EXTENDS MCThreadScheduler, Integers

VARIABLE part               \* the part this behaviour is about

VARIABLES objects_, next_handle_, wait
waits == <<objects_, next_handle_, wait>>
\* Two threads and one object, and one thread that waits for a list of two.
Waits == INSTANCE KernelThreads WITH
  Waiters <- 1..2, g_ktm <- TRUE, MaxHandles <- 1, MaxCount <- 2, MaxPosted <- 2
Lists == INSTANCE KernelThreads WITH
  Waiters <- 1..1, g_ktm <- TRUE, MaxHandles <- 2, MaxCount <- 1, MaxPosted <- 1

VARIABLES objs, xthread, caller, slice
xobjects == <<objs, xthread, caller, slice>>
\* Two threads and one object; one thread and two objects.
XWaits == INSTANCE XObjects WITH
  Threads <- 1..2, Objects <- {1}, Nobody <- 0, MaxCount <- 2,
  Offered <- {"notification", "synchronization", "semaphore", "mutant"}
XLists == INSTANCE XObjects WITH
  Threads <- 1..1, Objects <- 1..2, Nobody <- 0, MaxCount <- 1,
  Offered <- {"timer_synchronization", "thread"}

Rest(k) ==                   \* the other parts do not move
  /\ UNCHANGED part
  /\ k # 1 => UNCHANGED vars
  /\ k # 2 => UNCHANGED waits
  /\ k # 3 => UNCHANGED xobjects

SuiteInit ==
  /\ Init
  /\ part \in {"threads", "waits", "lists", "xwaits", "xlists"}
  /\ IF part = "lists" THEN Lists!Init ELSE Waits!Init
  /\ IF part = "xlists" THEN XLists!Init ELSE XWaits!Init
SuiteNext ==
  \/ part = "threads" /\ Next /\ Rest(1)
  \/ part = "waits" /\ Waits!Next /\ Rest(2)
  \/ part = "lists" /\ Lists!Next /\ Rest(2)
  \/ part = "xwaits" /\ XWaits!Next /\ Rest(3)
  \/ part = "xlists" /\ XLists!Next /\ Rest(3)

svars == <<part, vars, waits, xobjects>>
SuiteSpec ==
  /\ SuiteInit /\ [][SuiteNext]_svars /\ Fairness
  /\ \A t \in 1..2 : WF_waits(part = "waits" /\ Waits!WaitStep(t))
  /\ WF_waits(part = "lists" /\ Lists!WaitStep(1))

\* Each part keeps the types of its variables.
PartsTypeOK ==
  /\ TypeOK
  /\ IF part = "lists" THEN Lists!TypeOK ELSE Waits!TypeOK
  /\ IF part = "xlists" THEN XLists!TypeOK ELSE XWaits!TypeOK
(* Threads, the objects they wait for and the mutants they hold name each  *)
(* other rightly, and a port's packets are removed once, in their turn.     *)
WaitersAgree ==
  /\ part # "lists" => Waits!PacketsOnceInOrder
  /\ IF part = "xlists" THEN XLists!WaitersAgree ELSE XWaits!WaitersAgree
(* A wait whose object stays signaled returns, alone or in a list.          *)
WaitsEnd ==
  /\ \A t \in 1..2 : ~<>[](part = "waits" /\ Waits!Answered(t))
  /\ ~<>[](part = "lists" /\ Lists!Answered(1))
=============================================================================
