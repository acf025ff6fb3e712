---------------------------- MODULE GuestAtomics ----------------------------
(***************************************************************************)
(* memory/memory.cpp: the reservations behind lwarx, ldarx, stwcx. and     *)
(* stdcx. as the interpreter executes them (cpu/xenon/                     *)
(* interpreter_extended.cpp), against plain stores of other threads and of *)
(* the host.                                                               *)
(*                                                                         *)
(* Threads interleave between the steps of one instruction: the load of    *)
(* lwarx and its reservation; the check, the store, the notification and   *)
(* the clearing of stwcx.; the store and the notification of any write.    *)
(* reservation_mutex_ makes each step on reservations_ one step here.      *)
(* What is loaded and stored is left out: the property is about which      *)
(* conditional stores may succeed, not about values.                       *)
(*                                                                         *)
(* Generated code keeps its reservation in the thread's context instead    *)
(* and stores without a notification: what it computes is in PpcJit, its   *)
(* races with other threads are not modelled.                              *)
(***************************************************************************)
EXTENDS Naturals, FiniteSets

CONSTANTS
  GuestThread,         \* guest threads, by the id in their context
  Host,           \* writers outside guest code: kernel calls, devices
  Access,          \* the accesses: sets of consecutive guest byte addresses
  MAX_THREADS     \* reservations_.size(), and Cpu's contexts

Actor == GuestThread \cup Host

VARIABLES
  doing,          \* the instruction or write each actor is in the middle of
  reservations_,  \* Memory::reservations_
  linked,         \* history: the range of the last completed load-and-reserve
  passed,         \* history: whose link a write in progress started after
  lost            \* history: links some later write completed over

gvars == <<doing, reservations_, linked, passed, lost>>

Nothing == {}        \* no valid reservation, no link
AtRest == [op |-> "none", r |-> Nothing]

AtomicsInit ==
  /\ doing = [a \in Actor |-> AtRest]
  /\ reservations_ = [t \in 0..(MAX_THREADS - 1) |-> Nothing]
  /\ linked = [t \in GuestThread |-> Nothing]
  /\ passed = [a \in Actor |-> {}]
  /\ lost = {}
-----------------------------------------------------------------------------
Does(a, op) == doing[a].op = op
Begins(a, op, r) == doing' = [doing EXCEPT ![a] = [op |-> op, r |-> r]]
Unlink(t) == /\ linked' = [linked EXCEPT ![t] = Nothing]
             /\ passed' = [a \in Actor |-> passed[a] \ {t}]

\* execute_with_context returns at once for an id without a context.
Executes(t) == t < MAX_THREADS

\* set_reservation, check_reservation (the same address and size) and
\* clear_reservation do nothing, and fail, for an id out of range.
SetReservation(t, r) ==
  reservations_' = IF t < MAX_THREADS THEN [reservations_ EXCEPT ![t] = r] ELSE reservations_
CheckReservation(t, r) == t < MAX_THREADS /\ reservations_[t] = r
ClearReservation(t) == SetReservation(t, Nothing)

MutInvalidated(r) ==          \* only reservations of the same range
  [t \in DOMAIN reservations_ |->
     IF reservations_[t] = r THEN Nothing ELSE reservations_[t]]

\* invalidate_reservations: every reservation the write overlaps, by guest
\* address and not by the physical one it stands for.
Invalidated(r) ==
  [t \in DOMAIN reservations_ |->
     IF reservations_[t] \cap r # {} THEN Nothing ELSE reservations_[t]]
-----------------------------------------------------------------------------
\* lwarx, ldarx: the load ...
LoadReserve(t, r) ==
  /\ Does(t, "none") /\ Executes(t)
  /\ Begins(t, "load", r)
  /\ Unlink(t)
  /\ lost' = lost \ {t}
  /\ UNCHANGED reservations_

\* ... then the reservation.
Reserve(t) ==
  /\ Does(t, "load")
  /\ SetReservation(t, doing[t].r)
  /\ linked' = [linked EXCEPT ![t] = doing[t].r]
  /\ Begins(t, "none", Nothing)
  /\ UNCHANGED <<passed, lost>>

\* stwcx., stdcx.: the check decides whether the store is made.
StoreConditional(t, r) ==
  /\ Does(t, "none") /\ Executes(t)
  /\ Begins(t, IF CheckReservation(t, r) THEN "cond" ELSE "fail", r)
  /\ Unlink(t)
  /\ UNCHANGED <<reservations_, lost>>

\* The links of other threads over the bytes written.
LinksOn(a, r) == {t \in GuestThread \ {a} : linked[t] \cap r # {}}

CondWrite(t) ==
  /\ Does(t, "cond")
  /\ passed' = [passed EXCEPT ![t] = LinksOn(t, doing[t].r)]
  /\ Begins(t, "notify cond", doing[t].r)
  /\ UNCHANGED <<reservations_, linked, lost>>

\* write_u32 and the others: the bytes, then notify_write.
Write(a, r) ==
  /\ Does(a, "none") /\ (a \in GuestThread => Executes(a))
  /\ passed' = [passed EXCEPT ![a] = LinksOn(a, r)]
  /\ Begins(a, "notify", r)
  /\ UNCHANGED <<reservations_, linked, lost>>

NotifyWrite(a) ==
  /\ Does(a, "notify") \/ Does(a, "notify cond")
  /\ reservations_' = Invalidated(doing[a].r)
  /\ lost' = lost \cup passed[a]
  /\ passed' = [passed EXCEPT ![a] = {}]
  /\ IF Does(a, "notify") THEN Begins(a, "none", Nothing) ELSE Begins(a, "fail", doing[a].r)
  /\ UNCHANGED linked

\* The reservation is cleared whether the store was made or not.
StoreConditionalEnd(t) ==
  /\ Does(t, "fail")
  /\ ClearReservation(t)
  /\ lost' = lost \ {t}
  /\ Begins(t, "none", Nothing)
  /\ UNCHANGED <<linked, passed>>

\* The stack of a thread is copied out of the context between two batches;
\* its reservation stays in reservations_.
AtomicsNext ==
  \/ \E t \in GuestThread :
       \/ \E r \in Access : LoadReserve(t, r) \/ StoreConditional(t, r)
       \/ Reserve(t) \/ CondWrite(t) \/ StoreConditionalEnd(t)
  \/ \E a \in Actor : NotifyWrite(a) \/ \E r \in Access : Write(a, r)

AtomicsSpec == AtomicsInit /\ [][AtomicsNext]_gvars
-----------------------------------------------------------------------------
AtomicsOK ==
  /\ \A a \in Actor : doing[a].r \in Access \cup {Nothing}
  /\ \A t \in DOMAIN reservations_ : reservations_[t] \in Access \cup {Nothing}
  /\ lost \subseteq GuestThread

\* A store is never lost: a conditional store is not made when a write of
\* anybody else to one of its bytes both began and ended since the thread's
\* load-and-reserve.  (Writes that overlap that instruction, or the conditional
\* store itself, in time are not noticed.)
NoStoreLost == \A t \in GuestThread : Does(t, "cond") => t \notin lost
=============================================================================
