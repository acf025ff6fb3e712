---------------------------- MODULE ObjectTable ----------------------------
(***************************************************************************)
(* The NT-style handle table of kernel/xobject.cpp and the guest calls     *)
(* that go through it (kernel/hle/xboxkrnl_extended.cpp): create, close,   *)
(* duplicate, ObReferenceObjectByHandle, ObDereferenceObject, and the      *)
(* clear of a shutdown.                                                    *)
(*                                                                         *)
(* Handles are numbered 1, 2, ... where the code has 4, 8, ....  A guest   *)
(* reference r is one successful ObReferenceObjectByHandle: it is an actor *)
(* of its own, because the guest calls run on concurrent host threads and  *)
(* neither call holds the table's mutex from end to end.                   *)
(***************************************************************************)
EXTENDS Naturals, FiniteSets

CONSTANTS
  Obj,          \* host objects that may be constructed
  NoObj,        \* the null shared_ptr
  Ref,          \* guest references that may be outstanding at once
  MaxHandle,    \* bound: handles allocated before the table is cleared
  MaxCount,     \* bound: the code counts modulo 2^32
  AddrSlots,    \* distinct synthetic guest addresses, 2^14 in the code
  ScanEarly,    \* ObDereferenceObject gives up at a hole above this handle
  ScanMax       \* ObDereferenceObject scans no handle above this one

ASSUME ObjectTableAssumption ==
  /\ NoObj \notin Obj
  /\ IsFiniteSet(Ref)          \* one per guest call made
  /\ MaxHandle \in Nat \ {0}
  /\ MaxCount \in Nat \ {0}
  /\ AddrSlots \in Nat \ {0}
  /\ ScanEarly \in Nat
  /\ ScanMax \in Nat \ {0}
  /\ MaxHandle < AddrSlots     \* no two handles share a synthetic address

Handle == 1..MaxHandle

NoAddr == <<"none", 0>>

\* A mutant of an operation is that operation with a bug a change to the code
\* could bring in; it stands before the operation it mutates.
MutSynthetic(h) == <<"synthetic", h % 2>>        \* the mask keeps too few bits

\* Guest addresses: chosen by ObCreateObject, or 0x80000000 + (handle & 0xFFFF) * 0x100.
Synthetic(h) == <<"synthetic", h % AddrSlots>>
Addr == {NoAddr} \cup ({"guest"} \X Obj) \cup {Synthetic(h) : h \in Handle}

VARIABLES
  objects,       \* the table: handle -> object or NoObj
  next_handle,   \* next handle to allocate
  made,          \* objects constructed so far
  ref_count,     \* XObject::ref_count_
  guest_object,  \* XObject::guest_object_
  host,          \* objects the emulator itself holds through a shared_ptr
  up,            \* the emulator has not cleared the table yet
  owner,         \* history: the object each handle was allocated to before the clear
  phase,         \* where guest reference r is in its life
  of,            \* the object reference r is on
  via,           \* the handle it was made from
  addr,          \* the guest pointer the guest got for it
  scan           \* next handle its ObDereferenceObject looks up

vars == <<objects, next_handle, made, ref_count, guest_object, host,
          up, owner, phase, of, via, addr, scan>>
tableVars == <<objects, next_handle, made, host, up, owner>>
refVars == <<phase, of, via, addr, scan>>

Phases == {"none",      \* free
           "read",      \* retained; about to read guest_object_
           "name",      \* saw guest_object_ = 0; about to write the synthetic address
           "held",      \* the guest holds the pointer
           "scan",      \* in ObDereferenceObject, looking for the object
           "release"}   \* found it; about to call release()

\* Handles that name o, and guest references counted on o.
HandlesOf(o) == {h \in Handle : objects[h] = o}
RefsOn(o) == {r \in Ref : phase[r] # "none" /\ of[r] = o}

InTable(o) == \E h \in Handle : objects[h] = o

\* A host object lives while a shared_ptr to it exists: in the table, in the
\* emulator, or in the local variable of a call in progress.
Alive(o) == \/ InTable(o)
            \/ o \in host
            \/ \E r \in Ref : of[r] = o /\ phase[r] \in {"read", "name", "release"}

Retain(o) == ref_count' = [ref_count EXCEPT ![o] = @ + 1]
Release(o) ==
  ref_count' = [ref_count EXCEPT ![o] = IF @ = 0 THEN MaxCount ELSE @ - 1]
Record(h, o) == owner' = IF up THEN [owner EXCEPT ![h] = o] ELSE owner
-----------------------------------------------------------------------------
Init ==
  /\ objects = [h \in Handle |-> NoObj]
  /\ next_handle = 1
  /\ made = {}
  /\ ref_count = [o \in Obj |-> 0]
  /\ guest_object = [o \in Obj |-> NoAddr]
  /\ host = {}
  /\ up = TRUE
  /\ owner = [h \in Handle |-> NoObj]
  /\ phase = [r \in Ref |-> "none"]
  /\ of = [r \in Ref |-> NoObj]
  /\ via = [r \in Ref |-> 1]
  /\ addr = [r \in Ref |-> NoAddr]
  /\ scan = [r \in Ref |-> 1]

\* ObjectTable::add_object of an object just constructed (ref_count_ 1).
AddObject(o) ==
  /\ o \in Obj \ made
  /\ next_handle \in Handle
  /\ made' = made \cup {o}
  /\ objects' = [objects EXCEPT ![next_handle] = o]
  /\ next_handle' = next_handle + 1
  /\ ref_count' = [ref_count EXCEPT ![o] = 1]
  /\ Record(next_handle, o)
  /\ UNCHANGED <<up, refVars>>

\* XKernel::create_event, create_thread, ...: the caller keeps the shared_ptr.
CreateHostObject(o) ==
  /\ up
  /\ AddObject(o)
  /\ host' = host \cup {o}
  /\ UNCHANGED guest_object

\* HLE_ObCreateObject: only the table keeps the object; its body has an address.
CreateGuestObject(o) ==
  /\ AddObject(o)
  /\ guest_object' = [guest_object EXCEPT ![o] = <<"guest", o>>]
  /\ UNCHANGED host

\* The emulator's own shared_ptr goes away (XKernel::shutdown, a local's scope).
HostDrop(o) ==
  /\ o \in host
  /\ host' = host \ {o}
  /\ UNCHANGED <<objects, next_handle, made, ref_count, guest_object, up, owner, refVars>>

MutCloseHandle(h) ==     \* the closed handle is the next one handed out
  /\ objects[h] # NoObj
  /\ objects' = [objects EXCEPT ![h] = NoObj]
  /\ next_handle' = h
  /\ Release(objects[h])
  /\ UNCHANGED <<made, guest_object, host, up, owner, refVars>>

\* ObjectTable::close_handle and remove_handle on a valid handle.
CloseHandle(h) ==
  /\ objects[h] # NoObj
  /\ objects' = [objects EXCEPT ![h] = NoObj]
  /\ Release(objects[h])
  /\ UNCHANGED <<next_handle, made, guest_object, host, up, owner, refVars>>

MutDuplicateHandle(h) ==     \* the new handle is not counted
  /\ objects[h] # NoObj
  /\ next_handle \in Handle
  /\ objects' = [objects EXCEPT ![next_handle] = objects[h]]
  /\ next_handle' = next_handle + 1
  /\ Record(next_handle, objects[h])
  /\ UNCHANGED <<made, ref_count, guest_object, host, up, refVars>>

\* ObjectTable::duplicate_handle (NtDuplicateObject) of a valid handle.
DuplicateHandle(h) ==
  /\ objects[h] # NoObj
  /\ next_handle \in Handle
  /\ ref_count[objects[h]] < MaxCount
  /\ objects' = [objects EXCEPT ![next_handle] = objects[h]]
  /\ next_handle' = next_handle + 1
  /\ Record(next_handle, objects[h])
  /\ Retain(objects[h])
  /\ UNCHANGED <<made, guest_object, host, up, refVars>>

\* ObjectTable::reference_object_by_handle, under the table's mutex.
ReferenceByHandle(r, h) ==
  /\ phase[r] = "none"
  /\ objects[h] # NoObj
  /\ ref_count[objects[h]] < MaxCount
  /\ Retain(objects[h])
  /\ phase' = [phase EXCEPT ![r] = "read"]
  /\ of' = [of EXCEPT ![r] = objects[h]]
  /\ via' = [via EXCEPT ![r] = h]
  /\ UNCHANGED <<tableVars, guest_object, addr, scan>>

\* HLE_ObReferenceObjectByHandle, the mutex released: read guest_object_ ...
NameRead(r) ==
  /\ phase[r] = "read"
  /\ IF guest_object[of[r]] = NoAddr
       THEN phase' = [phase EXCEPT ![r] = "name"] /\ UNCHANGED addr
       ELSE /\ phase' = [phase EXCEPT ![r] = "held"]
            /\ addr' = [addr EXCEPT ![r] = guest_object[of[r]]]
  /\ UNCHANGED <<tableVars, ref_count, guest_object, of, via, scan>>

\* ... and, when it was 0, write the synthetic address made from the handle.
NameWrite(r) ==
  /\ phase[r] = "name"
  /\ guest_object' = [guest_object EXCEPT ![of[r]] = Synthetic(via[r])]
  /\ addr' = [addr EXCEPT ![r] = Synthetic(via[r])]
  /\ phase' = [phase EXCEPT ![r] = "held"]
  /\ UNCHANGED <<tableVars, ref_count, of, via, scan>>

MutDerefStart(r) ==     \* the scan leaves the first handle out
  /\ phase[r] = "held"
  /\ phase' = [phase EXCEPT ![r] = "scan"]
  /\ scan' = [scan EXCEPT ![r] = 2]
  /\ UNCHANGED <<tableVars, ref_count, guest_object, of, via, addr>>

\* HLE_ObDereferenceObject(addr[r]): the guest gives the reference back.
DerefStart(r) ==
  /\ phase[r] = "held"
  /\ phase' = [phase EXCEPT ![r] = "scan"]
  /\ scan' = [scan EXCEPT ![r] = 1]
  /\ UNCHANGED <<tableVars, ref_count, guest_object, of, via, addr>>

Lookup(h) == IF h \in Handle THEN objects[h] ELSE NoObj

\* The object under the scan's handle has the address the guest passed.
DerefHit(r) ==
  /\ phase[r] = "scan"
  /\ Lookup(scan[r]) # NoObj
  /\ guest_object[Lookup(scan[r])] = addr[r]

MutDerefGivesUp(r) ==     \* the scan runs one handle too far
  phase[r] = "scan" /\ ~DerefHit(r) /\ scan[r] > ScanMax

\* The scan ends without a hit: a hole above ScanEarly, or the last handle.
DerefGivesUp(r) ==
  /\ phase[r] = "scan"
  /\ ~DerefHit(r)
  /\ \/ Lookup(scan[r]) = NoObj /\ scan[r] > ScanEarly
     \/ scan[r] = ScanMax

\* The call returns: its locals and the guest's pointer are gone.
Forget(r) ==
  /\ phase' = [phase EXCEPT ![r] = "none"]
  /\ of' = [of EXCEPT ![r] = NoObj]
  /\ via' = [via EXCEPT ![r] = 1]
  /\ addr' = [addr EXCEPT ![r] = NoAddr]
  /\ scan' = [scan EXCEPT ![r] = 1]

DerefFind(r) ==
  /\ DerefHit(r)
  /\ phase' = [phase EXCEPT ![r] = "release"]
  /\ of' = [of EXCEPT ![r] = Lookup(scan[r])]
  /\ scan' = [scan EXCEPT ![r] = 1]
  /\ UNCHANGED <<tableVars, ref_count, guest_object, via, addr>>

DerefMiss(r) ==
  /\ DerefGivesUp(r)
  /\ Forget(r)
  /\ UNCHANGED <<tableVars, ref_count, guest_object>>

DerefNext(r) ==
  /\ phase[r] = "scan"
  /\ ~DerefHit(r)
  /\ ~DerefGivesUp(r)
  /\ scan' = [scan EXCEPT ![r] = @ + 1]
  /\ UNCHANGED <<tableVars, ref_count, guest_object, phase, of, via, addr>>

\* obj->release() on the shared_ptr the scan got, the mutex long released.
DerefRelease(r) ==
  /\ phase[r] = "release"
  /\ Release(of[r])
  /\ Forget(r)
  /\ UNCHANGED <<tableVars, guest_object>>

\* ObjectTable::clear (KernelState::shutdown).  Guest threads still run then:
\* Emulator::shutdown stops the scheduler after XKernel::shutdown.
Clear ==
  /\ up
  /\ objects' = [h \in Handle |-> NoObj]
  /\ next_handle' = 1
  /\ ref_count' = [o \in Obj |->
        LET n == Cardinality(HandlesOf(o))
        IN  IF n <= ref_count[o] THEN ref_count[o] - n
                                 ELSE MaxCount + 1 + ref_count[o] - n]
  /\ up' = FALSE
  /\ UNCHANGED <<made, guest_object, host, owner, refVars>>

Next ==
  \/ \E o \in Obj : CreateHostObject(o) \/ CreateGuestObject(o) \/ HostDrop(o)
  \/ \E h \in Handle : CloseHandle(h) \/ DuplicateHandle(h)
  \/ \E r \in Ref, h \in Handle : ReferenceByHandle(r, h)
  \/ \E r \in Ref : \/ NameRead(r) \/ NameWrite(r)
                    \/ DerefStart(r) \/ DerefFind(r) \/ DerefMiss(r)
                    \/ DerefNext(r) \/ DerefRelease(r)
  \/ Clear

Spec == Init /\ [][Next]_vars
-----------------------------------------------------------------------------
TypeOK ==
  /\ objects \in [Handle -> Obj \cup {NoObj}]
  /\ next_handle \in 1..(MaxHandle + 1)
  /\ made \subseteq Obj
  /\ ref_count \in [Obj -> 0..MaxCount]
  /\ guest_object \in [Obj -> Addr]
  /\ host \subseteq made
  /\ up \in BOOLEAN
  /\ owner \in [Handle -> Obj \cup {NoObj}]
  /\ phase \in [Ref -> Phases]
  /\ of \in [Ref -> Obj \cup {NoObj}]
  /\ via \in [Ref -> Handle]
  /\ addr \in [Ref -> Addr]
  /\ scan \in [Ref -> 1..ScanMax]

\* An object in the table is never counted below what refers to it: one for
\* every open handle and one for every guest reference not yet given back, the
\* calls in progress included.  release() on it therefore never takes the
\* 32-bit ref_count_ below zero, whatever the interleaving of the calls.
RefCountCovers ==
  \A o \in Obj : InTable(o) =>
     ref_count[o] >= Cardinality(HandlesOf(o)) + Cardinality(RefsOn(o))

\* ObDereferenceObject finds its object by comparing guest addresses over the
\* whole table, so it could release another object than the one referenced.
DerefFindsItsOwn ==
  [][\A r \in Ref : DerefFind(r) => Lookup(scan[r]) = of[r]]_vars

\* A handle the guest still remembers after closing it never resolves again
\* while the table is up: allocate_handle never goes back.
ClosedHandleStaysClosed ==
  [][up => \A h \in Handle :
        (owner[h] # NoObj /\ objects[h] = NoObj) => objects'[h] = NoObj]_vars

\* While an object has had one handle only, its count is exact: no reference
\* call interleaved with another one leaks a count.
SingleHandleExact ==
  \A o \in Obj : (up /\ Cardinality({h \in Handle : owner[h] = o}) = 1 /\ InTable(o))
                   => ref_count[o] = 1 + Cardinality(RefsOn(o))

\* xobject.h: "Objects survive handle close if additional references exist".
ReferencedObjectSurvives ==
  \A r \in Ref : phase[r] = "held" => Alive(of[r])
=============================================================================
