------------------------- MODULE ObjectTableProofs -------------------------
(***************************************************************************)
(* The reference counts of the handle table, proved for every number of    *)
(* objects, handles and guest references.                                  *)
(***************************************************************************)
EXTENDS ObjectTable, FileIo, FiniteSetTheorems, WellFoundedInduction, SequenceTheorems, TLAPS

\* Handles above next_handle were never given out, so nothing is under them.
FreshHandles ==
  /\ \A h \in Handle : h >= next_handle => objects[h] = NoObj
  /\ up => \A h \in Handle : h >= next_handle => owner[h] = NoObj

\* What the table and the calls in progress refer to was constructed.
MadeOnly ==
  /\ \A h \in Handle : objects[h] \in made \cup {NoObj}
  /\ \A r \in Ref : phase[r] # "none" => of[r] \in made

GuestAddr(o) == <<"guest", o>>

\* An entry is the object its handle was allocated to; after the clear only
\* guest-made objects are added.
TableOwn ==
  \A h \in Handle : objects[h] # NoObj =>
     IF up THEN owner[h] = objects[h]
           ELSE guest_object[objects[h]] = GuestAddr(objects[h])

\* A guest address names one object: the one whose handle it was made from.
IsAddrOf(own, a, o) == \/ a = GuestAddr(o)
                       \/ \E h \in Handle : own[h] = o /\ a = Synthetic(h)

AddrOwn ==
  /\ \A o \in Obj : guest_object[o] = NoAddr \/ IsAddrOf(owner, guest_object[o], o)
  /\ \A r \in Ref : phase[r] \in {"held", "scan"} => IsAddrOf(owner, addr[r], of[r])

\* A call about to name an object holds a handle that was allocated to it.
ViaOwn ==
  \A r \in Ref :
    /\ phase[r] = "read" => \/ owner[via[r]] = of[r]
                            \/ guest_object[of[r]] = GuestAddr(of[r])
    /\ phase[r] = "name" => /\ owner[via[r]] = of[r]
                            /\ guest_object[of[r]] # GuestAddr(of[r])

IInv == TypeOK /\ FreshHandles /\ MadeOnly /\ TableOwn /\ AddrOwn /\ ViaOwn
        /\ RefCountCovers
-----------------------------------------------------------------------------
LEMMA SyntheticInjective ==
  \A g, h \in Handle : Synthetic(g) = Synthetic(h) => g = h
<1>1. \A h \in Handle : h % AddrSlots = h
  BY ObjectTableAssumption DEF Handle
<1>. QED BY <1>1 DEF Synthetic

\* Two objects share no address.
LEMMA AddressNamesOneObject ==
  ASSUME NEW a, NEW x \in Obj, NEW y \in Obj,
         IsAddrOf(owner, a, x), IsAddrOf(owner, a, y)
  PROVE  x = y
BY SyntheticInjective DEF IsAddrOf, GuestAddr, Synthetic

LEMMA CountsFinite ==
  ASSUME NEW o
  PROVE  /\ IsFiniteSet(HandlesOf(o)) /\ Cardinality(HandlesOf(o)) \in Nat
         /\ IsFiniteSet(RefsOn(o)) /\ Cardinality(RefsOn(o)) \in Nat
<1>1. IsFiniteSet(Handle)
  BY FS_Interval, ObjectTableAssumption DEF Handle
<1>2. HandlesOf(o) \subseteq Handle /\ RefsOn(o) \subseteq Ref
  BY DEF HandlesOf, RefsOn
<1>3. IsFiniteSet(HandlesOf(o)) /\ IsFiniteSet(RefsOn(o))
  BY <1>1, <1>2, ObjectTableAssumption, FS_Subset
<1>. QED BY <1>3, FS_CardinalityType

LEMMA CardPlusOne ==
  ASSUME NEW S, IsFiniteSet(S), NEW x, x \notin S
  PROVE  Cardinality(S \cup {x}) = Cardinality(S) + 1
BY FS_AddElement

LEMMA CardMinusOne ==
  ASSUME NEW S, IsFiniteSet(S), NEW x, x \in S
  PROVE  Cardinality(S \ {x}) = Cardinality(S) - 1
BY FS_RemoveElement

LEMMA InitIInv == Init => IInv
<1>. SUFFICES ASSUME Init PROVE IInv
  OBVIOUS
<1>1. TypeOK
  BY ObjectTableAssumption DEF Init, TypeOK, Handle, Addr, Phases
<1>2. FreshHandles /\ MadeOnly /\ TableOwn /\ AddrOwn /\ ViaOwn
  BY DEF Init, FreshHandles, MadeOnly, TableOwn, AddrOwn, ViaOwn
<1>3. RefCountCovers
  BY ObjectTableAssumption DEF Init, RefCountCovers, InTable
<1>. QED BY <1>1, <1>2, <1>3 DEF IInv

LEMMA NextHandleFree ==
  ASSUME IInv, next_handle \in Handle
  PROVE  /\ objects[next_handle] = NoObj
         /\ NoObj \notin Obj
         /\ up => owner[next_handle] = NoObj
<1>1. next_handle >= next_handle
  BY DEF Handle
<1>. QED BY <1>1, ObjectTableAssumption DEF IInv, FreshHandles

\* A step that opens handle n on object o: the n-th handle is new.
LEMMA NewHandleCount ==
  ASSUME IInv, NEW o \in Obj, next_handle \in Handle,
         objects' = [objects EXCEPT ![next_handle] = o]
  PROVE  /\ Cardinality(HandlesOf(o)') = Cardinality(HandlesOf(o)) + 1
         /\ \A x \in Obj \ {o} : HandlesOf(x)' = HandlesOf(x)
<1>1. objects[next_handle] = NoObj /\ NoObj \notin Obj
  BY NextHandleFree
<1>2. next_handle \notin HandlesOf(o)
  BY <1>1 DEF HandlesOf
<1>3. HandlesOf(o)' = HandlesOf(o) \cup {next_handle}
  BY DEF HandlesOf, IInv, TypeOK
<1>4. \A x \in Obj \ {o} : HandlesOf(x)' = HandlesOf(x)
  BY <1>1 DEF HandlesOf, IInv, TypeOK
<1>. QED BY <1>2, <1>3, <1>4, CardPlusOne, CountsFinite

LEMMA AddObjectSame ==
  ASSUME IInv, NEW o \in Obj, AddObject(o),
         guest_object' \in [Obj -> Addr],
         \A x \in Obj \ {o} : guest_object'[x] = guest_object[x],
         \/ up /\ guest_object'[o] = guest_object[o]
         \/ guest_object'[o] = GuestAddr(o),
         host' \subseteq made'
  PROVE  IInv'
<1>. USE DEF AddObject, Record, refVars
<1>0. o \notin made /\ next_handle \in Handle /\ NoObj \notin Obj /\ objects[next_handle] = NoObj
  BY NextHandleFree
<1>1. TypeOK'
  <2>1. /\ objects' \in [Handle -> Obj \cup {NoObj}]
        /\ owner' \in [Handle -> Obj \cup {NoObj}]
        /\ made' \subseteq Obj /\ up' \in BOOLEAN
    BY <1>0 DEF IInv, TypeOK
  <2>2. next_handle' \in 1..(MaxHandle + 1)
    BY <1>0, ObjectTableAssumption DEF Handle
  <2>3. ref_count' \in [Obj -> 0..MaxCount]
    BY ObjectTableAssumption DEF IInv, TypeOK
  <2>4. /\ phase' \in [Ref -> Phases] /\ of' \in [Ref -> Obj \cup {NoObj}]
        /\ via' \in [Ref -> Handle] /\ addr' \in [Ref -> Addr]
        /\ scan' \in [Ref -> 1..ScanMax]
    BY DEF IInv, TypeOK
  <2>. QED BY <2>1, <2>2, <2>3, <2>4 DEF TypeOK
<1>2. FreshHandles'
  BY <1>0 DEF IInv, TypeOK, FreshHandles, Handle
<1>3. MadeOnly'
  BY <1>0 DEF IInv, TypeOK, MadeOnly
<1>4. TableOwn'
  <2>. SUFFICES ASSUME NEW h \in Handle, objects'[h] # NoObj
                PROVE IF up' THEN owner'[h] = objects'[h]
                             ELSE guest_object'[objects'[h]] = GuestAddr(objects'[h])
    BY DEF TableOwn
  <2>1. CASE h = next_handle
    BY <2>1, <1>0 DEF IInv, TypeOK
  <2>2. CASE h # next_handle
    <3>1. objects'[h] = objects[h] /\ owner'[h] = owner[h] /\ objects[h] \in made
      BY <2>2 DEF IInv, TypeOK, MadeOnly
    <3>. QED BY <3>1, <1>0 DEF IInv, TypeOK, TableOwn
  <2>. QED BY <2>1, <2>2
<1>5. \A h \in Handle : owner[h] # NoObj => owner'[h] = owner[h]
  BY <1>0 DEF IInv, TypeOK, FreshHandles, Handle
<1>6. \A a : \A x \in Obj : IsAddrOf(owner, a, x) => IsAddrOf(owner', a, x)
  BY <1>5, <1>0 DEF IsAddrOf
<1>7. \A r \in Ref : phase[r] # "none" => of[r] \in Obj /\ of[r] # o /\ of[r] # NoObj
  BY <1>0 DEF IInv, TypeOK, MadeOnly
<1>8. AddrOwn'
  <2>1. \A x \in Obj : guest_object'[x] = NoAddr \/ IsAddrOf(owner', guest_object'[x], x)
    <3>. SUFFICES ASSUME NEW x \in Obj
                  PROVE guest_object'[x] = NoAddr \/ IsAddrOf(owner', guest_object'[x], x)
      OBVIOUS
    <3>1. CASE guest_object'[x] = guest_object[x]
      BY <3>1, <1>6 DEF IInv, AddrOwn
    <3>2. CASE guest_object'[x] = GuestAddr(x)
      BY <3>2 DEF IsAddrOf
    <3>. QED BY <3>1, <3>2
  <2>2. \A r \in Ref : phase'[r] \in {"held", "scan"} => IsAddrOf(owner', addr'[r], of'[r])
    BY <1>6, <1>7 DEF IInv, AddrOwn
  <2>. QED BY <2>1, <2>2 DEF AddrOwn
<1>9. ViaOwn'
  BY <1>5, <1>7 DEF IInv, ViaOwn, TypeOK
<1>10. RefCountCovers'
  <2>. SUFFICES ASSUME NEW x \in Obj, InTable(x)'
                PROVE ref_count'[x] >= Cardinality(HandlesOf(x)') + Cardinality(RefsOn(x)')
    BY DEF RefCountCovers
  <2>1. RefsOn(x)' = RefsOn(x)
    BY DEF RefsOn
  <2>2. CASE x = o
    <3>1. HandlesOf(o) = {} /\ RefsOn(o) = {}
      BY <1>0 DEF IInv, MadeOnly, HandlesOf, RefsOn
    <3>2. Cardinality(HandlesOf(o)) = 0 /\ Cardinality(RefsOn(o)) = 0
      BY <3>1, FS_EmptySet
    <3>3. Cardinality(HandlesOf(o)') = Cardinality(HandlesOf(o)) + 1
      BY <1>0, NewHandleCount
    <3>4. ref_count'[o] = 1
      BY DEF IInv, TypeOK
    <3>. QED BY <2>1, <2>2, <3>2, <3>3, <3>4
  <2>3. CASE x # o
    <3>1. HandlesOf(x)' = HandlesOf(x)
      BY <1>0, <2>3, NewHandleCount
    <3>2. InTable(x)
      BY <2>3, <1>0 DEF InTable, IInv, TypeOK
    <3>. QED BY <2>1, <2>3, <3>1, <3>2 DEF IInv, TypeOK, RefCountCovers
  <2>. QED BY <2>2, <2>3
<1>. QED BY <1>1, <1>2, <1>3, <1>4, <1>8, <1>9, <1>10 DEF IInv

LEMMA CreateHostObjectIInv ==
  ASSUME IInv, NEW o \in Obj, CreateHostObject(o) PROVE IInv'
<1>1. AddObject(o) /\ up /\ guest_object' = guest_object /\ host' \subseteq made'
  BY DEF CreateHostObject, AddObject, IInv, TypeOK
<1>. QED BY <1>1, AddObjectSame DEF IInv, TypeOK

LEMMA CreateGuestObjectIInv ==
  ASSUME IInv, NEW o \in Obj, CreateGuestObject(o) PROVE IInv'
<1>1. AddObject(o) /\ guest_object' = [guest_object EXCEPT ![o] = GuestAddr(o)]
                   /\ host' \subseteq made'
  BY DEF CreateGuestObject, AddObject, IInv, TypeOK, GuestAddr
<1>2. GuestAddr(o) \in Addr
  BY DEF GuestAddr, Addr
<1>. QED BY <1>1, <1>2, AddObjectSame DEF IInv, TypeOK

LEMMA HostDropIInv ==
  ASSUME IInv, NEW o \in Obj, HostDrop(o) PROVE IInv'
<1>. USE DEF HostDrop, refVars
<1>1. TypeOK'
  BY DEF IInv, TypeOK
<1>2. FreshHandles' /\ MadeOnly' /\ TableOwn' /\ AddrOwn' /\ ViaOwn'
  BY DEF IInv, FreshHandles, MadeOnly, TableOwn, AddrOwn, ViaOwn
<1>3. RefCountCovers'
  BY DEF IInv, RefCountCovers, InTable, HandlesOf, RefsOn
<1>. QED BY <1>1, <1>2, <1>3 DEF IInv

LEMMA CloseHandleIInv ==
  ASSUME IInv, NEW h \in Handle, CloseHandle(h) PROVE IInv'
<1>o. PICK o \in Obj : o = objects[h]
  BY DEF CloseHandle, IInv, TypeOK
<1>. USE DEF CloseHandle, Release, refVars
<1>0. o \in Obj /\ NoObj \notin Obj /\ o # NoObj
  BY <1>o, ObjectTableAssumption DEF IInv, TypeOK
<1>1. /\ h \in HandlesOf(o)
      /\ HandlesOf(o)' = HandlesOf(o) \ {h}
      /\ \A x \in Obj \ {o} : HandlesOf(x)' = HandlesOf(x)
  BY <1>o, <1>0 DEF HandlesOf, IInv, TypeOK
<1>2. Cardinality(HandlesOf(o)') = Cardinality(HandlesOf(o)) - 1
  BY <1>1, CountsFinite, CardMinusOne
<1>3. \A x \in Obj : RefsOn(x)' = RefsOn(x)
  BY DEF RefsOn
<1>4. \A x \in Obj : InTable(x)' => InTable(x)
  BY <1>o, <1>0 DEF InTable, IInv, TypeOK
<1>5. ref_count[o] >= Cardinality(HandlesOf(o)) + Cardinality(RefsOn(o))
  BY <1>o, <1>0 DEF IInv, RefCountCovers, InTable
<1>6. /\ ref_count[o] \in 0..MaxCount /\ ref_count[o] # 0
  <2>1. Cardinality(HandlesOf(o)) # 0
    BY <1>1, CountsFinite, FS_EmptySet
  <2>2. ref_count[o] \in 0..MaxCount
    BY <1>o, <1>0 DEF IInv, TypeOK
  <2>. QED BY <2>1, <2>2, <1>5, CountsFinite
<1>7. TypeOK'
  <2>1. ref_count' \in [Obj -> 0..MaxCount]
    BY <1>o, <1>0, <1>6, ObjectTableAssumption DEF IInv, TypeOK
  <2>. QED BY <2>1, <1>o, <1>0 DEF IInv, TypeOK
<1>8. FreshHandles' /\ MadeOnly' /\ TableOwn' /\ AddrOwn' /\ ViaOwn'
  BY DEF IInv, TypeOK, FreshHandles, MadeOnly, TableOwn, AddrOwn, ViaOwn
<1>9. RefCountCovers'
  <2>. SUFFICES ASSUME NEW x \in Obj, InTable(x)'
                PROVE ref_count'[x] >= Cardinality(HandlesOf(x)') + Cardinality(RefsOn(x)')
    BY DEF RefCountCovers
  <2>1. CASE x = o
    <3>1. ref_count'[o] = ref_count[o] - 1
      BY <1>o, <1>0, <1>6 DEF IInv, TypeOK
    <3>. QED BY <2>1, <3>1, <1>o, <1>0, <1>2, <1>3, <1>5, <1>6, CountsFinite
  <2>2. CASE x # o
    <3>1. ref_count'[x] = ref_count[x] /\ HandlesOf(x)' = HandlesOf(x)
      BY <2>2, <1>o, <1>0, <1>1 DEF IInv, TypeOK
    <3>. QED BY <3>1, <1>3, <1>4 DEF IInv, RefCountCovers
  <2>. QED BY <2>1, <2>2
<1>. QED BY <1>7, <1>8, <1>9 DEF IInv

LEMMA DuplicateHandleIInv ==
  ASSUME IInv, NEW h \in Handle, DuplicateHandle(h) PROVE IInv'
<1>o. PICK o \in Obj : o = objects[h]
  BY DEF DuplicateHandle, IInv, TypeOK
<1>. USE DEF DuplicateHandle, Retain, Record, refVars
<1>0. /\ o \in Obj /\ NoObj \notin Obj /\ o # NoObj
      /\ next_handle \in Handle /\ objects[next_handle] = NoObj
      /\ objects' = [objects EXCEPT ![next_handle] = o]
  BY <1>o, ObjectTableAssumption, NextHandleFree DEF IInv, TypeOK
<1>1. TypeOK'
  <2>1. next_handle' \in 1..(MaxHandle + 1)
    BY <1>o, <1>0, ObjectTableAssumption DEF Handle
  <2>2. ref_count' \in [Obj -> 0..MaxCount]
    BY <1>o, <1>0, ObjectTableAssumption DEF IInv, TypeOK
  <2>. QED BY <2>1, <2>2, <1>o, <1>0 DEF IInv, TypeOK
<1>2. FreshHandles'
  BY <1>o, <1>0 DEF IInv, TypeOK, FreshHandles, Handle
<1>3. MadeOnly'
  BY <1>o, <1>0 DEF IInv, TypeOK, MadeOnly
<1>4. TableOwn'
  BY <1>o, <1>0 DEF IInv, TypeOK, TableOwn
<1>5. \A g \in Handle : owner[g] # NoObj => owner'[g] = owner[g]
  BY <1>o, <1>0, NextHandleFree DEF IInv, TypeOK
<1>6. \A a : \A x \in Obj : IsAddrOf(owner, a, x) => IsAddrOf(owner', a, x)
  BY <1>5, <1>o, <1>0 DEF IsAddrOf
<1>7. \A r \in Ref : phase[r] # "none" => of[r] \in Obj /\ of[r] # NoObj
  BY <1>o, <1>0 DEF IInv, TypeOK, MadeOnly
<1>8. AddrOwn'
  BY <1>6, <1>7 DEF IInv, AddrOwn
<1>9. ViaOwn'
  BY <1>5, <1>7 DEF IInv, ViaOwn, TypeOK
<1>10. RefCountCovers'
  <2>. SUFFICES ASSUME NEW x \in Obj, InTable(x)'
                PROVE ref_count'[x] >= Cardinality(HandlesOf(x)') + Cardinality(RefsOn(x)')
    BY DEF RefCountCovers
  <2>1. RefsOn(x)' = RefsOn(x)
    BY DEF RefsOn
  <2>2. InTable(x)
    BY <1>o, <1>0 DEF InTable, IInv, TypeOK
  <2>3. ref_count[x] >= Cardinality(HandlesOf(x)) + Cardinality(RefsOn(x))
    BY <2>2 DEF IInv, RefCountCovers
  <2>4. CASE x = o
    <3>1. Cardinality(HandlesOf(o)') = Cardinality(HandlesOf(o)) + 1
      BY <1>o, <1>0, NewHandleCount
    <3>2. ref_count'[o] = ref_count[o] + 1 /\ ref_count[o] \in Nat
      BY <1>o, <1>0 DEF IInv, TypeOK
    <3>. QED BY <2>1, <2>3, <2>4, <3>1, <3>2, CountsFinite
  <2>5. CASE x # o
    <3>1. HandlesOf(x)' = HandlesOf(x)
      BY <1>o, <1>0, <2>5, NewHandleCount
    <3>2. ref_count'[x] = ref_count[x]
      BY <1>o, <1>0, <2>5 DEF IInv, TypeOK
    <3>. QED BY <2>1, <2>3, <3>1, <3>2
  <2>. QED BY <2>4, <2>5
<1>. QED BY <1>1, <1>2, <1>3, <1>4, <1>8, <1>9, <1>10 DEF IInv

LEMMA ReferenceByHandleIInv ==
  ASSUME IInv, NEW r \in Ref, NEW h \in Handle, ReferenceByHandle(r, h) PROVE IInv'
<1>o. PICK o \in Obj : o = objects[h]
  BY DEF ReferenceByHandle, IInv, TypeOK
<1>. USE DEF ReferenceByHandle, Retain, tableVars
<1>0. /\ o # NoObj /\ o \in made /\ NoObj \notin Obj
      /\ IF up THEN owner[h] = o ELSE guest_object[o] = GuestAddr(o)
  BY <1>o, ObjectTableAssumption DEF IInv, MadeOnly, TableOwn
<1>1. TypeOK'
  <2>1. ref_count' \in [Obj -> 0..MaxCount]
    BY <1>o, ObjectTableAssumption DEF IInv, TypeOK
  <2>. QED BY <2>1, <1>o DEF IInv, TypeOK, Phases
<1>2. FreshHandles' /\ MadeOnly' /\ TableOwn'
  BY <1>o, <1>0 DEF IInv, TypeOK, FreshHandles, MadeOnly, TableOwn
<1>3. AddrOwn' /\ ViaOwn'
  BY <1>o, <1>0 DEF IInv, TypeOK, AddrOwn, ViaOwn
<1>4. RefsOn(o)' = RefsOn(o) \cup {r} /\ r \notin RefsOn(o)
  BY <1>o DEF RefsOn, IInv, TypeOK
<1>5. \A x \in Obj \ {o} : RefsOn(x)' = RefsOn(x)
  BY <1>o DEF RefsOn, IInv, TypeOK
<1>6. \A x \in Obj : HandlesOf(x)' = HandlesOf(x) /\ InTable(x)' = InTable(x)
  BY DEF HandlesOf, InTable
<1>7. RefCountCovers'
  <2>. SUFFICES ASSUME NEW x \in Obj, InTable(x)'
                PROVE ref_count'[x] >= Cardinality(HandlesOf(x)') + Cardinality(RefsOn(x)')
    BY DEF RefCountCovers
  <2>1. ref_count[x] >= Cardinality(HandlesOf(x)) + Cardinality(RefsOn(x))
    BY <1>6 DEF IInv, RefCountCovers
  <2>2. CASE x = o
    <3>1. Cardinality(RefsOn(o)') = Cardinality(RefsOn(o)) + 1
      BY <1>4, CountsFinite, CardPlusOne
    <3>2. ref_count'[o] = ref_count[o] + 1 /\ ref_count[o] \in Nat
      BY <1>o DEF IInv, TypeOK
    <3>. QED BY <1>6, <2>1, <2>2, <3>1, <3>2, CountsFinite
  <2>3. CASE x # o
    BY <1>o, <1>5, <1>6, <2>1, <2>3 DEF IInv, TypeOK
  <2>. QED BY <2>2, <2>3
<1>. QED BY <1>1, <1>2, <1>3, <1>7 DEF IInv

\* A step of one reference's call that leaves the table, the counts and what
\* the references are on alone.
LEMMA CallStepIInv ==
  ASSUME IInv, TypeOK', UNCHANGED <<tableVars, ref_count, of>>,
         \A x \in Ref : phase'[x] = "none" <=> phase[x] = "none",
         TableOwn', AddrOwn', ViaOwn'
  PROVE  IInv'
<1>1. FreshHandles' /\ MadeOnly'
  BY DEF tableVars, IInv, FreshHandles, MadeOnly
<1>2. \A o \in Obj : /\ RefsOn(o)' = RefsOn(o) /\ HandlesOf(o)' = HandlesOf(o)
                     /\ InTable(o)' = InTable(o)
  BY DEF RefsOn, HandlesOf, InTable, tableVars
<1>3. RefCountCovers'
  BY <1>2 DEF IInv, RefCountCovers
<1>. QED BY <1>1, <1>3 DEF IInv

LEMMA NameReadIInv ==
  ASSUME IInv, NEW r \in Ref, NameRead(r) PROVE IInv'
<1>. USE DEF NameRead, tableVars
<1>1. of[r] \in Obj /\ NoObj \notin Obj
  BY ObjectTableAssumption DEF IInv, MadeOnly, TypeOK
<1>2. TypeOK'
  BY <1>1 DEF IInv, TypeOK, Phases
<1>3. TableOwn'
  BY DEF IInv, TableOwn
<1>4. AddrOwn'
  BY <1>1 DEF IInv, TypeOK, AddrOwn
<1>5. ViaOwn'
  BY <1>1 DEF IInv, TypeOK, ViaOwn, GuestAddr, NoAddr
<1>6. \A x \in Ref : phase'[x] = "none" <=> phase[x] = "none"
  BY DEF IInv, TypeOK
<1>. QED BY <1>2, <1>3, <1>4, <1>5, <1>6, CallStepIInv

LEMMA NameWriteIInv ==
  ASSUME IInv, NEW r \in Ref, NameWrite(r) PROVE IInv'
<1>. USE DEF NameWrite, tableVars
<1>1. /\ of[r] \in Obj /\ via[r] \in Handle /\ owner[via[r]] = of[r]
      /\ guest_object[of[r]] # GuestAddr(of[r])
  BY DEF IInv, MadeOnly, TypeOK, ViaOwn
<1>2. IsAddrOf(owner, Synthetic(via[r]), of[r])
  BY <1>1 DEF IsAddrOf
<1>3. Synthetic(via[r]) # GuestAddr(of[r])
  BY DEF Synthetic, GuestAddr
<1>4. TypeOK'
  <2>1. Synthetic(via[r]) \in Addr
    BY <1>1 DEF Addr
  <2>. QED BY <2>1 DEF IInv, TypeOK, Phases
<1>5. TableOwn'
  BY <1>1 DEF IInv, TypeOK, TableOwn
<1>6. AddrOwn'
  BY <1>1, <1>2 DEF IInv, TypeOK, AddrOwn
<1>7. ViaOwn'
  BY <1>1, <1>3 DEF IInv, TypeOK, ViaOwn
<1>8. \A x \in Ref : phase'[x] = "none" <=> phase[x] = "none"
  BY DEF IInv, TypeOK
<1>. QED BY <1>4, <1>5, <1>6, <1>7, <1>8, CallStepIInv

LEMMA DerefStartIInv ==
  ASSUME IInv, NEW r \in Ref, DerefStart(r) PROVE IInv'
<1>. USE DEF DerefStart, tableVars
<1>1. TypeOK'
  BY ObjectTableAssumption DEF IInv, TypeOK, Phases
<1>2. TableOwn' /\ AddrOwn' /\ ViaOwn'
  BY DEF IInv, TypeOK, TableOwn, AddrOwn, ViaOwn
<1>3. \A x \in Ref : phase'[x] = "none" <=> phase[x] = "none"
  BY DEF IInv, TypeOK
<1>. QED BY <1>1, <1>2, <1>3, CallStepIInv

LEMMA DerefNextIInv ==
  ASSUME IInv, NEW r \in Ref, DerefNext(r) PROVE IInv'
<1>. USE DEF DerefNext, tableVars
<1>1. TypeOK'
  BY ObjectTableAssumption DEF IInv, TypeOK, DerefGivesUp
<1>2. TableOwn' /\ AddrOwn' /\ ViaOwn'
  BY DEF IInv, TableOwn, AddrOwn, ViaOwn
<1>. QED BY <1>1, <1>2, CallStepIInv

\* The object a dereference finds is the one its reference is on.
LEMMA FindsItsOwn ==
  ASSUME IInv, NEW r \in Ref, DerefHit(r)
  PROVE  /\ Lookup(scan[r]) = of[r] /\ of[r] \in Obj
<1>1. /\ Lookup(scan[r]) \in Obj /\ of[r] \in Obj
      /\ guest_object[Lookup(scan[r])] = addr[r]
  BY DEF DerefHit, Lookup, IInv, TypeOK, MadeOnly
<1>2. IsAddrOf(owner, addr[r], of[r]) /\ addr[r] # NoAddr
  BY DEF DerefHit, IInv, AddrOwn, IsAddrOf, GuestAddr, Synthetic, NoAddr
<1>3. IsAddrOf(owner, addr[r], Lookup(scan[r]))
  BY <1>1, <1>2 DEF IInv, AddrOwn
<1>. QED BY <1>1, <1>2, <1>3, AddressNamesOneObject

LEMMA DerefFindIInv ==
  ASSUME IInv, NEW r \in Ref, DerefFind(r) PROVE IInv'
<1>. USE DEF DerefFind, tableVars
<1>1. of' = of
  BY FindsItsOwn DEF IInv, TypeOK
<1>2. phase[r] = "scan"
  BY DEF DerefHit
<1>3. TypeOK'
  BY <1>1, ObjectTableAssumption DEF IInv, TypeOK, Phases
<1>4. TableOwn' /\ AddrOwn' /\ ViaOwn'
  BY <1>1 DEF IInv, TypeOK, TableOwn, AddrOwn, ViaOwn
<1>5. \A x \in Ref : phase'[x] = "none" <=> phase[x] = "none"
  BY <1>2 DEF IInv, TypeOK
<1>. QED BY <1>1, <1>3, <1>4, <1>5, CallStepIInv

LEMMA DerefMissIInv ==
  ASSUME IInv, NEW r \in Ref, DerefMiss(r) PROVE IInv'
<1>. USE DEF DerefMiss, Forget, tableVars
<1>1. TypeOK'
  BY ObjectTableAssumption DEF IInv, TypeOK, Phases, Handle, Addr
<1>2. FreshHandles' /\ MadeOnly' /\ TableOwn' /\ AddrOwn' /\ ViaOwn'
  BY DEF IInv, TypeOK, FreshHandles, MadeOnly, TableOwn, AddrOwn, ViaOwn
<1>3. RefCountCovers'
  <2>. SUFFICES ASSUME NEW x \in Obj, InTable(x)'
                PROVE ref_count'[x] >= Cardinality(HandlesOf(x)') + Cardinality(RefsOn(x)')
    BY DEF RefCountCovers
  <2>1. HandlesOf(x)' = HandlesOf(x) /\ InTable(x)
    BY DEF HandlesOf, InTable
  <2>2. RefsOn(x)' \subseteq RefsOn(x)
    BY DEF RefsOn, IInv, TypeOK
  <2>3. Cardinality(RefsOn(x)') <= Cardinality(RefsOn(x)) /\ Cardinality(RefsOn(x)') \in Nat
    BY <2>2, CountsFinite, FS_Subset, FS_CardinalityType
  <2>4. ref_count[x] >= Cardinality(HandlesOf(x)) + Cardinality(RefsOn(x)) /\ ref_count[x] \in Nat
    BY <2>1 DEF IInv, TypeOK, RefCountCovers
  <2>. QED BY <2>1, <2>3, <2>4, CountsFinite
<1>. QED BY <1>1, <1>2, <1>3 DEF IInv

LEMMA DerefReleaseIInv ==
  ASSUME IInv, NEW r \in Ref, DerefRelease(r) PROVE IInv'
<1>o. PICK o \in Obj : o = of[r]
  BY DEF DerefRelease, IInv, TypeOK, MadeOnly
<1>. USE DEF DerefRelease, Release, Forget, tableVars
<1>1. TypeOK'
  <2>1. ref_count' \in [Obj -> 0..MaxCount]
    BY <1>o, ObjectTableAssumption DEF IInv, TypeOK
  <2>. QED BY <2>1, ObjectTableAssumption DEF IInv, TypeOK, Phases, Handle, Addr
<1>2. FreshHandles' /\ MadeOnly' /\ TableOwn' /\ AddrOwn' /\ ViaOwn'
  BY DEF IInv, TypeOK, FreshHandles, MadeOnly, TableOwn, AddrOwn, ViaOwn
<1>3. RefsOn(o)' = RefsOn(o) \ {r} /\ r \in RefsOn(o)
  BY <1>o DEF RefsOn, IInv, TypeOK
<1>4. \A x \in Obj \ {o} : RefsOn(x)' = RefsOn(x)
  BY <1>o DEF RefsOn, IInv, TypeOK
<1>5. \A x \in Obj : HandlesOf(x)' = HandlesOf(x) /\ InTable(x)' = InTable(x)
  BY DEF HandlesOf, InTable
<1>6. RefCountCovers'
  <2>. SUFFICES ASSUME NEW x \in Obj, InTable(x)'
                PROVE ref_count'[x] >= Cardinality(HandlesOf(x)') + Cardinality(RefsOn(x)')
    BY DEF RefCountCovers
  <2>1. ref_count[x] >= Cardinality(HandlesOf(x)) + Cardinality(RefsOn(x))
    BY <1>5 DEF IInv, RefCountCovers
  <2>2. CASE x = o
    <3>1. Cardinality(RefsOn(o)') = Cardinality(RefsOn(o)) - 1
      BY <1>3, CountsFinite, CardMinusOne
    <3>2. Cardinality(RefsOn(o)) # 0
      BY <1>3, CountsFinite, FS_EmptySet
    <3>3. ref_count[o] \in Nat /\ ref_count[o] # 0
      BY <2>1, <2>2, <3>2, CountsFinite DEF IInv, TypeOK
    <3>4. ref_count'[o] = ref_count[o] - 1
      BY <1>o, <3>3 DEF IInv, TypeOK
    <3>. QED BY <1>5, <2>1, <2>2, <3>1, <3>3, <3>4, CountsFinite
  <2>3. CASE x # o
    BY <1>o, <1>4, <1>5, <2>1, <2>3 DEF IInv, TypeOK
  <2>. QED BY <2>2, <2>3
<1>. QED BY <1>1, <1>2, <1>6 DEF IInv

LEMMA ClearIInv ==
  ASSUME IInv, Clear PROVE IInv'
<1>. USE DEF Clear, refVars
<1>1. \A o \in Obj : /\ Cardinality(HandlesOf(o)) \in Nat
                     /\ Cardinality(HandlesOf(o)) <= ref_count[o]
  <2>. SUFFICES ASSUME NEW o \in Obj
                PROVE  /\ Cardinality(HandlesOf(o)) \in Nat
                       /\ Cardinality(HandlesOf(o)) <= ref_count[o]
    OBVIOUS
  <2>1. ref_count[o] \in Nat
    BY DEF IInv, TypeOK
  <2>2. CASE InTable(o)
    <3>1. ref_count[o] >= Cardinality(HandlesOf(o)) + Cardinality(RefsOn(o))
      BY <2>2 DEF IInv, RefCountCovers
    <3>. QED BY <2>1, <3>1, CountsFinite
  <2>3. CASE ~InTable(o)
    <3>1. HandlesOf(o) = {}
      BY <2>3 DEF InTable, HandlesOf
    <3>. QED BY <2>1, <3>1, FS_EmptySet
  <2>. QED BY <2>2, <2>3
<1>2. TypeOK'
  <2>1. ref_count' \in [Obj -> 0..MaxCount]
    <3>. SUFFICES ASSUME NEW o \in Obj PROVE ref_count'[o] \in 0..MaxCount
      OBVIOUS
    <3>1. ref_count'[o] = ref_count[o] - Cardinality(HandlesOf(o))
      BY <1>1
    <3>2. ref_count[o] \in 0..MaxCount
      BY DEF IInv, TypeOK
    <3>. QED BY <1>1, <3>1, <3>2, ObjectTableAssumption
  <2>2. next_handle' \in 1..(MaxHandle + 1)
    BY ObjectTableAssumption
  <2>3. objects' \in [Handle -> Obj \cup {NoObj}] /\ up' \in BOOLEAN
    OBVIOUS
  <2>. QED BY <2>1, <2>2, <2>3 DEF IInv, TypeOK
<1>3. FreshHandles' /\ MadeOnly' /\ TableOwn' /\ AddrOwn' /\ ViaOwn'
  BY DEF IInv, TypeOK, FreshHandles, MadeOnly, TableOwn, AddrOwn, ViaOwn
<1>4. RefCountCovers'
  BY ObjectTableAssumption DEF RefCountCovers, InTable
<1>. QED BY <1>2, <1>3, <1>4 DEF IInv

LEMMA StutterIInv ==
  ASSUME IInv, UNCHANGED vars PROVE IInv'
<1>. USE DEF vars
<1>1. TypeOK' /\ FreshHandles' /\ MadeOnly' /\ TableOwn'
  BY DEF IInv, TypeOK, FreshHandles, MadeOnly, TableOwn
<1>2. AddrOwn' /\ ViaOwn'
  BY DEF IInv, AddrOwn, ViaOwn
<1>3. RefCountCovers'
  BY DEF IInv, RefCountCovers, InTable, HandlesOf, RefsOn
<1>. QED BY <1>1, <1>2, <1>3 DEF IInv

LEMMA NextIInv == IInv /\ [Next]_vars => IInv'
<1>. SUFFICES ASSUME IInv, [Next]_vars PROVE IInv'
  OBVIOUS
<1>1. ASSUME NEW o \in Obj, CreateHostObject(o) \/ CreateGuestObject(o) \/ HostDrop(o)
      PROVE IInv'
  BY <1>1, CreateHostObjectIInv, CreateGuestObjectIInv, HostDropIInv
<1>2. ASSUME NEW h \in Handle, CloseHandle(h) \/ DuplicateHandle(h)
      PROVE IInv'
  BY <1>2, CloseHandleIInv, DuplicateHandleIInv
<1>3. ASSUME NEW r \in Ref, NEW h \in Handle, ReferenceByHandle(r, h)
      PROVE IInv'
  BY <1>3, ReferenceByHandleIInv
<1>4. ASSUME NEW r \in Ref,
             \/ NameRead(r) \/ NameWrite(r) \/ DerefStart(r) \/ DerefFind(r)
             \/ DerefMiss(r) \/ DerefNext(r) \/ DerefRelease(r)
      PROVE IInv'
  BY <1>4, NameReadIInv, NameWriteIInv, DerefStartIInv, DerefFindIInv,
     DerefMissIInv, DerefNextIInv, DerefReleaseIInv
<1>5. CASE Clear
  BY <1>5, ClearIInv
<1>6. CASE UNCHANGED vars
  BY <1>6, StutterIInv
<1>. QED BY <1>1, <1>2, <1>3, <1>4, <1>5, <1>6 DEF Next

THEOREM Inductive == Spec => []IInv
BY InitIInv, NextIInv, PTL DEF Spec
-----------------------------------------------------------------------------
\* Every variable of the handle table keeps its type; in particular the count
\* never leaves 0..MaxCount and the scan of ObDereferenceObject its range.
THEOREM TypeCorrect == Spec => []TypeOK
<1>1. IInv => TypeOK
  BY DEF IInv
<1>. QED BY <1>1, Inductive, PTL

\* ref_count_ of an object in the table is at least the handles open on it plus
\* the guest references outstanding: XObject::release never wraps it.
THEOREM CountsCover == Spec => []RefCountCovers
<1>1. IInv => RefCountCovers
  BY DEF IInv
<1>. QED BY <1>1, Inductive, PTL

\* HLE_ObDereferenceObject never releases another object than the one the
\* guest referenced, as long as no two handles share a synthetic address.
THEOREM DerefOwn == Spec => DerefFindsItsOwn
<1>1. IInv => [\A r \in Ref : DerefFind(r) => Lookup(scan[r]) = of[r]]_vars
  BY FindsItsOwn DEF DerefFind
<1>. QED BY <1>1, Inductive, PTL DEF DerefFindsItsOwn

\* While the table is up a closed handle never resolves again: next_handle_ is
\* above every handle it ever gave out.
THEOREM ClosedStaysClosed == Spec => ClosedHandleStaysClosed
<1>1. IInv /\ [Next]_vars =>
        [up => \A h \in Handle : (owner[h] # NoObj /\ objects[h] = NoObj)
                                    => objects'[h] = NoObj]_vars
  <2>. SUFFICES ASSUME IInv, Next, up, NEW h \in Handle,
                       owner[h] # NoObj, objects[h] = NoObj
                PROVE  objects'[h] = NoObj
    OBVIOUS
  <2>1. h # next_handle
    BY NextHandleFree
  <2>2. \A o \in Obj : AddObject(o) => objects'[h] = NoObj
    BY <2>1 DEF AddObject, IInv, TypeOK
  <2>3. \A g \in Handle : CloseHandle(g) \/ DuplicateHandle(g) => objects'[h] = NoObj
    BY <2>1 DEF CloseHandle, DuplicateHandle, IInv, TypeOK
  <2>4. UNCHANGED objects => objects'[h] = NoObj
    OBVIOUS
  <2>. QED BY <2>2, <2>3, <2>4 DEF Next, CreateHostObject, CreateGuestObject, HostDrop,
              ReferenceByHandle, NameRead, NameWrite, DerefStart, DerefFind, DerefMiss,
              DerefNext, DerefRelease, Clear, tableVars
<1>. QED BY <1>1, Inductive, PTL DEF Spec, ClosedHandleStaysClosed

-----------------------------------------------------------------------------
(* Exact counts.  ObDereferenceObject gives up at the first hole above      *)
(* ScanEarly, so a reference to an object above it may never be given back: *)
(* the counts are exact as long as no handle above ScanEarly is allocated.  *)

Short == MaxHandle <= ScanEarly /\ MaxHandle <= ScanMax

OwnedBy(o) == {h \in Handle : owner[h] = o}
One(o) == \E h \in Handle : OwnedBy(o) = {h}

\* Of an object that had one handle, everybody knows the same address, and a
\* dereference in progress has not scanned past it.
Named(r) == phase[r] \in {"held", "scan"} /\ One(of[r]) => addr[r] = guest_object[of[r]]
ScanBefore(r) == phase[r] = "scan" /\ InTable(of[r]) /\ One(of[r])
                   => \E h \in Handle : objects[h] = of[r] /\ scan[r] <= h
ExactOf(o) == One(o) /\ InTable(o) => ref_count[o] = 1 + Cardinality(RefsOn(o))

EInv == up => /\ \A h \in Handle : owner[h] \in made \cup {NoObj}
              /\ \A r \in Ref : Named(r) /\ ScanBefore(r)
              /\ \A o \in Obj : ExactOf(o)

\* A step that allocates no handle, closes none and counts nothing.
LEMMA ExactSame ==
  ASSUME EInv, UNCHANGED <<up, owner, made, objects, ref_count>>,
         up => \A r \in Ref : (Named(r) /\ ScanBefore(r))',
         \A o \in Obj : up /\ One(o) /\ InTable(o) => RefsOn(o)' = RefsOn(o)
  PROVE  EInv'
<1>1. \A o : One(o)' = One(o) /\ InTable(o)' = InTable(o) BY DEF One, OwnedBy, InTable
<1>2. up => \A o \in Obj : ExactOf(o)' BY <1>1 DEF EInv, ExactOf
<1>. QED BY <1>2 DEF EInv

\* What a step keeps of the references it is not about.
LEMMA OthersSame ==
  ASSUME EInv, up, UNCHANGED <<owner, objects>>, NEW r \in Ref,
         phase'[r] = phase[r], of'[r] = of[r], addr'[r] = addr[r], scan'[r] = scan[r],
         guest_object'[of[r]] = guest_object[of[r]]
  PROVE  (Named(r) /\ ScanBefore(r))'
BY DEF EInv, Named, ScanBefore, One, OwnedBy, InTable

LEMMA CallExact ==
  ASSUME IInv, EInv, NEW r \in Ref, NameRead(r) \/ DerefStart(r) PROVE EInv'
<1>. USE DEF tableVars
<1>1. \A o \in Obj : RefsOn(o)' = RefsOn(o)
  BY DEF NameRead, DerefStart, RefsOn, IInv, TypeOK
<1>2. ASSUME up, NEW x \in Ref PROVE (Named(x) /\ ScanBefore(x))'
  <2>1. CASE x # r
    BY <1>2, <2>1, OthersSame DEF NameRead, DerefStart, IInv, TypeOK
  <2>2. CASE x = r /\ NameRead(r)
    BY <1>2, <2>2 DEF NameRead, Named, ScanBefore, IInv, TypeOK
  <2>3. CASE x = r /\ DerefStart(r)
    <3>1. phase[r] = "held" /\ phase'[r] = "scan" /\ scan'[r] = 1 BY <2>3 DEF DerefStart, IInv, TypeOK
    <3>2. Named(r)' BY <1>2, <2>3, <3>1 DEF DerefStart, Named, EInv, One, OwnedBy
    <3>3. ScanBefore(r)'
      BY <1>2, <2>3, <3>1, ObjectTableAssumption DEF DerefStart, ScanBefore, InTable, Handle
    <3>. QED BY <2>3, <3>2, <3>3
  <2>. QED BY <2>1, <2>2, <2>3
<1>3. UNCHANGED <<up, owner, made, objects, ref_count>> BY DEF NameRead, DerefStart
<1>. QED BY <1>1, <1>2, <1>3, ExactSame

\* The one handle of an object gives all who name it the same address.
LEMMA NameWriteExact ==
  ASSUME IInv, EInv, NEW r \in Ref, NameWrite(r) PROVE EInv'
<1>. USE DEF NameWrite, tableVars
<1>1. \A o \in Obj : RefsOn(o)' = RefsOn(o) BY DEF RefsOn, IInv, TypeOK
<1>2. /\ of[r] \in Obj /\ via[r] \in Handle /\ owner[via[r]] = of[r]
      /\ guest_object[of[r]] # GuestAddr(of[r])
  BY DEF IInv, MadeOnly, TypeOK, ViaOwn
<1>3. ASSUME up, NEW x \in Ref PROVE (Named(x) /\ ScanBefore(x))'
  <2>1. CASE of[x] # of[r]
    BY <1>2, <1>3, <2>1, OthersSame DEF IInv, TypeOK
  <2>2. CASE x = r
    BY <1>2, <1>3, <2>2 DEF Named, ScanBefore, IInv, TypeOK
  <2>3. CASE x # r /\ of[x] = of[r]
    <3>1. phase'[x] = phase[x] /\ addr'[x] = addr[x] /\ of'[x] = of[x] /\ scan'[x] = scan[x]
          /\ guest_object'[of[x]] = Synthetic(via[r])
      BY <1>2, <2>3 DEF IInv, TypeOK
    <3>2. ASSUME phase[x] \in {"held", "scan"}, One(of[x]) PROVE addr[x] = Synthetic(via[r])
      <4>1. addr[x] # GuestAddr(of[r]) BY <1>2, <1>3, <2>3, <3>2 DEF EInv, Named
      <4>2. PICK h \in Handle : owner[h] = of[r] /\ addr[x] = Synthetic(h)
        BY <2>3, <3>2, <4>1 DEF IInv, AddrOwn, IsAddrOf
      <4>3. h = via[r] BY <1>2, <2>3, <3>2, <4>2 DEF One, OwnedBy
      <4>. QED BY <4>2, <4>3
    <3>3. Named(x)' BY <3>1, <3>2 DEF Named, One, OwnedBy
    <3>4. ScanBefore(x)' BY <1>3, <3>1 DEF EInv, ScanBefore, One, OwnedBy, InTable
    <3>. QED BY <3>3, <3>4
  <2>. QED BY <2>1, <2>2, <2>3
<1>. QED BY <1>1, <1>3, ExactSame

\* The scan reaches the one handle of its object, and stops there.
LEMMA ScanMeets ==
  ASSUME Short, IInv, EInv, up, NEW r \in Ref, phase[r] = "scan", ~DerefHit(r),
         InTable(of[r]), One(of[r])
  PROVE  ~DerefGivesUp(r) /\ \E h \in Handle : objects[h] = of[r] /\ scan[r] + 1 <= h
<1>1. PICK h \in Handle : objects[h] = of[r] /\ scan[r] <= h BY DEF EInv, ScanBefore
<1>2. of[r] \in Obj /\ of[r] # NoObj /\ scan[r] \in 1 .. ScanMax /\ addr[r] = guest_object[of[r]]
  BY ObjectTableAssumption DEF IInv, MadeOnly, TypeOK, EInv, Named
<1>3. scan[r] # h BY <1>1, <1>2 DEF DerefHit, Lookup
<1>4. h \in Nat /\ h <= MaxHandle /\ MaxHandle \in Nat /\ ScanEarly \in Nat /\ ScanMax \in Nat
  BY ObjectTableAssumption DEF Handle
<1>5. scan[r] + 1 <= h /\ scan[r] <= ScanEarly /\ scan[r] # ScanMax
  BY <1>1, <1>2, <1>3, <1>4 DEF Short
<1>6. scan[r] \in Nat BY <1>2, <1>4
<1>. QED BY <1>1, <1>4, <1>5, <1>6 DEF DerefGivesUp

LEMMA DerefExact ==
  ASSUME Short, IInv, EInv, NEW r \in Ref, DerefFind(r) \/ DerefNext(r) PROVE EInv'
<1>. USE DEF tableVars
<1>1. of' = of BY FindsItsOwn DEF DerefFind, DerefNext, IInv, TypeOK
<1>2. phase[r] = "scan" BY DEF DerefFind, DerefNext, DerefHit
<1>3. \A o \in Obj : RefsOn(o)' = RefsOn(o) BY <1>1, <1>2 DEF DerefFind, DerefNext, RefsOn, IInv, TypeOK
<1>4. UNCHANGED <<up, owner, made, objects, ref_count, guest_object, addr>> BY DEF DerefFind, DerefNext
<1>5. ASSUME up, NEW x \in Ref PROVE (Named(x) /\ ScanBefore(x))'
  <2>1. CASE x # r
    BY <1>1, <1>4, <1>5, <2>1, OthersSame DEF DerefFind, DerefNext, IInv, TypeOK
  <2>2. CASE x = r /\ DerefFind(r)
    BY <1>1, <2>2 DEF DerefFind, Named, ScanBefore, IInv, TypeOK
  <2>3. CASE x = r /\ DerefNext(r)
    <3>1. phase' = phase /\ scan'[r] = scan[r] + 1 /\ ~DerefHit(r) BY <2>3 DEF DerefNext, IInv, TypeOK
    <3>2. Named(r)' BY <1>1, <1>4, <1>5, <3>1 DEF EInv, Named, One, OwnedBy
    <3>3. InTable(of[r])' = InTable(of[r]) /\ One(of[r])' = One(of[r])
      BY <1>1, <1>4 DEF InTable, One, OwnedBy
    <3>4. ScanBefore(r)' BY <1>1, <1>2, <1>4, <1>5, <3>1, <3>3, ScanMeets DEF ScanBefore
    <3>. QED BY <2>3, <3>2, <3>4
  <2>. QED BY <2>1, <2>2, <2>3
<1>. QED BY <1>3, <1>4, <1>5, ExactSame

LEMMA MissExact ==
  ASSUME Short, IInv, EInv, NEW r \in Ref, DerefMiss(r) PROVE EInv'
<1>. USE DEF DerefMiss, Forget, tableVars
<1>1. phase[r] = "scan" /\ ~DerefHit(r) /\ DerefGivesUp(r) BY DEF DerefGivesUp
<1>2. up => ~(InTable(of[r]) /\ One(of[r])) BY <1>1, ScanMeets
<1>3. \A o \in Obj : up /\ One(o) /\ InTable(o) => RefsOn(o)' = RefsOn(o)
  BY <1>2 DEF RefsOn, IInv, TypeOK
<1>4. ASSUME up, NEW x \in Ref PROVE (Named(x) /\ ScanBefore(x))'
  <2>1. CASE x # r BY <1>4, <2>1, OthersSame DEF IInv, TypeOK
  <2>2. CASE x = r BY <2>2 DEF Named, ScanBefore, IInv, TypeOK
  <2>. QED BY <2>1, <2>2
<1>. QED BY <1>3, <1>4, ExactSame

LEMMA ReleaseExact ==
  ASSUME IInv, EInv, NEW r \in Ref, DerefRelease(r) PROVE EInv'
<1>. USE DEF DerefRelease, Release, Forget, tableVars
<1>o. PICK o \in Obj : o = of[r] BY DEF IInv, TypeOK, MadeOnly
<1>1. ASSUME up, NEW x \in Ref PROVE (Named(x) /\ ScanBefore(x))'
  <2>1. CASE x # r BY <1>1, <2>1, OthersSame DEF IInv, TypeOK
  <2>2. CASE x = r BY <2>2 DEF Named, ScanBefore, IInv, TypeOK
  <2>. QED BY <2>1, <2>2
<1>2. RefsOn(o)' = RefsOn(o) \ {r} /\ r \in RefsOn(o) BY <1>o DEF RefsOn, IInv, TypeOK
<1>3. \A x \in Obj \ {o} : RefsOn(x)' = RefsOn(x) /\ ref_count'[x] = ref_count[x]
  BY <1>o DEF RefsOn, IInv, TypeOK
<1>4. ASSUME up, NEW x \in Obj PROVE ExactOf(x)'
  <2>0. One(x)' = One(x) /\ InTable(x)' = InTable(x) BY DEF One, OwnedBy, InTable
  <2>1. CASE x # o BY <1>3, <1>4, <2>0, <2>1 DEF EInv, ExactOf
  <2>2. CASE x = o
    <3>. SUFFICES ASSUME One(o), InTable(o)
                  PROVE  ref_count'[o] = 1 + Cardinality(RefsOn(o)')
      BY <2>0, <2>2 DEF ExactOf
    <3>1. ref_count[o] = 1 + Cardinality(RefsOn(o)) BY <1>4 DEF EInv, ExactOf
    <3>2. Cardinality(RefsOn(o)') = Cardinality(RefsOn(o)) - 1 /\ Cardinality(RefsOn(o)) \in Nat
      BY <1>2, CountsFinite, CardMinusOne
    <3>3. ref_count'[o] = ref_count[o] - 1
      BY <1>o, <3>1, <3>2 DEF IInv, TypeOK
    <3>. QED BY <3>1, <3>2, <3>3
  <2>. QED BY <2>1, <2>2
<1>. QED BY <1>1, <1>4 DEF EInv

LEMMA ReferenceExact ==
  ASSUME IInv, EInv, NEW r \in Ref, NEW h \in Handle, ReferenceByHandle(r, h) PROVE EInv'
<1>. USE DEF ReferenceByHandle, Retain, tableVars
<1>o. PICK o \in Obj : o = objects[h] BY DEF IInv, TypeOK
<1>1. ASSUME up, NEW x \in Ref PROVE (Named(x) /\ ScanBefore(x))'
  <2>1. CASE x # r BY <1>1, <2>1, OthersSame DEF IInv, TypeOK
  <2>2. CASE x = r BY <2>2 DEF Named, ScanBefore, IInv, TypeOK
  <2>. QED BY <2>1, <2>2
<1>2. RefsOn(o)' = RefsOn(o) \cup {r} /\ r \notin RefsOn(o) BY <1>o DEF RefsOn, IInv, TypeOK
<1>3. \A x \in Obj \ {o} : RefsOn(x)' = RefsOn(x) /\ ref_count'[x] = ref_count[x]
  BY <1>o DEF RefsOn, IInv, TypeOK
<1>4. ASSUME up, NEW x \in Obj PROVE ExactOf(x)'
  <2>0. One(x)' = One(x) /\ InTable(x)' = InTable(x) BY DEF One, OwnedBy, InTable
  <2>1. CASE x # o BY <1>3, <1>4, <2>0, <2>1 DEF EInv, ExactOf
  <2>2. CASE x = o
    <3>1. One(o) /\ InTable(o) => ref_count[o] = 1 + Cardinality(RefsOn(o))
      BY <1>4 DEF EInv, ExactOf
    <3>2. Cardinality(RefsOn(o)') = Cardinality(RefsOn(o)) + 1 /\ Cardinality(RefsOn(o)) \in Nat
      BY <1>2, CountsFinite, CardPlusOne
    <3>3. ref_count'[o] = ref_count[o] + 1 BY <1>o DEF IInv, TypeOK
    <3>4. One(o) /\ InTable(o) => ref_count'[o] = 1 + Cardinality(RefsOn(o)')
      BY <3>1, <3>2, <3>3
    <3>. QED BY <2>0, <2>2, <3>4 DEF ExactOf
  <2>. QED BY <2>1, <2>2
<1>. QED BY <1>1, <1>4 DEF EInv

\* A new object has its first handle and no reference.
LEMMA AddExact ==
  ASSUME IInv, EInv, NEW o \in Obj, AddObject(o),
         \A x \in Obj \ {o} : guest_object'[x] = guest_object[x]
  PROVE  EInv'
<1>. USE DEF AddObject, Record, refVars
<1>0. o \notin made /\ next_handle \in Handle /\ NoObj \notin Obj /\ objects[next_handle] = NoObj
  BY NextHandleFree
<1>1. up => /\ \A h \in Handle \ {next_handle} : owner'[h] = owner[h] /\ objects'[h] = objects[h]
            /\ owner[next_handle] = NoObj /\ owner'[next_handle] = o /\ objects'[next_handle] = o
  BY <1>0, NextHandleFree DEF IInv, TypeOK
<1>2. ASSUME up, NEW x \in Obj, x # o PROVE OwnedBy(x)' = OwnedBy(x)
  BY <1>0, <1>1, <1>2 DEF OwnedBy
<1>3. ASSUME up, NEW x \in Obj, x # o PROVE One(x)' = One(x)
  BY <1>2, <1>3 DEF One
<1>4. ASSUME up, NEW x \in Obj, x # o, NEW h \in Handle PROVE (objects'[h] = x) = (objects[h] = x)
  BY <1>0, <1>1, <1>4
<1>5. ASSUME up, NEW x \in Obj, x # o PROVE InTable(x)' = InTable(x)
  BY <1>4, <1>5 DEF InTable
<1>6. ASSUME up, NEW r \in Ref PROVE (Named(r) /\ ScanBefore(r))'
  <2>1. CASE phase[r] \in {"held", "scan"}
    <3>1. of[r] \in Obj /\ of[r] # o BY <1>0, <2>1 DEF IInv, MadeOnly, TypeOK
    <3>2. Named(r)' BY <1>3, <1>6, <3>1 DEF EInv, Named
    <3>3. ScanBefore(r)' BY <1>3, <1>4, <1>5, <1>6, <3>1 DEF EInv, ScanBefore
    <3>. QED BY <3>2, <3>3
  <2>2. CASE phase[r] \notin {"held", "scan"} BY <2>2 DEF Named, ScanBefore
  <2>. QED BY <2>1, <2>2
<1>7. ASSUME up, NEW x \in Obj PROVE ExactOf(x)'
  <2>1. RefsOn(x)' = RefsOn(x) BY DEF RefsOn
  <2>2. CASE x = o
    <3>1. RefsOn(o) = {} BY <1>0 DEF RefsOn, IInv, MadeOnly
    <3>2. ref_count'[o] = 1 BY DEF IInv, TypeOK
    <3>. QED BY <2>1, <2>2, <3>1, <3>2, FS_EmptySet DEF ExactOf
  <2>3. CASE x # o
    <3>1. ref_count'[x] = ref_count[x] BY <2>3 DEF IInv, TypeOK
    <3>. QED BY <1>3, <1>5, <1>7, <2>1, <2>3, <3>1 DEF EInv, ExactOf
  <2>. QED BY <2>2, <2>3
<1>8. up => \A h \in Handle : owner'[h] \in made' \cup {NoObj} BY <1>1 DEF EInv
<1>. QED BY <1>6, <1>7, <1>8 DEF EInv

LEMMA CreateExact ==
  ASSUME IInv, EInv, NEW o \in Obj, CreateHostObject(o) \/ CreateGuestObject(o) \/ HostDrop(o)
  PROVE  EInv'
<1>1. CASE CreateHostObject(o) BY <1>1, AddExact DEF CreateHostObject
<1>2. CASE CreateGuestObject(o) BY <1>2, AddExact DEF CreateGuestObject, IInv, TypeOK
<1>3. CASE HostDrop(o)
  BY <1>3, ZenonT(40) DEF HostDrop, refVars, EInv, Named, ScanBefore, ExactOf, One, OwnedBy, InTable, RefsOn
<1>. QED BY <1>1, <1>2, <1>3

\* What is left of the handles of an object after a close.
LEMMA CloseExact ==
  ASSUME IInv, EInv, NEW h \in Handle, CloseHandle(h) PROVE EInv'
<1>. USE DEF CloseHandle, Release, refVars
<1>o. PICK o \in Obj : o = objects[h] BY DEF IInv, TypeOK
<1>0. NoObj \notin Obj BY ObjectTableAssumption
<1>1. \A x : One(x)' = One(x) /\ RefsOn(x)' = RefsOn(x) BY DEF One, OwnedBy, RefsOn
<1>2. \A x \in Obj, g \in Handle : objects'[g] = x <=> g # h /\ objects[g] = x
  BY <1>0 DEF IInv, TypeOK
<1>3. ASSUME up, One(o) PROVE ~InTable(o)'
  <2>1. owner[h] = o BY <1>3, <1>o DEF IInv, TableOwn
  <2>2. \A g \in Handle : objects[g] = o => owner[g] = o BY <1>3, <1>0 DEF IInv, TableOwn
  <2>3. \A g \in Handle : objects[g] = o => g = h BY <1>3, <2>1, <2>2 DEF One, OwnedBy
  <2>. QED BY <1>2, <2>3 DEF InTable
<1>4. ASSUME NEW x \in Obj, x # o PROVE \A g \in Handle : objects'[g] = x <=> objects[g] = x
  BY <1>o, <1>2, <1>4
<1>r. ASSUME NEW r \in Ref
      PROVE  phase'[r] = phase[r] /\ of'[r] = of[r] /\ scan'[r] = scan[r]
  OBVIOUS
<1>5. ASSUME up, NEW r \in Ref PROVE (Named(r) /\ ScanBefore(r))'
  <2>1. Named(r)' BY <1>1, <1>5 DEF EInv, Named
  <2>2. CASE phase[r] = "scan"
    <3>1. of[r] \in Obj BY <2>2 DEF IInv, MadeOnly, TypeOK
    <3>2. CASE of[r] = o
      <4>1. One(of[r])' => One(o) BY <1>r, <3>2 DEF One, OwnedBy
      <4>2. InTable(of[r])' => InTable(o)' BY <1>r, <3>2 DEF InTable
      <4>. QED BY <2>1, <1>3, <1>5, <4>1, <4>2 DEF ScanBefore
    <3>3. CASE of[r] # o
      <4>1. One(of[r])' => One(of[r]) BY <1>r DEF One, OwnedBy
      <4>2. InTable(of[r])' => InTable(of[r]) BY <1>r, <1>4, <3>1, <3>3 DEF InTable
      <4>3. \A g \in Handle : objects[g] = of[r] => objects'[g] = of'[r]
        BY <1>r, <1>4, <3>1, <3>3
      <4>. QED BY <2>1, <1>r, <1>5, <4>1, <4>2, <4>3 DEF EInv, ScanBefore
    <3>. QED BY <3>2, <3>3
  <2>3. CASE phase[r] # "scan" BY <1>r, <2>1, <2>3 DEF ScanBefore
  <2>. QED BY <2>1, <2>2, <2>3
<1>6. ASSUME up, NEW x \in Obj PROVE ExactOf(x)'
  <2>1. CASE x = o BY <1>1, <1>3, <1>6, <2>1 DEF ExactOf
  <2>2. CASE x # o
    <3>1. InTable(x)' = InTable(x) BY <1>4, <2>2 DEF InTable
    <3>2. ref_count'[x] = ref_count[x] BY <1>o, <2>2 DEF IInv, TypeOK
    <3>. QED BY <1>1, <1>6, <3>1, <3>2 DEF EInv, ExactOf
  <2>. QED BY <2>1, <2>2
<1>. QED BY <1>5, <1>6 DEF EInv

\* A second handle: nothing is claimed of its object any more.
LEMMA DuplicateExact ==
  ASSUME IInv, EInv, NEW h \in Handle, DuplicateHandle(h) PROVE EInv'
<1>. USE DEF DuplicateHandle, Record, Retain, refVars
<1>o. PICK o \in Obj : o = objects[h] BY DEF IInv, TypeOK
<1>0. next_handle \in Handle /\ NoObj \notin Obj /\ objects[next_handle] = NoObj /\ h # next_handle
  BY NextHandleFree
<1>1. up => /\ \A g \in Handle \ {next_handle} : owner'[g] = owner[g] /\ objects'[g] = objects[g]
            /\ owner[next_handle] = NoObj /\ owner'[next_handle] = o /\ objects'[next_handle] = o
            /\ owner[h] = o
  BY <1>o, <1>0, NextHandleFree DEF IInv, TypeOK, TableOwn
<1>2. ASSUME up PROVE ~One(o)'
  <2>1. owner'[h] = o /\ owner'[next_handle] = o BY <1>0, <1>1, <1>2
  <2>. QED BY <1>0, <2>1 DEF One, OwnedBy
<1>3. ASSUME up, NEW x \in Obj, x # o PROVE One(x)' = One(x)
  <2>1. OwnedBy(x)' = OwnedBy(x) BY <1>0, <1>1, <1>3 DEF OwnedBy
  <2>. QED BY <2>1 DEF One
<1>4. ASSUME up, NEW x \in Obj, x # o, NEW g \in Handle PROVE (objects'[g] = x) = (objects[g] = x)
  BY <1>0, <1>1, <1>4
<1>5. ASSUME up, NEW x \in Obj, x # o PROVE InTable(x)' = InTable(x)
  BY <1>4, <1>5 DEF InTable
<1>6. ASSUME up, NEW r \in Ref PROVE (Named(r) /\ ScanBefore(r))'
  <2>1. CASE phase[r] \in {"held", "scan"}
    <3>0. of[r] \in Obj BY <2>1 DEF IInv, MadeOnly, TypeOK
    <3>1. CASE of[r] = o BY <1>2, <1>6, <3>1 DEF Named, ScanBefore
    <3>2. CASE of[r] # o
      <4>1. Named(r)' BY <1>3, <1>6, <3>0, <3>2 DEF EInv, Named
      <4>2. ScanBefore(r)' BY <1>3, <1>4, <1>5, <1>6, <3>0, <3>2 DEF EInv, ScanBefore
      <4>. QED BY <4>1, <4>2
    <3>. QED BY <3>1, <3>2
  <2>2. CASE phase[r] \notin {"held", "scan"} BY <2>2 DEF Named, ScanBefore
  <2>. QED BY <2>1, <2>2
<1>7. ASSUME up, NEW x \in Obj PROVE ExactOf(x)'
  <2>1. RefsOn(x)' = RefsOn(x) BY DEF RefsOn
  <2>2. CASE x = o BY <1>2, <1>7, <2>2 DEF ExactOf
  <2>3. CASE x # o
    <3>1. ref_count'[x] = ref_count[x] BY <1>o, <2>3 DEF IInv, TypeOK
    <3>. QED BY <1>3, <1>5, <1>7, <2>1, <2>3, <3>1 DEF EInv, ExactOf
  <2>. QED BY <2>2, <2>3
<1>8. up => \A g \in Handle : owner'[g] \in made' \cup {NoObj} BY <1>0, <1>1 DEF EInv
<1>. QED BY <1>6, <1>7, <1>8 DEF EInv

LEMMA ExactInductive == ASSUME Short PROVE IInv /\ EInv /\ [Next]_vars => EInv'
<1>. SUFFICES ASSUME IInv, EInv, [Next]_vars PROVE EInv' OBVIOUS
<1>1. ASSUME NEW o \in Obj, CreateHostObject(o) \/ CreateGuestObject(o) \/ HostDrop(o)
      PROVE EInv'
  BY <1>1, CreateExact
<1>2. ASSUME NEW h \in Handle, CloseHandle(h) \/ DuplicateHandle(h) PROVE EInv'
  BY <1>2, CloseExact, DuplicateExact
<1>3. ASSUME NEW r \in Ref, NEW h \in Handle, ReferenceByHandle(r, h) PROVE EInv'
  BY <1>3, ReferenceExact
<1>4. ASSUME NEW r \in Ref,
             \/ NameRead(r) \/ NameWrite(r) \/ DerefStart(r) \/ DerefFind(r)
             \/ DerefMiss(r) \/ DerefNext(r) \/ DerefRelease(r)
      PROVE EInv'
  BY <1>4, CallExact, NameWriteExact, DerefExact, MissExact, ReleaseExact
<1>5. CASE Clear BY <1>5 DEF Clear, EInv
<1>6. CASE UNCHANGED vars
  BY <1>6, SMTT(40) DEF vars, EInv, Named, ScanBefore, ExactOf, One, OwnedBy, InTable, RefsOn
<1>. QED BY <1>1, <1>2, <1>3, <1>4, <1>5, <1>6 DEF Next

\* A reference call interleaved with others leaks no count on an object that
\* had one handle, as long as the table stays below ScanEarly (1025 handles).
THEOREM CountsExact == ASSUME Short PROVE Spec => []SingleHandleExact
<1>1. Init => EInv
  BY ObjectTableAssumption DEF Init, EInv, Named, ScanBefore, ExactOf, InTable
<1>2. IInv /\ EInv /\ [Next]_vars => EInv' BY ExactInductive
<1>3. EInv => SingleHandleExact
  <2>. SUFFICES ASSUME EInv, up, NEW o \in Obj,
                       Cardinality({h \in Handle : owner[h] = o}) = 1, InTable(o)
                PROVE  ref_count[o] = 1 + Cardinality(RefsOn(o))
    BY DEF SingleHandleExact
  <2>1. IsFiniteSet(Handle) BY FS_Interval, ObjectTableAssumption DEF Handle
  <2>2. OwnedBy(o) \subseteq Handle /\ IsFiniteSet(OwnedBy(o)) BY <2>1, FS_Subset DEF OwnedBy
  <2>3. \E h : OwnedBy(o) = {h} BY <2>2, FS_Singleton DEF OwnedBy
  <2>4. One(o) BY <2>2, <2>3 DEF One
  <2>. QED BY <2>4 DEF EInv, ExactOf
<1>. QED BY <1>1, <1>2, <1>3, Inductive, PTL DEF Spec

-----------------------------------------------------------------------------
(***************************************************************************)
(* The file calls, proved for every number of threads, files and mounts.   *)
(* The inductive invariant is about the mount a file was opened on while   *)
(* it is there: a path cannot lead to an older one, it has the file under  *)
(* the handle's number, no other handle has that number on it, and its     *)
(* place is the handle's unless a handle from another mount has used it.   *)
(***************************************************************************)

\* A file a device has open, one of the file system's, a mount, and a call.
DeviceFile == [file : File, pos : Int, closed : {FALSE}, foreign : BOOLEAN, reads : BOOLEAN, writes : BOOLEAN]
VfsFile == [name : {DeviceOf[p] : p \in Point}, handle : 1 .. MaxOpen, pos : Int, closed : {FALSE},
            born : Nat \ {0}, medium : Media, file : File]
VfsMount == [point : Point, medium : Media, open : Seq(DeviceFile \cup {Closed})]
FileCall ==
  {Idle} \cup [op : {"bind", "close"}, v : Nat]
    \cup [op : {"read", "write", "set"}, v : Nat, mixed : BOOLEAN, sought : BOOLEAN, at : Int]

\* What the file system holds: mounts numbered below the next, files of their kinds.
VfsTyped ==
  /\ vfs = [mounts |-> vfs.mounts, files |-> vfs.files, next |-> vfs.next, disk |-> vfs.disk]
  /\ vfs.next \in Nat \ {0}
  /\ DOMAIN vfs.mounts \subseteq 1 .. (vfs.next - 1) /\ vfs.mounts \in [DOMAIN vfs.mounts -> VfsMount]
  /\ vfs.files \in Seq(VfsFile \cup {Closed}) /\ Len(vfs.files) <= MaxOpen
  /\ \A k \in DOMAIN vfs.mounts : Len(vfs.mounts[k].open) <= Len(vfs.files)
  /\ vfs.disk \in [DOMAIN Disk -> [File -> Int]]
\* A call is about a file that was opened, and a handle names one.
CallsTyped ==
  /\ handles \in Seq(0 .. Len(vfs.files))
  /\ call \in [Thread -> FileCall]
  /\ \A t \in Thread : call[t].op # "idle" => call[t].v \in DOMAIN vfs.files
  /\ crashed \in BOOLEAN

\* A file open on a mount that is still there, and what the device has of it.
Fresh(v) == ~vfs.files[v].closed /\ vfs.files[v].born \in DOMAIN vfs.mounts
Own(v) == vfs.mounts[vfs.files[v].born].open[vfs.files[v].handle]

\* No path leads past the mount its file was opened on to an older one.
BornFirst ==
  \A v \in DOMAIN vfs.files : LET h == vfs.files[v] IN
    /\ ~h.closed => h.born < vfs.next
    /\ Fresh(v) =>
         /\ DeviceOf[vfs.mounts[h.born].point] = h.name
         /\ \A k \in DOMAIN vfs.mounts : DeviceOf[vfs.mounts[k].point] = h.name => h.born <= k
\* That mount has the file under the handle's number, at the handle's place
\* unless a handle from elsewhere has moved it.
OwnFile ==
  \A v \in DOMAIN vfs.files : LET h == vfs.files[v] IN
    Fresh(v) =>
      /\ vfs.mounts[h.born].medium = h.medium
      /\ h.handle \in DOMAIN vfs.mounts[h.born].open
      /\ ~Own(v).closed => Own(v).file = h.file /\ (Own(v).foreign \/ Own(v).pos = h.pos)
\* Two handles of one mount have two numbers.
OneEach ==
  \A v, u \in DOMAIN vfs.files :
    (Fresh(v) /\ Fresh(u) /\ vfs.files[v].born = vfs.files[u].born /\ vfs.files[v].handle = vfs.files[u].handle) => v = u
\* A call that has sought is where the caller said, as long as it is alone.
OffsetOf(t) ==
  LET c == call[t] IN
  (c.op \in {"read", "write"} /\ c.sought /\ ~c.mixed /\ Fresh(c.v) /\ ~Own(c.v).closed) =>
    Own(c.v).foreign \/ c.at = vfs.files[c.v].pos
AtOffset == \A t \in Thread : OffsetOf(t)
\* What the table names is open and named once; a handle being made or closed is
\* in no other's hands.
TableOpen ==
  /\ \A k \in DOMAIN handles : handles[k] # 0 =>
       /\ ~vfs.files[handles[k]].closed
       /\ \A l \in DOMAIN handles : handles[l] = handles[k] => l = k
       /\ \A t \in Thread : call[t].op \in {"bind", "close"} => call[t].v # handles[k]
  /\ \A t \in Thread : call[t].op = "bind" =>
       /\ ~vfs.files[call[t].v].closed
       /\ \A u \in Thread : call[u].op \in {"bind", "close"} /\ call[u].v = call[t].v => u = t

\* The part about the file system alone, and the whole.
VfsInv == VfsTyped /\ BornFirst /\ OwnFile /\ OneEach
FilesInv == VfsInv /\ CallsTyped /\ AtOffset /\ TableOpen

\* The types of the parts, by the number of a mount and of a file.
LEMMA VfsIs ==
  ASSUME VfsTyped
  PROVE  /\ vfs.next \in Nat
         /\ \A k \in DOMAIN vfs.mounts : k \in Nat /\ 1 <= k /\ k < vfs.next /\ vfs.mounts[k] \in VfsMount
         /\ \A v \in DOMAIN vfs.files : vfs.files[v] \in VfsFile \cup {Closed}
         /\ \A v \in DOMAIN vfs.files : ~vfs.files[v].closed => vfs.files[v] \in VfsFile
         /\ \A k \in DOMAIN vfs.mounts : /\ vfs.mounts[k].open \in Seq(DeviceFile \cup {Closed})
                                         /\ vfs.mounts[k].point \in Point /\ vfs.mounts[k].medium \in Media
         /\ \A k \in DOMAIN vfs.mounts : \A n \in DOMAIN vfs.mounts[k].open :
              /\ vfs.mounts[k].open[n] \in DeviceFile \cup {Closed}
              /\ ~vfs.mounts[k].open[n].closed => vfs.mounts[k].open[n] \in DeviceFile
<1>1. \A k \in DOMAIN vfs.mounts : k \in Nat /\ 1 <= k /\ k < vfs.next /\ vfs.mounts[k] \in VfsMount
  BY DEF VfsTyped
<1>2. \A v \in DOMAIN vfs.files : vfs.files[v] \in VfsFile \cup {Closed} BY DEF VfsTyped
<1>3. \A v \in DOMAIN vfs.files : ~vfs.files[v].closed => vfs.files[v] \in VfsFile BY <1>2 DEF Closed
<1>4. \A k \in DOMAIN vfs.mounts : /\ vfs.mounts[k].open \in Seq(DeviceFile \cup {Closed})
                                   /\ vfs.mounts[k].point \in Point /\ vfs.mounts[k].medium \in Media
  BY <1>1 DEF VfsMount
<1>5. \A k \in DOMAIN vfs.mounts : \A n \in DOMAIN vfs.mounts[k].open :
        vfs.mounts[k].open[n] \in DeviceFile \cup {Closed}
  BY <1>4
<1>6. \A k \in DOMAIN vfs.mounts : \A n \in DOMAIN vfs.mounts[k].open :
        ~vfs.mounts[k].open[n].closed => vfs.mounts[k].open[n] \in DeviceFile
  BY <1>5 DEF Closed
<1>. QED BY <1>1, <1>2, <1>3, <1>4, <1>5, <1>6 DEF VfsTyped

\* What Append makes of a sequence.
LEMMA AppendedIs ==
  ASSUME NEW S, NEW s \in Seq(S), NEW e \in S
  PROVE  /\ Append(s, e) \in Seq(S) /\ Len(Append(s, e)) = Len(s) + 1
         /\ DOMAIN Append(s, e) = DOMAIN s \cup {Len(s) + 1} /\ Len(s) + 1 \notin DOMAIN s
         /\ \A n \in DOMAIN s : Append(s, e)[n] = s[n]
         /\ Append(s, e)[Len(s) + 1] = e
  OBVIOUS

\* The least of a set of natural numbers.
LEMMA LeastOf == ASSUME NEW S \in SUBSET Nat, S # {} PROVE Min(S) \in S /\ \A k \in S : Min(S) <= k
<1>1. \E x \in S : \A y \in S : ~(<<y, x>> \in OpToRel(<, Nat))
  BY NatLessThanWellFounded, WFMin
<1>2. \E x \in S : \A y \in S : x <= y
  <2>1. PICK x \in S : \A y \in S : ~(<<y, x>> \in OpToRel(<, Nat)) BY <1>1
  <2>2. ASSUME NEW y \in S PROVE x <= y
    <3>1. x \in Nat /\ y \in Nat OBVIOUS
    <3>2. ~(y < x) BY <2>1, <3>1 DEF OpToRel
    <3>. QED BY <3>1, <3>2
  <2>. QED BY <2>2
<1>. QED BY <1>2 DEF Min

\* find_device finds the first mount of a name.
LEMMA FindIs ==
  ASSUME VfsTyped, NEW name
  PROVE  LET d == find_device(vfs, name) IN
         /\ d # 0 => d \in DOMAIN vfs.mounts /\ DeviceOf[vfs.mounts[d].point] = name
         /\ \A k \in DOMAIN vfs.mounts : DeviceOf[vfs.mounts[k].point] = name => d # 0 /\ d <= k
<1> DEFINE hits == {k \in DOMAIN vfs.mounts : DeviceOf[vfs.mounts[k].point] = name}
<1>1. hits \in SUBSET Nat BY VfsIs
<1>2. CASE hits = {} BY <1>2 DEF find_device
<1>3. CASE hits # {}
  <2>1. Min(hits) \in hits /\ \A k \in hits : Min(hits) <= k BY <1>1, <1>3, LeastOf
  <2>2. find_device(vfs, name) = Min(hits) BY <1>3 DEF find_device
  <2>3. Min(hits) \in DOMAIN vfs.mounts /\ Min(hits) # 0 BY <2>1, VfsIs
  <2>. QED BY <2>1, <2>2, <2>3
<1>. QED BY <1>2, <1>3

\* A path leads to the mount its file was opened on, as long as that is there.
LEMMA OnFresh ==
  ASSUME VfsInv, NEW v \in DOMAIN vfs.files, ~vfs.files[v].closed
  PROVE  /\ Fresh(v) <=> ~Stale(vfs, v) /\ On(vfs, v) # 0
         /\ Fresh(v) => On(vfs, v) = vfs.files[v].born /\ Reached(vfs, v) = Own(v)
         /\ On(vfs, v) # 0 => On(vfs, v) \in DOMAIN vfs.mounts
<1>1. VfsTyped BY DEF VfsInv
<1> DEFINE h == vfs.files[v]  d == On(vfs, v)
<1>2. h \in VfsFile BY <1>1, VfsIs
<1>3. /\ d # 0 => d \in DOMAIN vfs.mounts /\ DeviceOf[vfs.mounts[d].point] = h.name
      /\ \A k \in DOMAIN vfs.mounts : DeviceOf[vfs.mounts[k].point] = h.name => d # 0 /\ d <= k
  BY <1>1, FindIs DEF On
<1>4. ASSUME Fresh(v) PROVE d = h.born /\ d # 0
  <2>1. /\ h.born \in DOMAIN vfs.mounts /\ DeviceOf[vfs.mounts[h.born].point] = h.name
        /\ \A k \in DOMAIN vfs.mounts : DeviceOf[vfs.mounts[k].point] = h.name => h.born <= k
    BY <1>4 DEF VfsInv, BornFirst, Fresh
  <2>2. d # 0 /\ d <= h.born BY <1>3, <2>1
  <2>3. h.born <= d BY <1>3, <2>1, <2>2
  <2>4. d \in Nat /\ h.born \in Nat BY <1>1, <1>3, <2>1, <2>2, VfsIs
  <2>. QED BY <2>2, <2>3, <2>4
<1>5. ASSUME ~Stale(vfs, v), d # 0 PROVE Fresh(v) BY <1>3, <1>5 DEF Stale, Fresh
<1>. QED BY <1>3, <1>4, <1>5 DEF Stale, Reached, Own

\* The invariant says what ReadsItsFile does.
LEMMA ReadsOwn == ASSUME FilesInv PROVE ReadsItsFile
<1> SUFFICES ASSUME NEW t \in Thread, call[t].op \in {"read", "write"}, call[t].sought,
                    Reaches(vfs, call[t].v), ~Stale(vfs, call[t].v)
             PROVE  LET c == call[t]
                        h == vfs.files[c.v]
                        e == Reached(vfs, c.v)
                    IN /\ vfs.mounts[On(vfs, c.v)].medium = h.medium /\ e.file = h.file
                       /\ e.pos = c.at \/ c.mixed \/ e.foreign
  BY DEF ReadsItsFile
<1> DEFINE v == call[t].v
<1>1. VfsInv /\ v \in DOMAIN vfs.files BY DEF FilesInv, CallsTyped
<1>2. ~vfs.files[v].closed /\ On(vfs, v) # 0 /\ ~Reached(vfs, v).closed BY DEF Reaches, Reached
<1>3. Fresh(v) /\ On(vfs, v) = vfs.files[v].born /\ Reached(vfs, v) = Own(v) BY <1>1, <1>2, OnFresh
<1>4. /\ vfs.mounts[On(vfs, v)].medium = vfs.files[v].medium /\ Own(v).file = vfs.files[v].file
      /\ Own(v).foreign \/ Own(v).pos = vfs.files[v].pos
  BY <1>1, <1>2, <1>3 DEF VfsInv, OwnFile
<1>5. call[t].mixed \/ Own(v).foreign \/ call[t].at = vfs.files[v].pos
  BY <1>2, <1>3 DEF FilesInv, AtOffset, OffsetOf
<1>. QED BY <1>3, <1>4, <1>5

\* Mounting and unmounting: the mounts of S stay, and at most one is new, with no open files.
\* The step leaves the mounts of S, and adds those of N.
LeavesMounts(S, N, mounts, next) ==
  /\ S \in SUBSET DOMAIN vfs.mounts /\ N \in SUBSET {vfs.next} /\ next \in Nat
  /\ DOMAIN mounts = S \cup N /\ mounts \in [S \cup N -> VfsMount]
  /\ \A k \in S : mounts[k] = vfs.mounts[k]
  /\ \A k \in N : mounts[k].open = <<>>
  /\ next >= vfs.next /\ (N # {} => next > vfs.next)
  /\ vfs' = [mounts |-> mounts, files |-> vfs.files, next |-> next, disk |-> vfs.disk]

LEMMA MountsChange ==
  ASSUME VfsInv, NEW S, NEW N, NEW mounts, NEW next, LeavesMounts(S, N, mounts, next)
  PROVE  /\ VfsInv'
         /\ vfs'.files = vfs.files
         /\ \A v \in DOMAIN vfs.files : Fresh(v)' => Fresh(v) /\ Own(v)' = Own(v)
<1>. USE DEF LeavesMounts
<1>1. VfsTyped BY DEF VfsInv
<1>2. /\ vfs'.mounts = mounts /\ vfs'.files = vfs.files /\ vfs'.next = next /\ vfs'.disk = vfs.disk OBVIOUS
<1>3. vfs.next \in Nat /\ \A k \in S : k \in Nat /\ 1 <= k /\ k < vfs.next BY <1>1, VfsIs
<1>4. \A v \in DOMAIN vfs.files : ~vfs.files[v].closed => vfs.files[v].born < vfs.next /\ vfs.files[v].born \in Nat
  <2>. SUFFICES ASSUME NEW v \in DOMAIN vfs.files, ~vfs.files[v].closed
                PROVE  vfs.files[v].born < vfs.next /\ vfs.files[v].born \in Nat
    OBVIOUS
  <2>1. vfs.files[v] \in VfsFile BY <1>1, VfsIs
  <2>2. vfs.files[v].born \in Nat BY <2>1 DEF VfsFile
  <2>3. vfs.files[v].born < vfs.next BY DEF VfsInv, BornFirst
  <2>. QED BY <2>2, <2>3
<1>5. ASSUME NEW v \in DOMAIN vfs.files, Fresh(v)'
      PROVE  Fresh(v) /\ Own(v)' = Own(v) /\ vfs.files[v].born \in S
  <2>1. vfs.files[v].born \in S BY <1>2, <1>3, <1>4, <1>5 DEF Fresh
  <2>. QED BY <1>2, <1>5, <2>1 DEF Fresh, Own
<1>6. VfsTyped'
  <2>1. ASSUME NEW k \in DOMAIN mounts PROVE k \in 1 .. (next - 1)
    <3>1. CASE k \in S BY <1>3, <3>1
    <3>2. CASE k \in N
      <4>1. k = vfs.next /\ next > vfs.next BY <3>2
      <4>2. vfs.next # 0 BY <1>1 DEF VfsTyped
      <4>. QED BY <1>3, <4>1, <4>2
    <3>. QED BY <3>1, <3>2
  <2>2. \A k \in DOMAIN mounts : Len(mounts[k].open) <= Len(vfs.files) BY <1>1 DEF VfsTyped
  <2>3. vfs.files \in Seq(VfsFile \cup {Closed}) /\ Len(vfs.files) <= MaxOpen
        /\ vfs.disk \in [DOMAIN Disk -> [File -> Int]]
    BY <1>1 DEF VfsTyped
  <2>4. next \in Nat \ {0} BY <1>1, <1>3 DEF VfsTyped
  <2>5. DOMAIN mounts \subseteq 1 .. (next - 1) /\ mounts \in [DOMAIN mounts -> VfsMount] BY <2>1
  <2>. QED BY <1>2, <2>2, <2>3, <2>4, <2>5 DEF VfsTyped
<1>7. BornFirst'
  <2>. SUFFICES ASSUME NEW v \in DOMAIN vfs.files
                PROVE  /\ ~vfs.files[v].closed => vfs.files[v].born < next
                       /\ Fresh(v)' =>
                            /\ DeviceOf[mounts[vfs.files[v].born].point] = vfs.files[v].name
                            /\ \A k \in DOMAIN mounts : DeviceOf[mounts[k].point] = vfs.files[v].name => vfs.files[v].born <= k
    BY <1>2 DEF BornFirst
  <2>1. ~vfs.files[v].closed => vfs.files[v].born < next BY <1>3, <1>4
  <2>2. ASSUME Fresh(v)'
        PROVE  /\ DeviceOf[mounts[vfs.files[v].born].point] = vfs.files[v].name
               /\ \A k \in DOMAIN mounts : DeviceOf[mounts[k].point] = vfs.files[v].name => vfs.files[v].born <= k
    <3>1. Fresh(v) /\ vfs.files[v].born \in S BY <1>5, <2>2
    <3>2. /\ DeviceOf[vfs.mounts[vfs.files[v].born].point] = vfs.files[v].name
          /\ \A k \in DOMAIN vfs.mounts : DeviceOf[vfs.mounts[k].point] = vfs.files[v].name => vfs.files[v].born <= k
      BY <3>1 DEF VfsInv, BornFirst
    <3>3. \A k \in N : vfs.files[v].born <= k BY <1>3, <1>4, <3>1 DEF Fresh
    <3>. QED BY <3>1, <3>2, <3>3
  <2>. QED BY <2>1, <2>2
<1>8. OwnFile'
  <2>. SUFFICES ASSUME NEW v \in DOMAIN vfs.files, Fresh(v)'
                PROVE  /\ mounts[vfs.files[v].born].medium = vfs.files[v].medium
                       /\ vfs.files[v].handle \in DOMAIN mounts[vfs.files[v].born].open
                       /\ ~Own(v).closed => Own(v).file = vfs.files[v].file /\ (Own(v).foreign \/ Own(v).pos = vfs.files[v].pos)
    BY <1>2, <1>5 DEF OwnFile
  <2>. QED BY <1>5 DEF VfsInv, OwnFile
<1>9. OneEach' BY <1>2, <1>5 DEF VfsInv, OneEach
<1>. QED BY <1>2, <1>5, <1>6, <1>7, <1>8, <1>9 DEF VfsInv

\* What a seek, a read or a write changes of the file system.
LEMMA AtIs ==
  ASSUME VfsInv, NEW v \in DOMAIN vfs.files, Reaches(vfs, v), NEW pos \in Int
  PROVE  LET d == On(vfs, v)
             n == vfs.files[v].handle
             g == At(vfs, v, pos)
         IN /\ g = [mounts |-> g.mounts, files |-> g.files, next |-> vfs.next, disk |-> vfs.disk]
            /\ d \in DOMAIN vfs.mounts /\ n \in DOMAIN vfs.mounts[d].open
            /\ DOMAIN g.mounts = DOMAIN vfs.mounts
            /\ \A k \in DOMAIN vfs.mounts : k # d => g.mounts[k] = vfs.mounts[k]
            /\ g.mounts[d] = [point |-> vfs.mounts[d].point, medium |-> vfs.mounts[d].medium, open |-> g.mounts[d].open]
            /\ g.mounts[d].open \in Seq(DeviceFile \cup {Closed})
            /\ Len(g.mounts[d].open) = Len(vfs.mounts[d].open)
            /\ \A i \in DOMAIN vfs.mounts[d].open : i # n => g.mounts[d].open[i] = vfs.mounts[d].open[i]
            /\ g.mounts[d].open[n] = [Reached(vfs, v) EXCEPT !.pos = pos, !.foreign = @ \/ Stale(vfs, v)]
            /\ g.files \in Seq(VfsFile \cup {Closed}) /\ Len(g.files) = Len(vfs.files)
            /\ \A u \in DOMAIN vfs.files : u # v => g.files[u] = vfs.files[u]
            /\ g.files[v] = [vfs.files[v] EXCEPT !.pos = pos]
<1> DEFINE d == On(vfs, v)
           n == vfs.files[v].handle
           g == At(vfs, v, pos)
           e == [Reached(vfs, v) EXCEPT !.pos = pos, !.foreign = @ \/ Stale(vfs, v)]
           h == [vfs.files[v] EXCEPT !.pos = pos]
<1>1. VfsTyped BY DEF VfsInv
<1>2. d \in DOMAIN vfs.mounts /\ n \in DOMAIN vfs.mounts[d].open
  BY OnFresh DEF Reaches
<1>3. Reached(vfs, v) \in DeviceFile BY <1>1, <1>2, VfsIs DEF Reaches, Reached
<1>4. e \in DeviceFile BY <1>3 DEF DeviceFile, Stale
<1>5. vfs.files[v] \in VfsFile BY <1>1, VfsIs DEF Reaches
<1>6. h \in VfsFile BY <1>5 DEF VfsFile
<1>7. g = [vfs EXCEPT !.mounts[d].open[n] = e, !.files[v].pos = pos] BY DEF At
<1>8. g = [mounts |-> g.mounts, files |-> g.files, next |-> vfs.next, disk |-> vfs.disk]
  BY <1>1, <1>7 DEF VfsTyped
<1>9. g.mounts = [vfs.mounts EXCEPT ![d].open[n] = e] /\ g.files = [vfs.files EXCEPT ![v] = h]
  BY <1>1, <1>7 DEF VfsTyped
<1>. HIDE DEF g, e, h, d, n
<1>10. DOMAIN g.mounts = DOMAIN vfs.mounts /\ \A k \in DOMAIN vfs.mounts : k # d => g.mounts[k] = vfs.mounts[k]
  BY <1>9, <1>1 DEF VfsTyped
<1>11. vfs.mounts[d] \in VfsMount BY <1>1, <1>2, VfsIs
<1>12. g.mounts[d] = [vfs.mounts[d] EXCEPT !.open[n] = e] BY <1>9, <1>2, <1>1 DEF VfsTyped
<1>13. /\ g.mounts[d].open = [vfs.mounts[d].open EXCEPT ![n] = e]
       /\ g.mounts[d] = [point |-> vfs.mounts[d].point, medium |-> vfs.mounts[d].medium, open |-> g.mounts[d].open]
  BY <1>11, <1>12 DEF VfsMount
<1>14. vfs.mounts[d].open \in Seq(DeviceFile \cup {Closed}) BY <1>11 DEF VfsMount
<1>15. /\ g.mounts[d].open \in Seq(DeviceFile \cup {Closed})
       /\ Len(g.mounts[d].open) = Len(vfs.mounts[d].open)
       /\ \A i \in DOMAIN vfs.mounts[d].open : i # n => g.mounts[d].open[i] = vfs.mounts[d].open[i]
       /\ g.mounts[d].open[n] = e
  BY <1>2, <1>4, <1>13, <1>14
<1>16. vfs.files \in Seq(VfsFile \cup {Closed}) BY <1>1 DEF VfsTyped
<1>17. /\ g.files \in Seq(VfsFile \cup {Closed}) /\ Len(g.files) = Len(vfs.files)
       /\ \A u \in DOMAIN vfs.files : u # v => g.files[u] = vfs.files[u]
       /\ g.files[v] = h
  BY <1>6, <1>9, <1>16
<1>. QED BY <1>2, <1>8, <1>10, <1>13, <1>15, <1>17 DEF g, e, h, d, n

\* Who else uses a device's file: whoever opened it, or a handle opened on another mount.
LEMMA OtherFiles ==
  ASSUME VfsInv, NEW v \in DOMAIN vfs.files, Reaches(vfs, v), NEW u \in DOMAIN vfs.files, Fresh(u), u # v,
         vfs.files[u].born = On(vfs, v), vfs.files[u].handle = vfs.files[v].handle
  PROVE  Stale(vfs, v)
<1>1. ~vfs.files[v].closed /\ On(vfs, v) # 0 BY DEF Reaches
<1>. SUFFICES ASSUME ~Stale(vfs, v) PROVE FALSE OBVIOUS
<1>2. Fresh(v) /\ On(vfs, v) = vfs.files[v].born BY <1>1, OnFresh
<1>. QED BY <1>2 DEF VfsInv, OneEach

\* A handle's position is its own file's afterwards, and no other handle's changes.
LEMMA Moved ==
  ASSUME VfsInv, NEW v \in DOMAIN vfs.files, Reaches(vfs, v), NEW pos \in Int,
         NEW disk \in [DOMAIN Disk -> [File -> Int]], vfs' = [At(vfs, v, pos) EXCEPT !.disk = disk]
  PROVE  /\ VfsInv'
         /\ Len(vfs'.files) = Len(vfs.files)
         /\ \A u \in DOMAIN vfs.files : vfs'.files[u].closed = vfs.files[u].closed
         /\ \A u \in DOMAIN vfs.files : u # v => vfs'.files[u] = vfs.files[u]
         /\ vfs'.files[v].pos = pos
         /\ \A u \in DOMAIN vfs.files : /\ Fresh(u)' <=> Fresh(u)
                                        /\ Fresh(u) => /\ ~Own(u)'.closed => ~Own(u).closed
                                                       /\ Own(u).foreign /\ ~Own(u).closed => Own(u)'.foreign
<1> DEFINE d == On(vfs, v)
           n == vfs.files[v].handle
           g == At(vfs, v, pos)
           e == g.mounts[d].open[n]
<1>1. /\ g = [mounts |-> g.mounts, files |-> g.files, next |-> vfs.next, disk |-> vfs.disk]
      /\ d \in DOMAIN vfs.mounts /\ n \in DOMAIN vfs.mounts[d].open
      /\ DOMAIN g.mounts = DOMAIN vfs.mounts
      /\ \A k \in DOMAIN vfs.mounts : k # d => g.mounts[k] = vfs.mounts[k]
      /\ g.mounts[d] = [point |-> vfs.mounts[d].point, medium |-> vfs.mounts[d].medium, open |-> g.mounts[d].open]
      /\ g.mounts[d].open \in Seq(DeviceFile \cup {Closed})
      /\ Len(g.mounts[d].open) = Len(vfs.mounts[d].open)
      /\ \A i \in DOMAIN vfs.mounts[d].open : i # n => g.mounts[d].open[i] = vfs.mounts[d].open[i]
      /\ e = [Reached(vfs, v) EXCEPT !.pos = pos, !.foreign = @ \/ Stale(vfs, v)]
      /\ g.files \in Seq(VfsFile \cup {Closed}) /\ Len(g.files) = Len(vfs.files)
      /\ \A u \in DOMAIN vfs.files : u # v => g.files[u] = vfs.files[u]
      /\ g.files[v] = [vfs.files[v] EXCEPT !.pos = pos]
  BY AtIs
<1>2. vfs' = [mounts |-> g.mounts, files |-> g.files, next |-> vfs.next, disk |-> disk] BY <1>1
<1>. HIDE DEF g, e, d, n
<1>3. vfs'.mounts = g.mounts /\ vfs'.files = g.files /\ vfs'.next = vfs.next /\ vfs'.disk = disk BY <1>2
<1>4. VfsTyped BY DEF VfsInv
<1>5. vfs.files[v] \in VfsFile BY <1>4, VfsIs DEF Reaches
<1>6. Reached(vfs, v) \in DeviceFile BY <1>1, <1>4, VfsIs DEF Reaches, Reached, d, n
<1>7. /\ g.files[v].name = vfs.files[v].name /\ g.files[v].handle = n /\ g.files[v].pos = pos
      /\ ~g.files[v].closed /\ ~vfs.files[v].closed
      /\ g.files[v].born = vfs.files[v].born /\ g.files[v].medium = vfs.files[v].medium
      /\ g.files[v].file = vfs.files[v].file
  BY <1>1, <1>5 DEF VfsFile, n
<1>8. /\ e.file = Reached(vfs, v).file /\ e.pos = pos /\ ~e.closed /\ ~Reached(vfs, v).closed
      /\ e.foreign <=> (Reached(vfs, v).foreign \/ Stale(vfs, v))
  BY <1>1, <1>6 DEF DeviceFile
<1>9. /\ DOMAIN g.files = DOMAIN vfs.files
      /\ \A u \in DOMAIN vfs.files :
           /\ g.files[u].closed = vfs.files[u].closed
           /\ ~vfs.files[u].closed => /\ g.files[u].name = vfs.files[u].name /\ g.files[u].handle = vfs.files[u].handle
                                      /\ g.files[u].born = vfs.files[u].born /\ g.files[u].medium = vfs.files[u].medium
                                      /\ g.files[u].file = vfs.files[u].file
  <2>1. DOMAIN g.files = DOMAIN vfs.files
    <3>1. vfs.files \in Seq(VfsFile \cup {Closed}) BY <1>4 DEF VfsTyped
    <3>. QED BY <1>1, <3>1
  <2>2. v \in DOMAIN vfs.files /\ g.files[v].closed = vfs.files[v].closed BY <1>1, <1>5 DEF VfsFile
  <2>. QED BY <1>1, <1>7, <2>1, <2>2 DEF n
<1>10. \A k \in DOMAIN vfs.mounts : /\ g.mounts[k].point = vfs.mounts[k].point
                                    /\ g.mounts[k].medium = vfs.mounts[k].medium
                                    /\ DOMAIN g.mounts[k].open = DOMAIN vfs.mounts[k].open
                                    /\ Len(g.mounts[k].open) = Len(vfs.mounts[k].open)
  <2>1. vfs.mounts[d].open \in Seq(DeviceFile \cup {Closed}) BY <1>1, <1>4, VfsIs
  <2>2. /\ g.mounts[d].point = vfs.mounts[d].point /\ g.mounts[d].medium = vfs.mounts[d].medium
        /\ DOMAIN g.mounts[d].open = DOMAIN vfs.mounts[d].open
    BY <1>1, <2>1
  <2>. QED BY <1>1, <2>2
<1>11. \A u \in DOMAIN vfs.files : Fresh(u)' <=> Fresh(u) BY <1>1, <1>3, <1>9 DEF Fresh
<1>12. ASSUME NEW u \in DOMAIN vfs.files, Fresh(u)
       PROVE  \/ Own(u)' = Own(u) /\ u # v
              \/ /\ Own(u)' = e /\ Own(u) = Reached(vfs, v)
                 /\ u # v => Stale(vfs, v)
  <2>1. Own(u)' = g.mounts[vfs.files[u].born].open[vfs.files[u].handle] BY <1>3, <1>9, <1>12 DEF Own, Fresh
  <2>2. vfs.files[u].handle \in DOMAIN vfs.mounts[vfs.files[u].born].open BY <1>12 DEF VfsInv, OwnFile
  <2>3. CASE vfs.files[u].born = d /\ vfs.files[u].handle = n
    <3>1. Own(u)' = e /\ Own(u) = Reached(vfs, v) BY <2>1, <2>3 DEF Own, Reached, e, d, n
    <3>2. u # v => Stale(vfs, v) BY <1>12, <2>3, OtherFiles DEF d, n
    <3>. QED BY <3>1, <3>2
  <2>4. CASE vfs.files[u].born # d
    <3>1. u # v
      <4>. SUFFICES ASSUME u = v PROVE FALSE OBVIOUS
      <4>. QED BY <1>12, <2>4, OnFresh DEF Fresh, d
    <3>2. vfs.files[u].born \in DOMAIN vfs.mounts BY <1>12 DEF Fresh
    <3>. QED BY <1>1, <2>1, <2>4, <3>1, <3>2 DEF Own
  <2>5. CASE vfs.files[u].born = d /\ vfs.files[u].handle # n
    <3>1. u # v BY <2>5 DEF n
    <3>. QED BY <1>1, <2>1, <2>2, <2>5, <3>1 DEF Own
  <2>. QED BY <2>3, <2>4, <2>5
<1>13. VfsTyped'
  <2>1. g.mounts \in [DOMAIN g.mounts -> VfsMount]
    <3>1. vfs.mounts[d] \in VfsMount /\ \A k \in DOMAIN vfs.mounts : vfs.mounts[k] \in VfsMount
      BY <1>1, <1>4, VfsIs
    <3>2. g.mounts[d] \in VfsMount BY <1>1, <3>1 DEF VfsMount
    <3>3. \A k \in DOMAIN vfs.mounts : g.mounts[k] \in VfsMount BY <1>1, <3>1, <3>2
    <3>4. g.mounts = [k \in DOMAIN g.mounts |-> g.mounts[k]]
      <4>1. g.mounts = [vfs.mounts EXCEPT ![d].open[n] = [Reached(vfs, v) EXCEPT !.pos = pos, !.foreign = @ \/ Stale(vfs, v)]]
        BY <1>4 DEF VfsTyped, g, At, d, n
      <4>. QED BY <4>1, <1>4 DEF VfsTyped
    <3>. QED BY <1>1, <3>3, <3>4
  <2>2. \A k \in DOMAIN g.mounts : Len(g.mounts[k].open) <= Len(g.files) BY <1>1, <1>4, <1>10 DEF VfsTyped
  <2>3. DOMAIN g.mounts \subseteq 1 .. (vfs.next - 1) /\ vfs.next \in Nat \ {0} /\ Len(g.files) <= MaxOpen
    BY <1>1, <1>4 DEF VfsTyped
  <2>. QED BY <1>1, <1>2, <1>3, <2>1, <2>2, <2>3 DEF VfsTyped
<1>14. BornFirst'
  <2>. SUFFICES ASSUME NEW u \in DOMAIN vfs.files, ~vfs.files[u].closed
                PROVE  /\ vfs.files[u].born < vfs.next
                       /\ Fresh(u) =>
                            /\ DeviceOf[g.mounts[vfs.files[u].born].point] = vfs.files[u].name
                            /\ \A k \in DOMAIN vfs.mounts :
                                 DeviceOf[g.mounts[k].point] = vfs.files[u].name => vfs.files[u].born <= k
    <3>1. DOMAIN g.mounts = DOMAIN vfs.mounts BY <1>1
    <3>2. ASSUME NEW u \in DOMAIN vfs.files, ~vfs.files[u].closed
          PROVE  /\ vfs'.files[u].born < vfs'.next
                 /\ Fresh(u)' =>
                      /\ DeviceOf[vfs'.mounts[vfs'.files[u].born].point] = vfs'.files[u].name
                      /\ \A k \in DOMAIN vfs'.mounts :
                           DeviceOf[vfs'.mounts[k].point] = vfs'.files[u].name => vfs'.files[u].born <= k
      BY <1>3, <1>9, <1>11, <3>1, <3>2
    <3>. QED BY <1>3, <1>9, <3>2 DEF BornFirst, Fresh
  <2>1. /\ vfs.files[u].born < vfs.next
        /\ Fresh(u) =>
             /\ DeviceOf[vfs.mounts[vfs.files[u].born].point] = vfs.files[u].name
             /\ \A k \in DOMAIN vfs.mounts :
                  DeviceOf[vfs.mounts[k].point] = vfs.files[u].name => vfs.files[u].born <= k
    BY DEF VfsInv, BornFirst
  <2>. QED BY <1>10, <2>1 DEF Fresh
<1>15. OwnFile'
  <2>. SUFFICES ASSUME NEW u \in DOMAIN vfs.files, Fresh(u)
                PROVE  /\ g.mounts[vfs.files[u].born].medium = vfs.files[u].medium
                       /\ vfs.files[u].handle \in DOMAIN g.mounts[vfs.files[u].born].open
                       /\ ~Own(u)'.closed =>
                            Own(u)'.file = vfs.files[u].file /\ (Own(u)'.foreign \/ Own(u)'.pos = g.files[u].pos)
    BY <1>3, <1>9, <1>11 DEF OwnFile, Fresh
  <2>1. vfs.files[u].born \in DOMAIN vfs.mounts BY DEF Fresh
  <2>2. /\ vfs.mounts[vfs.files[u].born].medium = vfs.files[u].medium
        /\ vfs.files[u].handle \in DOMAIN vfs.mounts[vfs.files[u].born].open
        /\ ~Own(u).closed => Own(u).file = vfs.files[u].file /\ (Own(u).foreign \/ Own(u).pos = vfs.files[u].pos)
    BY DEF VfsInv, OwnFile
  <2>3. CASE Own(u)' = Own(u) /\ u # v BY <1>1, <1>10, <2>1, <2>2, <2>3
  <2>4. CASE Own(u)' = e /\ Own(u) = Reached(vfs, v) /\ (u # v => Stale(vfs, v))
    <3>1. u = v => g.files[u].pos = pos BY <1>7
    <3>. QED BY <1>8, <1>10, <2>1, <2>2, <2>4, <3>1
  <2>. QED BY <1>12, <2>3, <2>4
<1>16. OneEach' BY <1>3, <1>9, <1>11 DEF VfsInv, OneEach, Fresh
<1>17. \A u \in DOMAIN vfs.files : Fresh(u) => /\ ~Own(u)'.closed => ~Own(u).closed
                                               /\ Own(u).foreign /\ ~Own(u).closed => Own(u)'.foreign
  <2>. SUFFICES ASSUME NEW u \in DOMAIN vfs.files, Fresh(u)
                PROVE  /\ ~Own(u)'.closed => ~Own(u).closed
                       /\ Own(u).foreign /\ ~Own(u).closed => Own(u)'.foreign
    OBVIOUS
  <2>. QED BY <1>8, <1>12
<1>18. VfsInv' BY <1>13, <1>14, <1>15, <1>16 DEF VfsInv
<1>19. Len(vfs'.files) = Len(vfs.files) /\ \A u \in DOMAIN vfs.files : u # v => vfs'.files[u] = vfs.files[u]
  BY <1>1, <1>3
<1>20. vfs'.files[v].pos = pos BY <1>3, <1>7
<1>21. \A u \in DOMAIN vfs.files : vfs'.files[u].closed = vfs.files[u].closed BY <1>3, <1>9
<1>. QED BY <1>11, <1>17, <1>18, <1>19, <1>20, <1>21

\* Closing files: each of them, and what the device they reach has under their numbers.
LEMMA ClosesFiles ==
  ASSUME VfsInv, NEW V \in SUBSET DOMAIN vfs.files, vfs' = CloseFiles(vfs, V)
  PROVE  /\ VfsInv'
         /\ Len(vfs'.files) = Len(vfs.files)
         /\ \A u \in DOMAIN vfs.files : vfs'.files[u] = IF u \in V THEN Closed ELSE vfs.files[u]
         /\ \A u \in DOMAIN vfs.files : Fresh(u)' => /\ Fresh(u) /\ u \notin V
                                                     /\ Own(u)' = Own(u) \/ Own(u)' = Closed
<1> DEFINE hit(k, n) == \E v \in V : ~vfs.files[v].closed /\ On(vfs, v) = k /\ vfs.files[v].handle = n
           left(k) == [n \in DOMAIN vfs.mounts[k].open |-> IF hit(k, n) THEN Closed ELSE vfs.mounts[k].open[n]]
           mounts == [k \in DOMAIN vfs.mounts |-> [vfs.mounts[k] EXCEPT !.open = left(k)]]
           files == [v \in DOMAIN vfs.files |-> IF v \in V THEN Closed ELSE vfs.files[v]]
<1>1. VfsTyped BY DEF VfsInv
<1>2. vfs' = [vfs EXCEPT !.mounts = mounts, !.files = files] BY DEF CloseFiles
<1>3. vfs' = [mounts |-> mounts, files |-> files, next |-> vfs.next, disk |-> vfs.disk]
  BY <1>1, <1>2 DEF VfsTyped
<1>4. vfs'.mounts = mounts /\ vfs'.files = files /\ vfs'.next = vfs.next /\ vfs'.disk = vfs.disk BY <1>3
<1>. HIDE DEF hit
<1>5. \A k \in DOMAIN vfs.mounts :
        /\ mounts[k].point = vfs.mounts[k].point /\ mounts[k].medium = vfs.mounts[k].medium
        /\ mounts[k].open = left(k) /\ mounts[k] \in VfsMount
        /\ left(k) \in Seq(DeviceFile \cup {Closed}) /\ Len(left(k)) = Len(vfs.mounts[k].open)
        /\ DOMAIN left(k) = DOMAIN vfs.mounts[k].open
        /\ \A n \in DOMAIN vfs.mounts[k].open : left(k)[n] = vfs.mounts[k].open[n] \/ left(k)[n] = Closed
  <2>. SUFFICES ASSUME NEW k \in DOMAIN vfs.mounts
                PROVE  /\ mounts[k].point = vfs.mounts[k].point /\ mounts[k].medium = vfs.mounts[k].medium
                       /\ mounts[k].open = left(k) /\ mounts[k] \in VfsMount
                       /\ left(k) \in Seq(DeviceFile \cup {Closed}) /\ Len(left(k)) = Len(vfs.mounts[k].open)
                       /\ DOMAIN left(k) = DOMAIN vfs.mounts[k].open
                       /\ \A n \in DOMAIN vfs.mounts[k].open : left(k)[n] = vfs.mounts[k].open[n] \/ left(k)[n] = Closed
    OBVIOUS
  <2>1. vfs.mounts[k] \in VfsMount BY <1>1, VfsIs
  <2>2. vfs.mounts[k].open \in Seq(DeviceFile \cup {Closed}) BY <1>1, VfsIs
  <2>3. mounts[k] = [point |-> vfs.mounts[k].point, medium |-> vfs.mounts[k].medium, open |-> left(k)]
    BY <2>1 DEF VfsMount
  <2>4. left(k) \in Seq(DeviceFile \cup {Closed}) BY <2>2
  <2>5. mounts[k] \in VfsMount BY <2>1, <2>3, <2>4 DEF VfsMount
  <2>. QED BY <2>2, <2>3, <2>4, <2>5
<1>6. DOMAIN mounts = DOMAIN vfs.mounts /\ DOMAIN files = DOMAIN vfs.files OBVIOUS
<1>7. \A v \in DOMAIN vfs.files : files[v] = IF v \in V THEN Closed ELSE vfs.files[v] OBVIOUS
<1>8. mounts = [k \in DOMAIN mounts |-> mounts[k]] OBVIOUS
<1>9. vfs.files \in Seq(VfsFile \cup {Closed}) /\ Len(vfs.files) <= MaxOpen BY <1>1 DEF VfsTyped
<1>10. files \in Seq(VfsFile \cup {Closed}) /\ Len(files) = Len(vfs.files) BY <1>9
<1>. HIDE DEF left, mounts, files
<1>11. \A v \in DOMAIN vfs.files : Fresh(v)' <=> Fresh(v) /\ v \notin V BY <1>4, <1>6, <1>7 DEF Fresh, Closed
<1>12. ASSUME NEW v \in DOMAIN vfs.files, Fresh(v), v \notin V PROVE Own(v)' = Own(v) \/ Own(v)' = Closed
  <2>1. /\ vfs.files[v].born \in DOMAIN vfs.mounts
        /\ vfs.files[v].handle \in DOMAIN vfs.mounts[vfs.files[v].born].open
    BY <1>12 DEF Fresh, VfsInv, OwnFile
  <2>2. Own(v)' = mounts[vfs.files[v].born].open[vfs.files[v].handle] BY <1>4, <1>7, <1>12 DEF Own
  <2>3. mounts[vfs.files[v].born].open = left(vfs.files[v].born) BY <1>5, <2>1
  <2>. QED BY <1>5, <2>1, <2>2, <2>3 DEF Own
<1>13. VfsTyped'
  <2>1. \A k \in DOMAIN mounts : mounts[k] \in VfsMount BY <1>5, <1>6
  <2>2. \A k \in DOMAIN mounts : Len(mounts[k].open) <= Len(files) BY <1>1, <1>5, <1>6, <1>10 DEF VfsTyped
  <2>3. /\ DOMAIN mounts \subseteq 1 .. (vfs.next - 1) /\ vfs.next \in Nat \ {0}
        /\ vfs.disk \in [DOMAIN Disk -> [File -> Int]]
    BY <1>1, <1>6 DEF VfsTyped
  <2>4. mounts \in [DOMAIN mounts -> VfsMount] BY <1>8, <2>1
  <2>. QED BY <1>3, <1>4, <1>9, <1>10, <2>2, <2>3, <2>4 DEF VfsTyped
<1>14. BornFirst'
  <2>. SUFFICES ASSUME NEW u \in DOMAIN vfs.files, u \notin V, ~vfs.files[u].closed
                PROVE  /\ vfs.files[u].born < vfs.next
                       /\ Fresh(u) =>
                            /\ DeviceOf[mounts[vfs.files[u].born].point] = vfs.files[u].name
                            /\ \A k \in DOMAIN vfs.mounts :
                                 DeviceOf[mounts[k].point] = vfs.files[u].name => vfs.files[u].born <= k
    BY <1>4, <1>6, <1>7, <1>11 DEF BornFirst, Fresh, Closed
  <2>1. /\ vfs.files[u].born < vfs.next
        /\ Fresh(u) =>
             /\ DeviceOf[vfs.mounts[vfs.files[u].born].point] = vfs.files[u].name
             /\ \A k \in DOMAIN vfs.mounts :
                  DeviceOf[vfs.mounts[k].point] = vfs.files[u].name => vfs.files[u].born <= k
    BY DEF VfsInv, BornFirst
  <2>2. \A k \in DOMAIN vfs.mounts : mounts[k].point = vfs.mounts[k].point BY <1>5
  <2>. QED BY <2>1, <2>2 DEF Fresh
<1>15. OwnFile'
  <2>. SUFFICES ASSUME NEW u \in DOMAIN vfs.files, Fresh(u), u \notin V
                PROVE  /\ mounts[vfs.files[u].born].medium = vfs.files[u].medium
                       /\ vfs.files[u].handle \in DOMAIN mounts[vfs.files[u].born].open
                       /\ ~Own(u)'.closed =>
                            Own(u)'.file = vfs.files[u].file /\ (Own(u)'.foreign \/ Own(u)'.pos = vfs.files[u].pos)
    BY <1>4, <1>6, <1>7, <1>11 DEF OwnFile
  <2>1. vfs.files[u].born \in DOMAIN vfs.mounts BY DEF Fresh
  <2>2. /\ vfs.mounts[vfs.files[u].born].medium = vfs.files[u].medium
        /\ vfs.files[u].handle \in DOMAIN vfs.mounts[vfs.files[u].born].open
        /\ ~Own(u).closed => Own(u).file = vfs.files[u].file /\ (Own(u).foreign \/ Own(u).pos = vfs.files[u].pos)
    BY DEF VfsInv, OwnFile
  <2>3. /\ mounts[vfs.files[u].born].medium = vfs.mounts[vfs.files[u].born].medium
        /\ DOMAIN mounts[vfs.files[u].born].open = DOMAIN vfs.mounts[vfs.files[u].born].open
    BY <1>5, <2>1
  <2>. QED BY <1>12, <2>2, <2>3 DEF Closed
<1>16. OneEach' BY <1>4, <1>6, <1>7, <1>11 DEF VfsInv, OneEach
<1>17. VfsInv' BY <1>13, <1>14, <1>15, <1>16 DEF VfsInv
<1>. QED BY <1>4, <1>7, <1>10, <1>11, <1>12, <1>17

\* Opening a file: the last of the device's files, and of the file system's.
LEMMA OpensFile ==
  ASSUME VfsInv, NEW p \in Point, NEW x \in File, NEW a \in Access, NEW b \in Disposition,
         Len(vfs.files) < MaxOpen, MaxOpen \in Nat,
         OpenFile(vfs, DeviceOf[p], x, a, b) # <<>>, vfs' = OpenFile(vfs, DeviceOf[p], x, a, b)[1]
  PROVE  /\ VfsInv'
         /\ Len(vfs'.files) = Len(vfs.files) + 1
         /\ ~vfs'.files[Len(vfs.files) + 1].closed
         /\ \A u \in DOMAIN vfs.files : /\ vfs'.files[u] = vfs.files[u]
                                        /\ Fresh(u)' => Fresh(u) /\ Own(u)' = Own(u)
<1>0. PICK last : last = Len(vfs.files) + 1 OBVIOUS
<1> DEFINE name == DeviceOf[p]
           d == find_device(vfs, name)
           m == vfs.mounts[d].medium
           there == vfs.disk[m.id][x] # NoFile
           opens == IF m.kind = "host" THEN OpensHost(there, a, b) ELSE OpensImage(there, a, b)
           e == [file |-> x, pos |-> 0, closed |-> FALSE, foreign |-> FALSE,
                 reads |-> CanRead(there, a, b), writes |-> a # "read"]
           h == [name |-> name, handle |-> Len(vfs.mounts[d].open) + 1, pos |-> 0, closed |-> FALSE,
                 born |-> d, medium |-> m, file |-> x]
           length == IF Truncates(there, a, b) THEN 0 ELSE vfs.disk[m.id][x]
           disk == [vfs.disk EXCEPT ![m.id][x] = length]
           opened == Append(vfs.mounts[d].open, e)
           new == [point |-> vfs.mounts[d].point, medium |-> m, open |-> opened]
           mounts == [vfs.mounts EXCEPT ![d] = new]
           files == Append(vfs.files, h)
           g == [vfs EXCEPT !.mounts[d].open = Append(@, e), !.files = Append(@, h), !.disk = disk]
<1>1. VfsTyped BY DEF VfsInv
<1>2. d # 0 /\ vfs' = g
  <2>1. OpenFile(vfs, name, x, a, b) = IF d = 0 \/ (d # 0 /\ ~opens) THEN <<>> ELSE <<g>> BY DEF OpenFile
  <2>. HIDE DEF d, opens, g, name
  <2>2. ~(d = 0 \/ (d # 0 /\ ~opens)) BY <2>1 DEF name
  <2>3. vfs' = <<g>>[1] BY <2>1, <2>2 DEF name
  <2>. QED BY <2>2, <2>3
<1>3. /\ d \in DOMAIN vfs.mounts /\ DeviceOf[vfs.mounts[d].point] = name
      /\ \A k \in DOMAIN vfs.mounts : DeviceOf[vfs.mounts[k].point] = name => d <= k
  BY <1>1, <1>2, FindIs
<1>. HIDE DEF d
<1>4. vfs.mounts[d] \in VfsMount BY <1>1, <1>3, VfsIs
<1>5. vfs' = [mounts |-> mounts, files |-> files, next |-> vfs.next, disk |-> disk]
  <2>. HIDE DEF m, there, e, h, length
  <2>1. [vfs.mounts[d] EXCEPT !.open = opened] = new
    <3>. HIDE DEF opened
    <3>. QED BY <1>4 DEF VfsMount, m
  <2>2. [vfs.mounts EXCEPT ![d].open = Append(@, e)] = mounts
    <3>. HIDE DEF new
    <3>. QED BY <2>1
  <2>3. g = [vfs EXCEPT !.mounts = mounts, !.files = files, !.disk = disk]
    <3>. HIDE DEF mounts, disk
    <3>. QED BY <2>2
  <2>. HIDE DEF g, files, disk, mounts
  <2>. QED BY <1>1, <1>2, <2>3 DEF VfsTyped
<1>6. vfs'.mounts = mounts /\ vfs'.files = files /\ vfs'.next = vfs.next /\ vfs'.disk = disk
  <2>. HIDE DEF mounts, files, disk
  <2>. QED BY <1>5
<1>7. e \in DeviceFile BY DEF DeviceFile, CanRead
<1>8. /\ vfs.mounts[d].open \in Seq(DeviceFile \cup {Closed})
      /\ vfs.files \in Seq(VfsFile \cup {Closed})
      /\ Len(vfs.mounts[d].open) <= Len(vfs.files) /\ Len(vfs.files) \in Nat
      /\ Len(vfs.mounts[d].open) \in Nat
  BY <1>1, <1>3, <1>4 DEF VfsTyped, VfsMount
<1>9. h \in VfsFile
  <2>1. Len(vfs.mounts[d].open) + 1 \in 1 .. MaxOpen BY <1>8
  <2>2. d \in Nat \ {0} /\ m \in Media BY <1>1, <1>3, VfsIs
  <2>. QED BY <2>1, <2>2 DEF VfsFile
<1>10. /\ h.name = name /\ h.handle = Len(vfs.mounts[d].open) + 1 /\ ~h.closed /\ h.born = d
       /\ h.medium = m /\ h.file = x /\ h.pos = 0
       /\ e.file = x /\ e.pos = 0
  OBVIOUS
<1>11. disk \in [DOMAIN Disk -> [File -> Int]]
  <2>1. m.id \in DOMAIN Disk BY <1>4 DEF VfsMount, Media
  <2>2. vfs.disk[m.id] \in [File -> Int] BY <1>1, <2>1 DEF VfsTyped
  <2>3. length \in Int BY <2>2
  <2>. HIDE DEF m, length
  <2>4. [vfs.disk[m.id] EXCEPT ![x] = length] \in [File -> Int] BY <2>2, <2>3
  <2>. QED BY <1>1, <2>1, <2>4 DEF VfsTyped
<1>12. new.point = vfs.mounts[d].point /\ new.medium = m /\ new.open = Append(vfs.mounts[d].open, e)
  <2>. HIDE DEF m, e
  <2>. QED OBVIOUS
<1>. HIDE DEF e, h, there, m, length
<1>13. /\ new.open \in Seq(DeviceFile \cup {Closed}) /\ Len(new.open) = Len(vfs.mounts[d].open) + 1
       /\ \A n \in DOMAIN vfs.mounts[d].open : n \in DOMAIN new.open /\ new.open[n] = vfs.mounts[d].open[n]
       /\ Len(vfs.mounts[d].open) + 1 \in DOMAIN new.open
       /\ Len(vfs.mounts[d].open) + 1 \notin DOMAIN vfs.mounts[d].open
       /\ new.open[Len(vfs.mounts[d].open) + 1] = e
  <2>1. e \in DeviceFile \cup {Closed} BY <1>7
  <2>2. LET q == Append(vfs.mounts[d].open, e) IN
        /\ q \in Seq(DeviceFile \cup {Closed}) /\ Len(q) = Len(vfs.mounts[d].open) + 1
        /\ DOMAIN q = DOMAIN vfs.mounts[d].open \cup {Len(vfs.mounts[d].open) + 1}
        /\ Len(vfs.mounts[d].open) + 1 \notin DOMAIN vfs.mounts[d].open
        /\ \A n \in DOMAIN vfs.mounts[d].open : q[n] = vfs.mounts[d].open[n]
        /\ q[Len(vfs.mounts[d].open) + 1] = e
    <3>1. vfs.mounts[d].open \in Seq(DeviceFile \cup {Closed}) BY <1>8
    <3>2. PICK s \in Seq(DeviceFile \cup {Closed}) : s = vfs.mounts[d].open BY <3>1
    <3>3. /\ Append(s, e) \in Seq(DeviceFile \cup {Closed}) /\ Len(Append(s, e)) = Len(s) + 1
          /\ DOMAIN Append(s, e) = DOMAIN s \cup {Len(s) + 1} /\ Len(s) + 1 \notin DOMAIN s
          /\ \A n \in DOMAIN s : Append(s, e)[n] = s[n]
          /\ Append(s, e)[Len(s) + 1] = e
      BY <2>1, AppendedIs
    <3>. QED BY <3>2, <3>3
  <2>3. new.open = Append(vfs.mounts[d].open, e) BY <1>12
  <2>. HIDE DEF new
  <2>. QED BY <2>2, <2>3
<1>14. new \in VfsMount
  <2>1. vfs.mounts[d].point \in Point /\ m \in Media BY <1>4 DEF VfsMount, m
  <2>2. Append(vfs.mounts[d].open, e) \in Seq(DeviceFile \cup {Closed}) BY <1>12, <1>13
  <2>. QED BY <2>1, <2>2 DEF VfsMount
<1>15. /\ files \in Seq(VfsFile \cup {Closed}) /\ Len(files) = last
       /\ DOMAIN files = DOMAIN vfs.files \cup {last} /\ last \notin DOMAIN vfs.files
       /\ \A u \in DOMAIN vfs.files : files[u] = vfs.files[u]
       /\ files[last] = h
  <2>1. h \in VfsFile \cup {Closed} BY <1>9
  <2>. QED BY <1>0, <1>8, <2>1, AppendedIs
<1>. HIDE DEF new, files, disk
<1>16. /\ DOMAIN mounts = DOMAIN vfs.mounts /\ mounts[d] = new
       /\ \A k \in DOMAIN vfs.mounts : k # d => mounts[k] = vfs.mounts[k]
       /\ mounts \in [DOMAIN vfs.mounts -> VfsMount]
  BY <1>1, <1>3, <1>14 DEF VfsTyped
<1>. HIDE DEF mounts
<1>17. \A k \in DOMAIN vfs.mounts :
         /\ mounts[k].point = vfs.mounts[k].point /\ mounts[k].medium = vfs.mounts[k].medium
         /\ \A n \in DOMAIN vfs.mounts[k].open : n \in DOMAIN mounts[k].open /\ mounts[k].open[n] = vfs.mounts[k].open[n]
  <2>1. mounts[d] = new /\ new.point = vfs.mounts[d].point /\ new.medium = vfs.mounts[d].medium BY <1>12, <1>16 DEF m
  <2>2. \A k \in DOMAIN vfs.mounts : k # d => mounts[k] = vfs.mounts[k] BY <1>16
  <2>3. \A n \in DOMAIN vfs.mounts[d].open : n \in DOMAIN new.open /\ new.open[n] = vfs.mounts[d].open[n] BY <1>13
  <2>. QED BY <2>1, <2>2, <2>3
<1>18. ASSUME NEW u \in DOMAIN vfs.files, Fresh(u)
       PROVE  /\ vfs.files[u].born \in DOMAIN vfs.mounts
              /\ vfs.files[u].handle \in DOMAIN vfs.mounts[vfs.files[u].born].open
              /\ vfs.mounts[vfs.files[u].born].medium = vfs.files[u].medium
              /\ ~Own(u).closed => Own(u).file = vfs.files[u].file /\ (Own(u).foreign \/ Own(u).pos = vfs.files[u].pos)
  BY <1>18 DEF VfsInv, OwnFile, Fresh
<1>19. \A u \in DOMAIN vfs.files : /\ Fresh(u)' <=> Fresh(u)
                                   /\ Fresh(u) => Own(u)' = Own(u)
  <2>1. ASSUME NEW u \in DOMAIN vfs.files PROVE Fresh(u)' <=> Fresh(u) BY <1>6, <1>15, <1>16 DEF Fresh
  <2>2. ASSUME NEW u \in DOMAIN vfs.files, Fresh(u) PROVE Own(u)' = Own(u)
    <3>1. /\ vfs.files[u].born \in DOMAIN vfs.mounts
          /\ vfs.files[u].handle \in DOMAIN vfs.mounts[vfs.files[u].born].open
      BY <1>18, <2>2
    <3>2. vfs'.files[u] = vfs.files[u] /\ vfs'.mounts = mounts BY <1>6, <1>15
    <3>. QED BY <1>17, <3>1, <3>2 DEF Own
  <2>. QED BY <2>1, <2>2
<1>20. Fresh(last)' /\ Own(last)' = e
  <2>1. vfs'.files[last] = h /\ vfs'.mounts = mounts /\ mounts[d] = new BY <1>6, <1>15, <1>16
  <2>2. d \in DOMAIN mounts BY <1>3, <1>16
  <2>. QED BY <1>10, <1>13, <2>1, <2>2 DEF Fresh, Own
<1>21. VfsTyped'
  <2>1. \A k \in DOMAIN mounts : Len(mounts[k].open) <= Len(files)
    <3>1. \A k \in DOMAIN vfs.mounts : Len(vfs.mounts[k].open) <= Len(vfs.files) BY <1>1 DEF VfsTyped
    <3>2. Len(new.open) <= Len(files) BY <1>8, <1>13, <1>0, <1>15
    <3>3. \A k \in DOMAIN vfs.mounts : Len(vfs.mounts[k].open) \in Nat BY <1>1, VfsIs
    <3>. QED BY <1>8, <1>15, <1>16, <3>1, <3>2, <3>3, <1>0
  <2>2. DOMAIN mounts \subseteq 1 .. (vfs.next - 1) /\ vfs.next \in Nat \ {0} BY <1>1, <1>16 DEF VfsTyped
  <2>3. Len(files) <= MaxOpen BY <1>8, <1>0, <1>15
  <2>. QED BY <1>5, <1>6, <1>11, <1>15, <1>16, <2>1, <2>2, <2>3 DEF VfsTyped
<1>22. BornFirst'
  <2>1. ASSUME NEW u \in DOMAIN vfs.files, ~vfs.files[u].closed
        PROVE  /\ vfs.files[u].born < vfs.next
               /\ Fresh(u) =>
                    /\ DeviceOf[mounts[vfs.files[u].born].point] = vfs.files[u].name
                    /\ \A k \in DOMAIN vfs.mounts :
                         DeviceOf[mounts[k].point] = vfs.files[u].name => vfs.files[u].born <= k
    <3>1. /\ vfs.files[u].born < vfs.next
          /\ Fresh(u) =>
               /\ DeviceOf[vfs.mounts[vfs.files[u].born].point] = vfs.files[u].name
               /\ \A k \in DOMAIN vfs.mounts :
                    DeviceOf[vfs.mounts[k].point] = vfs.files[u].name => vfs.files[u].born <= k
      BY <2>1 DEF VfsInv, BornFirst
    <3>. QED BY <1>17, <3>1 DEF Fresh
  <2>2. d < vfs.next BY <1>1, <1>3, VfsIs
  <2>3. /\ DeviceOf[mounts[d].point] = name
        /\ \A k \in DOMAIN vfs.mounts : DeviceOf[mounts[k].point] = name => d <= k
    BY <1>3, <1>17
  <2>4. DOMAIN mounts = DOMAIN vfs.mounts BY <1>16
  <2>5. ASSUME NEW u \in DOMAIN vfs'.files, ~vfs'.files[u].closed
        PROVE  /\ vfs'.files[u].born < vfs'.next
               /\ Fresh(u)' =>
                    /\ DeviceOf[vfs'.mounts[vfs'.files[u].born].point] = vfs'.files[u].name
                    /\ \A k \in DOMAIN vfs'.mounts :
                         DeviceOf[vfs'.mounts[k].point] = vfs'.files[u].name => vfs'.files[u].born <= k
    <3>1. CASE u = last BY <1>6, <1>10, <1>15, <2>2, <2>3, <2>4, <3>1
    <3>2. CASE u \in DOMAIN vfs.files
      <4>1. vfs'.files[u] = vfs.files[u] /\ vfs'.next = vfs.next /\ (Fresh(u)' <=> Fresh(u)) BY <1>6, <1>15, <1>19, <3>2
      <4>. QED BY <1>6, <2>1, <2>4, <2>5, <3>2, <4>1
    <3>. QED BY <1>6, <1>15, <3>1, <3>2
  <2>. QED BY <2>5 DEF BornFirst, Fresh
<1>23. OwnFile'
  <2>1. ASSUME NEW u \in DOMAIN vfs'.files, Fresh(u)'
        PROVE  /\ vfs'.mounts[vfs'.files[u].born].medium = vfs'.files[u].medium
               /\ vfs'.files[u].handle \in DOMAIN vfs'.mounts[vfs'.files[u].born].open
               /\ ~Own(u)'.closed => Own(u)'.file = vfs'.files[u].file /\ (Own(u)'.foreign \/ Own(u)'.pos = vfs'.files[u].pos)
    <3>1. CASE u = last
      <4>1. vfs'.files[u] = h /\ vfs'.mounts[d] = new /\ Own(u)' = e BY <1>6, <1>15, <1>16, <1>20, <3>1
      <4>. QED BY <1>10, <1>12, <1>13, <4>1
    <3>2. CASE u \in DOMAIN vfs.files
      <4>1. vfs'.files[u] = vfs.files[u] /\ Fresh(u) /\ Own(u)' = Own(u) BY <1>6, <1>15, <1>19, <2>1, <3>2
      <4>. QED BY <1>6, <1>17, <1>18, <3>2, <4>1
    <3>. QED BY <1>6, <1>15, <3>1, <3>2
  <2>. QED BY <2>1 DEF OwnFile
<1>24. OneEach'
  <2>1. ASSUME NEW v \in DOMAIN vfs'.files, NEW u \in DOMAIN vfs'.files, Fresh(v)', Fresh(u)',
               vfs'.files[v].born = vfs'.files[u].born, vfs'.files[v].handle = vfs'.files[u].handle
        PROVE  v = u
    <3>1. \A w \in DOMAIN vfs.files : /\ vfs'.files[w] = vfs.files[w]
                                      /\ Fresh(w)' => Fresh(w)
      BY <1>6, <1>15, <1>19
    <3>2. \A w \in DOMAIN vfs.files : Fresh(w) /\ vfs.files[w].born = d => vfs.files[w].handle # h.handle
      BY <1>10, <1>13, <1>18
    <3>3. vfs'.files[last] = h /\ h.born = d BY <1>6, <1>10, <1>15
    <3>4. \A w \in DOMAIN vfs'.files : w = last \/ w \in DOMAIN vfs.files BY <1>6, <1>15
    <3>5. CASE v = last \/ u = last BY <2>1, <3>1, <3>2, <3>3, <3>4, <3>5
    <3>6. CASE v \in DOMAIN vfs.files /\ u \in DOMAIN vfs.files BY <2>1, <3>1, <3>6 DEF VfsInv, OneEach
    <3>. QED BY <3>4, <3>5, <3>6
  <2>. QED BY <2>1 DEF OneEach
<1>25. VfsInv' BY <1>21, <1>22, <1>23, <1>24 DEF VfsInv
<1>26. ~vfs'.files[last].closed BY <1>6, <1>10, <1>15
<1>27. Len(vfs'.files) = last BY <1>6, <1>15
<1>28. \A u \in DOMAIN vfs.files : /\ vfs'.files[u] = vfs.files[u]
                                   /\ Fresh(u)' => Fresh(u) /\ Own(u)' = Own(u)
  BY <1>6, <1>15, <1>19
<1>. QED BY <1>25, <1>26, <1>27, <1>28, <1>0

\* The kinds of calls.
LEMMA CallIs ==
  ASSUME CallsTyped, NEW t \in Thread
  PROVE  /\ call[t] \in FileCall
         /\ call[t].op # "idle" => call[t].v \in DOMAIN vfs.files
         /\ call[t].op \in {"bind", "close"} => call[t] \in [op : {"bind", "close"}, v : Nat]
         /\ call[t].op \in {"read", "write", "set"} =>
              call[t] \in [op : {"read", "write", "set"}, v : Nat, mixed : BOOLEAN, sought : BOOLEAN, at : Int]
         /\ call[t].op = "idle" => call[t] = Idle
<1>1. call[t] \in FileCall BY DEF CallsTyped
<1>2. call[t].op # "idle" => call[t].v \in DOMAIN vfs.files BY DEF CallsTyped
<1>. QED BY <1>1, <1>2 DEF FileCall, Idle

\* What a call in progress relies on, when a step does not touch its file.
Steady(v) ==
  Fresh(v)' =>
    /\ Fresh(v) /\ vfs'.files[v].pos = vfs.files[v].pos
    /\ ~Own(v)'.closed => ~Own(v).closed /\ (Own(v).foreign => Own(v)'.foreign)

\* A thread whose file is left alone is still where it was.
LEMMA OffsetStays ==
  ASSUME NEW t \in Thread, OffsetOf(t), call'[t] = call[t],
         \A v \in DOMAIN vfs.files : Steady(v), call[t].op # "idle" => call[t].v \in DOMAIN vfs.files
  PROVE  OffsetOf(t)'
<1>. SUFFICES ASSUME call[t].op \in {"read", "write"} PROVE OffsetOf(t)' BY DEF OffsetOf
<1>1. PICK v \in DOMAIN vfs.files : v = call[t].v OBVIOUS
<1>2. Steady(v) BY <1>1
<1>3. call'[t].v = v BY <1>1
<1>4. OffsetOf(t) <=> ((call[t].sought /\ ~call[t].mixed /\ Fresh(v) /\ ~Own(v).closed) =>
                         Own(v).foreign \/ call[t].at = vfs.files[v].pos)
  BY <1>1 DEF OffsetOf
<1>5. OffsetOf(t)' <=> ((call[t].sought /\ ~call[t].mixed /\ Fresh(v)' /\ ~Own(v)'.closed) =>
                          Own(v)'.foreign \/ call[t].at = vfs'.files[v].pos)
  BY <1>3 DEF OffsetOf, Fresh, Own
<1>. QED BY <1>2, <1>4, <1>5 DEF Steady

\* The handles and the calls are as they were, and so are the files but for their place.
LEMMA TableKept ==
  ASSUME FilesInv, VfsInv', UNCHANGED <<handles, call>>, Len(vfs'.files) = Len(vfs.files), crashed' \in BOOLEAN,
         \A v \in DOMAIN vfs.files : vfs'.files[v].closed = vfs.files[v].closed,
         \A v \in DOMAIN vfs.files : Steady(v)
  PROVE  FilesInv'
<1>1. DOMAIN vfs'.files = DOMAIN vfs.files
  <2>1. vfs.files \in Seq(VfsFile \cup {Closed}) /\ vfs'.files \in Seq(VfsFile \cup {Closed})
    BY DEF FilesInv, VfsInv, VfsTyped
  <2>. QED BY <2>1
<1>2. CallsTyped' BY <1>1 DEF FilesInv, CallsTyped
<1>3. AtOffset'
  <2>. SUFFICES ASSUME NEW t \in Thread PROVE OffsetOf(t)' BY DEF AtOffset
  <2>1. OffsetOf(t) BY DEF FilesInv, AtOffset
  <2>2. call[t].op # "idle" => call[t].v \in DOMAIN vfs.files BY CallIs DEF FilesInv
  <2>. QED BY <2>1, <2>2, OffsetStays
<1>4. TableOpen'
  <2>1. \A k \in DOMAIN handles : handles[k] # 0 => handles[k] \in DOMAIN vfs.files
    BY DEF FilesInv, CallsTyped, VfsInv, VfsTyped
  <2>2. \A t \in Thread : call[t].op = "bind" => call[t].v \in DOMAIN vfs.files BY DEF FilesInv, CallsTyped
  <2>. QED BY <2>1, <2>2 DEF FilesInv, TableOpen
<1>. QED BY <1>2, <1>3, <1>4 DEF FilesInv

\* The steps of the emulator and of the calls, one by one.
LEMMA StepMount ==
  ASSUME FilesInv, FileAssumption, NEW p \in Point, NEW medium \in Medium, Mount(p, medium)
  PROVE  FilesInv'
<1>1. VfsInv /\ VfsTyped BY DEF FilesInv, VfsInv
<1>2. PICK S : S = {k \in DOMAIN vfs.mounts : vfs.mounts[k].point # p} OBVIOUS
<1>3. PICK N : N = IF medium.kind = "bad" THEN {} ELSE {vfs.next} OBVIOUS
<1>4. PICK mounts : mounts = [k \in S \cup N |-> IF k \in N THEN NewMount(p, medium) ELSE vfs.mounts[k]] OBVIOUS
<1>5. PICK next : next = vfs.next + 1 OBVIOUS
<1>6. vfs' = [vfs EXCEPT !.mounts = mounts, !.next = next] BY <1>2, <1>3, <1>4, <1>5 DEF Mount, Mounted
<1>7. vfs' = [mounts |-> mounts, files |-> vfs.files, next |-> next, disk |-> vfs.disk]
  BY <1>1, <1>6 DEF VfsTyped
<1>8. vfs.next \in Nat /\ next \in Nat /\ next > vfs.next BY <1>1, <1>5, VfsIs
<1>9. NewMount(p, medium) \in VfsMount /\ NewMount(p, medium).open = <<>>
  <2>1. medium \in Media BY DEF FileAssumption
  <2>. QED BY <2>1 DEF NewMount, VfsMount
<1>10. S \in SUBSET DOMAIN vfs.mounts /\ N \in SUBSET {vfs.next} BY <1>2, <1>3
<1>11. \A k \in S : k \notin N /\ vfs.mounts[k] \in VfsMount
  BY <1>1, <1>8, <1>10, VfsIs
<1>12. DOMAIN mounts = S \cup N /\ mounts \in [S \cup N -> VfsMount] /\ \A k \in S : mounts[k] = vfs.mounts[k]
  BY <1>4, <1>9, <1>11
<1>13. \A k \in N : mounts[k].open = <<>> BY <1>4, <1>9
<1>14. /\ VfsInv'
       /\ vfs'.files = vfs.files
       /\ \A v \in DOMAIN vfs.files : Fresh(v)' => Fresh(v) /\ Own(v)' = Own(v)
  <2>1. LeavesMounts(S, N, mounts, next) BY <1>7, <1>8, <1>10, <1>12, <1>13 DEF LeavesMounts
  <2>. QED BY <1>1, <2>1, MountsChange
<1>15. \A v \in DOMAIN vfs.files : Steady(v) BY <1>14 DEF Steady
<1>16. UNCHANGED <<handles, call>> /\ crashed' \in BOOLEAN BY DEF Mount, FilesInv, CallsTyped
<1>. QED BY <1>14, <1>15, <1>16, TableKept

LEMMA StepKept ==
  ASSUME FilesInv, NEW S \in SUBSET DOMAIN vfs.mounts, vfs' = Kept(vfs, S), UNCHANGED <<handles, call, crashed>>
  PROVE  FilesInv'
<1>1. VfsInv /\ VfsTyped BY DEF FilesInv, VfsInv
<1>2. PICK mounts : mounts = [k \in S |-> vfs.mounts[k]] OBVIOUS
<1>3. PICK next : next = vfs.next OBVIOUS
<1>4. vfs' = [mounts |-> mounts, files |-> vfs.files, next |-> next, disk |-> vfs.disk]
  BY <1>1, <1>2, <1>3 DEF VfsTyped, Kept
<1>5. next \in Nat /\ next >= vfs.next BY <1>1, <1>3, VfsIs
<1>6. DOMAIN mounts = S \cup {} /\ mounts \in [S \cup {} -> VfsMount] /\ \A k \in S : mounts[k] = vfs.mounts[k]
  BY <1>1, <1>2, VfsIs
<1>7. /\ VfsInv'
      /\ vfs'.files = vfs.files
      /\ \A v \in DOMAIN vfs.files : Fresh(v)' => Fresh(v) /\ Own(v)' = Own(v)
  <2>1. LeavesMounts(S, {}, mounts, next) BY <1>4, <1>5, <1>6 DEF LeavesMounts
  <2>. QED BY <1>1, <2>1, MountsChange
<1>8. \A v \in DOMAIN vfs.files : Steady(v) BY <1>7 DEF Steady
<1>9. crashed' \in BOOLEAN BY DEF FilesInv, CallsTyped
<1>. QED BY <1>7, <1>8, <1>9, TableKept

LEMMA StepUnmount ==
  ASSUME FilesInv, NEW p \in Point, Unmount(p) \/ unmount_all
  PROVE  FilesInv'
<1>1. CASE unmount_all BY <1>1, StepKept DEF unmount_all
<1>2. CASE Unmount(p)
  <2>1. PICK last : last = Max(DOMAIN vfs.mounts) OBVIOUS
  <2>2. CASE vfs.mounts[last].point = p
    <3>1. PICK S \in SUBSET DOMAIN vfs.mounts : S = DOMAIN vfs.mounts \ {last} OBVIOUS
    <3>2. vfs' = Kept(vfs, S) /\ UNCHANGED <<handles, call, crashed>> BY <1>2, <2>1, <2>2, <3>1 DEF Unmount
    <3>. QED BY <3>2, StepKept
  <2>3. CASE vfs.mounts[last].point # p
    <3>1. UNCHANGED <<vfs, handles, call>> /\ crashed' = TRUE BY <1>2, <2>1, <2>3 DEF Unmount
    <3>2. VfsInv' BY <3>1 DEF FilesInv, VfsInv, VfsTyped, BornFirst, OwnFile, OneEach, Fresh, Own
    <3>3. \A v \in DOMAIN vfs.files : Steady(v) BY <3>1 DEF Steady, Fresh, Own
    <3>. QED BY <3>1, <3>2, <3>3, TableKept
  <2>. QED BY <2>2, <2>3
<1>. QED BY <1>1, <1>2

\* The files are numbered from 1.
LEMMA FilesDomain ==
  ASSUME VfsTyped
  PROVE  /\ DOMAIN vfs.files = 1 .. Len(vfs.files) /\ Len(vfs.files) \in Nat
         /\ vfs.files \in Seq(VfsFile \cup {Closed}) /\ Len(vfs.files) <= MaxOpen
<1>1. vfs.files \in Seq(VfsFile \cup {Closed}) /\ Len(vfs.files) <= MaxOpen BY DEF VfsTyped
<1>. QED BY <1>1

LEMMA StepRestart ==
  ASSUME FilesInv, RestartIo
  PROVE  FilesInv'
<1>1. VfsInv /\ VfsTyped BY DEF FilesInv, VfsInv
<1>2. PICK V : V = {handles[k] : k \in DOMAIN handles} \ {0} OBVIOUS
<1>3. V \in SUBSET DOMAIN vfs.files
  <2>1. \A k \in DOMAIN handles : handles[k] \in 0 .. Len(vfs.files) BY DEF FilesInv, CallsTyped
  <2>. QED BY <1>1, <1>2, <2>1, FilesDomain
<1>4. /\ vfs' = CloseFiles(vfs, V) /\ handles' = <<>> /\ UNCHANGED <<call, crashed>>
      /\ \A t \in Thread : call[t] = Idle
  BY <1>2 DEF RestartIo
<1>5. VfsInv' BY <1>1, <1>3, <1>4, ClosesFiles
<1>6. CallsTyped'
  <2>1. call \in [Thread -> FileCall] /\ crashed \in BOOLEAN BY DEF FilesInv, CallsTyped
  <2>. QED BY <1>4, <2>1 DEF CallsTyped, Idle
<1>7. AtOffset' BY <1>4 DEF AtOffset, OffsetOf, Idle
<1>8. TableOpen' BY <1>4 DEF TableOpen, Idle
<1>. QED BY <1>5, <1>6, <1>7, <1>8 DEF FilesInv

LEMMA StepCreate ==
  ASSUME FilesInv, FileAssumption, NEW t \in Thread, NEW p \in Point, NEW x \in File, NEW a \in Access, NEW b \in Disposition,
         NtCreateFile(t, DeviceOf[p], x, a, b)
  PROVE  FilesInv'
<1>1. VfsInv /\ VfsTyped BY DEF FilesInv, VfsInv
<1>2. PICK n : n = Len(vfs.files) + 1 OBVIOUS
<1>3. /\ call[t] = Idle /\ Len(vfs.files) < MaxOpen /\ OpenFile(vfs, DeviceOf[p], x, a, b) # <<>>
      /\ vfs' = OpenFile(vfs, DeviceOf[p], x, a, b)[1]
      /\ call' = [call EXCEPT ![t] = [op |-> "bind", v |-> n]] /\ UNCHANGED <<handles, crashed>>
  BY <1>2 DEF NtCreateFile, Goto
<1>4. /\ VfsInv' /\ Len(vfs'.files) = n /\ ~vfs'.files[n].closed
      /\ \A u \in DOMAIN vfs.files : /\ vfs'.files[u] = vfs.files[u]
                                     /\ Fresh(u)' => Fresh(u) /\ Own(u)' = Own(u)
  BY <1>1, <1>2, <1>3, OpensFile DEF FileAssumption
<1>5. DOMAIN vfs'.files = DOMAIN vfs.files \cup {n} /\ n \in Nat /\ n \notin DOMAIN vfs.files /\ n # 0
  <2>1. vfs'.files \in Seq(VfsFile \cup {Closed}) BY <1>4 DEF VfsInv, VfsTyped
  <2>2. vfs.files \in Seq(VfsFile \cup {Closed}) BY <1>1 DEF VfsTyped
  <2>3. Len(vfs'.files) = Len(vfs.files) + 1 BY <1>2, <1>4
  <2>. QED BY <1>2, <2>1, <2>2, <2>3
<1>6. call \in [Thread -> FileCall] /\ handles \in Seq(0 .. Len(vfs.files)) /\ crashed \in BOOLEAN
  BY DEF FilesInv, CallsTyped
<1>7. call'[t] = [op |-> "bind", v |-> n] /\ \A u \in Thread : u # t => call'[u] = call[u] BY <1>3, <1>6
<1>8. \A u \in Thread : call[u].op # "idle" => call[u].v \in DOMAIN vfs.files BY DEF FilesInv, CallsTyped
<1>9. CallsTyped'
  <2>1. [op |-> "bind", v |-> n] \in FileCall BY <1>5 DEF FileCall
  <2>2. call' \in [Thread -> FileCall] BY <1>3, <1>6, <2>1
  <2>3. handles \in Seq(0 .. n) BY <1>1, <1>2, <1>6, FilesDomain
  <2>4. \A u \in Thread : call'[u].op # "idle" => call'[u].v \in DOMAIN vfs'.files BY <1>5, <1>7, <1>8
  <2>. QED BY <1>3, <1>4, <1>6, <2>2, <2>3, <2>4 DEF CallsTyped
<1>10. \A v \in DOMAIN vfs.files : Steady(v) BY <1>4 DEF Steady
<1>11. AtOffset'
  <2>. SUFFICES ASSUME NEW u \in Thread PROVE OffsetOf(u)' BY DEF AtOffset
  <2>1. CASE u = t BY <1>7, <2>1 DEF OffsetOf
  <2>2. CASE u # t
    <3>1. OffsetOf(u) BY DEF FilesInv, AtOffset
    <3>. QED BY <1>7, <1>8, <1>10, <2>2, <3>1, OffsetStays
  <2>. QED BY <2>1, <2>2
<1>12. TableOpen'
  <2>1. \A k \in DOMAIN handles : handles[k] \in 0 .. Len(vfs.files) BY <1>6
  <2>2. \A k \in DOMAIN handles : handles[k] # 0 => handles[k] \in DOMAIN vfs.files BY <1>1, <2>1, FilesDomain
  <2>3. TableOpen BY DEF FilesInv
  <2>4. ASSUME NEW k \in DOMAIN handles, handles[k] # 0
        PROVE  /\ ~vfs'.files[handles[k]].closed
               /\ \A l \in DOMAIN handles : handles[l] = handles[k] => l = k
               /\ \A u \in Thread : call'[u].op \in {"bind", "close"} => call'[u].v # handles[k]
    <3>1. /\ ~vfs.files[handles[k]].closed
          /\ \A l \in DOMAIN handles : handles[l] = handles[k] => l = k
          /\ \A u \in Thread : call[u].op \in {"bind", "close"} => call[u].v # handles[k]
      BY <2>3, <2>4 DEF TableOpen
    <3>2. handles[k] \in DOMAIN vfs.files /\ handles[k] # n BY <1>5, <2>2, <2>4
    <3>3. vfs'.files[handles[k]] = vfs.files[handles[k]] BY <1>4, <3>2
    <3>. QED BY <1>7, <3>1, <3>2, <3>3
  <2>5. ASSUME NEW u \in Thread, call'[u].op = "bind"
        PROVE  /\ ~vfs'.files[call'[u].v].closed
               /\ \A w \in Thread : call'[w].op \in {"bind", "close"} /\ call'[w].v = call'[u].v => w = u
    <3>1. CASE u = t
      <4>1. \A w \in Thread : w # t /\ call[w].op # "idle" => call[w].v # n BY <1>5, <1>8
      <4>. QED BY <1>4, <1>7, <3>1, <4>1
    <3>2. CASE u # t
      <4>1. call[u].v # n /\ call[u].v \in DOMAIN vfs.files BY <1>5, <1>7, <1>8, <2>5, <3>2
      <4>. QED BY <1>4, <1>7, <2>3, <2>5, <3>2, <4>1 DEF TableOpen
    <3>. QED BY <3>1, <3>2
  <2>. QED BY <1>3, <2>4, <2>5 DEF TableOpen
<1>. QED BY <1>4, <1>9, <1>11, <1>12 DEF FilesInv

\* A step that leaves the file system alone.
LEMMA VfsSame ==
  ASSUME VfsInv, vfs' = vfs
  PROVE  VfsInv' /\ \A v \in DOMAIN vfs.files : Steady(v)
<1>1. VfsInv' BY DEF VfsInv, VfsTyped, BornFirst, OwnFile, OneEach, Fresh, Own
<1>. QED BY <1>1 DEF Steady, Fresh, Own

LEMMA StepBind ==
  ASSUME FilesInv, NEW t \in Thread, Bind(t)
  PROVE  FilesInv'
<1>1. VfsInv /\ VfsTyped BY DEF FilesInv, VfsInv
<1>2. PICK n : n = call[t].v OBVIOUS
<1>3. /\ call[t].op = "bind" /\ handles' = Append(handles, n) /\ call' = [call EXCEPT ![t] = Idle]
      /\ vfs' = vfs /\ crashed' = crashed
  BY <1>2 DEF Bind, Goto
<1>4. VfsInv' /\ \A v \in DOMAIN vfs.files : Steady(v) BY <1>1, <1>3, VfsSame
<1>5. call \in [Thread -> FileCall] /\ handles \in Seq(0 .. Len(vfs.files)) /\ crashed \in BOOLEAN
  BY DEF FilesInv, CallsTyped
<1>6. call'[t] = Idle /\ \A u \in Thread : u # t => call'[u] = call[u] BY <1>3, <1>5
<1>7. \A u \in Thread : call[u].op # "idle" => call[u].v \in DOMAIN vfs.files BY DEF FilesInv, CallsTyped
<1>8. n \in DOMAIN vfs.files /\ n \in 0 .. Len(vfs.files) /\ n # 0
  <2>1. n \in DOMAIN vfs.files BY <1>2, <1>3, <1>7
  <2>. QED BY <1>1, <2>1, FilesDomain
<1>9. /\ handles' \in Seq(0 .. Len(vfs.files)) /\ Len(handles) + 1 \notin DOMAIN handles
      /\ DOMAIN handles' = DOMAIN handles \cup {Len(handles) + 1}
      /\ \A k \in DOMAIN handles : handles'[k] = handles[k]
      /\ handles'[Len(handles) + 1] = n
  BY <1>3, <1>5, <1>8, AppendedIs
<1>10. CallsTyped'
  <2>1. call' \in [Thread -> FileCall] BY <1>3, <1>5 DEF FileCall
  <2>. QED BY <1>3, <1>5, <1>6, <1>7, <1>9, <2>1 DEF CallsTyped, Idle
<1>11. AtOffset'
  <2>. SUFFICES ASSUME NEW u \in Thread PROVE OffsetOf(u)' BY DEF AtOffset
  <2>1. CASE u = t BY <1>6, <2>1 DEF OffsetOf, Idle
  <2>2. CASE u # t
    <3>1. OffsetOf(u) BY DEF FilesInv, AtOffset
    <3>. QED BY <1>4, <1>6, <1>7, <2>2, <3>1, OffsetStays
  <2>. QED BY <2>1, <2>2
<1>12. TableOpen'
  <2>1. TableOpen BY DEF FilesInv
  <2>2. /\ \A k \in DOMAIN handles : handles[k] # n
        /\ ~vfs.files[n].closed
        /\ \A u \in Thread : u # t /\ call[u].op \in {"bind", "close"} => call[u].v # n
    BY <1>2, <1>3, <1>8, <2>1 DEF TableOpen
  <2>3. ASSUME NEW k \in DOMAIN handles', handles'[k] # 0
        PROVE  /\ ~vfs.files[handles'[k]].closed
               /\ \A l \in DOMAIN handles' : handles'[l] = handles'[k] => l = k
               /\ \A u \in Thread : call'[u].op \in {"bind", "close"} => call'[u].v # handles'[k]
    <3>1. CASE k = Len(handles) + 1 BY <1>6, <1>9, <2>2, <3>1 DEF Idle
    <3>2. CASE k \in DOMAIN handles BY <1>6, <1>9, <2>1, <2>2, <2>3, <3>2 DEF Idle, TableOpen
    <3>. QED BY <1>9, <3>1, <3>2
  <2>4. \A u \in Thread : call'[u].op = "bind" =>
          /\ ~vfs.files[call'[u].v].closed
          /\ \A w \in Thread : call'[w].op \in {"bind", "close"} /\ call'[w].v = call'[u].v => w = u
    BY <1>6, <2>1 DEF TableOpen, Idle
  <2>. QED BY <1>3, <2>3, <2>4 DEF TableOpen
<1>. QED BY <1>4, <1>10, <1>11, <1>12 DEF FilesInv

LEMMA StepBegin ==
  ASSUME FilesInv, FileAssumption, NEW t \in Thread, NEW op \in {"read", "write", "set"}, NEW k \in DOMAIN handles,
         NEW at \in {0, NoOffset}, Begin(t, op, k, at)
  PROVE  FilesInv'
<1>1. VfsInv /\ VfsTyped BY DEF FilesInv, VfsInv
<1>2. PICK n : n = handles[k] OBVIOUS
<1>3. PICK c : c = [op |-> op, v |-> n, mixed |-> FALSE, sought |-> (at = NoOffset),
                    at |-> IF at = NoOffset THEN vfs.files[n].pos ELSE at]
  OBVIOUS
<1>4. /\ call[t] = Idle /\ n # 0 /\ call' = [call EXCEPT ![t] = c]
      /\ UNCHANGED <<vfs, handles, crashed>>
  BY <1>2, <1>3 DEF Begin, Goto
<1>5. VfsInv' /\ \A v \in DOMAIN vfs.files : Steady(v) BY <1>1, <1>4, VfsSame
<1>6. call \in [Thread -> FileCall] /\ handles \in Seq(0 .. Len(vfs.files)) /\ crashed \in BOOLEAN
  BY DEF FilesInv, CallsTyped
<1>7. call'[t] = c /\ \A u \in Thread : u # t => call'[u] = call[u] BY <1>4, <1>6
<1>8. \A u \in Thread : call[u].op # "idle" => call[u].v \in DOMAIN vfs.files BY DEF FilesInv, CallsTyped
<1>9. TableOpen BY DEF FilesInv
<1>10. n \in DOMAIN vfs.files /\ n \in Nat /\ ~vfs.files[n].closed
  <2>1. n \in 0 .. Len(vfs.files) BY <1>2, <1>6
  <2>. QED BY <1>1, <1>2, <1>4, <1>9, <2>1, FilesDomain DEF TableOpen
<1>11. vfs.files[n].pos \in Int
  <2>1. vfs.files[n] \in VfsFile BY <1>1, <1>10, VfsIs
  <2>. QED BY <2>1 DEF VfsFile
<1>12. CallsTyped'
  <2>1. at \in Int BY DEF NoOffset, FileAssumption
  <2>2. c.at \in Int BY <1>3, <1>11, <2>1
  <2>3. c \in [op : {"read", "write", "set"}, v : Nat, mixed : BOOLEAN, sought : BOOLEAN, at : Int]
    BY <1>3, <1>10, <2>2
  <2>4. call' \in [Thread -> FileCall] BY <1>4, <1>6, <2>3 DEF FileCall
  <2>5. c.v \in DOMAIN vfs.files BY <1>3, <1>10
  <2>. QED BY <1>4, <1>6, <1>7, <1>8, <2>4, <2>5 DEF CallsTyped
<1>13. AtOffset'
  <2>. SUFFICES ASSUME NEW u \in Thread PROVE OffsetOf(u)' BY DEF AtOffset
  <2>1. CASE u = t
    <3>1. c.v = n /\ (c.sought => c.at = vfs.files[n].pos) BY <1>3
    <3>. QED BY <1>4, <1>7, <2>1, <3>1 DEF OffsetOf
  <2>2. CASE u # t
    <3>1. OffsetOf(u) BY DEF FilesInv, AtOffset
    <3>. QED BY <1>5, <1>7, <1>8, <2>2, <3>1, OffsetStays
  <2>. QED BY <2>1, <2>2
<1>14. TableOpen'
  <2>1. c.op \notin {"bind", "close"} BY <1>3
  <2>2. \A u \in Thread : call'[u].op \in {"bind", "close"} => call'[u] = call[u] BY <1>7, <2>1
  <2>. QED BY <1>4, <1>9, <2>2 DEF TableOpen
<1>. QED BY <1>5, <1>12, <1>13, <1>14 DEF FilesInv

LEMMA StepNtClose ==
  ASSUME FilesInv, NEW t \in Thread, NEW k \in DOMAIN handles, NtClose(t, k)
  PROVE  FilesInv'
<1>1. VfsInv /\ VfsTyped BY DEF FilesInv, VfsInv
<1>2. PICK n : n = handles[k] OBVIOUS
<1>3. /\ call[t] = Idle /\ n # 0 /\ call' = [call EXCEPT ![t] = [op |-> "close", v |-> n]]
      /\ handles' = [handles EXCEPT ![k] = 0] /\ UNCHANGED <<vfs, crashed>>
  BY <1>2 DEF NtClose, Goto
<1>4. VfsInv' /\ \A v \in DOMAIN vfs.files : Steady(v) BY <1>1, <1>3, VfsSame
<1>5. call \in [Thread -> FileCall] /\ handles \in Seq(0 .. Len(vfs.files)) /\ crashed \in BOOLEAN
  BY DEF FilesInv, CallsTyped
<1>6. call'[t] = [op |-> "close", v |-> n] /\ \A u \in Thread : u # t => call'[u] = call[u] BY <1>3, <1>5
<1>7. \A u \in Thread : call[u].op # "idle" => call[u].v \in DOMAIN vfs.files BY DEF FilesInv, CallsTyped
<1>8. TableOpen BY DEF FilesInv
<1>9. n \in DOMAIN vfs.files /\ n \in Nat
  <2>1. n \in 0 .. Len(vfs.files) BY <1>2, <1>5
  <2>. QED BY <1>1, <1>3, <2>1, FilesDomain
<1>10. /\ handles' \in Seq(0 .. Len(vfs.files)) /\ DOMAIN handles' = DOMAIN handles /\ handles'[k] = 0
       /\ \A l \in DOMAIN handles : l # k => handles'[l] = handles[l]
  BY <1>3, <1>5
<1>11. CallsTyped'
  <2>1. [op |-> "close", v |-> n] \in FileCall BY <1>9 DEF FileCall
  <2>2. call' \in [Thread -> FileCall] BY <1>3, <1>5, <2>1
  <2>. QED BY <1>3, <1>5, <1>6, <1>7, <1>9, <1>10, <2>2 DEF CallsTyped
<1>12. AtOffset'
  <2>. SUFFICES ASSUME NEW u \in Thread PROVE OffsetOf(u)' BY DEF AtOffset
  <2>1. CASE u = t BY <1>6, <2>1 DEF OffsetOf
  <2>2. CASE u # t
    <3>1. OffsetOf(u) BY DEF FilesInv, AtOffset
    <3>. QED BY <1>4, <1>6, <1>7, <2>2, <3>1, OffsetStays
  <2>. QED BY <2>1, <2>2
<1>13. TableOpen'
  <2>1. \A l \in DOMAIN handles : l # k => handles[l] # n BY <1>2, <1>3, <1>8 DEF TableOpen
  <2>2. \A u \in Thread : call[u].op = "bind" => call[u].v # n BY <1>2, <1>3, <1>8 DEF TableOpen
  <2>3. \A l \in DOMAIN handles' : handles'[l] # 0 =>
          /\ ~vfs.files[handles'[l]].closed
          /\ \A m \in DOMAIN handles' : handles'[m] = handles'[l] => m = l
          /\ \A u \in Thread : call'[u].op \in {"bind", "close"} => call'[u].v # handles'[l]
    BY <1>6, <1>8, <1>10, <2>1 DEF TableOpen
  <2>4. \A u \in Thread : call'[u].op = "bind" =>
          /\ ~vfs.files[call'[u].v].closed
          /\ \A w \in Thread : call'[w].op \in {"bind", "close"} /\ call'[w].v = call'[u].v => w = u
    BY <1>6, <1>8, <2>2 DEF TableOpen
  <2>. QED BY <1>3, <2>3, <2>4 DEF TableOpen
<1>. QED BY <1>4, <1>11, <1>12, <1>13 DEF FilesInv

LEMMA StepClose ==
  ASSUME FilesInv, NEW t \in Thread, Close(t)
  PROVE  FilesInv'
<1>1. VfsInv /\ VfsTyped BY DEF FilesInv, VfsInv
<1>2. PICK n : n = call[t].v OBVIOUS
<1>3. /\ call[t].op = "close" /\ vfs' = CloseFiles(vfs, {n}) /\ call' = [call EXCEPT ![t] = Idle]
      /\ UNCHANGED <<handles, crashed>>
  BY <1>2 DEF Close, Goto
<1>4. call \in [Thread -> FileCall] /\ handles \in Seq(0 .. Len(vfs.files)) /\ crashed \in BOOLEAN
  BY DEF FilesInv, CallsTyped
<1>5. call'[t] = Idle /\ \A u \in Thread : u # t => call'[u] = call[u] BY <1>3, <1>4
<1>6. \A u \in Thread : call[u].op # "idle" => call[u].v \in DOMAIN vfs.files BY DEF FilesInv, CallsTyped
<1>7. n \in DOMAIN vfs.files BY <1>2, <1>3, <1>6
<1>8. /\ VfsInv'
      /\ Len(vfs'.files) = Len(vfs.files)
      /\ \A u \in DOMAIN vfs.files : vfs'.files[u] = IF u \in {n} THEN Closed ELSE vfs.files[u]
      /\ \A u \in DOMAIN vfs.files : Fresh(u)' => /\ Fresh(u) /\ u \notin {n}
                                                  /\ Own(u)' = Own(u) \/ Own(u)' = Closed
  <2>1. {n} \in SUBSET DOMAIN vfs.files BY <1>7
  <2>2. PICK V \in SUBSET DOMAIN vfs.files : V = {n} BY <2>1
  <2>. QED BY <1>1, <1>3, <2>2, ClosesFiles
<1>9. DOMAIN vfs'.files = DOMAIN vfs.files
  <2>1. VfsTyped' BY <1>8 DEF VfsInv
  <2>2. vfs'.files \in Seq(VfsFile \cup {Closed}) BY <2>1 DEF VfsTyped
  <2>3. vfs.files \in Seq(VfsFile \cup {Closed}) BY <1>1 DEF VfsTyped
  <2>. QED BY <1>8, <2>2, <2>3
<1>10. \A v \in DOMAIN vfs.files : Steady(v) BY <1>8 DEF Steady, Closed
<1>11. CallsTyped'
  <2>1. call' \in [Thread -> FileCall] BY <1>3, <1>4 DEF FileCall
  <2>. QED BY <1>3, <1>4, <1>5, <1>6, <1>8, <1>9, <2>1 DEF CallsTyped, Idle
<1>12. AtOffset'
  <2>. SUFFICES ASSUME NEW u \in Thread PROVE OffsetOf(u)' BY DEF AtOffset
  <2>1. CASE u = t BY <1>5, <2>1 DEF OffsetOf, Idle
  <2>2. CASE u # t
    <3>1. OffsetOf(u) BY DEF FilesInv, AtOffset
    <3>. QED BY <1>5, <1>6, <1>10, <2>2, <3>1, OffsetStays
  <2>. QED BY <2>1, <2>2
<1>13. TableOpen'
  <2>1. TableOpen BY DEF FilesInv
  <2>2. \A k \in DOMAIN handles : handles[k] # 0 => handles[k] \in DOMAIN vfs.files /\ handles[k] # n
    <3>1. \A k \in DOMAIN handles : handles[k] \in 0 .. Len(vfs.files) BY <1>4
    <3>. QED BY <1>1, <1>2, <1>3, <2>1, <3>1, FilesDomain DEF TableOpen
  <2>3. \A u \in Thread : call[u].op = "bind" => call[u].v \in DOMAIN vfs.files /\ call[u].v # n
    BY <1>2, <1>3, <1>6, <2>1 DEF TableOpen
  <2>4. \A k \in DOMAIN handles : handles[k] # 0 =>
          /\ ~vfs'.files[handles[k]].closed
          /\ \A l \in DOMAIN handles : handles[l] = handles[k] => l = k
          /\ \A u \in Thread : call'[u].op \in {"bind", "close"} => call'[u].v # handles[k]
    BY <1>5, <1>8, <2>1, <2>2 DEF TableOpen, Idle
  <2>5. \A u \in Thread : call'[u].op = "bind" =>
          /\ ~vfs'.files[call'[u].v].closed
          /\ \A w \in Thread : call'[w].op \in {"bind", "close"} /\ call'[w].v = call'[u].v => w = u
    BY <1>5, <1>8, <2>1, <2>3 DEF TableOpen, Idle
  <2>6. handles' = handles BY <1>3
  <2>. QED BY <2>4, <2>5, <2>6 DEF TableOpen
<1>. QED BY <1>8, <1>11, <1>12, <1>13 DEF FilesInv

\* A file that is open on a mount still there is reached.
LEMMA FreshReaches ==
  ASSUME VfsInv, NEW v \in DOMAIN vfs.files, Fresh(v), ~Own(v).closed
  PROVE  Reaches(vfs, v)
<1>1. ~vfs.files[v].closed BY DEF Fresh
<1>2. On(vfs, v) = vfs.files[v].born /\ On(vfs, v) # 0 /\ Reached(vfs, v) = Own(v) BY <1>1, OnFresh
<1>3. vfs.files[v].handle \in DOMAIN vfs.mounts[vfs.files[v].born].open BY DEF VfsInv, OwnFile
<1>. QED BY <1>1, <1>2, <1>3 DEF Reaches, Reached

\* A seek or a transfer on v: whoever else is inside of a call on it sees it mixed.
AfterMove(t, v, c) ==
  /\ Len(vfs'.files) = Len(vfs.files)
  /\ \A u \in DOMAIN vfs.files : vfs'.files[u].closed = vfs.files[u].closed
  /\ \A u \in DOMAIN vfs.files : u # v => Steady(u)
  /\ c \in FileCall /\ c.op \notin {"bind", "close"} /\ (c.op # "idle" => c.v = v)
  /\ call' = [Shared(t, v) EXCEPT ![t] = c] /\ UNCHANGED <<handles, crashed>>

LEMMA MoveKeeps ==
  ASSUME FilesInv, VfsInv', NEW t \in Thread, NEW v \in DOMAIN vfs.files, NEW c, AfterMove(t, v, c),
         call[t].op \notin {"bind", "close"}, OffsetOf(t)'
  PROVE  FilesInv'
<1>. USE DEF AfterMove
<1>1. VfsInv /\ VfsTyped BY DEF FilesInv, VfsInv
<1>2. DOMAIN vfs'.files = DOMAIN vfs.files
  <2>1. vfs.files \in Seq(VfsFile \cup {Closed}) /\ vfs'.files \in Seq(VfsFile \cup {Closed})
    BY DEF FilesInv, VfsInv, VfsTyped
  <2>. QED BY <2>1
<1>3. call \in [Thread -> FileCall] /\ handles \in Seq(0 .. Len(vfs.files)) /\ crashed \in BOOLEAN
  BY DEF FilesInv, CallsTyped
<1>4. \A u \in Thread : call[u].op # "idle" => call[u].v \in DOMAIN vfs.files BY DEF FilesInv, CallsTyped
<1>5. /\ call'[t] = c
      /\ \A u \in Thread : u # t =>
           call'[u] = IF call[u].op \in {"read", "write", "set"} /\ call[u].v = v
                      THEN [call[u] EXCEPT !.mixed = TRUE] ELSE call[u]
  BY DEF Shared
<1>6. ASSUME NEW u \in Thread, u # t
      PROVE  /\ call'[u] \in FileCall /\ call'[u].op = call[u].op
             /\ call[u].op # "idle" => call'[u].v = call[u].v
             /\ call'[u] = call[u] \/ call'[u].mixed
             /\ call'[u] # call[u] \/ call[u].op \notin {"read", "write"} \/ call[u].v # v \/ call'[u].mixed
  <2>1. CASE call[u].op \in {"read", "write", "set"} /\ call[u].v = v
    <3>1. call[u] \in [op : {"read", "write", "set"}, v : Nat, mixed : BOOLEAN, sought : BOOLEAN, at : Int]
      BY <2>1, CallIs DEF FilesInv
    <3>2. call'[u] = [call[u] EXCEPT !.mixed = TRUE] BY <1>5, <1>6, <2>1
    <3>3. /\ call'[u] \in [op : {"read", "write", "set"}, v : Nat, mixed : BOOLEAN, sought : BOOLEAN, at : Int]
          /\ call'[u].op = call[u].op /\ call'[u].v = call[u].v /\ call'[u].mixed
      <4>1. call'[u] = [op |-> call[u].op, v |-> call[u].v, mixed |-> TRUE, sought |-> call[u].sought, at |-> call[u].at]
        BY ONLY <3>1, <3>2
      <4>. QED BY ONLY <3>1, <4>1
    <3>. QED BY <3>3 DEF FileCall
  <2>2. CASE ~(call[u].op \in {"read", "write", "set"} /\ call[u].v = v)
    <3>1. call'[u] = call[u] BY <1>5, <1>6, <2>2
    <3>2. call[u] \in FileCall BY <1>3
    <3>. QED BY <2>2, <3>1, <3>2
  <2>. QED BY <2>1, <2>2
<1>7. call' \in [Thread -> FileCall]
  <2>1. \A u \in Thread : call'[u] \in FileCall BY <1>5, <1>6
  <2>2. call' = [u \in Thread |-> call'[u]] BY DEF Shared
  <2>. QED BY <2>1, <2>2
<1>8. CallsTyped'
  <2>1. \A u \in Thread : call'[u].op # "idle" => call'[u].v \in DOMAIN vfs'.files BY <1>2, <1>4, <1>5, <1>6
  <2>. QED BY <1>3, <1>7, <2>1 DEF CallsTyped
<1>9. AtOffset'
  <2>. SUFFICES ASSUME NEW u \in Thread PROVE OffsetOf(u)' BY DEF AtOffset
  <2>1. CASE u = t BY <2>1
  <2>2. CASE u # t /\ call'[u].op \in {"read", "write"} /\ call'[u].mixed BY <2>2 DEF OffsetOf
  <2>3. CASE u # t /\ call'[u].op \notin {"read", "write"} BY <2>3 DEF OffsetOf
  <2>4. CASE u # t /\ call'[u].op \in {"read", "write"} /\ ~call'[u].mixed
    <3>1. call'[u] = call[u] /\ call[u].v # v BY <1>6, <2>4
    <3>2. PICK w \in DOMAIN vfs.files : w = call[u].v BY <1>4, <2>4, <3>1
    <3>3. Steady(w) BY <3>1, <3>2
    <3>4. OffsetOf(u) BY DEF FilesInv, AtOffset
    <3>5. OffsetOf(u) <=> ((call[u].sought /\ ~call[u].mixed /\ Fresh(w) /\ ~Own(w).closed) =>
                             Own(w).foreign \/ call[u].at = vfs.files[w].pos)
      BY <2>4, <3>1, <3>2 DEF OffsetOf
    <3>6. OffsetOf(u)' <=> ((call[u].sought /\ ~call[u].mixed /\ Fresh(w)' /\ ~Own(w)'.closed) =>
                              Own(w)'.foreign \/ call[u].at = vfs'.files[w].pos)
      BY <2>4, <3>1, <3>2 DEF OffsetOf, Fresh, Own
    <3>. QED BY <3>3, <3>4, <3>5, <3>6 DEF Steady
  <2>. QED BY <2>1, <2>2, <2>3, <2>4
<1>10. TableOpen'
  <2>1. TableOpen BY DEF FilesInv
  <2>2. \A k \in DOMAIN handles : handles[k] # 0 => handles[k] \in DOMAIN vfs.files
    <3>1. \A k \in DOMAIN handles : handles[k] \in 0 .. Len(vfs.files) BY <1>3
    <3>. QED BY <1>1, <3>1, FilesDomain
  <2>3. \A u \in Thread : call'[u].op \in {"bind", "close"} =>
          call[u].op = call'[u].op /\ call[u].v = call'[u].v /\ call[u].v \in DOMAIN vfs.files
    BY <1>4, <1>5, <1>6
  <2>4. \A k \in DOMAIN handles : handles[k] # 0 =>
          /\ ~vfs'.files[handles[k]].closed
          /\ \A l \in DOMAIN handles : handles[l] = handles[k] => l = k
          /\ \A u \in Thread : call'[u].op \in {"bind", "close"} => call'[u].v # handles[k]
    BY <2>1, <2>2, <2>3 DEF TableOpen
  <2>5. \A u \in Thread : call'[u].op = "bind" =>
          /\ ~vfs'.files[call'[u].v].closed
          /\ \A w \in Thread : call'[w].op \in {"bind", "close"} /\ call'[w].v = call'[u].v => w = u
    BY <2>1, <2>3 DEF TableOpen
  <2>6. handles' = handles OBVIOUS
  <2>. QED BY <2>4, <2>5, <2>6 DEF TableOpen
<1>. QED BY <1>8, <1>9, <1>10 DEF FilesInv

\* Moved, as the calls of the other threads see it.
LEMMA MovedSteady ==
  ASSUME VfsInv, NEW v \in DOMAIN vfs.files, Reaches(vfs, v), NEW pos \in Int,
         NEW disk \in [DOMAIN Disk -> [File -> Int]], vfs' = [At(vfs, v, pos) EXCEPT !.disk = disk]
  PROVE  /\ VfsInv'
         /\ Len(vfs'.files) = Len(vfs.files)
         /\ \A u \in DOMAIN vfs.files : vfs'.files[u].closed = vfs.files[u].closed
         /\ \A u \in DOMAIN vfs.files : u # v => Steady(u)
         /\ vfs'.files[v].pos = pos
<1>1. /\ VfsInv'
      /\ Len(vfs'.files) = Len(vfs.files)
      /\ \A u \in DOMAIN vfs.files : vfs'.files[u].closed = vfs.files[u].closed
      /\ \A u \in DOMAIN vfs.files : u # v => vfs'.files[u] = vfs.files[u]
      /\ vfs'.files[v].pos = pos
      /\ \A u \in DOMAIN vfs.files : /\ Fresh(u)' <=> Fresh(u)
                                     /\ Fresh(u) => /\ ~Own(u)'.closed => ~Own(u).closed
                                                    /\ Own(u).foreign /\ ~Own(u).closed => Own(u)'.foreign
  BY Moved
<1>2. \A u \in DOMAIN vfs.files : u # v => Steady(u) BY <1>1 DEF Steady
<1>. QED BY <1>1, <1>2

\* A seek leaves the media alone.
LEMMA AtDisk ==
  ASSUME VfsInv, NEW v \in DOMAIN vfs.files, Reaches(vfs, v), NEW pos \in Int
  PROVE  /\ At(vfs, v, pos) = [At(vfs, v, pos) EXCEPT !.disk = vfs.disk]
         /\ vfs.disk \in [DOMAIN Disk -> [File -> Int]]
<1>1. PICK g : g = At(vfs, v, pos) OBVIOUS
<1>2. g = [mounts |-> g.mounts, files |-> g.files, next |-> vfs.next, disk |-> vfs.disk] BY <1>1, AtIs
<1>. QED BY <1>1, <1>2 DEF VfsInv, VfsTyped

LEMMA StepSeek ==
  ASSUME FilesInv, NEW t \in Thread, Seek(t)
  PROVE  FilesInv'
<1>1. VfsInv /\ VfsTyped BY DEF FilesInv, VfsInv
<1>2. PICK b : b = call[t] OBVIOUS
<1>3. b.op \in {"read", "write", "set"} BY <1>2 DEF Seek
<1>4. /\ b \in [op : {"read", "write", "set"}, v : Nat, mixed : BOOLEAN, sought : BOOLEAN, at : Int]
      /\ b.v \in DOMAIN vfs.files
  BY <1>2, <1>3, CallIs DEF FilesInv
<1>5. PICK v \in DOMAIN vfs.files : v = b.v BY <1>4
<1>6. PICK c : c = IF b.op = "set" THEN Idle ELSE [b EXCEPT !.sought = TRUE] OBVIOUS
<1>7. /\ vfs' = SeekFile(vfs, v, b.at) /\ call' = [Shared(t, v) EXCEPT ![t] = c]
      /\ UNCHANGED <<handles, crashed>>
  BY <1>2, <1>5, <1>6 DEF Seek
<1>8. c \in FileCall /\ c.op \notin {"bind", "close"} /\ (c.op # "idle" => c.v = v /\ c.at = b.at)
  <2>1. CASE b.op = "set" BY <1>6, <2>1 DEF FileCall, Idle
  <2>2. CASE b.op # "set"
    <3>1. /\ c \in [op : {"read", "write", "set"}, v : Nat, mixed : BOOLEAN, sought : BOOLEAN, at : Int]
          /\ c.v = b.v /\ c.at = b.at
      BY <1>4, <1>6, <2>2
    <3>. QED BY <1>5, <3>1 DEF FileCall
  <2>. QED BY <2>1, <2>2
<1>9. call'[t] = c BY <1>7 DEF Shared
<1>10. CASE Reaches(vfs, v)
  <2>1. vfs' = [At(vfs, v, b.at) EXCEPT !.disk = vfs.disk] /\ vfs.disk \in [DOMAIN Disk -> [File -> Int]] /\ b.at \in Int
    BY <1>1, <1>4, <1>7, <1>10, AtDisk DEF SeekFile
  <2>2. /\ VfsInv'
        /\ Len(vfs'.files) = Len(vfs.files)
        /\ \A u \in DOMAIN vfs.files : vfs'.files[u].closed = vfs.files[u].closed
        /\ \A u \in DOMAIN vfs.files : u # v => Steady(u)
        /\ vfs'.files[v].pos = b.at
    BY <1>1, <1>10, <2>1, MovedSteady
  <2>3. AfterMove(t, v, c) BY <1>7, <1>8, <2>2 DEF AfterMove
  <2>4. OffsetOf(t)' BY <1>8, <1>9, <2>2 DEF OffsetOf
  <2>. QED BY <1>2, <1>3, <2>2, <2>3, <2>4, MoveKeeps
<1>11. CASE ~Reaches(vfs, v)
  <2>1. vfs' = vfs BY <1>7, <1>11 DEF SeekFile
  <2>2. VfsInv' /\ \A u \in DOMAIN vfs.files : Steady(u) BY <1>1, <2>1, VfsSame
  <2>3. AfterMove(t, v, c) BY <1>7, <1>8, <2>1, <2>2 DEF AfterMove
  <2>4. ~Fresh(v) \/ Own(v).closed BY <1>1, <1>11, FreshReaches
  <2>5. OffsetOf(t)' BY <1>8, <1>9, <2>1, <2>4 DEF OffsetOf, Fresh, Own
  <2>. QED BY <1>2, <1>3, <2>2, <2>3, <2>5, MoveKeeps
<1>. QED BY <1>10, <1>11

\* The greater of two integers is one.
LEMMA GreatestOfTwo == ASSUME NEW a \in Int, NEW b \in Int PROVE Max({a, b}) \in Int
<1>1. \E x \in {a, b} : \A y \in {a, b} : x >= y
  <2>1. CASE a >= b BY <2>1
  <2>2. CASE b >= a BY <2>2
  <2>. QED BY <2>1, <2>2
<1>2. Max({a, b}) \in {a, b} BY <1>1 DEF Max
<1>. QED BY <1>2

LEMMA StepTransfer ==
  ASSUME FilesInv, NEW t \in Thread, Transfer(t, 1)
  PROVE  FilesInv'
<1>1. VfsInv /\ VfsTyped BY DEF FilesInv, VfsInv
<1>2. PICK b : b = call[t] OBVIOUS
<1>3. b.op \in {"read", "write"} BY <1>2 DEF Transfer
<1>4. PICK v \in DOMAIN vfs.files : v = b.v BY <1>2, <1>3, CallIs DEF FilesInv
<1>5. /\ call' = [Shared(t, v) EXCEPT ![t] = Idle] /\ UNCHANGED <<handles, crashed>>
      /\ \/ vfs' = vfs
         \/ Reaches(vfs, v) /\ b.op = "read" /\ vfs' = ReadFile(vfs, v, 1)
         \/ Reaches(vfs, v) /\ b.op = "write" /\ vfs' = WriteFile(vfs, v, 1)
  BY <1>2, <1>3, <1>4 DEF Transfer
<1>6. Idle \in FileCall /\ Idle.op = "idle" BY DEF FileCall, Idle
<1>7. OffsetOf(t)'
  <2>1. call'[t] = Idle BY <1>5 DEF Shared
  <2>. QED BY <2>1 DEF OffsetOf, Idle
<1>8. CASE vfs' = vfs
  <2>1. VfsInv' /\ \A u \in DOMAIN vfs.files : Steady(u) BY <1>1, <1>8, VfsSame
  <2>2. AfterMove(t, v, Idle) BY <1>5, <1>6, <1>8, <2>1 DEF AfterMove
  <2>. QED BY <1>2, <1>3, <1>7, <2>1, <2>2, MoveKeeps
<1>9. ASSUME Reaches(vfs, v), NEW pos \in Int, NEW disk \in [DOMAIN Disk -> [File -> Int]],
             vfs' = [At(vfs, v, pos) EXCEPT !.disk = disk]
      PROVE  FilesInv'
  <2>1. /\ VfsInv'
        /\ Len(vfs'.files) = Len(vfs.files)
        /\ \A u \in DOMAIN vfs.files : vfs'.files[u].closed = vfs.files[u].closed
        /\ \A u \in DOMAIN vfs.files : u # v => Steady(u)
    BY <1>1, <1>9, MovedSteady
  <2>2. AfterMove(t, v, Idle) BY <1>5, <1>6, <2>1 DEF AfterMove
  <2>. QED BY <1>2, <1>3, <1>7, <2>1, <2>2, MoveKeeps
<1>10. ASSUME Reaches(vfs, v)
       PROVE  /\ Reached(vfs, v).pos \in Int /\ Reached(vfs, v).file \in File
              /\ vfs.mounts[On(vfs, v)].medium.id \in DOMAIN Disk
              /\ vfs.disk \in [DOMAIN Disk -> [File -> Int]]
  <2>1. On(vfs, v) \in DOMAIN vfs.mounts BY <1>1, <1>10, OnFresh DEF Reaches
  <2>2. Reached(vfs, v) \in DeviceFile BY <1>1, <1>10, <2>1, VfsIs DEF Reaches, Reached
  <2>3. vfs.mounts[On(vfs, v)].medium \in Media BY <1>1, <2>1, VfsIs
  <2>. QED BY <1>1, <2>2, <2>3 DEF DeviceFile, Media, VfsTyped
<1>11. CASE Reaches(vfs, v) /\ vfs' = ReadFile(vfs, v, 1)
  <2> DEFINE e == Reached(vfs, v)
             left == FileSize(vfs, e, vfs.mounts[On(vfs, v)].medium) - e.pos
             taken == IF ~e.reads \/ left <= 0 THEN 0 ELSE Min({1, left})
  <2>1. left \in Int BY <1>10, <1>11 DEF FileSize
  <2>2. taken \in Int
    <3>. HIDE DEF left
    <3>1. CASE ~e.reads \/ left <= 0 BY <3>1
    <3>2. CASE left > 0
      <4>1. {1, left} \in SUBSET Nat /\ {1, left} # {} BY <2>1, <3>2
      <4>2. Min({1, left}) \in {1, left} BY <4>1, LeastOf
      <4>. QED BY <2>1, <4>2
    <3>. QED BY <2>1, <3>1, <3>2
  <2>3. vfs' = At(vfs, v, e.pos + taken) BY <1>11 DEF ReadFile
  <2>. HIDE DEF taken
  <2>4. e.pos + taken \in Int BY <1>10, <1>11, <2>2
  <2>5. vfs' = [At(vfs, v, e.pos + taken) EXCEPT !.disk = vfs.disk] BY <1>1, <1>11, <2>3, <2>4, AtDisk
  <2>. QED BY <1>9, <1>10, <1>11, <2>4, <2>5
<1>12. CASE Reaches(vfs, v) /\ vfs' = WriteFile(vfs, v, 1)
  <2> DEFINE e == Reached(vfs, v)
             given == IF e.writes THEN 1 ELSE 0
             id == vfs.mounts[On(vfs, v)].medium.id
             size == IF given = 0 THEN vfs.disk[id][e.file] ELSE Max({vfs.disk[id][e.file], e.pos + given})
             disk == [vfs.disk EXCEPT ![id][e.file] = size]
  <2>1. vfs' = [At(vfs, v, e.pos + given) EXCEPT !.disk = disk] BY <1>12 DEF WriteFile
  <2>2. e.pos + given \in Int BY <1>10, <1>12
  <2>3. vfs.disk[id] \in [File -> Int] /\ e.file \in File BY <1>10, <1>12
  <2>4. size \in Int
    <3>1. vfs.disk[id][e.file] \in Int BY <2>3
    <3>. HIDE DEF given, id, e
    <3>. QED BY <2>2, <3>1, GreatestOfTwo
  <2>5. disk \in [DOMAIN Disk -> [File -> Int]]
    <3>. HIDE DEF size
    <3>1. [vfs.disk[id] EXCEPT ![e.file] = size] \in [File -> Int] BY <2>3, <2>4
    <3>. QED BY <1>10, <1>12, <3>1
  <2>. HIDE DEF disk, given
  <2>. QED BY <1>9, <1>12, <2>1, <2>2, <2>5
<1>. QED BY <1>5, <1>8, <1>11, <1>12

\* The invariant holds at the start, and every step keeps it.
LEMMA FilesInitInv == ASSUME FileAssumption, FileInit PROVE FilesInv
<1>1. /\ Default \in Seq([point : Point, medium : {m \in Media : m.kind # "bad"}])
      /\ Disk \in [DOMAIN Disk -> [File -> Int]]
      /\ MaxOpen \in Nat
  BY DEF FileAssumption
<1>2. PICK mounts : mounts = [k \in DOMAIN Default |-> NewMount(Default[k].point, Default[k].medium)] OBVIOUS
<1>3. PICK disk : disk = Disk OBVIOUS
<1>4. vfs = [mounts |-> mounts, files |-> <<>>, next |-> Len(Default) + 1, disk |-> disk]
  BY <1>2, <1>3 DEF FileInit, Initialized
<1>5. handles = <<>> /\ call = [t \in Thread |-> Idle] /\ crashed = FALSE BY DEF FileInit
<1>6. Len(Default) \in Nat /\ DOMAIN Default = 1 .. Len(Default) BY <1>1
<1>7. \A k \in DOMAIN Default : mounts[k] \in VfsMount /\ mounts[k].open = <<>>
  <2>. SUFFICES ASSUME NEW k \in DOMAIN Default PROVE mounts[k] \in VfsMount /\ mounts[k].open = <<>> OBVIOUS
  <2>1. Default[k] \in [point : Point, medium : {m \in Media : m.kind # "bad"}]
    <3> DEFINE D == [point : Point, medium : {m \in Media : m.kind # "bad"}]
    <3>1. Default \in Seq(D) BY <1>1
    <3>. HIDE DEF D
    <3>2. Default[k] \in D BY <3>1
    <3>. QED BY <3>2 DEF D
  <2>. QED BY <1>2, <2>1 DEF NewMount, VfsMount
<1>8. VfsTyped
  <2>1. mounts \in [DOMAIN mounts -> VfsMount] /\ DOMAIN mounts = 1 .. Len(Default) BY <1>2, <1>6, <1>7
  <2>2. disk \in [DOMAIN Disk -> [File -> Int]] BY <1>1, <1>3
  <2>3. \A k \in DOMAIN mounts : Len(mounts[k].open) <= 0 BY <1>2, <1>7
  <2>. QED BY <1>1, <1>4, <1>6, <2>1, <2>2, <2>3 DEF VfsTyped
<1>9. DOMAIN vfs.files = {} BY <1>4
<1>10. VfsInv BY <1>8, <1>9 DEF VfsInv, BornFirst, OwnFile, OneEach
<1>11. CallsTyped
  <2>1. Idle \in FileCall /\ Idle.op = "idle" BY DEF FileCall, Idle
  <2>2. call \in [Thread -> FileCall] /\ \A t \in Thread : call[t].op = "idle" BY <1>5, <2>1
  <2>3. handles \in Seq(0 .. Len(vfs.files))
    <3>1. handles = <<>> BY <1>5
    <3>. QED BY ONLY <3>1
  <2>4. crashed \in BOOLEAN BY <1>5
  <2>. QED BY <2>2, <2>3, <2>4 DEF CallsTyped
<1>12. AtOffset BY <1>5 DEF AtOffset, OffsetOf, Idle
<1>13. TableOpen BY <1>5 DEF TableOpen, Idle
<1>. QED BY <1>10, <1>11, <1>12, <1>13 DEF FilesInv

LEMMA FilesStep == ASSUME FileAssumption, FilesInv, [FileNext]_fvars PROVE FilesInv'
<1>1. CASE UNCHANGED fvars
  <2>1. vfs' = vfs /\ UNCHANGED <<handles, call>> /\ crashed' = crashed BY <1>1 DEF fvars
  <2>2. VfsInv' /\ \A u \in DOMAIN vfs.files : Steady(u) BY <2>1, VfsSame DEF FilesInv
  <2>. QED BY <2>1, <2>2, TableKept DEF FilesInv, CallsTyped
<1>2. CASE \E p \in Point, m \in Medium : Mount(p, m) BY <1>2, StepMount
<1>3. CASE \E p \in Point : Unmount(p) BY <1>3, StepUnmount
<1>4. CASE unmount_all
  <2>1. PICK S \in SUBSET DOMAIN vfs.mounts : S = {} OBVIOUS
  <2>. QED BY <1>4, <2>1, StepKept DEF unmount_all
<1>5. CASE RestartIo BY <1>5, StepRestart
<1>6. ASSUME NEW t \in Thread,
             \/ \E p \in Point, x \in File, a \in Access, d \in Disposition : NtCreateFile(t, DeviceOf[p], x, a, d)
             \/ Bind(t) \/ Seek(t) \/ Close(t)
             \/ \E op \in {"read", "write", "set"}, k \in DOMAIN handles, at \in {0, NoOffset} : Begin(t, op, k, at)
             \/ Transfer(t, 1)
             \/ \E k \in DOMAIN handles : NtClose(t, k)
      PROVE  FilesInv'
  BY <1>6, StepCreate, StepBind, StepSeek, StepClose, StepBegin, StepTransfer, StepNtClose
<1>. QED BY <1>1, <1>2, <1>3, <1>4, <1>5, <1>6 DEF FileNext

LEMMA FilesAlways == FileSpec => []FilesInv
<1>. USE FileAssumption
<1>1. FileInit => FilesInv BY FilesInitInv
<1>2. FilesInv /\ [FileNext]_fvars => FilesInv' BY FilesStep
<1>. QED BY <1>1, <1>2, PTL DEF FileSpec

\* The numbers a handle can have, for every number of threads and files.
THEOREM FilesTyped == FileSpec => []FilesTypeOK
<1>1. FilesInv => FilesTypeOK
  <2>. SUFFICES ASSUME FilesInv PROVE FilesTypeOK OBVIOUS
  <2>1. VfsTyped /\ CallsTyped BY DEF FilesInv, VfsInv
  <2>2. \A v \in DOMAIN vfs.files : vfs.files[v] # Closed => vfs.files[v].handle \in 1 .. MaxOpen
    <3>1. \A v \in DOMAIN vfs.files : vfs.files[v] # Closed => vfs.files[v] \in VfsFile BY <2>1, VfsIs
    <3>. QED BY <3>1 DEF VfsFile
  <2>. QED BY <2>1, <2>2 DEF FilesTypeOK, CallsTyped
<1>. QED BY <1>1, FilesAlways, PTL

\* A transfer takes place in the file its handle was opened on, and at the
\* offset the caller gave, but for the exceptions ReadsItsFile names: for every
\* number of threads, files and mounts, and every order of the emulator's.
THEOREM HandlesReadTheirFile == FileSpec => []ReadsItsFile
<1>1. FilesInv => ReadsItsFile BY ReadsOwn
<1>. QED BY <1>1, FilesAlways, PTL
=============================================================================
