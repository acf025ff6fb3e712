---------------------------- MODULE GuestMemory ----------------------------
(***************************************************************************)
(* memory/memory.cpp and the kernel calls that hand its RAM out: the       *)
(* virtual and physical allocators of kernel/hle/xboxkrnl.cpp, section     *)
(* views, and the physical allocator of xboxkrnl_extended.                  *)
(*                                                                         *)
(* The unit of addresses, sizes and stores is the page. Each call runs     *)
(* under its allocator's mutex and is one step. Left out: protection bits, *)
(* the page table (written and never read), 64-bit and byte accesses, I/O  *)
(* mappings, and what a file-backed view reads from its file. "stored" and "cell" are    *)
(* history: an address the guest has stored its mark to, and where the     *)
(* mark is now.                                                            *)
(***************************************************************************)
EXTENDS Integers, SequencesExt, FiniteSetsExt

CONSTANTS
  RamSize,        \* main_memory_size_
  Space,          \* one past the last guest address
  GpuBase,        \* GPU_REGS_BASE
  GpuSpan,        \* and how many registers follow it
  Window,         \* the virtual windows onto them: records first, last
  Handler,        \* mmio_handlers_: a sequence of records base, size
  LargePage,      \* LARGE_PAGE_SIZE
  FirstVirtual, FirstPhysical,  \* the cursors before any allocation
  MaxSize,        \* bounds the pages of one request
  MaxRegions, MaxSections,  \* and what may be there at once
  Asked,          \* the addresses a guest asks for
  Stores          \* and those it stores to

VARIABLES
  regions_,             \* Memory::regions_: the sizes of those at each base, in order
  virtual_allocations,  \* records base, size, committed; placed: by the cursor
  physical_allocations, \* of xboxkrnl_extended: records base, size
  cursor,               \* next_virtual_addr, next_physical_addr of both files
  sections,             \* section_objects: their sizes
  stored, cell

mvars == <<regions_, virtual_allocations, physical_allocations, cursor, sections,
           stored, cell>>

Nowhere == Space            \* no address, no cell
Beyond == RamSize + 1       \* a cursor past RAM: every allocation there fails
Dropped == [handler |-> -1, at |-> Nowhere]

Init ==
  /\ regions_ = [b \in 0..(RamSize - 1) |-> <<>>] /\ virtual_allocations = {} /\ physical_allocations = {}
  /\ cursor = [virtual |-> FirstVirtual, physical |-> FirstPhysical, ext |-> Beyond]
  /\ sections = {}
  /\ stored = Nowhere /\ cell = Dropped
-----------------------------------------------------------------------------
Up(n, unit) == ((n + unit - 1) \div unit) * unit
Down(n, unit) == (n \div unit) * unit
Within(a, r) == r.base <= a /\ a < r.base + r.size
Overlap(r, s) == r.base < s.base + s.size /\ s.base < r.base + r.size
Past(n) == IF n > RamSize THEN Beyond ELSE n

(* Accesses.                                                                *)
InGpu(a) == GpuBase <= a /\ a < GpuBase + GpuSpan
translate_address(a) ==
  IF \E w \in Window : w.first <= a /\ a <= w.last
  THEN GpuBase + ((a - (CHOOSE w \in Window : w.first <= a /\ a <= w.last).first) % GpuSpan)
  ELSE IF InGpu(a) THEN a ELSE a % RamSize
is_mmio(a) ==
  \/ InGpu(a)
  \/ \E w \in Window : w.first <= a /\ a <= w.last
  \/ \E h \in DOMAIN Handler : Within(a, Handler[h])
\* The smallest handler around a, the first of equals; 0 for none.
find_mmio(a) ==
  LET hits == {h \in DOMAIN Handler : Within(a, Handler[h])}
  IN IF hits = {} THEN 0
     ELSE CHOOSE h \in hits : \A k \in hits :
            Handler[h].size < Handler[k].size \/ (Handler[h].size = Handler[k].size /\ h <= k)

\* What read_u32 and write_u32 reach: a handler and its register, or RAM.
Reached(a) ==
  LET p == translate_address(a)
  IN IF is_mmio(a)
     THEN IF find_mmio(p) = 0 THEN Dropped ELSE [handler |-> find_mmio(p), at |-> p]
     ELSE IF p < RamSize THEN [handler |-> 0, at |-> p] ELSE Dropped
-----------------------------------------------------------------------------
(* Memory::allocate and free. *)
Fits(r) == r.base + r.size <= RamSize
Room == FoldFunction(LAMBDA sizes, n : Len(sizes) + n, 0, regions_) < MaxRegions
Allocated(r) == [regions_ EXCEPT ![r.base] = Append(@, r.size)]
Freed(b) == [regions_ EXCEPT ![b] = IF @ = <<>> THEN @ ELSE Tail(@)]

\* The mark the guest has stored is its business no longer once the memory is
\* freed, or handed out again at an address the guest itself named.
Forget(r) ==
  IF stored # Nowhere /\ cell.handler = 0 /\ Within(cell.at, r)
  THEN stored' = Nowhere /\ cell' = Dropped
  ELSE UNCHANGED <<stored, cell>>
\* zero_bytes over r wipes a mark in it.
Wipe(r) ==
  /\ UNCHANGED stored
  /\ cell' = IF stored # Nowhere /\ cell.handler = 0 /\ Within(cell.at, r) THEN Dropped ELSE cell
Zeroed(r, named) == IF named THEN Forget(r) ELSE Wipe(r)

Tracked(b) == {v \in virtual_allocations : v.base = b}

\* NtAllocateVirtualMemory with no address asked for. A request that does not
\* fit moves the cursor all the same; MEM_TOP_DOWN never fits.
CursorOf(kind) == IF kind = "physical" THEN "physical" ELSE "virtual"
PageOf(kind) == IF kind = "large" THEN LargePage ELSE 1
Placed(kind, n) ==
  LET size == Up(IF n = 0 THEN 1 ELSE n, PageOf(kind))
      base == IF kind = "top_down" THEN Beyond ELSE Up(cursor[CursorOf(kind)], PageOf(kind))
  IN [base |-> Past(base), size |-> size]
MutMoved(kind, r) ==
  CASE kind = "top_down" -> cursor
    [] kind = "physical" -> [cursor EXCEPT !.physical = Past(r.base + r.size)]
    [] OTHER -> [cursor EXCEPT !.virtual = Past(r.base + PageOf(kind))]
Moved(kind, r) ==
  CASE kind = "top_down" -> cursor
    [] kind = "physical" -> [cursor EXCEPT !.physical = Past(r.base + r.size)]
    [] OTHER -> [cursor EXCEPT !.virtual = Past(r.base + r.size + PageOf(kind))]

\* An entry of virtual_allocations; a section view may replace one.
Track(r, committed, placed) ==
  virtual_allocations' =
    {v \in virtual_allocations : v.base # r.base} \cup
    {[base |-> r.base, size |-> r.size, committed |-> committed, placed |-> placed]}

Hold(r, commit, named) ==
  IF Fits(r)
  THEN /\ Room
       /\ regions_' = Allocated(r)
       /\ Track(r, commit, ~named)
       /\ IF commit THEN Zeroed(r, named)
          ELSE IF named THEN Forget(r) ELSE UNCHANGED <<stored, cell>>
  ELSE UNCHANGED <<regions_, virtual_allocations, stored, cell>>

\* MEM_PHYSICAL requests stop below FirstVirtual, a bound of the model.
AllocateAnywhere(kind, n, commit) ==
  /\ kind = "physical" => cursor.physical + Placed(kind, n).size <= FirstVirtual
  /\ Hold(Placed(kind, n), commit, FALSE)
  /\ cursor' = Moved(kind, Placed(kind, n))
  /\ UNCHANGED <<physical_allocations, sections>>

\* ... and with one: only an allocation that starts there is noticed.
AllocateAt(asked, kind, n, commit) ==
  LET r == [base |-> Down(asked, PageOf(kind)),
            size |-> Up(IF n = 0 THEN 1 ELSE n, PageOf(kind))]
  IN /\ IF Tracked(r.base) = {} THEN Hold(r, commit, TRUE)
        ELSE /\ virtual_allocations' =
                  {IF commit /\ v.base = r.base THEN [v EXCEPT !.committed = TRUE] ELSE v
                     : v \in virtual_allocations}
             /\ UNCHANGED <<regions_, stored, cell>>
     /\ UNCHANGED <<physical_allocations, cursor, sections>>

\* NtFreeVirtualMemory; NtUnmapViewOfSection always releases.
Release(b) ==
  /\ Tracked(b) # {}
  /\ regions_' = Freed(b)
  /\ virtual_allocations' = virtual_allocations \ Tracked(b)
  /\ \E v \in Tracked(b) : Forget(v)
  /\ UNCHANGED <<physical_allocations, cursor, sections>>
Decommit(b) ==
  /\ virtual_allocations' = {IF v.base = b THEN [v EXCEPT !.committed = FALSE] ELSE v
                               : v \in virtual_allocations}
  /\ UNCHANGED <<regions_, physical_allocations, cursor, sections, stored, cell>>
-----------------------------------------------------------------------------
CreateSection(n) ==
  /\ Cardinality(sections) < MaxSections
  /\ sections' = sections \cup {IF n = 0 THEN 1 ELSE n}
  /\ UNCHANGED <<regions_, virtual_allocations, physical_allocations, cursor, stored, cell>>

\* NtMapViewOfSection: asked is 0 for any address, n is 0 for the whole section.
MapView(max_size, asked, n) ==
  LET size == IF n = 0 THEN max_size ELSE n
      r == [base |-> IF asked = 0 THEN cursor.virtual ELSE asked, size |-> size]
  IN /\ cursor' = IF asked # 0 THEN cursor
                  ELSE [cursor EXCEPT !.virtual = Past(cursor.virtual + size + 1)]
     /\ Hold(r, TRUE, asked # 0)
     /\ UNCHANGED <<physical_allocations, sections>>

-----------------------------------------------------------------------------
(* MmAllocatePhysicalMemory, ...Ex and MmFreePhysicalMemory. The cursor     *)
(* starts past RAM and comes back only with a call that names a range; from *)
(* there it goes on through whatever the other allocator has placed.        *)
HoldPhysical(r) ==
  /\ cursor' = [cursor EXCEPT !.ext = Past(r.base + r.size + 1)]
  /\ IF Fits(r)
     THEN /\ Room
          /\ regions_' = Allocated(r)
          /\ physical_allocations' = {p \in physical_allocations : p.base # r.base} \cup {r}
          /\ Forget(r)
     ELSE UNCHANGED <<regions_, physical_allocations, stored, cell>>
  /\ UNCHANGED <<virtual_allocations, sections>>
AllocatePhysical(n) == HoldPhysical([base |-> cursor.ext, size |-> n])
AllocatePhysicalEx(n, low, high, alignment) ==
  LET size == Up(n, alignment)
      next == Up(Max({cursor.ext, low}), alignment)
      base == IF high # 0 /\ next + size > high THEN Up(low, alignment) ELSE next
  IN HoldPhysical([base |-> base, size |-> size])
FreePhysical(b) ==
  LET held == {p \in physical_allocations : p.base = b}
  IN /\ held # {}
     /\ regions_' = Freed(b)
     /\ physical_allocations' = physical_allocations \ held
     /\ \E p \in held : Forget(p)
     /\ UNCHANGED <<virtual_allocations, cursor, sections>>

\* The guest stores its mark in memory the allocator placed, or in a register.
Store(a) ==
  /\ \/ is_mmio(a)
     \/ \E v \in virtual_allocations : v.placed /\ v.committed /\ Within(a % RamSize, v)
  /\ stored' = a
  /\ cell' = Reached(a)
  /\ UNCHANGED <<regions_, virtual_allocations, physical_allocations, cursor, sections>>

Next ==
  \/ \E kind \in {"normal", "large", "physical", "top_down"}, n \in {0, MaxSize}, commit \in BOOLEAN :
       AllocateAnywhere(kind, n, commit)
  \/ \E asked \in Asked, kind \in {"normal", "large"}, commit \in BOOLEAN :
       AllocateAt(asked, kind, 1, commit)
  \/ \E b \in 0..(RamSize - 1) : Release(b) \/ Decommit(b) \/ FreePhysical(b)
  \/ CreateSection(0)
  \/ \E max_size \in sections, asked \in {0} \cup Asked, n \in {0, MaxSize} : MapView(max_size, asked, n)
  \/ AllocatePhysical(1)
  \/ \E low \in {FirstPhysical, FirstVirtual}, high \in {0, FirstVirtual + 2} :
       AllocatePhysicalEx(1, low, high, LargePage)
  \/ \E a \in Stores : Store(a)
-----------------------------------------------------------------------------
TypeOK ==
  /\ \A b \in DOMAIN regions_ : \A k \in DOMAIN regions_[b] : b + regions_[b][k] <= RamSize
  /\ \A v \in virtual_allocations : Fits(v) /\ Cardinality(Tracked(v.base)) = 1
  /\ cursor \in [{"virtual", "physical", "ext"} -> 0..Beyond]
  /\ sections \subseteq 1..MaxSize

\* The documented map: a mirror of RAM, or the same register of a window.
SamePlace(a, b) ==
  IF is_mmio(a) THEN is_mmio(b) /\ translate_address(a) = translate_address(b)
  ELSE ~is_mmio(b) /\ a % RamSize = b % RamSize

\* What the guest stored in memory that the kernel placed for it, or in a device
\* register, it reads back through every mirror, whatever is allocated, mapped,
\* committed or freed meanwhile, until it frees that memory, names it again or
\* lets MmAllocatePhysicalMemory take it (NtAllocateVirtualMemory and
\* NtMapViewOfSection zero what they hand out).
ReadsBack ==
  stored # Nowhere =>
    /\ cell # Dropped
    /\ \A b \in 0..(Space - 1) : SamePlace(stored, b) => Reached(b) = cell

\* Memory::query finds every allocation that a call still tracks: as many regions
\* start at an address as allocations do, at least.
TrackedAreBacked ==
  \A b \in 0..(RamSize - 1) :
    Cardinality(Tracked(b)) + Cardinality({p \in physical_allocations : p.base = b})
      <= Len(regions_[b])
=============================================================================
