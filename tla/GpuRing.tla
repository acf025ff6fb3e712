------------------------------ MODULE GpuRing ------------------------------
(***************************************************************************)
(* The GPU's command ring and its fences (gpu/xenos/gpu.cpp and the ring   *)
(* loop of command_processor.cpp).  A guest thread configures the ring,    *)
(* writes packets into guest memory and moves the write pointer through    *)
(* memory-mapped registers; the emulation thread calls process_commands    *)
(* once a batch; another thread may wait for a fence.                      *)
(*                                                                         *)
(* The guest's driver is the game's own code.  It is modelled by what the  *)
(* hardware interface asks of it: it never writes over dwords the read     *)
(* pointer the GPU wrote back has not passed.                              *)
(***************************************************************************)
EXTENDS Naturals, Sequences, FiniteSets

CONSTANTS
  RingDwords,   \* the guest's ring, in dwords, a power of two
  Configure,    \* who writes CP_RB_CNTL: "VdInitializeRingBuffer" or the guest's own "registers"
  Shape,        \* packets the guest writes: [dwords, swap]
  MaxPackets,   \* bound: packets
  MaxFence      \* bound: fences

ASSUME GpuRingAssumption ==
  /\ RingDwords \in Nat \ {0} /\ RingDwords % 4 = 0 /\ \E k \in 1 .. 31 : 2 ^ k = RingDwords
  /\ Configure \in {"VdInitializeRingBuffer", "registers"}
  /\ Shape \subseteq [dwords : 1 .. (RingDwords - 1), swap : BOOLEAN]
  /\ MaxPackets \in Nat /\ MaxFence \in Nat

VARIABLES
  configured,   \* how many of the ring's registers the guest has written
  read_ptr_, write_ptr_,
  rptr,         \* guest memory at CP_RB_RPTR_ADDR
  ring,         \* guest memory: the ring's dwords, <<packet, index>> or Junk
  packets,      \* history: the packets written, in order
  end,          \* the guest's own write position
  published,    \* history: how many packets write_ptr_ covers
  gpu,          \* where process_commands is
  rp, wp,       \* its locals
  current,      \* its current_cpu_fence
  executed,     \* history: the packets executed, 0 for one that was never written
  cpu_fence_, gpu_fence_, next_fence_,
  waiter        \* where the thread that waits for a fence is

guest == <<configured, ring, packets, end, published>>
locals == <<gpu, rp, wp, current>>
fences == <<cpu_fence_, gpu_fence_, next_fence_, waiter>>
vars == <<guest, read_ptr_, write_ptr_, rptr, locals, executed, fences>>

Junk == <<0, 0>>
Positions == 0 .. (RingDwords - 1)

(* CP_RB_CNTL.  VdInitializeRingBuffer takes the logarithm of the dwords,  *)
(* less one; a guest that knows the GPU counts bytes writes two more.      *)
Log2(n) == CHOOSE k \in 0 .. 31 : 2 ^ k <= n /\ n < 2 ^ (k + 1)
VdOrder == IF Log2(RingDwords) > 0 THEN Log2(RingDwords) - 1 ELSE 0
Control == IF Configure = "registers" THEN VdOrder + 2 ELSE VdOrder

(* ring_buffer_size_ is in bytes; process makes dwords of it.              *)
RingSize == 2 ^ ((Control % 64) + 1) \div 4

----------------------------------------------------------------------------
(* The guest thread                                                         *)

(* CP_RB_BASE, CP_RB_CNTL, CP_RB_RPTR, CP_RB_WPTR, then CP_RB_RPTR_ADDR.    *)
ConfigureRing ==
  /\ configured < 5
  /\ configured' = configured + 1
  /\ read_ptr_' = IF configured' = 3 THEN 0 ELSE read_ptr_
  /\ write_ptr_' = IF configured' = 4 THEN 0 ELSE write_ptr_
  /\ UNCHANGED <<ring, packets, end, published, rptr, locals, executed, fences>>

Used == (end + RingDwords - rptr) % RingDwords

WritePacket(s) ==
  /\ configured = 5
  /\ Len(packets) < MaxPackets
  /\ Used + s.dwords < RingDwords
  /\ packets' = Append(packets, s)
  /\ ring' = [p \in Positions |->
                LET i == (p + RingDwords - end) % RingDwords
                IN IF i < s.dwords THEN <<Len(packets) + 1, i>> ELSE ring[p]]
  /\ end' = (end + s.dwords) % RingDwords
  /\ UNCHANGED <<configured, published, read_ptr_, write_ptr_, rptr, locals, executed, fences>>

Publish ==
  /\ published < Len(packets)
  /\ write_ptr_' = end
  /\ published' = Len(packets)
  /\ UNCHANGED <<configured, ring, packets, end, read_ptr_, rptr, locals, executed, fences>>

----------------------------------------------------------------------------
(* process_commands, on the emulation thread                                *)

Gpu(from, to) ==
  /\ gpu = from
  /\ gpu' = to
  /\ UNCHANGED guest

(* Nothing to do until CP_RB_BASE and CP_RB_CNTL are written.              *)
LoadRing ==
  /\ configured >= 2
  /\ Gpu("idle", "load rp")
  /\ UNCHANGED <<read_ptr_, write_ptr_, rptr, rp, wp, current, executed, fences>>

LoadReadPtr ==
  /\ Gpu("load rp", "load wp")
  /\ rp' = read_ptr_ % RingSize
  /\ UNCHANGED <<read_ptr_, write_ptr_, rptr, wp, current, executed, fences>>

LoadWritePtr ==
  /\ Gpu("load wp", "process")
  /\ wp' = write_ptr_ % RingSize
  /\ UNCHANGED <<read_ptr_, write_ptr_, rptr, rp, current, executed, fences>>

(* A dword of the stream: an offset past the GPU's ring wraps.             *)
ReadCmd(offset) == ring[offset % RingSize]

(* The header's packet, 0 if the dword is not the header of one; a dword   *)
(* that is no header may decode as any packet, and is taken as one dword.  *)
PacketAt(offset) ==
  LET h == ReadCmd(offset)
  IN IF h # Junk /\ h[2] = 0 THEN h[1] ELSE 0

Whole(offset, n) == \A i \in 0 .. (packets[n].dwords - 1) : ReadCmd(offset + i) = <<n, i>>

Consumed(n) == IF n = 0 THEN 1 ELSE packets[n].dwords

(* Mutant: the read pointer does not wrap. *)
MutAfter(n) == rp + Consumed(n)

After(n) == (rp + Consumed(n)) % RingSize

(* Mutant: a write pointer that wrapped reads as nothing to do. *)
MutMore == rp < wp

More == rp # wp

(* One packet.  A swap completes the frame and ends the loop, whatever is  *)
(* left in the ring.                                                       *)
Execute ==
  /\ More
  /\ LET n == PacketAt(rp) IN
       /\ Gpu("process", IF n # 0 /\ packets[n].swap THEN "store" ELSE "process")
       /\ executed' = Append(executed, IF n # 0 /\ Whole(rp, n) THEN n ELSE 0)
       /\ rp' = After(n)
  /\ UNCHANGED <<read_ptr_, write_ptr_, rptr, wp, current, fences>>

Drained ==
  /\ ~More
  /\ Gpu("process", "store")
  /\ UNCHANGED <<read_ptr_, write_ptr_, rptr, rp, wp, current, executed, fences>>

StoreReadPtr ==
  /\ Gpu("store", "write back")
  /\ read_ptr_' = rp
  /\ UNCHANGED <<write_ptr_, rptr, rp, wp, current, executed, fences>>

(* Mutant: the write pointer is written back. *)
MutWriteBack ==
  /\ Gpu("write back", "load fence")
  /\ rptr' = IF configured = 5 THEN write_ptr_ ELSE rptr
  /\ UNCHANGED <<read_ptr_, write_ptr_, rp, wp, current, executed, fences>>

WriteBack ==
  /\ Gpu("write back", "load fence")
  /\ rptr' = IF configured = 5 THEN rp ELSE rptr
  /\ UNCHANGED <<read_ptr_, write_ptr_, rp, wp, current, executed, fences>>

LoadFence ==
  /\ Gpu("load fence", IF cpu_fence_ > gpu_fence_ THEN "store fence" ELSE "idle")
  /\ current' = cpu_fence_
  /\ UNCHANGED <<read_ptr_, write_ptr_, rptr, rp, wp, executed, fences>>

StoreFence ==
  /\ Gpu("store fence", "notify")
  /\ gpu_fence_' = IF current > gpu_fence_ THEN current ELSE gpu_fence_
  /\ UNCHANGED <<read_ptr_, write_ptr_, rptr, rp, wp, current, executed, cpu_fence_, next_fence_, waiter>>

(* Mutant: the notification does not take fence_mutex_. *)
MutMutexFree == TRUE

(* fence_mutex_ is held across steps by a waiter that is about to block.   *)
MutexFree == waiter # "blocking"

NotifyFence ==
  /\ MutexFree
  /\ Gpu("notify", "idle")
  /\ waiter' = IF waiter = "asleep" THEN "test" ELSE waiter
  /\ UNCHANGED <<read_ptr_, write_ptr_, rptr, rp, wp, current, executed, cpu_fence_, gpu_fence_, next_fence_>>

ProcessCommands ==
  LoadRing \/ LoadReadPtr \/ LoadWritePtr \/ Execute \/ Drained \/ StoreReadPtr \/ WriteBack
  \/ LoadFence \/ StoreFence \/ NotifyFence

----------------------------------------------------------------------------
(* A thread that allocates a fence, signals it and waits for it for ever    *)

Waiter(from, to) ==
  /\ waiter = from
  /\ waiter' = to
  /\ UNCHANGED <<guest, read_ptr_, write_ptr_, rptr, locals, executed>>

AllocateFence ==
  /\ next_fence_ <= MaxFence
  /\ Waiter("idle", "signal")
  /\ next_fence_' = next_fence_ + 1
  /\ UNCHANGED <<cpu_fence_, gpu_fence_>>

SignalCpuFence ==
  /\ Waiter("signal", "fast path")
  /\ cpu_fence_' = IF next_fence_ - 1 > cpu_fence_ THEN next_fence_ - 1 ELSE cpu_fence_
  /\ UNCHANGED <<gpu_fence_, next_fence_>>

Reached == gpu_fence_ >= next_fence_ - 1

FastPath ==
  /\ Waiter("fast path", IF Reached THEN "idle" ELSE "test")
  /\ UNCHANGED <<cpu_fence_, gpu_fence_, next_fence_>>

TestFence ==
  /\ Waiter("test", IF Reached THEN "idle" ELSE "blocking")
  /\ UNCHANGED <<cpu_fence_, gpu_fence_, next_fence_>>

Block ==
  /\ Waiter("blocking", "asleep")
  /\ UNCHANGED <<cpu_fence_, gpu_fence_, next_fence_>>

WaitForFence == SignalCpuFence \/ FastPath \/ TestFence \/ Block

----------------------------------------------------------------------------
Init ==
  /\ configured = 0 /\ read_ptr_ = 0 /\ write_ptr_ = 0 /\ rptr = 0
  /\ ring = [p \in Positions |-> Junk]
  /\ packets = <<>> /\ end = 0 /\ published = 0
  /\ gpu = "idle" /\ rp = 0 /\ wp = 0 /\ current = 0 /\ executed = <<>>
  /\ cpu_fence_ = 0 /\ gpu_fence_ = 0 /\ next_fence_ = 1 /\ waiter = "idle"

Next ==
  \/ ConfigureRing \/ (\E s \in Shape : WritePacket(s)) \/ Publish
  \/ ProcessCommands \/ AllocateFence \/ WaitForFence

(* The emulation loop calls process_commands again and again; the guest    *)
(* configures the ring; a call to wait for a fence goes on.                *)
Spec ==
  Init /\ [][Next]_vars /\ WF_vars(ConfigureRing) /\ WF_vars(ProcessCommands) /\ WF_vars(WaitForFence)

----------------------------------------------------------------------------
(* Type invariant.                                                          *)
TypeOK ==
  /\ configured \in 0 .. 5
  /\ {read_ptr_, write_ptr_, rptr, end, rp, wp} \subseteq Positions
  /\ packets \in Seq(Shape) /\ published \in 0 .. Len(packets)
  /\ ring \in [Positions -> (0 .. MaxPackets) \X (0 .. (RingDwords - 1))]
  /\ executed \in Seq(0 .. MaxPackets)
  /\ {cpu_fence_, gpu_fence_, current} \subseteq 0 .. MaxFence /\ next_fence_ \in 1 .. (MaxFence + 1)

(* process_commands executes the guest's packets, whole, each once and in   *)
(* the order they were written, and none the write pointer does not cover: *)
(* xboxkrnl_extended.cpp:1929 means the GPU's ring to be the guest's.      *)
ExecutedInOrder ==
  /\ Len(executed) <= published
  /\ \A i \in DOMAIN executed : executed[i] = i

(* A published packet is executed in the end: a swap, which ends a call of *)
(* process_commands with packets left, loses none of them.                 *)
RingDrains ==
  \A n \in 1 .. MaxPackets : (published >= n) ~> (Len(executed) >= n)

(* A wait for a fence the CPU has signalled returns: no wakeup is lost      *)
(* between wait_for_gpu_fence's predicate and its sleep.                   *)
FenceWaitReturns == (waiter = "fast path") ~> (waiter = "idle")
=============================================================================
