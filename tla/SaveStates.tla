----------------------------- MODULE SaveStates -----------------------------
(***************************************************************************)
(* core/save_state.cpp: SaveState::save and SaveState::load, and the guest *)
(* that goes on running under them: pausing the emulation thread does not   *)
(* stop the host threads of the guest, so every section is of another       *)
(* moment. The processor, the registers and a page are a value each; the    *)
(* file is a header and one block per section, its section header with its  *)
(* data. zlib gives back what it was given. Left out: a file that cannot be *)
(* opened (nothing happens), and files this code has not written.           *)
(***************************************************************************)
EXTENDS Naturals, SequencesExt, FiniteSetsExt

CONSTANTS Pages,   \* the pages of memory; bound
          Word,    \* the values of a processor, and of the registers; bound
          Value    \* those of a page; bound. 0 is a page of zeros

VARIABLES
  cpu, gpu, mem,   \* the machine
  file,            \* the blocks on disk, as far as this process sees them
  at, block,       \* where a save or a load stands; the blocks it has passed
  out,             \* the sections serialised so far
  taken,           \* history: what the last save read of the machine
  restored         \* history: what this load wrote to it

ssvars == <<cpu, gpu, mem, file, at, block, out, taken, restored>>

Nothing == [cpu |-> <<>>, gpu |-> <<>>, mem |-> <<>>]
Zeros == [p \in 1..Pages |-> 0]
Blocks == <<"header", "cpu", "gpu", "kernel", "memory">>
SectionCount == Len(Blocks)

Init ==
  /\ cpu = 0 /\ gpu = 0 /\ mem = Zeros
  /\ file = <<>> /\ at = "idle" /\ block = 0 /\ out = <<>>
  /\ taken = Nothing /\ restored = Nothing

Block(type, bitmap, data) == [is |-> type, bitmap |-> bitmap, data |-> data]
-----------------------------------------------------------------------------
(* The guest: any part of the machine changes at any time.                  *)
Guest ==
  /\ \/ \E v \in Word : cpu' = v /\ UNCHANGED <<gpu, mem>>
     \/ \E v \in Word : gpu' = v /\ UNCHANGED <<cpu, mem>>
     \/ \E v \in Value, p \in 1..Pages : mem' = [mem EXCEPT ![p] = v] /\ UNCHANGED <<cpu, gpu>>
  /\ UNCHANGED <<file, at, block, out, taken, restored>>
-----------------------------------------------------------------------------
MutTruncated(old) == old         \* the file is opened for update
Truncated(old) == <<>>           \* fopen(path, "wb")

Save ==
  /\ at = "idle"
  /\ file' = Truncated(file)
  /\ at' = "cpu" /\ taken' = Nothing
  /\ UNCHANGED <<cpu, gpu, mem, block, out, restored>>

serialize_cpu ==
  /\ at = "cpu"
  /\ out' = <<Block("header", {}, <<>>), Block("cpu", {}, <<cpu>>)>>
  /\ taken' = [taken EXCEPT !.cpu = <<cpu>>]
  /\ at' = "gpu" /\ UNCHANGED <<cpu, gpu, mem, file, block, restored>>

\* The registers; the section of the kernel is a header of zeros.
serialize_gpu ==
  /\ at = "gpu"
  /\ out' = out \o <<Block("gpu", {}, <<gpu>>), Block("kernel", {}, <<>>), Block("memory", {}, <<>>)>>
  /\ taken' = [taken EXCEPT !.gpu = <<gpu>>]
  /\ at' = "memory" /\ UNCHANGED <<cpu, gpu, mem, file, block, restored>>

\* A page with anything in it gets its bit and its bytes; the others nothing.
serialize_memory ==
  LET p == Len(taken.mem) + 1
      with == [Last(out) EXCEPT !.bitmap = @ \union {p}, !.data = Append(@, mem[p])]
  IN /\ at = "memory"
     /\ out' = IF mem[p] = 0 THEN out ELSE Append(Front(out), with)
     /\ taken' = [taken EXCEPT !.mem = Append(@, mem[p])]
     /\ at' = IF p = Pages THEN "write" ELSE "memory"
     /\ UNCHANGED <<cpu, gpu, mem, file, block, restored>>

Put(blocks, n, b) == SubSeq(blocks, 1, n - 1) \o <<b>> \o SubSeq(blocks, n + 1, Len(blocks))

write_all ==
  /\ at = "write"
  /\ file' = Put(file, block + 1, out[block + 1])
  /\ block' = IF block + 1 = SectionCount THEN 0 ELSE block + 1
  /\ IF block + 1 = SectionCount THEN at' = "close" /\ out' = <<>> ELSE UNCHANGED <<at, out>>
  /\ UNCHANGED <<cpu, gpu, mem, taken, restored>>

\* What of a file that was written reaches the disk: some first part of it.
Reaches(blocks) == \E k \in 0..Len(blocks) : file' = SubSeq(blocks, 1, k)

\* A full disk is seen by fwrite, which ends the save with IoError, or by
\* fclose, which nobody looks at.
EndSave ==
  /\ at \in {"write", "close"}
  /\ Reaches(file)
  /\ at' = "idle" /\ block' = 0 /\ out' = <<>>
  /\ UNCHANGED <<cpu, gpu, mem, taken, restored>>
-----------------------------------------------------------------------------
Load ==
  /\ at = "idle"
  /\ at' = "read" /\ UNCHANGED <<cpu, gpu, mem, file, block, out, taken, restored>>

\* A read past the end of the file ends the load with InvalidFormat.
read_all ==
  /\ at = "read" /\ block = Len(file)
  /\ at' = "failed" /\ block' = 0 /\ UNCHANGED <<cpu, gpu, mem, file, out, taken, restored>>

\* Memory is zeroed, and the pages follow each other in the order of their bits.
MutPagesOf(b) == [p \in 1..Pages |-> IF p \in b.bitmap THEN b.data[Cardinality(b.bitmap)] ELSE 0]
PagesOf(b) ==
  [p \in 1..Pages |->
     IF p \in b.bitmap THEN b.data[Cardinality({q \in b.bitmap : q <= p})] ELSE 0]

deserialize_cpu(b) ==
  /\ b.is = "cpu"
  /\ cpu' = b.data[1] /\ restored' = [restored EXCEPT !.cpu = b.data]
  /\ UNCHANGED <<gpu, mem>>
deserialize_gpu(b) ==
  /\ b.is = "gpu"
  /\ gpu' = b.data[1] /\ restored' = [restored EXCEPT !.gpu = b.data]
  /\ UNCHANGED <<cpu, mem>>
deserialize_kernel(b) == b.is = "kernel" /\ UNCHANGED <<cpu, gpu, mem, restored>>
deserialize_memory(b) ==
  /\ b.is = "memory"
  /\ mem' = PagesOf(b) /\ restored' = [restored EXCEPT !.mem = PagesOf(b)]
  /\ UNCHANGED <<cpu, gpu>>

\* One block is read whole, and a section applied before the next is looked at.
ReadBlock ==
  LET b == file[block + 1]
  IN /\ at = "read" /\ block < Len(file)
     /\ \/ b.is = "header" /\ UNCHANGED <<cpu, gpu, mem, restored>>
        \/ deserialize_cpu(b) \/ deserialize_gpu(b) \/ deserialize_kernel(b) \/ deserialize_memory(b)
     /\ IF block + 1 = SectionCount THEN at' = "loaded" /\ block' = 0 ELSE at' = at /\ block' = block + 1
     /\ UNCHANGED <<file, out, taken>>

EndLoad ==
  /\ at \in {"failed", "loaded"}
  /\ at' = "idle" /\ restored' = Nothing
  /\ UNCHANGED <<cpu, gpu, mem, file, block, out, taken>>
-----------------------------------------------------------------------------
\* The process is killed, and started again with nothing in its memory.
Crash ==
  /\ at # "idle"
  /\ cpu' = 0 /\ gpu' = 0 /\ mem' = Zeros
  /\ IF at \in {"write", "close"} THEN Reaches(file) ELSE file' = file
  /\ at' = "idle" /\ block' = 0 /\ out' = <<>> /\ restored' = Nothing
  /\ UNCHANGED taken

Next ==
  \/ Guest \/ Save \/ serialize_cpu \/ serialize_gpu \/ serialize_memory \/ write_all \/ EndSave
  \/ Load \/ read_all \/ ReadBlock \/ EndLoad \/ Crash
-----------------------------------------------------------------------------
TypeOK ==
  /\ cpu \in Word /\ gpu \in Word /\ mem \in [1..Pages -> Value]
  /\ at \in {"idle", "cpu", "gpu", "memory", "write", "close", "read", "failed", "loaded"}
  /\ block \in 0..SectionCount /\ Len(file) <= SectionCount
  /\ \A n \in DOMAIN file : file[n].is = Blocks[n]

(* A load that answers Ok has restored what one save, the last, took of      *)
(* each part of the machine: never a part of one save with a part of        *)
(* another, and never a file that a full disk or the end of the process cut  *)
(* short.                                                                   *)
LoadsOneSave == at = "loaded" => restored = taken

(* A load that fails may have replaced the processor and the registers; it    *)
(* has not touched memory, which is read whole before it is applied.         *)
FailedLoadKeepsMemory == at = "failed" => restored.mem = <<>>
=============================================================================
