------------------------------ MODULE JitCache ------------------------------
(* cpu/jit/jit_compiler.cpp: the cache of compiled blocks and the loop in   *)
(* which host threads look blocks up, compile them and jump into them. The  *)
(* lookup is under block_map_mutex_; what it returns is used after that.    *)
(* An instruction is what it does to the program counter and, for the idle  *)
(* loops, whether it has a side effect; "text" is the instructions that a   *)
(* block was compiled from, and "next" where the guest program is to go.    *)
EXTENDS Integers, SequencesExt, FiniteSetsExt

CONSTANTS HostThread,
          Program,              \* the guest's code at the start, a sequence of instructions
          MAX_BLOCK_INSTRUCTIONS,
          Cells,                \* the code cache, in cells of one instruction's code
          Dispatcher,           \* where flush_cache starts anew, past the dispatcher
          Hot,                  \* 10: the executions after which an idle loop is skipped
          Patches               \* what the guest overwrites its code with

VARIABLES code,                 \* guest memory: the instruction at each address
          block_map_, code_write_ptr_, cache,
          host,               \* "loop", or "found": it holds a block; "lost": a deleted one
          ctx_pc, next              \* its context's program counter, and history

jvars == <<code, block_map_, code_write_ptr_, cache, host, ctx_pc, next>>

Addr == DOMAIN code
Op(kind) == [op |-> kind, to |-> 0]
Branch(kind, to) == [op |-> kind, to |-> to]   \* "b", or "bc" that may fall through
Ends(insn) == insn.op \in {"b", "bc", "sc", "rfi"}
Read(a) == IF a \in Addr THEN code[a] ELSE Op("none")     \* memory around the code is zero

(* compile_block_unlocked.                                                 *)
BlockSize(a) ==
  LET ends == {n \in 1..MAX_BLOCK_INSTRUCTIONS : Ends(Read((a + n) - 1))}
  IN IF ends = {} THEN MAX_BLOCK_INSTRUCTIONS ELSE Min(ends)
detect_idle_loop(a, n) ==
  /\ n \in 2..8
  /\ Read((a + n) - 1).op = "bc" /\ Read((a + n) - 1).to = a
  /\ \A k \in 0..(n - 2) : Read(a + k).op = "load"
CodeSize(n) == n + 1            \* with the prologue and the epilogue
Fits(place, n) == place + CodeSize(n) <= Cells
Compiled(a, place) ==
  LET n == BlockSize(a)
  IN [start_addr |-> a, end_addr |-> a + n, code |-> place, is_idle_loop |-> detect_idle_loop(a, n),
      execution_count |-> 0, text |-> [k \in 1..n |-> Read((a + k) - 1)]]
Body(block) == [start |-> block.start_addr, text |-> block.text]
Written(cells, block) ==
  [c \in DOMAIN cells |-> IF c \in block.code..((block.code + Len(block.text)) - 1)
                          THEN <<c - block.code, Body(block)>> ELSE cells[c]]
Blank == [c \in 0..(Cells - 1) |-> <<>>]    \* what deleted blocks leave there is not kept
InCache(block) ==               \* the code the block was given is where it is looked for
  \A k \in 0..(Len(block.text) - 1) : block.code + k \in DOMAIN cache /\ cache[block.code + k] = <<k, Body(block)>>

Holding == {t \in HostThread : host[t] = "found"}
BlockAt(a) == CHOOSE b \in block_map_ : b.start_addr = a
BlockOf(t) == BlockAt(ctx_pc[t])      \* of a thread that holds one
\* The blocks that other threads hold are deleted under them.
Freed == [u \in HostThread |-> IF u \in Holding THEN "lost" ELSE host[u]]

JitOK ==
  /\ \A b \in block_map_ : b.code \in 0..(Cells - 1) /\ b.execution_count \in 0..(Hot + 1)
  /\ \A b, c \in block_map_ : b.start_addr = c.start_addr => b = c
  /\ code_write_ptr_ \in 0..Cells
  /\ \A t \in HostThread : ctx_pc[t] \in 0..(Len(code) + MAX_BLOCK_INSTRUCTIONS)

JitInit ==
  /\ code = Program
  /\ block_map_ = {} /\ code_write_ptr_ = 0
  /\ cache = Blank
  /\ host = [t \in HostThread |-> "loop"]
  /\ ctx_pc = [t \in HostThread |-> 1]
  /\ next = [t \in HostThread |-> [pc |-> 1, after |-> "none"]]

\* The loop of execute: it looks the block at the program counter up, compiles
\* it if there is none, and jumps into it, or skips it. Between two blocks it
\* may end, its cycles being used up or a system call to be made, and be called
\* again; a pc of 0 is the return of a DPC routine.
Lookup(t) ==
  /\ host[t] = "loop"
  /\ \E block \in block_map_ : block.start_addr = ctx_pc[t]
  /\ host' = [host EXCEPT ![t] = "found"]
  /\ UNCHANGED <<code, block_map_, code_write_ptr_, cache, ctx_pc, next>>
\* For the check of RunsTheProgram: on an overflow the block keeps the place
\* that it was to have, and its code goes to the start.
MutPlaceOf(n) == code_write_ptr_
PlaceOf(n) == IF Fits(code_write_ptr_, n) THEN code_write_ptr_ ELSE Dispatcher
\* compile_block of an address that has no block. When the cache is full every
\* other block is deleted and the code written from its start again.
compile_block(t) ==
  LET n == BlockSize(ctx_pc[t])
      full == ~Fits(code_write_ptr_, n)
      block == Compiled(ctx_pc[t], PlaceOf(n))
      at == IF full THEN Dispatcher ELSE code_write_ptr_
  IN /\ host[t] = "loop" /\ ctx_pc[t] \in Addr
     /\ \A b \in block_map_ : b.start_addr # ctx_pc[t]
     /\ block_map_' = {block} \cup IF full THEN {} ELSE block_map_
     /\ code_write_ptr_' = at + CodeSize(n)
     /\ cache' = Written(IF full THEN Blank ELSE cache, [block EXCEPT !.code = at])
     /\ host' = [IF full THEN Freed ELSE host EXCEPT ![t] = "found"]
     /\ UNCHANGED <<code, ctx_pc, next>>

IdleLoop(block) == block.is_idle_loop /\ block.execution_count > Hot
\* The idle loop is not executed any more: whatever it waits for, it is only
\* given time.
SkipIdle(t) ==
  /\ t \in Holding /\ IdleLoop(BlockOf(t))
  /\ host' = [host EXCEPT ![t] = "loop"]
  /\ UNCHANGED <<code, block_map_, code_write_ptr_, cache, ctx_pc, next>>

\* Where the compiled code of the block's end leaves the program counter, and
\* where the guest program goes. compile_syscall adds 4 to the context's pc,
\* which is still the block's start; compile_rfi leaves it there.
Goes(block, taken) ==
  LET insn == Last(block.text)
  IN CASE insn.op = "b" \/ (insn.op = "bc" /\ taken) -> insn.to
     [] insn.op = "rfi" -> block.start_addr
     [] OTHER -> block.end_addr
LeftAt(block, taken) ==
  IF Last(block.text).op = "sc" THEN block.start_addr + 1 ELSE Goes(block, taken)
\* The block's code, if it still is what the thread jumped into; on return the
\* block's execution count is raised.
Run(t) ==
  LET block == BlockOf(t)
  IN /\ t \in Holding /\ ~IdleLoop(block)
     /\ \E taken \in IF Last(block.text).op = "bc" THEN BOOLEAN ELSE {FALSE} :
          /\ ctx_pc' = [ctx_pc EXCEPT ![t] = LeftAt(block, taken)]
          /\ next' = [next EXCEPT ![t] = [pc |-> Goes(block, taken), after |-> Last(block.text).op]]
     /\ block_map_' = {IF b.start_addr = block.start_addr
                       THEN [b EXCEPT !.execution_count = Min({@ + 1, Hot + 1})] ELSE b : b \in block_map_}
     /\ host' = [host EXCEPT ![t] = "loop"]
     /\ UNCHANGED <<code, code_write_ptr_, cache>>
\* A thread whose block was deleted runs what it finds: it is not followed.
Lost(t) ==
  /\ host[t] = "lost"
  /\ host' = [host EXCEPT ![t] = "loop"]
  /\ ctx_pc' = [ctx_pc EXCEPT ![t] = 0] /\ next' = [next EXCEPT ![t] = [pc |-> 0, after |-> "none"]]
  /\ UNCHANGED <<code, block_map_, code_write_ptr_, cache>>

\* Cpu::reset: flush_cache.
flush_cache ==
  /\ block_map_ # {}
  /\ block_map_' = {} /\ code_write_ptr_' = Dispatcher
  /\ host' = Freed /\ cache' = Blank
  /\ UNCHANGED <<code, ctx_pc, next>>
\* The guest writes code: icbi is compiled to a nop, and nobody calls
\* invalidate, so that a block outlives what it was compiled from.
Modify(a, insn) ==
  /\ code[a] # insn
  /\ code' = [code EXCEPT ![a] = insn]
  /\ UNCHANGED <<block_map_, code_write_ptr_, cache, host, ctx_pc, next>>

JitNext ==
  \/ \E t \in HostThread : \/ Lookup(t) \/ compile_block(t)
                       \/ SkipIdle(t) \/ Run(t) \/ Lost(t)
  \/ flush_cache
  \/ \E p \in Patches : Modify(p.at, p.insn)

JitSpec == JitInit /\ [][JitNext]_jvars

\* A thread that jumps into a block finds the code that was compiled for it,
\* at the address the lookup gave it, and between blocks its program counter
\* is where the guest program goes, or, after a system call, an instruction of
\* the block that made it, and never behind it: unless the blocks were deleted
\* while it held one (jit_compiler.cpp:4087).
RunsTheProgram ==
  \A t \in HostThread :
    /\ t \in Holding => InCache(BlockOf(t))
    /\ \/ ctx_pc[t] = next[t].pc
       \/ /\ next[t].after = "sc"
          /\ ctx_pc[t] \in ((next[t].pc - MAX_BLOCK_INSTRUCTIONS) + 1)..(next[t].pc - 1)
=============================================================================
