-------------------------- MODULE ShaderTranslator --------------------------
(* A Xenos shader turned into SPIR-V (shader_translator.cpp): the control   *)
(* flow instructions are taken in order, and each appends to the function   *)
(* its own blocks, with the merge declarations that structured control flow *)
(* asks for. What a clause computes is left out: an instruction is straight *)
(* code but for its predicate and for a kill.                               *)
(*                                                                          *)
(* Which instructions a clause holds is a free choice: the decoder appends  *)
(* a control flow instruction before it has set its clause, is_fetch,       *)
(* bool_index and loop_id, so what the translator reads of them is          *)
(* whatever the copy happened to hold.                                      *)
EXTENDS Naturals, Sequences, SequencesExt, FiniteSetsExt

CONSTANTS
  Clause,                     \* sequences of instructions: [predicated, kill], kill the
                              \* set of its vector and scalar operation that are kills
  MaxCf,                      \* bounds the control flow instructions of a shader
  MaxDepth                    \* bounds the nesting of loops

VARIABLES
  type,                       \* ShaderType
  code,                       \* current_function_
  next_id_,
  loop_stack,
  count,                      \* control flow instructions taken
  ended                       \* the decoder has met the end of the shader

svars == <<type, code, next_id_, loop_stack, count, ended>>

TypeOK ==
  /\ type \in {"vertex", "pixel"} /\ ended \in BOOLEAN /\ count \in 0..MaxCf
  /\ next_id_ \in Nat /\ Len(loop_stack) <= MaxDepth
  /\ \A i \in DOMAIN code : code[i].op \in
       {"label", "branch", "cond", "selection", "loop", "return", "kill", "op"}

\* SpirvBuilder: one operator per instruction that matters to control flow.
Label(id) == [op |-> "label", ids |-> <<id>>]
Branch(id) == [op |-> "branch", ids |-> <<id>>]
BranchConditional(t, f) == [op |-> "cond", ids |-> <<t, f>>]
SelectionMerge(merge) == [op |-> "selection", ids |-> <<merge>>]
LoopMerge(merge, continue) == [op |-> "loop", ids |-> <<merge, continue>>]
ReturnVoid == [op |-> "return", ids |-> <<>>]
Kill == [op |-> "kill", ids |-> <<>>]
Op == [op |-> "op", ids |-> <<>>]   \* loads, stores and arithmetic

\* translate up to the shader's body: the entry block and its stores. Each
\* shader has a context of its own.
Init ==
  /\ type \in {"vertex", "pixel"}
  /\ code = <<Label(0), Op>> /\ next_id_ = 1
  /\ loop_stack = <<>> /\ count = 0 /\ ended = FALSE
NextShader(t) ==
  /\ ended
  /\ type' = t /\ code' = <<Label(0), Op>> /\ next_id_' = 1
  /\ loop_stack' = <<>> /\ count' = 0 /\ ended' = FALSE

---------------------------------------------------------------------------
(* Instructions: what each appends to s = [code, next].                     *)
---------------------------------------------------------------------------
Emit(s, c) == [s EXCEPT !.code = @ \o c]
Alloc(s, n) == [s EXCEPT !.next = @ + n]

\* emit_kill: nothing in a vertex shader.
EmitKill(s) ==
  IF type # "pixel" THEN s
  ELSE Emit(Alloc(s, 2), <<SelectionMerge(s.next + 1), BranchConditional(s.next, s.next + 1),
                           Label(s.next), Kill, Label(s.next + 1)>>)

\* translate_alu_instruction and translate_fetch_instruction: a predicated
\* one is wrapped in a block of its own.
Opened(s, inst) ==
  IF ~inst.predicated THEN s
  ELSE Emit(Alloc(s, 2), <<Op, SelectionMerge(s.next + 1), BranchConditional(s.next, s.next + 1),
                           Label(s.next)>>)
\* Mutant: the predicated block is left without its branch.
MutClosed(s, inst, merge) == IF inst.predicated THEN Emit(s, <<Label(merge)>>) ELSE s
Closed(s, inst, merge) ==
  IF inst.predicated THEN Emit(s, <<Branch(merge), Label(merge)>>) ELSE s
\* translate_vector_op, then translate_scalar_op: straight code, and a kill.
VectorOp(s, inst) == LET t == Emit(s, <<Op>>) IN IF "vector" \in inst.kill THEN EmitKill(t) ELSE t
ScalarOp(s, inst) == LET t == Emit(s, <<Op>>) IN IF "scalar" \in inst.kill THEN EmitKill(t) ELSE t
Operation(s, inst) == ScalarOp(VectorOp(s, inst), inst)
Instruction(s, inst) == Closed(Operation(Opened(s, inst), inst), inst, s.next + 1)

\* translate_exec_clause.
ExecClause(s, clause) ==
  LET after[i \in 0..Len(clause)] == IF i = 0 THEN s ELSE Instruction(after[i - 1], clause[i])
  IN after[Len(clause)]

\* A clause under a condition: of a boolean constant or the predicate.
Guarded(s, clause) ==
  LET t == Emit(Alloc(s, 2), <<Op, SelectionMerge(s.next + 1),
                               BranchConditional(s.next, s.next + 1), Label(s.next)>>)
  IN Emit(ExecClause(t, clause), <<Branch(s.next + 1), Label(s.next + 1)>>)

---------------------------------------------------------------------------
(* translate_control_flow: one action per opcode.                           *)
---------------------------------------------------------------------------
Now == [code |-> code, next |-> next_id_]
Append_(s) == code' = s.code /\ next_id_' = s.next
\* One instruction more, with room left in the bound to close every loop.
Taken(open) ==
  /\ ~ended /\ count + open < MaxCf
  /\ count' = count + 1 /\ UNCHANGED <<type, ended>>
Plain == Taken(Len(loop_stack)) /\ UNCHANGED loop_stack

\* NOP, MARK_VS_FETCH_DONE, an unknown opcode, and ALLOC, whose export
\* buffer is declared outside the function.
Skip == Plain /\ UNCHANGED <<code, next_id_>>

Exec(clause) == Plain /\ clause # <<>> /\ Append_(ExecClause(Now, clause))

\* COND_EXEC, COND_PRED_EXEC: an empty clause is nothing.
CondExec(clause) == Plain /\ clause # <<>> /\ Append_(Guarded(Now, clause))

\* COND_EXEC_PRED_CLEAN also clears the predicate after the block.
CondExecPredClean(clause) == Plain /\ clause # <<>> /\ Append_(Emit(Guarded(Now, clause), <<Op>>))

\* COND_CALL: the clause of another control flow instruction, in place.
CondCall(clause) == Plain /\ Append_(Guarded(Now, clause))

LoopStart ==
  LET header == next_id_ merge == next_id_ + 1
      continue == next_id_ + 2 body == next_id_ + 3 IN
  /\ Taken(Len(loop_stack) + 1) /\ Len(loop_stack) < MaxDepth
  /\ Append_(Emit(Alloc(Now, 4),
       <<Op, Branch(header), Label(header), LoopMerge(merge, continue), Branch(body), Label(body)>>))
  /\ loop_stack' = Append(loop_stack, [header |-> header, merge |-> merge, continue |-> continue])

\* A LOOP_END without a loop is skipped.
LoopEnd ==
  /\ Taken(0)
  /\ IF loop_stack = <<>>
       THEN UNCHANGED <<code, next_id_, loop_stack>>
       ELSE LET info == Last(loop_stack) IN
            /\ Append_(Emit(Now, <<Branch(info.continue), Label(info.continue), Op,
                 BranchConditional(info.header, info.merge), Label(info.merge)>>))
            /\ loop_stack' = Front(loop_stack)

\* RETURN: a label for the code that follows and is never reached.
Return == Plain /\ Append_(Emit(Alloc(Now, 1), <<ReturnVoid, Label(next_id_)>>))

\* COND_JMP leaves the innermost loop, or the shader outside of loops.
CondJmp ==
  /\ Plain
  /\ Append_(IF loop_stack # <<>>
       THEN Emit(Alloc(Now, 1), <<Op, SelectionMerge(next_id_),
              BranchConditional(Last(loop_stack).merge, next_id_), Label(next_id_)>>)
       ELSE Emit(Alloc(Now, 2), <<Op, SelectionMerge(next_id_ + 1),
              BranchConditional(next_id_, next_id_ + 1),
              Label(next_id_), ReturnVoid, Label(next_id_ + 1)>>))

\* The end of the shader: the outputs not exported yet, and the return. A
\* shader ends outside of its loops; the translator does not check it.
EndOfShader ==
  /\ ~ended /\ loop_stack = <<>>
  /\ ended' = TRUE
  /\ code' = code \o <<Op, ReturnVoid>>
  /\ UNCHANGED <<type, next_id_, loop_stack, count>>

Next ==
  \/ Skip \/ LoopStart \/ LoopEnd \/ Return \/ CondJmp \/ EndOfShader
  \/ \E t \in {"vertex", "pixel"} : NextShader(t)
  \/ \E clause \in Clause :
       Exec(clause) \/ CondExec(clause) \/ CondExecPredClean(clause) \/ CondCall(clause)

---------------------------------------------------------------------------
(* The rules of structured control flow.                                    *)
---------------------------------------------------------------------------
Is(i, op) == i \in DOMAIN code /\ code[i].op = op
All(ops) == {i \in DOMAIN code : code[i].op \in ops}
Terminators == {"branch", "cond", "return", "kill"}

(* Blocks begin with a label and end at the first terminator; what is named *)
(* exists, once; a branch that may go two ways says where they meet.        *)
Blocks ==
  /\ Is(1, "label") /\ code[Len(code)].op \in Terminators
  /\ \A i \in 2..Len(code) : Is(i, "label") <=> code[i - 1].op \in Terminators
Labels ==
  LET labels == All({"label"}) IN
  /\ \A i, j \in labels : code[i].ids = code[j].ids => i = j
  /\ \A i \in DOMAIN code : Range(code[i].ids) \subseteq {code[j].ids[1] : j \in labels}
Headers ==
  /\ \A i \in All({"selection"}) : Is(i + 1, "cond")
  /\ \A i \in All({"loop"}) : Is(i + 1, "branch")

(* Constructs: a merge declaration encloses the blocks up to its merge. A   *)
(* branch leaves them for the merge, for the merge or the continue block of *)
(* the innermost loop, or goes back from that block to the loop's header.   *)
Constructs ==
  LET labels == All({"label"})
      At(id) == CHOOSE i \in labels : code[i].ids[1] = id
      merges == {<<i, At(code[i].ids[1])>> : i \in All({"selection", "loop"})}
      around == [i \in All({"branch", "cond"}) |->
                  {m \in merges : m[1] < i /\ i < m[2] /\ Is(m[1], "loop")}]
  IN \A i \in All({"branch", "cond"}) :
       LET loop == IF around[i] = {} THEN 0 ELSE Max({m[1] : m \in around[i]})
           exits == IF loop = 0 THEN {} ELSE Range(code[loop].ids)
       IN \A t \in Range(code[i].ids) :
            LET to == At(t) IN
            IF to < i
              THEN loop # 0 /\ t = code[loop - 1].ids[1] /\ At(code[loop].ids[2]) < i
              ELSE \A m \in merges :
                     m[1] < i /\ i < m[2] => to <= m[2] \/ t \in exits

(* Whatever the control flow of a shader whose loops are closed, the        *)
(* function made of it follows the rules the driver's compiler relies on:   *)
(* no block runs into another, no label is missing or twice, every branch   *)
(* two ways declares its merge, and constructs nest.                        *)
Structured == ended => Blocks /\ Labels /\ Headers /\ Constructs
=============================================================================
