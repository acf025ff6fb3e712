----------------------------- MODULE PpcEngines -----------------------------
(***************************************************************************)
(* The two engines a thread's guest code may run in, cpu/xenon/interpreter *)
(* and cpu/jit/jit_compiler, side by side: from one context both execute   *)
(* the same instruction, and must leave the same context wherever they are *)
(* not known to differ. Diverges lists where they do, one line for one     *)
(* cause; every line is a behaviour of a game that changes with the engine.*)
(***************************************************************************)
EXTENDS PpcJit

CONSTANTS
  Value,          \* contents of the registers an instruction may name
  Imm,            \* signed immediates
  Shape           \* the registers <<rd (or rs), ra, rb>> it names

VARIABLES
  insn,           \* the instruction executed, or none yet
  ctx,            \* the context it was executed in
  interpreted,    \* what the interpreter leaves
  compiled        \* what the generated code leaves

NoInsn == [op |-> "none"]
NoContext == [pc |-> 0]
Plain == [op |-> "none", rd |-> 1, ra |-> 2, rb |-> 3, imm |-> 1, rc |-> 0, sh |-> 0, mb |-> 0,
          me |-> W - 1, xo |-> 0, wide |-> 1, crfd |-> 0, crfs |-> 1, bd |-> 0, ba |-> 1, bb |-> 2,
          bo |-> 20, bi |-> 2, lk |-> 0, aa |-> 0]
On(x) == [Plain EXCEPT !.rd = x[1], !.ra = x[2], !.rb = x[3]]

\* One instruction of each kind, with the operands its handlers look at.
Instructions ==
  LET Ops(ops) == {[On(x) EXCEPT !.op = o] : o \in ops, x \in Shape}
      WithImm(I) == {[i EXCEPT !.imm = v] : i \in I, v \in Imm}
      WithRc(I) == I \cup {[i EXCEPT !.rc = 1] : i \in I}
      WithShift(I, S) == {[i EXCEPT !.sh = n] : i \in I, n \in S}
      Rlds == {[i EXCEPT !.xo = o, !.sh = n + W * (o % 2), !.mb = m] :
                 i \in Ops(Rld), o \in 0 .. 9, n \in {0, 1, W - 1}, m \in {0, 1, D - 1}}
      Rlws == {[i EXCEPT !.sh = n, !.mb = m[1], !.me = m[2]] :
                 i \in Ops(Rotate), n \in {0, 1}, m \in {<<0, W - 1>>, <<1, 2>>, <<W - 1, 0>>}}
      BranchOn == {[Plain EXCEPT !.op = o, !.bo = b, !.bi = c, !.lk = l, !.aa = a, !.imm = 2] :
                 o \in Branch, b \in {0, 2, 4, 8, 12, 16, 18, 20}, c \in {0, 2}, l \in {0, 1}, a \in {0, 1}}
  IN WithImm(Ops(DForm \cup Immediate \cup LoadStore)) \cup WithRc(Ops(Sum \cup Logical \cup DoubleShift))
     \cup {[i EXCEPT !.wide = w] : i \in WithImm(Ops(Compare)), w \in {0, 1}}
     \cup WithShift(WithRc(Ops(WordShift \cup DoubleShift)), {0, 1, W - 1})
     \cup Ops(Indexed \cup Atomic) \cup WithRc(Rlws \cup Rlds \cup Ops(Population)) \cup BranchOn
     \cup {[i EXCEPT !.rb = n] : i \in Ops(Strings), n \in {0, 3}}
     \cup {[i EXCEPT !.bd = 3, !.ba = a, !.bb = b] : i \in Ops(CrLogical), a \in {0, 1}, b \in {0, 2}}
     \cup Ops(Special \cup NoEffect \cup {"sc", "rfi"})

\* What a context holds in r0, r1, r2, r3; CR0 holds "less", nothing has set
\* the summary overflow, and a word or two may be reserved.
Contexts ==
  {[gpr |-> [r \in 0 .. LastReg |-> CASE r = 0 -> 2 [] r = 1 -> x [] r = 2 -> y [] r = 3 -> z],
    cr |-> [k \in 0 .. 7 |-> IF k \in {0, 4, 5} THEN 1 ELSE 0], ca |-> c, so |-> 0, lr |-> 9,
    ctr |-> c + 1, pc |-> 4, mem |-> [a \in 0 .. Cells - 1 |-> WordMod - 1 - 3 * a],
    interrupted |-> FALSE, running |-> TRUE, tb |-> WordMod * c + 3,
    res |-> [a |-> Lo(y + z) * c, n |-> (IF x = 0 THEN 2 ELSE 1) * c]] :
   x \in Value, y \in Value, z \in Value, c \in {0, 1}}

Reads(i) ==                 \* the registers it takes an operand from
  IF i.op \in DForm THEN {}
  ELSE IF i.op \in {"cmpi", "cmpli"} THEN {i.ra}
  ELSE IF i.op \in Compare \cup (Sum \ {"neg", "addze", "addme", "subfze", "subfme"}) THEN {i.ra, i.rb}
  ELSE IF i.op \in Sum THEN {i.ra}
  ELSE IF i.op \in Immediate \cup {"mtlr", "mtctr", "srawi", "sradi", "cntlzw", "cntlzd", "extsw", "rlwinm"}
  THEN {i.rd}
  ELSE IF i.op = "rlwimi" \/ (i.op = "rld" /\ i.xo = 3) THEN {i.rd, i.ra}
  ELSE IF i.op = "rld" THEN {i.rd}
  ELSE IF i.op \in Logical \cup WordShift \cup DoubleShift \cup {"rlwnm"} THEN {i.rd, i.rb}
  ELSE (IF i.op \in StoresPart \cup {"std", "stdx", "sthbrx", "stdbrx"} THEN {i.rd} ELSE {})
       \cup (IF i.op \in Indexed \cup Atomic THEN {i.rb} ELSE {})

Diverges(i, s) ==
  LET address == U(Base(i, s) + If(i.op \in LoadStore, i.imm, s.gpr[i.rb])) IN
  \* load_gpr reads r0 as zero where the operand is not a base.
  \/ 0 \in Reads(i)
  \* Carries: never stored, the host's flag added, or stored in the wrong bit.
  \/ i.op \in {"addic", "addic.", "subfic", "addc", "adde", "addze", "addme", "subfc", "subfe",
               "subfze", "subfme", "sraw", "srawi", "srad", "sradi"}
  \* High words of products; quotients by zero, and of the least
  \* word by -1.
  \/ i.op \in {"mulhw", "mulhwu"}
  \/ i.op \in {"divw", "divwu", "divd", "divdu"} /\ s.gpr[i.rb] = 0
  \/ i.op = "divw" /\ Lo(s.gpr[i.ra]) = WordMod \div 2 /\ SignedLo(s.gpr[i.rb]) = -1
  \* Rc: ignored, or set from the source, by the interpreter.
  \/ i.rc = 1 /\ (i.op \in HighXo \/ i.op \in Logical \cup WordShift \cup DoubleShift)
  \* The interpreter's source register of the word shifts.
  \/ i.op \in WordShift /\ i.rd # i.ra
  \* Counts of a doubleword or more.
  \/ i.op \in {"sld", "srd"} /\ s.gpr[i.rb] % (2 * D) >= D
  \* A word rotated in a doubleword.
  \/ i.op = "rlwnm" \/ (i.op \in Rotate /\ i.sh # 0)
  \* The rotates of a doubleword that only one engine gives another form, and
  \* the masks that wrap or are empty.
  \/ i.op = "rld" /\ (i.xo \in {4, 5, 8, 9} \/ (i.xo \in {2, 3} /\ (i.mb + i.sh > D - 1 \/ i.mb + i.sh = 0)))
  \* Compares of words, and unsigned ones of doublewords.
  \/ i.op \in Compare /\ i.wide = 0
  \/ i.op \in {"cmpli", "cmpl"}
  \* Words stored with their register's upper half, loaded from the wrong
  \* place, or not at all; addresses that are not updated, or keep 64 bits.
  \/ i.op \in {"stw", "stwu", "stwx", "stmw", "lmw", "lwa", "ldu", "stdu"} \cup UpdatesIndexed \cup Strings
  \/ i.op \in Updates \cup SignExtends \cup {"lwax", "ldbrx", "stdbrx", "sthbrx"} /\ Slow(address)
  \* Words reserved and loaded with the next one; a conditional store of
  \* generated code never succeeds.
  \/ i.op \in {"lwarx", "ldarx"}
  \/ i.op \in {"stwcx.", "stdcx."} /\ s.res = [a |-> Lo(address), n |-> Reserved(i.op)]
  \* Population counts and cmpb, which have no code.
  \/ i.op \in Population
  \* The lower half of the time base.
  \/ i.op = "mftbl" /\ s.tb >= WordMod
  \* The link register of a branch not taken, or read after it is written.
  \/ i.lk = 1 /\ (i.op = "bclr" \/ (i.op \in {"bc", "bcctr"} /\ Interpret(i, s).pc = s.pc + 1))
  \* Condition register logic and moves, XER, rfi.
  \/ i.op \in CrLogical \cup {"mtcrf", "mtxer", "mfxer", "rfi"}

Init ==
  /\ insn = NoInsn
  /\ ctx = NoContext
  /\ interpreted = NoContext
  /\ compiled = NoContext

\* Update forms without a base, or loading it, are invalid. lmw and stmw above
\* the RAM lose their address in a call (X2, X3): left out.
Valid(i, s) ==
  /\ i.op \in Updates \cup UpdatesIndexed => i.ra # 0
  /\ i.op \in (Updates \cup UpdatesIndexed) \cap Loads => i.ra # i.rd
  /\ i.op = "lmw" => i.ra \notin i.rd .. LastReg
  /\ i.op \in {"lmw", "stmw"} => U(Base(i, s) + i.imm) < WordMod - LastReg

Execute ==
  /\ insn = NoInsn
  /\ \E i \in Instructions, s \in Contexts, junk \in Junk :
       /\ Valid(i, s)
       /\ insn' = i
       /\ ctx' = s
       /\ interpreted' = Interpret(i, s)
       /\ compiled' = Compiled(i, s, junk)

Next == Execute
Spec == Init /\ [][Next]_<<insn, ctx, interpreted, compiled>>

\* Whichever engine executes an instruction, registers, condition fields,
\* carry, link, counter, program counter, memory and flags come out the same,
\* but for the listed causes.
EnginesAgree ==
  insn # NoInsn /\ ~Diverges(insn, ctx) => interpreted = compiled
=============================================================================
