------------------------------- MODULE PpcJit -------------------------------
(* cpu/jit/jit_compiler.cpp: what the ARM64 code generated for the same     *)
(* instructions does, an instruction being a block of its own. "junk" is    *)
(* what host flags and temporaries hold from earlier code: zero, or all     *)
(* ones and a set carry flag.                                               *)
EXTENDS PpcInterpreter

Junk == {0, 1}
Temporary(junk) == junk * (DMod - 1)

\* For the check of EnginesAgree: r0 read as any other register.
MutContents(s, r) == s.gpr[r]
\* load_gpr: register r0 reads as zero, as any operand of any instruction.
load_gpr(s, r) == IF r = 0 THEN 0 ELSE s.gpr[r]
\* compile_cr_update keeps the summary overflow of CR0.
compile_cr_update(s, v) == Field(s, 0, Signed(v) < 0, Signed(v) > 0, v = 0, s.cr[3] = 1)
CrIfRc(i, s, v) == IF i.rc = 1 THEN compile_cr_update(s, v) ELSE s

\* compile_add, compile_sub, compile_mul, opcodes 7 to 15. addic ors the
\* carry into bit 0 of XER, which is its summary overflow; subfic stores no
\* carry; addic. is compiled to nothing.
CompileImmediate(i, s) ==
  LET a == load_gpr(s, i.ra)
      imm == U(i.imm)
  IN CASE i.op = "addi" -> Set(s, i.rd, U(a + imm))
       [] i.op = "addis" -> Set(s, i.rd, U(a + i.imm * 2^(W \div 2)))
       [] i.op = "addic" -> [Set(s, i.rd, U(a + imm)) EXCEPT !.so = If(a + imm >= DMod, 1, @)]
       [] i.op = "addic." -> s
       [] i.op = "subfic" -> Set(s, i.rd, U(imm - a))
       [] i.op = "mulli" -> Set(s, i.rd, U(a * i.imm))

\* compile_add, compile_sub, compile_mul, compile_div under opcode 31: the
\* extended forms add the host's carry flag, and none writes XER; a division
\* by zero is skipped and leaves the dividend.
CompiledSum(op, a, b, c) ==
  CASE op \in {"add", "addc"} -> U(a + b)
    [] op = "adde" -> U(a + b + c)
    [] op = "addze" -> U(a + c)
    [] op = "addme" -> U(a + (DMod - 1) + c)
    [] op \in {"subf", "subfc"} -> U(b - a)
    [] op = "subfe" -> U((b - a) - (1 - c))
    [] op \in {"subfze", "neg"} -> U(-a)
    [] op = "subfme" -> U(((DMod - 1) - a) - (1 - c))
    [] op = "mullw" -> U(SignedLo(a) * SignedLo(b))
    [] op = "mulld" -> U(a * b)
    [] op = "mulhw" -> IF SignedLo(a) * SignedLo(b) < 0 THEN WordMod - 1 ELSE 0
    [] op = "mulhwu" -> 0
    [] op = "mulhd" -> U((Signed(a) * Signed(b)) \div DMod)
    [] op = "mulhdu" -> (a * b) \div DMod
Divided(op, a, b) ==        \* SDIV and UDIV, which give 0 for a divisor of 0
  LET Div(x, y) == IF y = 0 THEN 0 ELSE Quotient(x, y)
  IN CASE b = 0 -> a
       [] b # 0 /\ op = "divw" -> U(Div(SignedLo(a), SignedLo(b)))
       [] b # 0 /\ op = "divwu" -> Div(Lo(a), Lo(b))
       [] b # 0 /\ op = "divd" -> U(Div(Signed(a), Signed(b)))
       [] b # 0 /\ op = "divdu" -> Div(a, b)
CompileSum(i, s, junk) ==
  LET a == load_gpr(s, i.ra)
      b == load_gpr(s, i.rb)
      r == IF i.op \in {"divw", "divwu", "divd", "divdu"} THEN Divided(i.op, a, b)
           ELSE CompiledSum(i.op, a, b, junk)
  IN CrIfRc(i, Set(s, i.rd, r), r)

\* compile_logical, which has no code for population counts and cmpb: with
\* Rc set their CR0 comes from a temporary.
CompileLogical(i, s) ==
  LET r == LogicalOf(i.op, load_gpr(s, i.rd), load_gpr(s, i.rb)) IN CrIfRc(i, Set(s, i.ra, r), r)
CompilePopulation(i, s, junk) == CrIfRc(i, s, Temporary(junk))
Extension == {"cntlzw", "cntlzd", "extsw", "extsh", "extsb"}
CompileExtension(i, s) ==
  LET a == load_gpr(s, i.rd)
      r == CASE i.op = "cntlzw" -> Leading(Lo(a), D) - W
             [] i.op = "cntlzd" -> Leading(a, D)
             [] i.op = "extsw" -> Sext(a)
             [] i.op = "extsh" -> SextOf(a, HalfBits)
             [] i.op = "extsb" -> SextOf(a, ByteBits)
  IN CrIfRc(i, Set(s, i.ra, r), r)
CompileLogicalImmediate(i, s) ==
  LET a == load_gpr(s, i.rd)
      r == CASE i.op = "ori" -> a | uimm(i) [] i.op = "oris" -> a | Shifted(i)
             [] i.op = "xori" -> a ^^ uimm(i) [] i.op = "xoris" -> a ^^ Shifted(i)
             [] i.op = "andi." -> a & uimm(i) [] i.op = "andis." -> a & Shifted(i)
  IN IF i.op \in {"andi.", "andis."} THEN compile_cr_update(Set(s, i.ra, r), r) ELSE Set(s, i.ra, r)

\* compile_shift: the host's shifts take their count modulo a doubleword, and
\* no carry is kept.
CompileShift(i, s) ==
  LET a == load_gpr(s, i.rd)
      n == load_gpr(s, i.rb)
      r == CASE i.op = "slw" -> Lo(Shl(a, n % (2 * W)))
             [] i.op = "srw" -> Shr(Lo(a), n % (2 * W))
             [] i.op = "sraw" -> Sar(Sext(a), n % (2 * W))
             [] i.op = "srawi" -> Sar(Sext(a), i.sh)
             [] i.op = "sld" -> Shl(a, n % D)
             [] i.op = "srd" -> Shr(a, n % D)
             [] i.op = "srad" -> Sar(a, n % D)
             [] i.op = "sradi" -> Sar(a, i.sh)
  IN CrIfRc(i, Set(s, i.ra, r), r)

\* compile_rotate: a word is rotated as a doubleword, so that what leaves its
\* top does not come back at its bottom.
CompileRotate(i, s) ==
  LET a == Lo(load_gpr(s, i.rd))
      mask == MaskWord(i.mb, i.me)
      rotated == IF i.op = "rlwnm" THEN Ror(a, W - (load_gpr(s, i.rb) % W))
                 ELSE IF i.sh = 0 THEN a ELSE Ror(a, W - i.sh)
      r == IF i.op = "rlwimi" THEN (rotated & mask) | (load_gpr(s, i.ra) & (WordMod - 1 - mask))
           ELSE rotated & mask
  IN CrIfRc(i, Set(s, i.ra, r), r)
CompileRotate64(i, s) ==
  LET a == load_gpr(s, i.rd)
      n == load_gpr(s, i.rb) % D
      Left(m) == DMod \div 2^m - 1
      Right(m) == DMod - 2^((D - 1) - m)
      mask == Left(i.mb) & (DMod - 2^i.sh)
      form == i.xo % 8
      r == CASE form = 0 -> Rol(a, i.sh) & Left(i.mb)
             [] form = 1 -> Rol(a, i.sh) & Right(i.mb)
             [] form = 2 -> Rol(a, i.sh) & mask
             [] form = 3 -> (Rol(a, i.sh) & mask) | (load_gpr(s, i.ra) & Inverted(mask))
             [] form = 4 -> Rol(a, n) & Left(i.mb)
             [] form = 5 -> Rol(a, n) & Right(i.mb)
             [] OTHER -> a
  IN CrIfRc(i, Set(s, i.ra, r), r)

\* compile_compare: a word unless the L bit is set; the unsigned forms test
\* the signed conditions; the summary overflow is cleared.
CompileCompare(i, s) ==
  LET Extend(x) == IF i.wide = 1 THEN x ELSE IF i.op \in {"cmpi", "cmp"} THEN Sext(x) ELSE Lo(x)
      a == Extend(load_gpr(s, i.ra))
      b == CASE i.op = "cmpi" -> U(i.imm) [] i.op = "cmpli" -> uimm(i) [] OTHER -> Extend(load_gpr(s, i.rb))
  IN Field(s, i.crfd, Signed(a) < Signed(b), Signed(a) > Signed(b), a = b, FALSE)

\* calc_ea, calc_ea_indexed. From the first address above the RAM on, a
\* helper makes the access, and its call loses the address saved for an
\* update form.
calc_ea(i, s) == U(load_gpr(s, i.ra) + If(i.op \in LoadStore, i.imm, load_gpr(s, i.rb)))
Slow(ea) == ea >= WordMod

\* compile_load, compile_store. In RAM a store of a
\* word stores the register's upper half behind it, lwa reads the word behind
\* its own, lmw leaves that word in the upper halves. The indexed update forms
\* and strings have no code, and their helpers move words; ldu and stdu do
\* not update.
Store64(s, a, lo, hi) == Write32(Write32(s, a, lo), a + 1, hi)
RECURSIVE CompiledLmw(_, _, _), CompiledStmw(_, _, _)
CompiledLmw(s, r, a) ==
  IF r > LastReg THEN s
  ELSE CompiledLmw(Set(s, r, Read32(s, a) + WordMod * Read32(s, a + 1)), r + 1, a + 1)
CompiledStmw(s, r, a) ==
  IF r > LastReg THEN s
  ELSE CompiledStmw(Store64(s, a, Lo(load_gpr(s, r)), Hi(load_gpr(s, r))), r + 1, a + 1)
CompileLoad(i, s, a, slow, junk) ==
  CASE i.op \in {"lwz", "lwzu", "lwzx"} -> Set(s, i.rd, Read32(s, a))
    [] i.op = "lwax" -> Set(s, i.rd, If(slow, Read32(s, a), Sext(Read32(s, a))))
    [] i.op = "lwa" -> Set(s, i.rd, If(slow, Read64(s, a), Sext(Read32(s, a + 1))))
    [] i.op \in {"ld", "ldu", "ldx"} -> Set(s, i.rd, Read64(s, a))
    [] i.op \in {"lwzux", "lwaux", "ldux", "lbzux", "lhzux", "lhaux", "lswi"} ->
         Set(s, i.rd, If(slow, Read32(s, a), Temporary(junk)))
    [] i.op = "lmw" -> CompiledLmw(s, i.rd, a)
    [] i.op \in ZeroExtends -> Set(s, i.rd, ReadPart(s, a, Part(i.op)))
    [] i.op \in SignExtends ->
         LET v == ReadPart(s, a, HalfBits) IN Set(s, i.rd, If(slow, v, SextOf(v, HalfBits)))
    [] i.op = "ldbrx" -> Set(s, i.rd, If(slow, Read64(s, a), Reversed(Read64(s, a), 8)))
CompileStore(i, s, a, slow) ==
  LET v == load_gpr(s, i.rd) IN
  CASE i.op \in {"stw", "stwu", "stwx"} -> If(slow, Write32(s, a, Lo(v)), Store64(s, a, Lo(v), Hi(v)))
    [] i.op \in {"std", "stdu", "stdx"} -> Write64(s, a, v)
    [] i.op \in {"stwux", "stdux", "stbux", "sthux", "stswi"} -> If(slow, Write32(s, a, Lo(v)), s)
    [] i.op \in StoresPart -> WritePart(s, a, Part(i.op), v)
    [] i.op = "sthbrx" -> WritePart(s, a, HalfBits, If(slow, v, Reversed(v, 2)))
    [] i.op = "stdbrx" -> Write64(s, a, If(slow, v, Reversed(v, 8)))
    [] i.op = "stmw" -> CompiledStmw(s, i.rd, a)
Loads == {"lwz", "lwzu", "lwzx", "lwax", "lwa", "ld", "ldu", "ldx", "lwzux", "lmw", "lwaux", "ldux",
          "ldbrx", "lswi"} \cup ZeroExtends \cup SignExtends
CompileAccess(i, s, junk) ==
  LET ea == calc_ea(i, s)
      t == IF i.op \in Loads THEN CompileLoad(i, s, Lo(ea), Slow(ea), junk)
           ELSE CompileStore(i, s, Lo(ea), Slow(ea))
  IN IF i.op \in Updates \ {"ldu", "stdu"} /\ i.ra # 0
     THEN Set(t, i.ra, If(Slow(ea), Temporary(junk), ea)) ELSE t

\* compile_atomic_load, for lwarx and ldarx: a word, with the word behind it
\* in the upper half; nothing is reserved above the RAM. The reservation is
\* the context's.
CompileAtomicLoad(i, s) ==
  LET ea == calc_ea(i, s)
      a == Lo(ea)
  IN IF Slow(ea) THEN Set(s, i.rd, 0)
     ELSE [Set(s, i.rd, Read32(s, a) + WordMod * Read32(s, a + 1)) EXCEPT !.res = [a |-> ea, n |-> 1]]
\* compile_atomic_store. reservation_addr is read as a doubleword, whose upper
\* half is the size that lies behind it: no address of the RAM equals it.
ReservationRead(s) == s.res.a + WordMod * s.res.n
CompileAtomicStore(i, s) ==
  LET ea == calc_ea(i, s)
      v == load_gpr(s, i.rd)
      success == s.res.n # 0 /\ ea = ReservationRead(s) /\ ~Slow(ea)
      t == If(success, Store64(s, Lo(ea), Lo(v), Hi(v)), s)
  IN [Field(t, 0, FALSE, FALSE, success, s.cr[3] = 1) EXCEPT !.res = NoReservation]
CompileAtomic(i, s) ==
  IF i.op \in {"lwarx", "ldarx"} THEN CompileAtomicLoad(i, s) ELSE CompileAtomicStore(i, s)

\* compile_branch, with a target known when it is compiled.
CompileJump(i, s) ==
  [s EXCEPT !.lr = If(i.lk = 1, s.pc + 1, @), !.pc = U(If(i.aa = 1, i.imm, s.pc + i.imm))]
\* compile_branch_conditional: the link register is written
\* on the taken path, before bclr reads its target from it.
CompileBranch(i, s) ==
  LET counts == i.op \in {"bc", "bclr"} /\ i.bo & 4 = 0
      ctr == If(counts, Lo(Lo(s.ctr) - 1) + Hi(s.ctr) * WordMod, s.ctr)
      taken == /\ counts => If(i.bo & 2 # 0, Lo(ctr) = 0, Lo(ctr) # 0)
               /\ i.bo & 16 = 0 => CrBit(i, s)
      lr == If(i.lk = 1 /\ taken, s.pc + 1, s.lr)
      target == CASE i.op = "bc" -> If(i.aa = 1, U(i.imm), U(s.pc + i.imm))
                  [] i.op = "bclr" -> lr
                  [] i.op = "bcctr" -> s.ctr
  IN [s EXCEPT !.ctr = ctr, !.lr = lr, !.pc = If(taken, target, @ + 1)]

\* The emitter encodes a low run of 2^n ones rotated by its own length: the
\* immediates 1 and 15 of the condition register's code come out as 2 and 240.
\* (31, 63 and 127 it refuses, and loads them into a register.)
EncodedOne == 2
EncodedFifteen == 240
\* compile_cr_logical; it knows no mcrf.
CompileCrLogical(i, s) ==
  LET a == s.cr[i.ba]
      b == s.cr[i.bb]
      Flip(x) == x ^^ EncodedOne
      r == CASE i.op = "crand" -> a & b [] i.op = "cror" -> a | b [] i.op = "crxor" -> a ^^ b
             [] i.op = "crnand" -> Flip(a & b) [] i.op = "crnor" -> Flip(a | b)
             [] i.op = "creqv" -> Flip(a ^^ b) [] i.op = "crandc" -> a & Flip(b)
             [] i.op = "crorc" -> a | Flip(b)
  IN IF i.op = "mcrf" THEN s ELSE [s EXCEPT !.cr[i.bd] = r & EncodedOne]

\* compile_mtspr, compile_mfspr: XER is moved as it lies in memory, with what
\* lies behind it; the lower half of the time base comes with the upper one.
CompileSpecial(i, s, junk) ==
  LET v == load_gpr(s, i.rd) IN
  CASE i.op = "mtlr" -> [s EXCEPT !.lr = v]
    [] i.op = "mtctr" -> [s EXCEPT !.ctr = Lo(v) + Hi(@) * WordMod]
    [] i.op = "mtxer" -> [s EXCEPT !.so = Bit(v, 0), !.ca = Bit(v, 2)]
    [] i.op = "mflr" -> Set(s, i.rd, s.lr)
    [] i.op = "mfctr" -> Set(s, i.rd, s.ctr)
    [] i.op = "mfxer" -> Set(s, i.rd, s.so + 4 * s.ca + WordMod * Hi(Temporary(junk)))
    [] i.op = "mftbl" -> Set(s, i.rd, s.tb)
    [] i.op = "mftbu" -> Set(s, i.rd, Hi(s.tb))
    [] i.op = "mfspr" -> Set(s, i.rd, 0)
CompileMtcrf(i, s) ==
  LET x == Shr(load_gpr(s, i.rd), W - 4) & EncodedFifteen
  IN [s EXCEPT !.cr = [k \in DOMAIN @ |-> IF k < 4 THEN Shr(x, 3 - k) & EncodedOne ELSE @[k]]]
CompileMfcr(i, s) == Set(s, i.rd, s.cr[0] * 8 + s.cr[1] * 4 + s.cr[2] * 2 + s.cr[3])

\* compile_syscall and compile_rfi, which stops the thread where it is.
CompileSyscall(s) == Next1([s EXCEPT !.interrupted = TRUE])
CompileRfi(s) == [s EXCEPT !.interrupted = TRUE, !.running = FALSE]

\* compile_instruction, in a block whose end steps the program counter.
Generated(i, s, junk) ==
  CASE i.op \in DForm -> Next1(CompileImmediate(i, s))
    [] i.op \in Immediate -> Next1(CompileLogicalImmediate(i, s))
    [] i.op \in Compare -> Next1(CompileCompare(i, s))
    [] i.op \in Rotate -> Next1(CompileRotate(i, s))
    [] i.op \in Rld -> Next1(CompileRotate64(i, s))
    [] i.op \in Sum -> Next1(CompileSum(i, s, junk))
    [] i.op \in Logical -> Next1(CompileLogical(i, s))
    [] i.op \in Population -> Next1(CompilePopulation(i, s, junk))
    [] i.op \in Extension -> Next1(CompileExtension(i, s))
    [] i.op \in (WordShift \ Extension) \cup DoubleShift -> Next1(CompileShift(i, s))
    [] i.op \in LoadStore \cup Indexed \cup Strings -> Next1(CompileAccess(i, s, junk))
    [] i.op \in Atomic -> Next1(CompileAtomic(i, s))
    [] i.op = "b" -> CompileJump(i, s)
    [] i.op \in Branch \ {"b"} -> CompileBranch(i, s)
    [] i.op \in CrLogical -> Next1(CompileCrLogical(i, s))
    [] i.op = "mtcrf" -> Next1(CompileMtcrf(i, s))
    [] i.op = "mfcr" -> Next1(CompileMfcr(i, s))
    [] i.op \in Special \ {"mtcrf", "mfcr"} -> Next1(CompileSpecial(i, s, junk))
    [] i.op = "sc" -> CompileSyscall(s)
    [] i.op = "rfi" -> CompileRfi(s)
    [] i.op \in NoEffect -> Next1(s)
\* emit_block_epilogue_for_link: the time base of the block's instructions.
Compiled(i, s, junk) == [Generated(i, s, junk) EXCEPT !.tb = U(@ + 4)]
=============================================================================
