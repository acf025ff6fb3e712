--------------------------- MODULE PpcInterpreter ---------------------------
(* cpu/xenon/interpreter.cpp and interpreter_extended.cpp: what one decoded *)
(* integer, memory, branch or system instruction does to a thread's         *)
(* context. Floating point and vectors are left out. One thread runs here:  *)
(* what others do to its reservation is in GuestAtomics. A program counter  *)
(* counts instructions, an address counts words: bytes and halfwords are    *)
(* accessed at the start of one.                                            *)
EXTENDS Integers, Bitwise, Sequences, FiniteSetsExt

CONSTANTS W,                \* bits of a word
          Cells             \* words of guest RAM; higher addresses mirror it

-----------------------------------------------------------------------------
(* Integers, scaled down: a word has W bits where the machine has 32, a     *)
(* doubleword 2W where it has 64, and every width, mask and shift of the    *)
(* code is scaled with them.                                                *)

WordMod == 2^W
D == 2 * W                  \* bits of a doubleword
DMod == 2^D
Doubleword == 0 .. DMod - 1

U(x) == x % DMod                                        \* static_cast<u64>
Lo(x) == x % WordMod                                    \* static_cast<u32>
Hi(x) == x \div WordMod
Signed(x) == IF x >= DMod \div 2 THEN x - DMod ELSE x           \* s64
SignedLo(x) == IF Lo(x) >= WordMod \div 2 THEN Lo(x) - WordMod ELSE Lo(x)  \* s32
Sext(x) == U(SignedLo(x))                               \* SXTW
Inverted(x) == DMod - 1 - x                             \* ~x
Bit(x, n) == (x \div 2^n) % 2                           \* bit n, 0 the lowest

ByteBits == W \div 4         \* bits of a byte
HalfBits == W \div 2         \* bits of a halfword
ByteOf(x, k) == (x \div 2^(ByteBits * k)) % 2^ByteBits      \* byte k, 0 the lowest
\* n bytes, the k-th of them F(k).
PerByte(F(_), n) == MapThenSumSet(LAMBDA k : F(k) * 2^(ByteBits * k), 0 .. n - 1)
Reversed(x, n) == PerByte(LAMBDA k : ByteOf(x, (n - 1) - k), n)
SextOf(x, n) == U(((x + 2^(n - 1)) % 2^n) - 2^(n - 1))  \* SXTB, SXTH: of n bits
Ones(x, n) == MapThenSumSet(LAMBDA k : Bit(x, k), 0 .. n - 1)

Shl(x, n) == IF n >= D THEN 0 ELSE U(x * 2^n)
Shr(x, n) == IF n >= D THEN 0 ELSE x \div 2^n
Sar(x, n) == U(Signed(x) \div 2^(IF n < D THEN n ELSE D))
Ror(x, n) == LET k == n % D IN (x \div 2^k) + U(x * 2^(D - k)) * (IF k = 0 THEN 0 ELSE 1)
Rol(x, n) == Ror(x, D - (n % D))
RolWord(x, n) == LET k == n % W IN ((Lo(x) * 2^k) % WordMod) + (Lo(x) \div 2^(W - k))

\* C++'s and ARM's division of a by b, which truncates.
Quotient(a, b) == LET q == (IF a < 0 THEN -a ELSE a) \div (IF b < 0 THEN -b ELSE b)
                  IN IF (a < 0) = (b < 0) THEN q ELSE -q

\* The ones from bit mb to bit me, counted from the highest, wrapping around;
\* 1 << bits is 1 << 0 on the hosts' shifters, so a mask of all ones comes out 0.
Mask(mb, me, bits) ==
  LET Run(n) == 2^(n % bits) - 1
  IN IF mb <= me THEN Run(me - mb + 1) * 2^(bits - 1 - me)
     ELSE 2^bits - 1 - Run((mb - me) - 1) * 2^(bits - mb)
\* The same for the words of rlwinm, computed with 1ULL: all ones are all ones.
MaskWord(mb, me) == IF mb = 0 /\ me = W - 1 THEN WordMod - 1 ELSE Mask(mb, me, W)

Leading(x, bits) ==         \* __builtin_clz, CLZ; of 0 the number of bits
  CHOOSE n \in 0 .. bits : /\ x < 2^(bits - n)
                           /\ n = bits \/ x >= 2^(bits - n - 1)

-----------------------------------------------------------------------------
(* Instructions                                                             *)

DForm == {"addi", "addis", "addic", "addic.", "subfic", "mulli"}
Immediate == {"ori", "oris", "xori", "xoris", "andi.", "andis."}
Sum == {"add", "addc", "adde", "addze", "addme", "subf", "subfc", "subfe",
        "subfze", "subfme", "neg", "mullw", "mulld", "mulhw", "mulhwu", "mulhd", "mulhdu",
        "divw", "divwu", "divd", "divdu"}
Logical == {"and", "andc", "or", "orc", "xor", "nor", "nand", "eqv"}
WordShift == {"slw", "srw", "sraw", "srawi", "cntlzw", "cntlzd", "extsw", "extsh", "extsb"}
Population == {"popcntb", "popcntw", "popcntd", "cmpb"}
DoubleShift == {"sld", "srd", "srad", "sradi"}
Compare == {"cmpi", "cmpli", "cmp", "cmpl"}
Rotate == {"rlwimi", "rlwinm", "rlwnm"}
Rld == {"rld"}
LoadStore == {"lwz", "lwzu", "lwa", "ld", "ldu", "lmw", "stw", "stwu", "std", "stdu", "stmw",
              "lbz", "lbzu", "lhz", "lhzu", "lha", "lhau", "stb", "stbu", "sth", "sthu"}
Indexed == {"lwzx", "lwzux", "lwax", "ldx", "stwx", "stwux", "stdx", "stdux", "lwaux", "ldux",
            "lbzx", "lbzux", "lhzx", "lhzux", "lhax", "lhaux", "stbx", "stbux", "sthx", "sthux",
            "ldbrx", "stdbrx", "sthbrx"}
Strings == {"lswi", "stswi"}
Atomic == {"lwarx", "ldarx", "stwcx.", "stdcx."}
Branch == {"b", "bc", "bclr", "bcctr"}
CrLogical == {"crand", "cror", "crxor", "crnand", "crnor", "creqv", "crandc", "crorc", "mcrf"}
Special == {"mtlr", "mtctr", "mtxer", "mflr", "mfctr", "mfxer", "mtcrf", "mfcr", "mftbl", "mftbu", "mfspr"}
\* lwbrx, lhbrx, stwbrx, stfsx are decoded as unknown.
NoEffect == {"sync", "dcbz", "tw", "unknown"}
\* Decoded with an extended opcode of 300 or more: the interpreter ignores Rc.
HighXo == {"or", "orc", "xor", "nand", "srw", "sraw", "srawi", "extsw", "srd", "srad", "sradi",
           "divw", "divwu", "divd", "divdu", "popcntw", "popcntd", "cmpb", "extsh", "extsb"}

Set(s, r, v) == [s EXCEPT !.gpr[r] = v]
\* A condition field: less, greater, equal, summary overflow.
Field(s, f, lt, gt, eq, so) ==
  LET new == <<lt, gt, eq, so>>
      B(b) == IF b THEN 1 ELSE 0
  IN [s EXCEPT !.cr = [k \in DOMAIN s.cr |-> IF k \div 4 = f THEN B(new[(k % 4) + 1]) ELSE s.cr[k]]]
update_cr0(s, v) == Field(s, 0, Signed(v) < 0, Signed(v) > 0, v = 0, s.so = 1)
If(c, s, t) == IF c THEN s ELSE t

\* exec_integer: register r0 reads as zero in all six forms, which the
\* architecture has for addi and addis only; addic. sets CR0.
ExecImmediate(i, s) ==
  LET a == IF i.ra = 0 THEN 0 ELSE s.gpr[i.ra]
      r == CASE i.op = "addi" -> U(a + i.imm)
             [] i.op = "addis" -> U(a + i.imm * 2^(W \div 2))
             [] i.op \in {"addic", "addic."} -> U(a + i.imm)
             [] i.op = "subfic" -> U(i.imm - a)
             [] i.op = "mulli" -> U(Signed(a) * i.imm)
      ca == CASE i.op \in {"addic", "addic."} -> r < a
              [] i.op = "subfic" -> U(i.imm) >= a
              [] OTHER -> s.ca = 1
      t == [Set(s, i.rd, r) EXCEPT !.ca = If(ca, 1, 0)]
  IN If(i.op = "addic.", update_cr0(t, r), t)

uimm(i) == i.imm % 2^(W \div 2)
Shifted(i) == uimm(i) * 2^(W \div 2)
ExecLogicalImmediate(i, s) ==
  LET a == s.gpr[i.rd]
      r == CASE i.op = "ori" -> a | uimm(i)
             [] i.op = "oris" -> a | Shifted(i)
             [] i.op = "xori" -> a ^^ uimm(i)
             [] i.op = "xoris" -> a ^^ Shifted(i)
             [] i.op = "andi." -> a & uimm(i)
             [] i.op = "andis." -> a & Shifted(i)
  IN If(i.op \in {"andi.", "andis."}, update_cr0(Set(s, i.ra, r), r), Set(s, i.ra, r))

\* Always 64 bits wide: the L bit is not looked at.
ExecCompare(i, s) ==
  LET a == s.gpr[i.ra]
      b == CASE i.op = "cmpi" -> U(i.imm) [] i.op = "cmpli" -> uimm(i) [] OTHER -> s.gpr[i.rb]
      V(x) == IF i.op \in {"cmpi", "cmp"} THEN Signed(x) ELSE x
  IN Field(s, i.crfd, V(a) < V(b), V(a) > V(b), a = b, s.so = 1)

ExecRotateWord(i, s) ==
  LET n == IF i.op = "rlwnm" THEN s.gpr[i.rb] % W ELSE i.sh
      mask == MaskWord(i.mb, i.me)
      rotated == RolWord(s.gpr[i.rd], n) & mask
      r == IF i.op = "rlwimi" THEN rotated | (s.gpr[i.ra] & (WordMod - 1 - mask)) ELSE rotated
  IN If(i.rc = 1, update_cr0(Set(s, i.ra, r), r), Set(s, i.ra, r))

\* exec_rotate64 switches on four bits of which the lowest is the shift's own
\* sixth bit: of the forms only rldicl by less than a word is told apart.
ExecRotate64(i, s) ==
  LET a == s.gpr[i.rd]
      n == s.gpr[i.rb] % D
      Left(m) == DMod \div 2^m - 1
      Right(m) == DMod - 2^((D - 1) - m)
      mask == Mask(i.mb, (D - 1) - i.sh, D)
      r == CASE i.xo = 0 -> Rol(a, i.sh) & Left(i.mb)
             [] i.xo = 1 -> Rol(a, i.sh) & Right(i.mb)
             [] i.xo = 2 -> Rol(a, i.sh) & mask
             [] i.xo = 3 -> (Rol(a, i.sh) & mask) | (s.gpr[i.ra] & Inverted(mask))
             [] i.xo = 8 -> Rol(a, n) & Left(i.mb)
             [] i.xo = 9 -> Rol(a, n) & Right(i.mb)
             [] OTHER -> a
  IN If(i.rc = 1, update_cr0(Set(s, i.ra, r), r), Set(s, i.ra, r))

\* exec_integer_ext31, the arithmetic: a division by zero gives zero.
SumOf(op, a, b, ca) ==
  LET P == SignedLo(a) * SignedLo(b)
      Div(x, y) == IF y = 0 THEN 0 ELSE Quotient(x, y)
  IN CASE op \in {"add", "addc"} -> U(a + b)
       [] op = "adde" -> U(a + b + ca)
       [] op = "addze" -> U(a + ca)
       [] op = "addme" -> U((a + ca) - 1)
       [] op \in {"subf", "subfc"} -> U(b - a)
       [] op = "subfe" -> U(Inverted(a) + b + ca)
       [] op = "subfze" -> U(Inverted(a) + ca)
       [] op = "subfme" -> U((Inverted(a) + ca) - 1)
       [] op = "neg" -> U(-a)
       [] op = "mullw" -> U(P)
       [] op = "mulld" -> U(Signed(a) * Signed(b))
       [] op = "mulhw" -> U(P \div WordMod)
       [] op = "mulhwu" -> (Lo(a) * Lo(b)) \div WordMod
       [] op = "mulhd" -> U((Signed(a) * Signed(b)) \div DMod)
       [] op = "mulhdu" -> (a * b) \div DMod
       [] op = "divw" -> Sext(Lo(Div(SignedLo(a), SignedLo(b))))
       [] op = "divwu" -> Div(Lo(a), Lo(b))
       [] op = "divd" -> U(Div(Signed(a), Signed(b)))
       [] op = "divdu" -> Div(a, b)
\* The carry it leaves; addme, subfe, subfze and subfme have conditions of
\* their own, which are not the architecture's.
CarryOf(op, a, b, ca, r) ==
  CASE op \in {"addc", "addze"} -> r < a
    [] op = "adde" -> r < a \/ (ca = 1 /\ r = a)
    [] op = "addme" -> a # 0 \/ ca = 1
    [] op = "subfc" -> b >= a
    [] op = "subfe" -> Inverted(a) >= b \/ (ca = 1 /\ Inverted(a) = b)
    [] op = "subfze" -> a = 0 \/ ca = 1
    [] op = "subfme" -> a # DMod - 1 \/ ca = 1
    [] OTHER -> ca = 1

\* Rc: CR0 is set from the register of the rd field whatever was written, and
\* only for the lower extended opcodes.
Rc(i, s) == If(i.rc = 1 /\ i.op \notin HighXo, update_cr0(s, s.gpr[i.rd]), s)
ExecSum(i, s) ==
  LET a == s.gpr[i.ra]
      b == s.gpr[i.rb]
      r == SumOf(i.op, a, b, s.ca)
  IN Rc(i, [Set(s, i.rd, r) EXCEPT !.ca = If(CarryOf(i.op, a, b, s.ca, r), 1, 0)])
LogicalOf(op, a, b) ==
  CASE op = "and" -> a & b [] op = "andc" -> a & Inverted(b)
    [] op = "or" -> a | b [] op = "orc" -> a | Inverted(b)
    [] op = "xor" -> a ^^ b [] op = "nor" -> Inverted(a | b)
    [] op = "nand" -> Inverted(a & b) [] op = "eqv" -> Inverted(a ^^ b)
ExecLogical(i, s) == Rc(i, Set(s, i.ra, LogicalOf(i.op, s.gpr[i.rd], s.gpr[i.rb])))

\* Bits shifted out of a negative value set the carry.
Sticky(v, n, bits) == v < 0 /\ (v % 2^(IF n < bits THEN n ELSE bits)) # 0
\* The word shifts and cntlz, extsw read their source from ra, which is also
\* where they write; the instruction has it in rs.
ExecWordShift(i, s) ==
  LET v == s.gpr[i.ra]
      n == IF i.op = "srawi" THEN i.sh ELSE s.gpr[i.rb] % (2 * W)
      r == CASE i.op = "slw" -> IF n < W THEN Lo(Lo(v) * 2^n) ELSE 0
             [] i.op = "srw" -> IF n < W THEN Lo(v) \div 2^n ELSE 0
             [] i.op \in {"sraw", "srawi"} -> Sar(Sext(v), n)
             [] i.op = "cntlzw" -> Leading(Lo(v), W)
             [] i.op = "cntlzd" -> Leading(v, D)
             [] i.op = "extsw" -> Sext(v)
             [] i.op = "extsh" -> SextOf(v, HalfBits)
             [] i.op = "extsb" -> SextOf(v, ByteBits)
      ca == IF i.op \in {"sraw", "srawi"}
            THEN If(n < W, Sticky(SignedLo(v), n, W), SignedLo(v) < 0) ELSE s.ca = 1
  IN Rc(i, [Set(s, i.ra, r) EXCEPT !.ca = If(ca, 1, 0)])
ExecDoubleShift(i, s) ==
  LET v == s.gpr[i.rd]
      n == IF i.op = "sradi" THEN i.sh ELSE s.gpr[i.rb] % (2 * D)
      r == CASE i.op = "sld" -> Shl(v, n)
             [] i.op = "srd" -> Shr(v, n)
             [] i.op \in {"srad", "sradi"} -> Sar(v, n)
      ca == IF i.op \in {"srad", "sradi"}
            THEN If(n < D, Sticky(Signed(v), n, D), Signed(v) < 0) ELSE s.ca = 1
  IN Rc(i, [Set(s, i.ra, r) EXCEPT !.ca = If(ca, 1, 0)])
ExecPopulation(i, s) ==
  LET v == s.gpr[i.rd]
      r == CASE i.op = "popcntb" -> PerByte(LAMBDA k : Ones(ByteOf(v, k), ByteBits), 8)
             [] i.op = "popcntw" -> Ones(Hi(v), W) * WordMod + Ones(Lo(v), W)
             [] i.op = "popcntd" -> Ones(v, D)
             [] i.op = "cmpb" -> PerByte(LAMBDA k : IF ByteOf(v, k) = ByteOf(s.gpr[i.rb], k)
                                                    THEN 2^ByteBits - 1 ELSE 0, 8)
  IN Rc(i, Set(s, i.ra, r))

Base(i, s) == IF i.ra = 0 THEN 0 ELSE s.gpr[i.ra]
Read32(s, a) == s.mem[a % Cells]
Read64(s, a) == Read32(s, a) * WordMod + Read32(s, a + 1)
Write32(s, a, v) == [s EXCEPT !.mem[a % Cells] = v]
Write64(s, a, v) == Write32(Write32(s, a, Hi(v)), a + 1, Lo(v))
\* The first n bits of word a: a byte or a halfword.
ReadPart(s, a, n) == Read32(s, a) \div 2^(W - n)
WritePart(s, a, n, v) == Write32(s, a, ((v % 2^n) * 2^(W - n)) + (Read32(s, a) % 2^(W - n)))
Part(op) ==
  IF op \in {"lbz", "lbzu", "lbzx", "lbzux", "stb", "stbu", "stbx", "stbux"} THEN ByteBits ELSE HalfBits
LastReg == 3                 \* the highest register (31)
RECURSIVE LoadFrom(_, _, _), StoreFrom(_, _, _)
LoadFrom(s, r, a) == IF r > LastReg THEN s ELSE LoadFrom(Set(s, r, Read32(s, a)), r + 1, a + 1)
StoreFrom(s, r, a) == IF r > LastReg THEN s ELSE StoreFrom(Write32(s, a, Lo(s.gpr[r])), r + 1, a + 1)

ZeroExtends == {"lbz", "lbzu", "lbzx", "lbzux", "lhz", "lhzu", "lhzx", "lhzux"}
SignExtends == {"lha", "lhau", "lhax", "lhaux"}
StoresPart == {"stb", "stbu", "stbx", "stbux", "sth", "sthu", "sthx", "sthux"}
\* Loads and stores; an update form leaves the address, one word wide, in ra.
Accessed(i, s, a) ==
  LET op == i.op IN
  CASE op \in {"lwz", "lwzu", "lwzx", "lwzux"} -> Set(s, i.rd, Read32(s, a))
    [] op \in {"lwa", "lwax", "lwaux"} -> Set(s, i.rd, Sext(Read32(s, a)))
    [] op \in {"ld", "ldu", "ldx", "ldux"} -> Set(s, i.rd, Read64(s, a))
    [] op \in {"stw", "stwu", "stwx", "stwux"} -> Write32(s, a, Lo(s.gpr[i.rd]))
    [] op \in {"std", "stdu", "stdx", "stdux"} -> Write64(s, a, s.gpr[i.rd])
    [] op = "lmw" -> LoadFrom(s, i.rd, a)
    [] op = "stmw" -> StoreFrom(s, i.rd, a)
    [] op \in ZeroExtends -> Set(s, i.rd, ReadPart(s, a, Part(op)))
    [] op \in SignExtends -> Set(s, i.rd, SextOf(ReadPart(s, a, HalfBits), HalfBits))
    [] op \in StoresPart -> WritePart(s, a, Part(op), s.gpr[i.rd])
    [] op = "ldbrx" -> Set(s, i.rd, Reversed(Read64(s, a), 8))
    [] op = "stdbrx" -> Write64(s, a, Reversed(s.gpr[i.rd], 8))
    [] op = "sthbrx" -> WritePart(s, a, HalfBits, Reversed(s.gpr[i.rd], 2))
Updates == {"lwzu", "ldu", "stwu", "stdu", "lbzu", "lhzu", "lhau", "stbu", "sthu"}
UpdatesIndexed == {"lwzux", "stwux", "stdux", "lwaux", "ldux", "lbzux", "lhzux", "lhaux", "stbux", "sthux"}
ExecLoadStore(i, s) ==
  LET a == Lo(Base(i, s) + If(i.op \in Indexed, s.gpr[i.rb], i.imm))
      t == Accessed(i, s, a)
  IN If(i.op \in Updates \cup UpdatesIndexed, Set(t, i.ra, a), t)

\* lswi, stswi: rb is a number of bytes, 0 for 32. Eight go to a register,
\* four on the machine.
Count(i) == IF i.rb = 0 THEN 32 ELSE i.rb
LoadString(i, s) ==
  LET a == Lo(Base(i, s))
      Nth(r) == (r - i.rd) % (LastReg + 1)
      Byte(k) == IF k < Count(i) THEN ByteOf(Read32(s, a + (k \div 4)), 3 - (k % 4)) ELSE 0
      From(j) == PerByte(LAMBDA k : Byte(8 * j + (7 - k)), 8)
  IN [s EXCEPT !.gpr = [r \in DOMAIN @ |-> IF 8 * Nth(r) < Count(i) THEN From(Nth(r)) ELSE @[r]]]
RECURSIVE StoreBytes(_, _, _)
StoreBytes(i, s, k) ==
  LET a == Lo(Base(i, s)) + (k \div 4)
      v == ByteOf(s.gpr[(i.rd + (k \div 8)) % (LastReg + 1)], 7 - (k % 8))
      shift == 3 - (k % 4)
      word == Read32(s, a) + (v - ByteOf(Read32(s, a), shift)) * 2^(ByteBits * shift)
  IN IF k = Count(i) THEN s ELSE StoreBytes(i, Write32(s, a, word), k + 1)
ExecString(i, s) == IF i.op = "lswi" THEN LoadString(i, s) ELSE StoreBytes(i, s, 0)

\* A reservation: an address and the words reserved there, none of them if
\* there is no reservation.
NoReservation == [a |-> 0, n |-> 0]
Reserved(op) == IF op \in {"lwarx", "stwcx."} THEN 1 ELSE 2
ExecAtomicLoad(i, s) ==
  LET a == Lo(Base(i, s) + s.gpr[i.rb])
      v == IF i.op = "lwarx" THEN Read32(s, a) ELSE Read64(s, a)
  IN [Set(s, i.rd, v) EXCEPT !.res = [a |-> a, n |-> Reserved(i.op)]]
\* The store is made only over the same address and size.
ExecAtomicStore(i, s) ==
  LET a == Lo(Base(i, s) + s.gpr[i.rb])
      v == s.gpr[i.rd]
      success == s.res = [a |-> a, n |-> Reserved(i.op)]
      t == IF ~success THEN s ELSE IF i.op = "stwcx." THEN Write32(s, a, Lo(v)) ELSE Write64(s, a, v)
  IN [Field(t, 0, FALSE, FALSE, success, s.so = 1) EXCEPT !.res = NoReservation]
ExecAtomic(i, s) ==
  IF i.op \in {"lwarx", "ldarx"} THEN ExecAtomicLoad(i, s) ELSE ExecAtomicStore(i, s)

CrBit(i, s) == If(i.bo & 8 # 0, s.cr[i.bi] = 1, s.cr[i.bi] = 0)
\* The link register is written whether or not the branch is taken, and read
\* before; the counter is one word wide.
ExecBranch(i, s) ==
  LET counts == i.op \in {"bc", "bclr"} /\ i.bo & 4 = 0
      ctr == If(counts, Lo(s.ctr - 1), s.ctr)
      taken == \/ i.op = "b"
               \/ /\ counts => If(i.bo & 2 # 0, ctr = 0, ctr # 0)
                  /\ i.bo & 16 = 0 => CrBit(i, s)
      target == CASE i.op \in {"b", "bc"} -> If(i.aa = 1, U(i.imm), U(s.pc + i.imm))
                  [] i.op = "bclr" -> s.lr
                  [] i.op = "bcctr" -> s.ctr
  IN [s EXCEPT !.ctr = ctr, !.lr = If(i.lk = 1, s.pc + 1, @), !.pc = If(taken, target, @ + 1)]

CrOf(op, a, b) ==           \* on bits
  CASE op = "crand" -> a * b [] op = "cror" -> (a + b) - a * b
    [] op = "crxor" -> (a + b) % 2 [] op = "crnand" -> 1 - a * b
    [] op = "crnor" -> (1 - a) * (1 - b) [] op = "creqv" -> (1 + a + b) % 2
    [] op = "crandc" -> a * (1 - b) [] op = "crorc" -> 1 - (1 - a) * b
ExecCrLogical(i, s) ==
  IF i.op = "mcrf"
  THEN [s EXCEPT !.cr = [k \in DOMAIN s.cr |-> If(k \div 4 = i.crfd, s.cr[4 * i.crfs + (k % 4)], s.cr[k])]]
  ELSE [s EXCEPT !.cr[i.bd] = CrOf(i.op, s.cr[i.ba], s.cr[i.bb])]

\* A word holds one condition field here (eight): mtcrf and mfcr see field 0.
ExecSpecial(i, s) ==
  LET v == s.gpr[i.rd] IN
  CASE i.op = "mtlr" -> [s EXCEPT !.lr = v]
    [] i.op = "mtctr" -> [s EXCEPT !.ctr = Lo(v)]
    [] i.op = "mtxer" -> [s EXCEPT !.so = Bit(v, W - 1), !.ca = Bit(v, W - 3)]
    [] i.op = "mflr" -> Set(s, i.rd, s.lr)
    [] i.op = "mfctr" -> Set(s, i.rd, s.ctr)
    [] i.op = "mfxer" -> Set(s, i.rd, s.so * 2^(W - 1) + s.ca * 2^(W - 3))
    [] i.op = "mtcrf" -> [s EXCEPT !.cr = [k \in DOMAIN @ |-> IF k < 4 THEN Bit(v, 3 - k) ELSE @[k]]]
    [] i.op = "mfcr" -> Set(s, i.rd, s.cr[0] * 8 + s.cr[1] * 4 + s.cr[2] * 2 + s.cr[3])
    [] i.op = "mftbl" -> Set(s, i.rd, Lo(s.tb))
    [] i.op = "mftbu" -> Set(s, i.rd, Hi(s.tb))
    [] i.op = "mfspr" -> Set(s, i.rd, 0)        \* from any other register

\* execute_one: everything but a branch steps the program counter. dcbz is
\* decoded as dcbf and zeroes nothing.
Next1(s) == [s EXCEPT !.pc = @ + 1]
Executed(i, s) ==
  CASE i.op \in DForm -> Next1(ExecImmediate(i, s))
    [] i.op \in Immediate -> Next1(ExecLogicalImmediate(i, s))
    [] i.op \in Compare -> Next1(ExecCompare(i, s))
    [] i.op \in Rotate -> Next1(ExecRotateWord(i, s))
    [] i.op \in Rld -> Next1(ExecRotate64(i, s))
    [] i.op \in Sum -> Next1(ExecSum(i, s))
    [] i.op \in Logical -> Next1(ExecLogical(i, s))
    [] i.op \in WordShift -> Next1(ExecWordShift(i, s))
    [] i.op \in DoubleShift -> Next1(ExecDoubleShift(i, s))
    [] i.op \in Population -> Next1(ExecPopulation(i, s))
    [] i.op \in LoadStore \cup Indexed -> Next1(ExecLoadStore(i, s))
    [] i.op \in Strings -> Next1(ExecString(i, s))
    [] i.op \in Atomic -> Next1(ExecAtomic(i, s))
    [] i.op \in Branch -> ExecBranch(i, s)
    [] i.op \in CrLogical -> Next1(ExecCrLogical(i, s))
    [] i.op \in Special -> Next1(ExecSpecial(i, s))
    [] i.op = "sc" -> Next1([s EXCEPT !.interrupted = TRUE])
    [] i.op = "rfi" -> Next1(s)
    [] i.op \in NoEffect -> Next1(s)
\* The time base runs four ticks an instruction.
Interpret(i, s) == [Executed(i, s) EXCEPT !.tb = U(@ + 4)]
=============================================================================
