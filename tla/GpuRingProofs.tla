--------------------------- MODULE GpuRingProofs ---------------------------
(***************************************************************************)
(* Proof that process_commands executes the guest's packets whole, once    *)
(* and in order, for every size of the ring, every set of packets and any  *)
(* number of them, provided the GPU's ring is the guest's.                 *)
(*                                                                         *)
(* All positions are read as offsets into the unwrapped stream: S[n] is    *)
(* the number of dwords in the first n packets. Positions in the ring are  *)
(* such offsets modulo its size, and everything between the read pointer   *)
(* written back and the guest's end lies within one turn of the ring.      *)
(*                                                                         *)
(* Then the frames that the packets draw (Renderer): what is recorded and  *)
(* what is pending make up what was asked for; a slot of the device's is   *)
(* in flight once, is being recorded or has its fence signalled; and of    *)
(* three frame indexes the one begun next is none the device reads.        *)
(***************************************************************************)
EXTENDS GpuRing, Renderer, Integers, SequenceTheorems, TLAPS

\* The GPU decodes the size the guest meant (a guest that writes CP_RB_CNTL
\* itself; VdInitializeRingBuffer does not).
SameSize == RingSize = RingDwords

LEMMA RingSizes ==
  /\ RingDwords \in Nat /\ RingDwords > 0
  /\ \A s \in Shape : s.dwords \in Nat /\ s.dwords > 0 /\ s.dwords < RingDwords
BY GpuRingAssumption

-----------------------------------------------------------------------------
(* Positions and offsets                                                    *)

LEMMA DivMod ==
  ASSUME NEW a \in Nat, NEW r \in Nat, r > 0
  PROVE  /\ a % r \in Nat /\ a % r < r
         /\ a \div r \in Nat /\ a = r * (a \div r) + (a % r)
OBVIOUS

\* Quotient and remainder are the only ones.
LEMMA OneRemainder ==
  ASSUME NEW r \in Nat, r > 0, NEW p \in Int, NEW q \in Int, NEW x \in Nat, NEW y \in Nat,
         x < r, y < r, r * p + x = r * q + y
  PROVE  p = q /\ x = y
<1>1. CASE p < q
  <2>1. r * (p + 1) <= r * q BY <1>1
  <2>2. r * (p + 1) = r * p + r OBVIOUS
  <2>. QED BY <2>1, <2>2
<1>2. CASE q < p
  <2>1. r * (q + 1) <= r * p BY <1>2
  <2>2. r * (q + 1) = r * q + r OBVIOUS
  <2>. QED BY <2>1, <2>2
<1>3. CASE p = q BY <1>3
<1>. QED BY <1>1, <1>2, <1>3

LEMMA ModIs ==
  ASSUME NEW a \in Nat, NEW r \in Nat, r > 0, NEW q \in Int, NEW x \in Nat, x < r, a = r * q + x
  PROVE  a % r = x
BY DivMod, OneRemainder

LEMMA ModAdd ==
  ASSUME NEW a \in Nat, NEW c \in Nat, NEW r \in Nat, r > 0
  PROVE  ((a % r) + c) % r = (a + c) % r
<1> DEFINE p == a \div r
           b == (a % r) + c
           q == b \div r
<1>1. p \in Nat /\ a = r * p + (a % r) /\ a % r \in Nat BY DivMod
<1>2. b \in Nat /\ q \in Nat /\ b = r * q + (b % r) /\ b % r \in Nat /\ b % r < r BY <1>1, DivMod
<1>3. a + c = r * p + b BY <1>1
<1>4. r * p + r * q = r * (p + q) BY <1>1, <1>2
<1>5. a + c = r * (p + q) + (b % r) BY <1>2, <1>3, <1>4
<1>6. a + c \in Nat /\ p + q \in Int BY <1>1, <1>2
<1> HIDE DEF b, p, q
<1>7. (a + c) % r = b % r BY <1>2, <1>5, <1>6, ModIs
<1>. QED BY <1>7 DEF b

LEMMA ModTwice ==
  ASSUME NEW a \in Nat, NEW r \in Nat, r > 0
  PROVE  a % r \in 0 .. (r - 1) /\ (a % r) % r = a % r
<1>1. a % r \in Nat /\ a % r < r /\ a % r = r * 0 + (a % r) BY DivMod
<1>. QED BY <1>1, ModIs

\* Within one turn an offset is known by its position.
LEMMA ModSame ==
  ASSUME NEW a \in Nat, NEW b \in Nat, NEW r \in Nat, r > 0, a <= b, b < a + r, a % r = b % r
  PROVE  a = b
<1> DEFINE p == a \div r
           q == b \div r
<1>1. p \in Nat /\ q \in Nat /\ a = r * p + (a % r) /\ b = r * q + (b % r) /\ a % r \in Nat BY DivMod
<1>2. r * p <= r * q /\ r * q < r * p + r BY <1>1
<1> HIDE DEF p, q
<1>3. r * (p + 1) = r * p + r BY <1>1
<1>4. CASE q > p
  <2>1. r * (p + 1) <= r * q BY <1>1, <1>4
  <2>. QED BY <1>1, <1>2, <1>3, <2>1
<1>5. CASE q < p
  <2>1. r * (q + 1) <= r * p BY <1>1, <1>5
  <2>2. r * (q + 1) = r * q + r BY <1>1
  <2>. QED BY <1>1, <1>2, <2>1, <2>2
<1>6. CASE p = q BY <1>1, <1>6
<1>. QED BY <1>1, <1>4, <1>5, <1>6

LEMMA ModDiff ==
  ASSUME NEW a \in Nat, NEW b \in Nat, NEW r \in Nat, r > 0, a <= b, b < a + r
  PROVE  ((b % r) + r - (a % r)) % r = b - a
<1> DEFINE p == a \div r
           q == b \div r
           c == (b % r) + r - (a % r)
<1>1. p \in Nat /\ q \in Nat /\ a = r * p + (a % r) /\ b = r * q + (b % r)
      /\ a % r \in Nat /\ b % r \in Nat /\ a % r < r /\ b % r < r BY DivMod
<1>2. c \in Nat /\ b - a \in Nat /\ b - a < r BY <1>1
<1>3. c = (r * p - r * q) + r + (b - a) BY <1>1
<1>4. r * (p - q + 1) = (r * p - r * q) + r BY <1>1
<1>5. c = r * (p - q + 1) + (b - a) BY <1>2, <1>3, <1>4
<1>6. p - q + 1 \in Int BY <1>1
<1> HIDE DEF p, q, c
<1>7. c % r = b - a BY <1>2, <1>5, <1>6, ModIs
<1>. QED BY <1>7 DEF c

LEMMA ModWrap ==
  ASSUME NEW a \in Nat, NEW r \in Nat, r > 0
  PROVE  (a + r) % r = a % r
<1>1. a = r * (a \div r) + (a % r) /\ a \div r \in Nat /\ a % r \in Nat /\ a % r < r BY DivMod
<1>2. r * ((a \div r) + 1) = r * (a \div r) + r BY <1>1
<1>3. a + r = r * ((a \div r) + 1) + (a % r) BY <1>1, <1>2
<1>4. a + r \in Nat /\ (a \div r) + 1 \in Int BY <1>1
<1>. QED BY <1>1, <1>3, <1>4, ModIs

\* What a new packet leaves of the turn is behind what is still needed.
LEMMA TurnBehind ==
  ASSUME NEW x \in Nat, NEW e \in Nat, NEW b \in Nat, NEW r \in Nat, NEW d \in Nat,
         x < e, x >= b, e + d < b + r
  PROVE  e <= x + r /\ ~(x + r - e < d)
OBVIOUS

\* The distance to an offset ahead, by less than a turn.
LEMMA ModLead ==
  ASSUME NEW a \in Nat, NEW b \in Nat, NEW r \in Nat, r > 0, a < b, b <= a + r
  PROVE  ((a % r) + r - (b % r)) % r = a + r - b
<1>1. a + r \in Nat /\ b <= a + r /\ a + r < b + r OBVIOUS
<1>2. (((a + r) % r) + r - (b % r)) % r = (a + r) - b BY <1>1, ModDiff
<1>3. (a + r) % r = a % r BY ModWrap
<1>. QED BY <1>2, <1>3

-----------------------------------------------------------------------------
(* The inductive invariant                                                  *)

Places == {"idle", "load rp", "load wp", "process", "store", "write back",
           "load fence", "store fence", "notify"}

\* What has no stake in the stream: the counters, and nothing before the ring
\* is configured.
Progress ==
  /\ configured \in 0 .. 5 /\ gpu \in Places
  /\ packets \in Seq(Shape) /\ Len(packets) <= MaxPackets
  /\ published \in 0 .. Len(packets)
  /\ configured < 5 => packets = <<>> /\ write_ptr_ = 0 /\ read_ptr_ = 0
  /\ executed \in Seq(Nat) /\ ExecutedInOrder

Fences ==
  /\ next_fence_ \in 1 .. (MaxFence + 1)
  /\ cpu_fence_ \in 0 .. (next_fence_ - 1)
  /\ gpu_fence_ \in 0 .. (next_fence_ - 1) /\ current \in 0 .. (next_fence_ - 1)

\* S[n]: dwords before packet n + 1.
Starts(S) ==
  /\ S \in [0 .. Len(packets) -> Nat] /\ S[0] = 0
  /\ \A n \in 1 .. Len(packets) : S[n] = S[n - 1] + packets[n].dwords
  /\ \A m, n \in 0 .. Len(packets) : m <= n => S[m] <= S[n]

\* Where each pointer stands in the stream.
Pointers(S) ==
  /\ end = S[Len(packets)] % RingDwords
  /\ write_ptr_ = S[published] % RingDwords
  /\ rp = S[Len(executed)] % RingDwords
  /\ gpu \notin {"process", "store"} => read_ptr_ = S[Len(executed)] % RingDwords
  /\ read_ptr_ \in Positions
  /\ \E w \in 0 .. published :
       wp = S[w] % RingDwords /\ (gpu = "process" => Len(executed) <= w)

\* Behind b nothing is needed any more; from there to the guest's end is less
\* than a turn, and holds the packets.
Window(S, b) ==
  /\ b \in 0 .. Len(executed) /\ rptr = S[b] % RingDwords
  /\ S[Len(packets)] < S[b] + RingDwords
  /\ \A n \in (b + 1) .. Len(packets) : \A i \in 0 .. (packets[n].dwords - 1) :
       ring[(S[n - 1] + i) % RingDwords] = <<n, i>>

Cells == ring \in [Positions -> (0 .. MaxPackets) \X Positions]

Stream == \E S : Starts(S) /\ Pointers(S) /\ \E b \in Nat : Window(S, b)

IInv == Progress /\ Fences /\ Cells /\ Stream

LEMMA Packet ==
  ASSUME Progress, NEW n \in 1 .. Len(packets)
  PROVE  /\ packets[n].dwords \in Nat /\ packets[n].dwords > 0 /\ packets[n].dwords < RingDwords
         /\ packets[n] \in Shape
BY RingSizes DEF Progress

LEMMA Lengths ==
  ASSUME Progress
  PROVE  /\ Len(packets) \in Nat /\ published \in Nat /\ Len(executed) \in Nat
         /\ Len(executed) <= published /\ published <= Len(packets)
BY DEF Progress, ExecutedInOrder

LEMMA InitIInv == Init => IInv
<1>. SUFFICES ASSUME Init PROVE IInv OBVIOUS
<1>. USE DEF Init
<1>1. Progress BY GpuRingAssumption DEF Progress, Places, ExecutedInOrder
<1>2. Fences BY GpuRingAssumption DEF Fences
<1>3. Cells BY RingSizes, GpuRingAssumption DEF Cells, Junk, Positions
<1>4. Stream
  <2> DEFINE S == [n \in 0 .. 0 |-> 0]
  <2>0. 0 % RingDwords = 0 BY RingSizes, ModIs
  <2>1. Starts(S) BY DEF Starts
  <2>2. Pointers(S) BY <2>0, RingSizes DEF Pointers, Positions
  <2>3. Window(S, 0) BY <2>0, RingSizes DEF Window
  <2>. QED BY <2>1, <2>2, <2>3 DEF Stream
<1>. QED BY <1>1, <1>2, <1>3, <1>4 DEF IInv

-----------------------------------------------------------------------------
(* The guest                                                                *)

LEMMA WriteIsFree ==
  ASSUME NEW S, NEW b \in Nat, NEW s \in Shape, Progress, Starts(S), Pointers(S), Window(S, b),
         WritePacket(s)
  PROVE  S[Len(packets)] + s.dwords < S[b] + RingDwords
<1> DEFINE E == S[Len(packets)]
<1>1. b \in 0 .. Len(packets) /\ E \in Nat /\ S[b] \in Nat /\ S[b] <= E
  <2>1. b \in 0 .. Len(packets) BY Lengths DEF Window
  <2>2. Len(packets) \in 0 .. Len(packets) BY Lengths
  <2>. QED BY <2>1, <2>2 DEF Starts
<1>2. E < S[b] + RingDwords BY DEF Window
<1>3. ((E % RingDwords) + RingDwords - (S[b] % RingDwords)) % RingDwords = E - S[b]
  <2> HIDE DEF E
  <2>. QED BY <1>1, <1>2, RingSizes, ModDiff
<1>4. Used = E - S[b] BY <1>3 DEF Used, Pointers, Window
<1>5. Used + s.dwords < RingDwords BY DEF WritePacket
<1>. QED BY <1>1, <1>4, <1>5, RingSizes

LEMMA WriteStream ==
  ASSUME IInv, NEW s \in Shape, WritePacket(s) PROVE Stream'
<1> PICK S : Starts(S) /\ Pointers(S) /\ \E b \in Nat : Window(S, b) BY DEF IInv, Stream
<1> PICK b \in Nat : Window(S, b) OBVIOUS
<1> DEFINE L == Len(packets)
           E == S[L]
<1>0. PICK T : T = [n \in 0 .. (L + 1) |-> IF n = L + 1 THEN E + s.dwords ELSE S[n]] OBVIOUS
<1>1. Progress /\ Cells BY DEF IInv
<1>2. L \in Nat /\ packets' = Append(packets, s) /\ Len(packets') = L + 1
      /\ packets'[L + 1] = s /\ \A n \in 1 .. L : packets'[n] = packets[n]
  BY <1>1 DEF Progress, WritePacket
<1>3. s.dwords \in Nat /\ s.dwords > 0 /\ s.dwords < RingDwords /\ RingDwords \in Nat /\ RingDwords > 0
  BY RingSizes
<1>4. S \in [0 .. L -> Nat] /\ S[0] = 0 /\ E \in Nat /\ \A n \in 0 .. L : S[n] <= E
  BY <1>2 DEF Starts
<1>5. b \in 0 .. Len(executed) /\ Len(executed) \in 0 .. L /\ published \in 0 .. L
  BY <1>1, <1>2 DEF Progress, ExecutedInOrder, Window
<1>6. E + s.dwords < S[b] + RingDwords BY <1>1, WriteIsFree
<1>7. T[L + 1] = E + s.dwords /\ \A n \in 0 .. L : T[n] = S[n] BY <1>0, <1>2
<1>8. Starts(T)'
  <2>1. T \in [0 .. (L + 1) -> Nat] BY <1>0, <1>2, <1>3, <1>4
  <2>2. ASSUME NEW n \in 1 .. (L + 1) PROVE T[n] = T[n - 1] + packets'[n].dwords
    <3>1. CASE n = L + 1 BY <1>2, <1>7, <3>1
    <3>2. CASE n # L + 1
      <4>1. n \in 1 .. L /\ n - 1 \in 0 .. L /\ n \in 0 .. L BY <1>2, <3>2
      <4>2. S[n] = S[n - 1] + packets[n].dwords BY <4>1 DEF Starts
      <4>. QED BY <1>2, <1>7, <4>1, <4>2
    <3>. QED BY <3>1, <3>2
  <2>3. ASSUME NEW m \in 0 .. (L + 1), NEW n \in 0 .. (L + 1), m <= n PROVE T[m] <= T[n]
    <3>1. CASE n = L + 1 /\ m = L + 1 BY <1>3, <1>4, <1>7, <3>1
    <3>2. CASE n = L + 1 /\ m \in 0 .. L
      <4>1. S[m] <= E /\ S[m] \in Nat BY <1>4, <3>2
      <4> HIDE DEF E
      <4>. QED BY <1>3, <1>4, <1>7, <3>2, <4>1
    <3>3. CASE n \in 0 .. L /\ m \in 0 .. L
      <4>. QED BY <1>7, <2>3, <3>3 DEF Starts
    <3>. QED BY <1>2, <2>3, <3>1, <3>2, <3>3
  <2>4. T[0] = 0 BY <1>2, <1>4, <1>7
  <2>. QED BY <1>2, <2>1, <2>2, <2>3, <2>4 DEF Starts
<1>9. Pointers(T)'
  <2>1. end' = T[L + 1] % RingDwords
    <3>1. end' = ((E % RingDwords) + s.dwords) % RingDwords BY DEF WritePacket, Pointers
    <3>2. ((E % RingDwords) + s.dwords) % RingDwords = (E + s.dwords) % RingDwords
      <4> HIDE DEF E
      <4>. QED BY <1>3, <1>4, ModAdd
    <3> HIDE DEF E
    <3>. QED BY <1>7, <3>1, <3>2
  <2>2. UNCHANGED <<write_ptr_, rp, read_ptr_, wp, gpu, published, executed>>
    BY DEF WritePacket, locals
  <2>3. \A n \in 0 .. published : T[n] = S[n] /\ n \in 0 .. published' BY <1>2, <1>5, <1>7, <2>2
  <2>4. published \in 0 .. published /\ Len(executed) \in 0 .. L BY <1>5
  <2>5. T[published] = S[published] /\ T[Len(executed)] = S[Len(executed)] BY <1>7, <2>3, <2>4
  <2>. QED BY <1>2, <2>1, <2>2, <2>3, <2>5 DEF Pointers
<1>10. Window(T, b)'
  <2>0. UNCHANGED <<rptr, executed>> BY DEF WritePacket
  <2>1. ASSUME NEW n \in (b + 1) .. (L + 1), NEW i \in 0 .. (packets'[n].dwords - 1)
        PROVE  ring'[(T[n - 1] + i) % RingDwords] = <<n, i>>
    <3> DEFINE x == T[n - 1] + i
    <3>0. n \in 1 .. (L + 1) BY <1>5
    <3>1. x \in Nat /\ x % RingDwords \in Positions
      <4>1. T[n - 1] \in Nat BY <1>4, <1>7, <3>0
      <4>2. i \in Nat OBVIOUS
      <4>3. x \in Nat BY <4>1, <4>2
      <4> HIDE DEF x
      <4>. QED BY <1>3, <4>3, DivMod DEF Positions
    <3>2. LET j == ((x % RingDwords) + RingDwords - (E % RingDwords)) % RingDwords
          IN ring'[x % RingDwords] = IF j < s.dwords THEN <<L + 1, j>> ELSE ring[x % RingDwords]
      <4> DEFINE y == x % RingDwords
      <4>1. y \in Positions BY <3>1
      <4>2. end = E % RingDwords BY DEF Pointers
      <4> HIDE DEF y, E
      <4>3. LET j == (y + RingDwords - end) % RingDwords
            IN ring'[y] = IF j < s.dwords THEN <<L + 1, j>> ELSE ring[y]
        BY <4>1 DEF WritePacket
      <4>. QED BY <4>2, <4>3 DEF y
    <3>3. CASE n = L + 1
      <4>1. x = E + i /\ i \in Nat /\ i < s.dwords BY <1>2, <1>3, <1>7, <3>3
      <4>2. ((x % RingDwords) + RingDwords - (E % RingDwords)) % RingDwords = i
        <5> HIDE DEF x, E
        <5>1. E \in Nat /\ x \in Nat /\ E <= x /\ x < E + RingDwords /\ x - E = i
          BY <1>3, <1>4, <3>1, <4>1
        <5>2. RingDwords \in Nat /\ RingDwords > 0 BY <1>3
        <5>. QED BY <5>1, <5>2, ModDiff
      <4>. QED BY <3>2, <3>3, <4>1, <4>2
    <3>4. CASE n # L + 1
      <4>1. n \in 1 .. L /\ n \in (b + 1) .. L BY <1>2, <3>0, <3>4
      <4>2. i \in 0 .. (packets[n].dwords - 1) /\ i \in Nat BY <1>2, <4>1
      <4>3. x = S[n - 1] + i BY <1>7, <4>1
      <4>4. ring[(S[n - 1] + i) % RingDwords] = <<n, i>> BY <4>1, <4>2 DEF Window
      <4>5. ring[x % RingDwords] = <<n, i>> BY <4>3, <4>4
      <4>6. S[n] = S[n - 1] + packets[n].dwords BY <4>1 DEF Starts
      <4>7. S[n] \in Nat /\ S[n - 1] \in Nat /\ S[b] \in Nat /\ E \in Nat /\ S[n] <= E /\ S[b] <= S[n - 1]
        <5>1. n - 1 \in 0 .. L /\ n \in 0 .. L /\ b \in 0 .. L /\ b <= n - 1 BY <1>2, <1>5, <4>1
        <5>. QED BY <1>4, <5>1 DEF Starts
      <4>8. packets[n].dwords \in Nat BY <1>1, <4>1, Packet
      <4> HIDE DEF x, E
      <4>9. S[n - 1] + i < E /\ S[n - 1] + i >= S[b]
        <5>1. i < packets[n].dwords BY <4>2, <4>8
        <5>2. S[n - 1] + i < S[n - 1] + packets[n].dwords BY <4>2, <4>7, <4>8, <5>1
        <5>3. S[n - 1] + i < E BY <4>2, <4>6, <4>7, <4>8, <5>2, SMTT(40)
        <5>4. S[n - 1] + i >= S[b] BY <4>2, <4>7
        <5>. QED BY <5>3, <5>4
      <4>10. x < E /\ E <= x + RingDwords /\ ~(x + RingDwords - E < s.dwords)
        <5>1. x < E /\ x >= S[b] BY <4>3, <4>9
        <5>2. E + s.dwords < S[b] + RingDwords BY <1>6 DEF E
        <5>3. s.dwords \in Nat /\ RingDwords \in Nat /\ x \in Nat BY <1>3, <3>1
        <5>4. S[b] \in Nat /\ E \in Nat BY <4>7
        <5>. QED BY <5>1, <5>2, <5>3, <5>4, TurnBehind
      <4>11. ((x % RingDwords) + RingDwords - (E % RingDwords)) % RingDwords = x + RingDwords - E
        BY <1>3, <1>4, <3>1, <4>10, ModLead
      <4>12. ring'[x % RingDwords] = ring[x % RingDwords] BY <3>2, <4>10, <4>11
      <4>. QED BY <4>5, <4>12 DEF x
    <3>. QED BY <3>3, <3>4
  <2>2. T[L + 1] < T[b] + RingDwords BY <1>5, <1>6, <1>7
  <2>3. T[b] = S[b] BY <1>5, <1>7
  <2>. QED BY <1>2, <2>0, <2>1, <2>2, <2>3 DEF Window
<1>. QED BY <1>8, <1>9, <1>10 DEF Stream

LEMMA ConfigureInv == ASSUME IInv, ConfigureRing PROVE IInv'
<1>. USE DEF ConfigureRing, IInv
<1>1. Progress' BY DEF Progress, ExecutedInOrder, locals
<1>2. Fences' BY DEF Fences, fences, locals
<1>3. Cells' BY DEF Cells
<1>4. Stream'
  <2>1. PICK S : Starts(S) /\ Pointers(S) /\ \E b \in Nat : Window(S, b) BY DEF Stream
  <2>2. packets = <<>> /\ published = 0 /\ Len(executed) = 0 /\ write_ptr_ = 0 /\ read_ptr_ = 0
    BY DEF Progress, ExecutedInOrder
  <2>3. 0 % RingDwords = 0 BY RingSizes, ModIs
  <2>4. S[0] = 0 BY <2>1 DEF Starts
  <2>5. write_ptr_' = 0 /\ read_ptr_' = 0 BY <2>2
  <2>6. Starts(S)' BY <2>1 DEF Starts
  <2>7. Pointers(S)' BY <2>1, <2>2, <2>3, <2>4, <2>5, RingSizes DEF Pointers, locals, Positions
  <2>8. \A b \in Nat : Window(S, b) => Window(S, b)' BY DEF Window
  <2>. QED BY <2>1, <2>6, <2>7, <2>8 DEF Stream
<1>. QED BY <1>1, <1>2, <1>3, <1>4

LEMMA WriteInv == ASSUME IInv, NEW s \in Shape, WritePacket(s) PROVE IInv'
<1>1. Progress'
  <2>1. packets' \in Seq(Shape) /\ Len(packets') = Len(packets) + 1 BY DEF IInv, Progress, WritePacket
  <2>2. /\ configured' = configured /\ configured = 5 /\ Len(packets) < MaxPackets
        /\ UNCHANGED <<published, executed, gpu>>
    BY DEF WritePacket, locals
  <2>. QED BY <2>1, <2>2, Lengths, GpuRingAssumption DEF IInv, Progress, ExecutedInOrder
<1>2. Fences' BY DEF IInv, Fences, WritePacket, fences, locals
<1>3. Cells'
  <2>1. ASSUME NEW p \in Positions
        PROVE  LET i == (p + RingDwords - end) % RingDwords
               IN (IF i < s.dwords THEN <<Len(packets) + 1, i>> ELSE ring[p])
                    \in (0 .. MaxPackets) \X Positions
    <3>1. end \in Positions
      <4>1. PICK S : Starts(S) /\ Pointers(S) BY DEF IInv, Stream
      <4>2. S[Len(packets)] \in Nat BY <4>1 DEF Starts, IInv, Progress
      <4>. QED BY <4>1, <4>2, RingSizes, DivMod DEF Pointers, Positions
    <3>2. p + RingDwords - end \in Nat BY <3>1, RingSizes DEF Positions
    <3>3. (p + RingDwords - end) % RingDwords \in Positions
      BY <3>2, RingSizes, DivMod DEF Positions
    <3>4. Len(packets) + 1 \in 0 .. MaxPackets
      BY GpuRingAssumption DEF IInv, Progress, WritePacket
    <3>. QED BY <3>3, <3>4 DEF IInv, Cells
  <2>. QED BY <2>1 DEF WritePacket, Cells
<1>. QED BY <1>1, <1>2, <1>3, WriteStream DEF IInv

LEMMA PublishInv == ASSUME IInv, Publish PROVE IInv'
<1>. USE DEF Publish, IInv
<1>1. Progress' BY DEF Progress, ExecutedInOrder, locals
<1>2. Fences' BY DEF Fences, fences, locals
<1>3. Cells' BY DEF Cells
<1>4. Stream'
  <2>1. PICK S : Starts(S) /\ Pointers(S) /\ \E b \in Nat : Window(S, b) BY DEF Stream
  <2>2. Starts(S)' BY <2>1 DEF Starts
  <2>3. Pointers(S)' BY <2>1 DEF Pointers, locals, Progress, ExecutedInOrder
  <2>4. \A b \in Nat : Window(S, b) => Window(S, b)' BY DEF Window
  <2>. QED BY <2>1, <2>2, <2>3, <2>4 DEF Stream
<1>. QED BY <1>1, <1>2, <1>3, <1>4

-----------------------------------------------------------------------------
(* process_commands                                                         *)

\* The next packet stands whole at the read pointer.
LEMMA NextPacket ==
  ASSUME SameSize, Progress, Cells, NEW S, NEW b \in Nat, Starts(S), Pointers(S), Window(S, b),
         gpu = "process", More
  PROVE  LET n == Len(executed) + 1 IN
         /\ n <= published /\ n \in 1 .. Len(packets)
         /\ PacketAt(rp) = n /\ Whole(rp, n) /\ After(n) = S[n] % RingDwords
<1> DEFINE e == Len(executed)
           n == e + 1
<1>1. PICK w \in 0 .. published : wp = S[w] % RingDwords /\ e <= w BY DEF Pointers
<1>2. e \in Nat /\ published \in 0 .. Len(packets) /\ Len(packets) \in Nat
  BY DEF Progress, ExecutedInOrder
<1>3. e # w BY <1>1 DEF More, Pointers
<1>4. n <= published /\ n \in 1 .. Len(packets) /\ n - 1 = e BY <1>1, <1>2, <1>3
<1>5. RingDwords \in Nat /\ RingDwords > 0 BY RingSizes
<1>6. packets[n].dwords \in Nat /\ packets[n].dwords > 0 BY <1>4, Packet
<1>7. S[e] \in Nat /\ S[n] = S[e] + packets[n].dwords /\ rp = S[e] % RingDwords
  <2>1. e \in 0 .. Len(packets) BY <1>2, <1>4
  <2>2. S[e] \in Nat /\ S[n] = S[n - 1] + packets[n].dwords BY <1>4, <2>1 DEF Starts
  <2>3. rp = S[e] % RingDwords BY DEF Pointers
  <2> HIDE DEF n, e
  <2>. QED BY <1>4, <2>2, <2>3
<1>8. n \in (b + 1) .. Len(packets) BY <1>2, <1>4 DEF Window
<1>9. ASSUME NEW i \in 0 .. (packets[n].dwords - 1) PROVE ring[(rp + i) % RingDwords] = <<n, i>>
  <2>1. ring[(S[e] + i) % RingDwords] = <<n, i>> BY <1>4, <1>8 DEF Window
  <2>2. i \in Nat BY <1>6
  <2> HIDE DEF n, e
  <2>3. ((S[e] % RingDwords) + i) % RingDwords = (S[e] + i) % RingDwords BY <1>5, <1>7, <2>2, ModAdd
  <2>. QED BY <1>7, <2>1, <2>3
<1>10. PacketAt(rp) = n
  <2>1. 0 \in 0 .. (packets[n].dwords - 1) BY <1>6
  <2>2. rp \in Nat BY <1>5, <1>7, DivMod
  <2>3. ring[rp % RingDwords] = <<n, 0>> BY <1>9, <2>1, <2>2
  <2>. QED BY <1>4, <2>3 DEF PacketAt, ReadCmd, Junk, SameSize
<1>11. Whole(rp, n) BY <1>9 DEF Whole, ReadCmd, SameSize
<1>12. After(n) = S[n] % RingDwords
  <2>1. After(n) = (rp + packets[n].dwords) % RingDwords BY <1>4 DEF After, Consumed, SameSize
  <2> HIDE DEF n, e
  <2>2. ((S[e] % RingDwords) + packets[n].dwords) % RingDwords = (S[e] + packets[n].dwords) % RingDwords
    BY <1>5, <1>6, <1>7, ModAdd
  <2>. QED BY <1>7, <2>1, <2>2
<1>. QED BY <1>4, <1>10, <1>11, <1>12

LEMMA ExecuteInv == ASSUME SameSize, IInv, Execute PROVE IInv'
<1> PICK S : Starts(S) /\ Pointers(S) /\ \E b \in Nat : Window(S, b) BY DEF IInv, Stream
<1> PICK b \in Nat : Window(S, b) OBVIOUS
<1> DEFINE n == Len(executed) + 1
<1>0. Progress /\ Fences /\ Cells /\ gpu = "process" /\ More BY DEF IInv, Execute, Gpu
<1>1. n <= published /\ n \in 1 .. Len(packets)
      /\ PacketAt(rp) = n /\ Whole(rp, n) /\ After(n) = S[n] % RingDwords
  BY <1>0, NextPacket
<1>2. executed' = Append(executed, n) /\ rp' = S[n] % RingDwords
      /\ gpu' \in {"process", "store"}
  BY <1>1 DEF Execute, Gpu
<1>3. executed \in Seq(Nat) /\ Len(executed) \in Nat BY <1>0 DEF Progress
<1>4. Len(executed') = n /\ \A i \in DOMAIN executed' : executed'[i] = i
  BY <1>0, <1>2, <1>3 DEF Progress, ExecutedInOrder
<1>5. UNCHANGED <<configured, ring, packets, end, published, read_ptr_, write_ptr_, rptr, wp, current,
                  cpu_fence_, gpu_fence_, next_fence_>>
  BY DEF Execute, Gpu, guest, fences
<1>6. Progress'
  <2>1. executed' \in Seq(Nat) BY <1>2, <1>3
  <2>2. gpu' \in Places BY <1>2 DEF Places
  <2> HIDE DEF n
  <2>. QED BY <1>0, <1>1, <1>4, <1>5, <2>1, <2>2 DEF Progress, ExecutedInOrder
<1>7. Fences' BY <1>0, <1>5 DEF Fences
<1>8. Cells' BY <1>0, <1>5 DEF Cells
<1>9. Starts(S)' BY <1>5 DEF Starts
<1>10. Pointers(S)'
  <2>1. PICK w \in 0 .. published : wp = S[w] % RingDwords /\ Len(executed) <= w
    BY <1>0 DEF Pointers
  <2>2. Len(executed) # w BY <1>0, <2>1 DEF More, Pointers
  <2>3. n <= w BY <1>3, <2>1, <2>2
  <2> HIDE DEF n
  <2>. QED BY <1>2, <1>4, <1>5, <2>1, <2>3 DEF Pointers
<1>11. Window(S, b)'
  <2>1. b \in 0 .. Len(executed') BY <1>3, <1>4 DEF Window
  <2>. QED BY <1>5, <2>1 DEF Window
<1>. QED BY <1>6, <1>7, <1>8, <1>9, <1>10, <1>11 DEF IInv, Stream

\* The other steps of process_commands move neither packets nor the history.
LEMMA GpuInv ==
  ASSUME SameSize, IInv,
         \/ LoadRing \/ LoadReadPtr \/ LoadWritePtr \/ Drained \/ StoreReadPtr \/ WriteBack
         \/ LoadFence \/ StoreFence \/ NotifyFence
  PROVE  IInv'
<1>0. Progress /\ Fences /\ Cells BY DEF IInv
<1>1. PICK S : Starts(S) /\ Pointers(S) /\ \E b \in Nat : Window(S, b) BY DEF IInv, Stream
<1>2. PICK b \in Nat : Window(S, b) BY <1>1
<1>3. PICK e : e = Len(executed) OBVIOUS
<1>4. e \in 0 .. published /\ published \in 0 .. Len(packets) /\ Len(packets) \in Nat
  BY <1>0, <1>3, Lengths
<1>5. RingDwords \in Nat /\ RingDwords > 0 /\ S[e] \in Nat /\ S[published] \in Nat
  BY <1>1, <1>4, RingSizes DEF Starts
<1>6. /\ S[e] % RingDwords \in Positions
      /\ (S[e] % RingDwords) % RingDwords = S[e] % RingDwords
      /\ (S[published] % RingDwords) % RingDwords = S[published] % RingDwords
  BY <1>5, ModTwice DEF Positions
<1>7. UNCHANGED <<configured, ring, packets, end, published, executed, write_ptr_>> /\ gpu' \in Places
  BY DEF guest, Places, Gpu, LoadRing, LoadReadPtr, LoadWritePtr, Drained, StoreReadPtr, WriteBack,
         LoadFence, StoreFence, NotifyFence
<1>8. Fences'
  BY <1>0 DEF Fences, fences, Gpu, LoadRing, LoadReadPtr, LoadWritePtr, Drained, StoreReadPtr,
              WriteBack, LoadFence, StoreFence, NotifyFence
<1>9. Cells' BY <1>0, <1>7 DEF Cells
<1>10. Starts(S)' BY <1>1, <1>7 DEF Starts
<1>11. Progress'
  <2>1. read_ptr_' = read_ptr_ \/ read_ptr_' = rp
    BY DEF LoadRing, LoadReadPtr, LoadWritePtr, Drained, StoreReadPtr, WriteBack, LoadFence,
           StoreFence, NotifyFence
  <2>2. configured < 5 => rp = 0
    <3>1. configured < 5 => e = 0 BY <1>0, <1>4 DEF Progress
    <3>2. S[0] = 0 BY <1>1 DEF Starts
    <3>3. 0 % RingDwords = 0 BY <1>5, ModIs
    <3>4. rp = S[e] % RingDwords BY <1>1, <1>3 DEF Pointers
    <3>. QED BY <3>1, <3>2, <3>3, <3>4
  <2>. QED BY <1>0, <1>7, <2>1, <2>2 DEF Progress, ExecutedInOrder
<1>12. Pointers(S)'
  <2>1. CASE LoadRing \/ LoadFence \/ StoreFence \/ NotifyFence
    BY <1>1, <1>7, <2>1 DEF Pointers, Gpu, LoadRing, LoadFence, StoreFence, NotifyFence
  <2>2. CASE LoadReadPtr
    <3>1. rp' = S[e] % RingDwords BY <1>1, <1>3, <1>6, <2>2 DEF Pointers, SameSize, LoadReadPtr, Gpu
    <3>. QED BY <1>1, <1>3, <1>7, <2>2, <3>1 DEF Pointers, Gpu, LoadReadPtr
  <2>3. CASE LoadWritePtr
    <3>1. wp' = S[published] % RingDwords BY <1>1, <1>6, <2>3 DEF Pointers, SameSize, LoadWritePtr
    <3>2. \E w \in 0 .. published' :
            wp' = S[w] % RingDwords /\ (gpu' = "process" => Len(executed') <= w)
      <4>1. published \in 0 .. published /\ e <= published BY <1>4
      <4>. QED BY <1>3, <1>7, <3>1, <4>1
    <3>. QED BY <1>1, <1>7, <2>3, <3>2 DEF Pointers, Gpu, LoadWritePtr
  <2>4. CASE Drained BY <1>1, <1>7, <2>4 DEF Pointers, Gpu, Drained
  <2>5. CASE StoreReadPtr BY <1>1, <1>3, <1>6, <1>7, <2>5 DEF Pointers, Gpu, StoreReadPtr
  <2>6. CASE WriteBack BY <1>1, <1>7, <2>6 DEF Pointers, Gpu, WriteBack
  <2>. QED BY <2>1, <2>2, <2>3, <2>4, <2>5, <2>6
<1>13. \E c \in Nat : Window(S, c)'
  <2>1. CASE rptr' = rptr
    <3>1. Window(S, b)' BY <1>2, <1>7, <2>1 DEF Window
    <3>. QED BY <3>1
  <2>2. CASE rptr' # rptr
    <3>1. rptr' = S[e] % RingDwords
      BY <1>1, <1>3, <2>2
      DEF Pointers, LoadRing, LoadReadPtr, LoadWritePtr, Drained, StoreReadPtr, WriteBack, LoadFence,
          StoreFence, NotifyFence
    <3>2. b <= e /\ b \in 0 .. Len(packets) /\ e \in 0 .. Len(packets) BY <1>2, <1>3, <1>4 DEF Window
    <3>3. S[b] <= S[e] /\ S[b] \in Nat /\ S[Len(packets)] \in Nat BY <1>1, <1>4, <3>2 DEF Starts
    <3>4. S[Len(packets)] < S[e] + RingDwords BY <1>2, <1>5, <3>3 DEF Window
    <3>5. \A n \in (e + 1) .. Len(packets) : n \in (b + 1) .. Len(packets) BY <1>4, <3>2
    <3>6. \A n \in (e + 1) .. Len(packets) : \A i \in 0 .. (packets[n].dwords - 1) :
            ring[(S[n - 1] + i) % RingDwords] = <<n, i>>
      BY <1>2, <3>5 DEF Window
    <3>7. e \in 0 .. e /\ e \in Nat BY <1>4
    <3>8. Window(S, e)' BY <1>3, <1>7, <3>1, <3>4, <3>6, <3>7 DEF Window
    <3>. QED BY <3>7, <3>8
  <2>. QED BY <2>1, <2>2
<1>. QED BY <1>8, <1>9, <1>10, <1>11, <1>12, <1>13 DEF IInv, Stream

LEMMA WaiterInv == ASSUME IInv, AllocateFence \/ WaitForFence PROVE IInv'
<1>1. UNCHANGED <<guest, read_ptr_, write_ptr_, rptr, locals, executed>>
  BY DEF AllocateFence, WaitForFence, SignalCpuFence, FastPath, TestFence, Block, Waiter
<1>2. Fences'
  <2>1. Fences /\ current' = current BY <1>1 DEF IInv, locals
  <2>2. CASE AllocateFence BY <2>1, <2>2, GpuRingAssumption DEF Fences, AllocateFence
  <2>3. CASE SignalCpuFence
    <3>0. next_fence_ \in Nat /\ next_fence_ >= 1 /\ cpu_fence_ \in 0 .. (next_fence_ - 1)
      <4>1. MaxFence \in Nat BY GpuRingAssumption
      <4>. QED BY <2>1, <4>1 DEF Fences
    <3>1. cpu_fence_' \in {next_fence_ - 1, cpu_fence_} BY <2>3 DEF SignalCpuFence
    <3>2. cpu_fence_' \in 0 .. (next_fence_ - 1) BY <3>0, <3>1
    <3>3. UNCHANGED <<gpu_fence_, next_fence_>> BY <2>3 DEF SignalCpuFence
    <3>. QED BY <2>1, <3>2, <3>3 DEF Fences
  <2>4. CASE FastPath \/ TestFence \/ Block BY <2>1, <2>4 DEF Fences, FastPath, TestFence, Block
  <2>. QED BY <2>2, <2>3, <2>4 DEF WaitForFence
<1>3. Progress' BY <1>1 DEF IInv, Progress, ExecutedInOrder, guest, locals
<1>4. Cells' BY <1>1 DEF IInv, Cells, guest
<1>5. Stream'
  <2>1. PICK S : Starts(S) /\ Pointers(S) /\ \E b \in Nat : Window(S, b) BY DEF IInv, Stream
  <2>2. Starts(S)' /\ Pointers(S)' BY <1>1, <2>1 DEF Starts, Pointers, guest, locals
  <2>3. \A b \in Nat : Window(S, b) => Window(S, b)' BY <1>1 DEF Window, guest
  <2>. QED BY <2>1, <2>2, <2>3 DEF Stream
<1>. QED BY <1>2, <1>3, <1>4, <1>5 DEF IInv

LEMMA StutterInv == ASSUME IInv, UNCHANGED vars PROVE IInv'
<1>1. UNCHANGED <<guest, read_ptr_, write_ptr_, rptr, locals, executed, fences>> BY DEF vars
<1>2. Progress' /\ Fences' /\ Cells'
  BY <1>1 DEF IInv, Progress, ExecutedInOrder, Fences, Cells, guest, locals, fences
<1>3. Stream'
  <2>1. PICK S : Starts(S) /\ Pointers(S) /\ \E b \in Nat : Window(S, b) BY DEF IInv, Stream
  <2>2. Starts(S)' /\ Pointers(S)' BY <1>1, <2>1 DEF Starts, Pointers, guest, locals
  <2>3. \A b \in Nat : Window(S, b) => Window(S, b)' BY <1>1 DEF Window, guest
  <2>. QED BY <2>1, <2>2, <2>3 DEF Stream
<1>. QED BY <1>2, <1>3 DEF IInv

LEMMA NextIInv == ASSUME SameSize, IInv, [Next]_vars PROVE IInv'
<1>1. CASE ConfigureRing BY <1>1, ConfigureInv
<1>2. CASE \E s \in Shape : WritePacket(s) BY <1>2, WriteInv
<1>3. CASE Publish BY <1>3, PublishInv
<1>4. CASE Execute BY <1>4, ExecuteInv
<1>5. CASE ProcessCommands BY <1>4, <1>5, GpuInv DEF ProcessCommands
<1>6. CASE AllocateFence \/ WaitForFence BY <1>6, WaiterInv
<1>7. CASE UNCHANGED vars BY <1>7, StutterInv
<1>. QED BY <1>1, <1>2, <1>3, <1>5, <1>6, <1>7 DEF Next

\* The invariant of the proof holds: pointers, packets and ring cells agree on
\* one unwrapped stream.
THEOREM Inductive == ASSUME SameSize PROVE Spec => []IInv
<1>1. IInv /\ [Next]_vars => IInv' BY NextIInv
<1>. QED BY <1>1, InitIInv, PTL DEF Spec

\* Packets are executed whole, once, in the order the guest wrote them, and
\* none before the write pointer covers it: for every ring, shapes of packets,
\* number of packets and interleaving of guest and emulation thread, when the
\* GPU's ring is the guest's.
THEOREM InOrder == ASSUME SameSize PROVE Spec => []ExecutedInOrder
<1>1. IInv => ExecutedInOrder BY DEF IInv, Progress
<1>. QED BY <1>1, Inductive, PTL

\* Every variable of the ring and of the fences keeps its type.
THEOREM TypeCorrect == ASSUME SameSize PROVE Spec => []TypeOK
<1>1. IInv => TypeOK
  <2>. SUFFICES ASSUME IInv PROVE TypeOK OBVIOUS
  <2>1. PICK S : Starts(S) /\ Pointers(S) /\ \E b \in Nat : Window(S, b) BY DEF IInv, Stream
  <2>2. PICK b \in Nat : Window(S, b) BY <2>1
  <2>3. Progress /\ Fences /\ Cells BY DEF IInv
  <2>4. Len(executed) \in 0 .. published /\ published \in 0 .. Len(packets) /\ Len(packets) \in Nat
    BY <2>3 DEF Progress, ExecutedInOrder
  <2>5. \A n \in 0 .. Len(packets) : S[n] % RingDwords \in Positions
    <3>1. \A n \in 0 .. Len(packets) : S[n] \in Nat BY <2>1 DEF Starts
    <3>. QED BY <3>1, RingSizes, DivMod DEF Positions
  <2>6. {read_ptr_, write_ptr_, rptr, end, rp, wp} \subseteq Positions
    BY <2>1, <2>2, <2>4, <2>5 DEF Pointers, Window
  <2>7. executed \in Seq(0 .. MaxPackets)
    BY <2>3, <2>4, GpuRingAssumption DEF Progress, ExecutedInOrder
  <2>8. {cpu_fence_, gpu_fence_, current} \subseteq 0 .. MaxFence /\ next_fence_ \in 1 .. (MaxFence + 1)
    BY <2>3, GpuRingAssumption DEF Fences
  <2>. QED BY <2>3, <2>6, <2>7, <2>8 DEF TypeOK, Progress, Cells, Positions
<1>. QED BY <1>1, Inductive, PTL
-----------------------------------------------------------------------------
(* Renderer: the frames                                                     *)

\* A batch holds one draw at least.
Batched == kMaxBatchedDraws \in Nat \ {0}

Bound == Pipeline \cup {None}
Recording == [draw : Nat, under : Bound]
Submission == [slot : Slots, index : 0 .. MAX_FRAMES, draws : SUBSET Nat]
Buffer == [in_use : {TRUE}, frame : Nat, draw : Nat]

\* The emulation thread.
Drawing ==
  /\ at \in {"packets", "begin draw", "present", "recover", "retry", "end", "suboptimal"}
  /\ cmd \in [pipeline : Bound, textures : BOOLEAN]
  /\ in_frame_ \in BOOLEAN /\ current_frame_index_ \in 0 .. MAX_FRAMES - 1
  /\ pipeline \in Bound /\ pending_draws_ \in Seq(Nat) /\ Len(pending_draws_) <= kMaxBatchedDraws
  /\ recorded \in Seq(Recording) /\ wanted \in Seq(Recording) /\ draws \in Nat
\* The device and what it reads.
Submitted ==
  /\ current_frame_ \in Slots /\ fence \in [Slots -> {"signaled", "reset"}] /\ open \in BOOLEAN
  /\ inflight \in Seq(Submission)
  /\ DOMAIN contents = 0 .. MAX_FRAMES - 1 /\ pool \in Seq(Buffer)
  /\ swapchain_ \in {"ok", None}

\* A slot is with the device, or being recorded, or its fence is signalled.
Fenced ==
  /\ open => fence[current_frame_] = "reset" /\ \A i \in DOMAIN inflight : inflight[i].slot # current_frame_
  /\ \A i \in DOMAIN inflight : fence[inflight[i].slot] = "reset"
  /\ \A i, j \in DOMAIN inflight : inflight[i].slot = inflight[j].slot => i = j
  /\ FencesWillSignal
\* A frame of the command processor's has the device's frame open, and Present
\* ends no frame but its own.
Stages ==
  /\ in_frame_ => open
  /\ at = "end" => open
  /\ at \in {"end", "suboptimal", "begin draw"} => ~in_frame_
\* What is recorded and what is pending make up what was asked for.
Recorded ==
  /\ ~in_frame_ => pending_draws_ = <<>>
  /\ open => /\ Len(recorded) <= Len(wanted)
             /\ \A i \in 1 .. Len(recorded) : recorded[i] = wanted[i]
  /\ in_frame_ => /\ Len(recorded) + Len(pending_draws_) = Len(wanted)
                  /\ \A i \in 1 .. Len(pending_draws_) :
                       wanted[Len(recorded) + i] = [draw |-> pending_draws_[i], under |-> pipeline]
\* The frame index of the frame begun is none the device reads, and between
\* frames the device's last submission has the index last begun, or none.
Indexed ==
  /\ in_frame_ => \A i \in DOMAIN inflight : inflight[i].index # current_frame_index_
  /\ ~open /\ inflight # <<>> => inflight[Len(inflight)].index \in {current_frame_index_, MAX_FRAMES}

\* What a step leaves alone of what the device may be reading.
Reads ==
  /\ \A i \in DOMAIN inflight : inflight[i].index \in DOMAIN contents =>
       contents'[inflight[i].index] = contents[inflight[i].index]
  /\ \A b \in DOMAIN pool : pool'[b] = pool[b]

FramesInv == Drawing /\ Submitted /\ Fenced /\ Stages /\ Recorded /\ Indexed

LEMMA SlotsValue == Slots = {0, 1} /\ MAX_FRAMES - 1 = 2 /\ 0 .. MAX_FRAMES = {0, 1, 2, 3}
BY DEF Slots, MAX_FRAMES_IN_FLIGHT, MAX_FRAMES

LEMMA InitFrames == ASSUME Batched, FramesInit PROVE FramesInv
<1>0. <<>> \in Seq(Nat) /\ <<>> \in Seq(Recording) /\ <<>> \in Seq(Submission) /\ <<>> \in Seq(Buffer)
  OBVIOUS
<1>1. Drawing
  <2>1. pending_draws_ = <<>> /\ recorded = <<>> /\ wanted = <<>> BY DEF FramesInit
  <2>2. cmd \in [pipeline : Bound, textures : BOOLEAN] BY DEF FramesInit, NoDraw, Bound
  <2>3. current_frame_index_ = 0 /\ 0 \in 0 .. MAX_FRAMES - 1 BY SlotsValue DEF FramesInit
  <2>4. at = "packets" /\ in_frame_ = FALSE /\ pipeline \in Bound /\ draws = 0 BY DEF FramesInit, Bound
  <2>5. Len(pending_draws_) <= kMaxBatchedDraws BY <2>1 DEF Batched
  <2>. QED BY <1>0, <2>1, <2>2, <2>3, <2>4, <2>5 DEF Drawing
<1>2. Submitted
  <2>1. inflight = <<>> /\ pool = <<>> /\ open = FALSE /\ swapchain_ = "ok" /\ current_frame_ = 0 BY DEF FramesInit
  <2>2. 0 \in Slots BY SlotsValue
  <2>3. fence \in [Slots -> {"signaled", "reset"}] BY DEF FramesInit
  <2>4. DOMAIN contents = 0 .. MAX_FRAMES - 1 BY DEF FramesInit
  <2>. QED BY <1>0, <2>1, <2>2, <2>3, <2>4 DEF Submitted
<1>3. DOMAIN inflight = {} /\ ~open /\ inflight = <<>> /\ \A s \in Slots : fence[s] = "signaled" BY DEF FramesInit
<1>4. Fenced BY <1>3 DEF Fenced, FencesWillSignal
<1>5. Stages BY DEF FramesInit, Stages
<1>6. Recorded BY DEF FramesInit, Recorded
<1>7. Indexed BY <1>3 DEF FramesInit, Indexed
<1>. QED BY <1>1, <1>2, <1>4, <1>5, <1>6, <1>7 DEF FramesInv

LEMMA SeqOf == ASSUME NEW S, NEW n \in Nat, NEW s \in [1 .. n -> S] PROVE s \in Seq(S)
BY SeqDef, Zenon

LEMMA OneOf == ASSUME NEW S, NEW x \in S PROVE <<x>> \in Seq(S) /\ Len(<<x>>) = 1 /\ <<x>>[1] = x
OBVIOUS

LEMMA FlushedFacts ==
  ASSUME Drawing
  PROVE  /\ Flushed \in Seq(Recording) /\ Len(Flushed) = Len(recorded) + Len(pending_draws_)
         /\ \A i \in 1 .. Len(recorded) : Flushed[i] = recorded[i]
         /\ \A i \in 1 .. Len(pending_draws_) :
              Flushed[Len(recorded) + i] = [draw |-> pending_draws_[i], under |-> pipeline]
<1> DEFINE p == [i \in DOMAIN pending_draws_ |-> [draw |-> pending_draws_[i], under |-> pipeline]]
           n == Len(pending_draws_)
<1>1. /\ pending_draws_ \in Seq(Nat) /\ DOMAIN pending_draws_ = 1 .. n /\ n \in Nat /\ pipeline \in Bound
      /\ recorded \in Seq(Recording)
  <2>1. pending_draws_ \in Seq(Nat) /\ pipeline \in Bound /\ recorded \in Seq(Recording) BY DEF Drawing
  <2>. QED BY <2>1
<1>2. \A i \in 1 .. n : pending_draws_[i] \in Nat BY <1>1
<1>3. p \in [1 .. n -> Recording] BY <1>1, <1>2 DEF Recording
<1>4. p \in Seq(Recording) /\ Len(p) = n
  <2> HIDE DEF p, n
  <2>1. p \in Seq(Recording) BY <1>1, <1>3, SeqOf
  <2>2. DOMAIN p = 1 .. n /\ DOMAIN p = 1 .. Len(p) /\ Len(p) \in Nat BY <1>3, <2>1
  <2>. QED BY <1>1, <2>1, <2>2
<1>5. Flushed = recorded \o p BY DEF Flushed
<1>6. \A i \in 1 .. n : p[i] = [draw |-> pending_draws_[i], under |-> pipeline] BY <1>1
<1> HIDE DEF p, n
<1>7. /\ Flushed \in Seq(Recording) /\ Len(Flushed) = Len(recorded) + n
      /\ \A i \in 1 .. Len(recorded) + n : Flushed[i] = IF i <= Len(recorded) THEN recorded[i] ELSE p[i - Len(recorded)]
  BY <1>1, <1>4, <1>5, ConcatProperties
<1>8. Len(recorded) \in Nat BY <1>1
<1>9. \A i \in 1 .. Len(recorded) : i \in 1 .. Len(recorded) + n /\ i <= Len(recorded) BY <1>1, <1>8
<1>10. \A i \in 1 .. n : /\ Len(recorded) + i \in 1 .. Len(recorded) + n /\ ~(Len(recorded) + i <= Len(recorded))
                         /\ (Len(recorded) + i) - Len(recorded) = i
  BY <1>1, <1>8
<1>. QED BY <1>6, <1>7, <1>9, <1>10 DEF n

LEMMA InflightFacts ==
  ASSUME Submitted
  PROVE  /\ inflight \in Seq(Submission) /\ Len(inflight) \in Nat /\ DOMAIN inflight = 1 .. Len(inflight)
         /\ \A i \in DOMAIN inflight : inflight[i] \in Submission /\ inflight[i].slot \in Slots
                                       /\ inflight[i].index \in 0 .. MAX_FRAMES
<1>1. inflight \in Seq(Submission) BY DEF Submitted
<1>2. \A i \in DOMAIN inflight : inflight[i] \in Submission BY <1>1
<1>3. \A s \in Submission : s.slot \in Slots /\ s.index \in 0 .. MAX_FRAMES BY DEF Submission
<1>. QED BY <1>1, <1>2, <1>3
-----------------------------------------------------------------------------
\* The frame that is begun is the next slot's, which the device has done with.
LEMMA Begun ==
  ASSUME FramesInv, BeginFrame
  PROVE  /\ ~open /\ ~in_frame_ /\ open' = TRUE /\ UNCHANGED <<current_frame_, inflight, swapchain_>>
         /\ fence' \in [Slots -> {"signaled", "reset"}]
         /\ Fenced'
         /\ \A i \in DOMAIN inflight : i = 1 /\ inflight[i].index \in {current_frame_index_, MAX_FRAMES}
<1>1. /\ Fenced /\ Stages /\ Indexed /\ Submitted BY DEF FramesInv
<1>2. fence[current_frame_] = "signaled" /\ fence' = [fence EXCEPT ![current_frame_] = "reset"]
      /\ open' = TRUE /\ UNCHANGED <<current_frame_, inflight, swapchain_>>
  BY DEF BeginFrame, Waited
<1>3. ~open /\ ~in_frame_ BY <1>1, <1>2 DEF Fenced, Stages
<1>4. fence' \in [Slots -> {"signaled", "reset"}] /\ current_frame_ \in Slots /\ fence'[current_frame_] = "reset"
      /\ \A s \in Slots : s # current_frame_ => fence'[s] = fence[s]
  BY <1>1, <1>2 DEF Submitted
<1>5. \A i \in DOMAIN inflight : inflight[i].slot # current_frame_ BY <1>1, <1>2 DEF Fenced
<1>6. Fenced'
  <2>1. FencesWillSignal' BY <1>1, <1>2, <1>4 DEF Fenced, FencesWillSignal
  <2>2. \A i \in DOMAIN inflight : fence'[inflight[i].slot] = "reset"
    BY <1>1, <1>4, <1>5, InflightFacts DEF Fenced
  <2>. QED BY <1>1, <1>2, <1>4, <1>5, <2>1, <2>2 DEF Fenced
<1>7. ASSUME NEW i \in DOMAIN inflight PROVE i = 1 /\ i = Len(inflight)
  <2>1. \A k \in DOMAIN inflight : inflight[k].slot = 1 - current_frame_
    BY <1>1, <1>5, InflightFacts, SlotsValue DEF Submitted
  <2>2. \A k \in DOMAIN inflight : k = i BY <1>1, <2>1 DEF Fenced
  <2>3. 1 \in DOMAIN inflight /\ Len(inflight) \in DOMAIN inflight BY <1>1, InflightFacts
  <2>. QED BY <2>2, <2>3
<1>8. ASSUME NEW i \in DOMAIN inflight PROVE inflight[i].index \in {current_frame_index_, MAX_FRAMES}
  <2>1. inflight # <<>> BY <1>1, InflightFacts
  <2>. QED BY <1>1, <1>3, <1>7, <2>1 DEF Indexed
<1>. QED BY <1>2, <1>3, <1>4, <1>6, <1>7, <1>8

\* A frame that is submitted is the last in flight.
LEMMA Ended ==
  ASSUME FramesInv, open, NEW drawn \in SUBSET Nat, NEW index \in 0 .. MAX_FRAMES, EndFrame(drawn, index)
  PROVE  /\ ~open' /\ recorded' = <<>> /\ current_frame_' \in Slots /\ UNCHANGED fence
         /\ inflight' \in Seq(Submission) /\ Fenced'
         /\ inflight' # <<>> /\ inflight'[Len(inflight')].index = index
<1> DEFINE f == [slot |-> current_frame_, index |-> index, draws |-> drawn]
           n == Len(inflight)
<1>1. /\ Fenced /\ Submitted /\ current_frame_ \in Slots BY DEF FramesInv, Submitted
<1>2. /\ inflight' = Append(inflight, f) /\ open' = FALSE /\ recorded' = <<>>
      /\ current_frame_' = (current_frame_ + 1) % MAX_FRAMES_IN_FLIGHT /\ UNCHANGED fence
  BY DEF EndFrame
<1>3. f \in Submission /\ f.slot = current_frame_ /\ f.index = index BY <1>1 DEF Submission
<1>4. current_frame_' \in Slots BY <1>1, <1>2, SlotsValue DEF MAX_FRAMES_IN_FLIGHT
<1> HIDE DEF f
<1>5. /\ inflight' \in Seq(Submission) /\ Len(inflight') = n + 1 /\ inflight' # <<>>
      /\ \A i \in 1 .. n : inflight'[i] = inflight[i] /\ inflight'[n + 1] = f
      /\ inflight'[n + 1] = f
  BY <1>1, <1>2, <1>3, InflightFacts, AppendProperties
<1>6. DOMAIN inflight' = 1 .. n + 1 /\ DOMAIN inflight = 1 .. n /\ n \in Nat BY <1>1, <1>5, InflightFacts
<1>7. \A i \in DOMAIN inflight' : i \in 1 .. n \/ i = n + 1 BY <1>6
<1>8. Fenced'
  <2>1. \A i \in DOMAIN inflight : fence[inflight[i].slot] = "reset" /\ inflight[i].slot # current_frame_
    BY <1>1 DEF Fenced
  <2>2. fence[current_frame_] = "reset" BY <1>1 DEF Fenced
  <2>3. \A i \in DOMAIN inflight' : fence'[inflight'[i].slot] = "reset"
    BY <1>2, <1>3, <1>5, <1>6, <1>7, <2>1, <2>2
  <2>4. \A i, j \in DOMAIN inflight' : inflight'[i].slot = inflight'[j].slot => i = j
    <3>1. \A i, j \in DOMAIN inflight : inflight[i].slot = inflight[j].slot => i = j BY <1>1 DEF Fenced
    <3>. QED BY <1>3, <1>5, <1>6, <1>7, <2>1, <3>1
  <2>5. FencesWillSignal'
    <3>1. \A s \in Slots : fence[s] = "reset" => (\E i \in DOMAIN inflight : inflight[i].slot = s) \/ s = current_frame_
      BY <1>1 DEF Fenced, FencesWillSignal
    <3>2. \A s \in Slots : (\E i \in DOMAIN inflight : inflight[i].slot = s) => \E i \in DOMAIN inflight' : inflight'[i].slot = s
      BY <1>5, <1>6
    <3>3. \E i \in DOMAIN inflight' : inflight'[i].slot = current_frame_ BY <1>3, <1>5, <1>6
    <3>. QED BY <1>2, <3>1, <3>2, <3>3 DEF FencesWillSignal
  <2>. QED BY <1>2, <2>3, <2>4, <2>5 DEF Fenced
<1>. QED BY <1>2, <1>3, <1>4, <1>5, <1>8
-----------------------------------------------------------------------------
(* The steps                                                                *)

LEMMA Allocated ==
  ASSUME Submitted, NEW index \in 0 .. MAX_FRAMES - 1, NEW draw \in Nat, Allocate(index, draw)
  PROVE  pool' \in Seq(Buffer) /\ \A b \in DOMAIN pool : b \in DOMAIN pool' /\ pool'[b] = pool[b]
<1> DEFINE buffer == [in_use |-> TRUE, frame |-> index, draw |-> draw]
<1>1. pool \in Seq(Buffer) BY DEF Submitted
<1>2. \A b \in DOMAIN pool : pool[b].in_use
  <2>1. \A b \in DOMAIN pool : pool[b] \in Buffer BY <1>1
  <2>2. \A x \in Buffer : x.in_use = TRUE BY DEF Buffer
  <2>. QED BY <2>1, <2>2
<1>3. FindFree(index) = {} BY <1>2 DEF FindFree
<1>4. pool' = Append(pool, buffer) BY <1>3 DEF Allocate
<1>5. buffer \in Buffer BY SlotsValue DEF Buffer
<1> HIDE DEF buffer
<1>6. pool' \in Seq(Buffer) /\ Len(pool') = Len(pool) + 1 /\ \A b \in 1 .. Len(pool) : pool'[b] = pool[b]
  BY <1>1, <1>4, <1>5, AppendProperties
<1>7. DOMAIN pool = 1 .. Len(pool) /\ DOMAIN pool' = 1 .. Len(pool') /\ Len(pool) \in Nat BY <1>1, <1>6
<1>. QED BY <1>6, <1>7

LEMMA DrawStep ==
  ASSUME Batched, FramesInv, NEW p \in Pipeline, NEW textures \in BOOLEAN, Draw(p, textures)
  PROVE  FramesInv' /\ Reads
<1> DEFINE flushed == BindFlushes(p) \/ Len(pending_draws_) = kMaxBatchedDraws
           n == Len(recorded)
           m == Len(pending_draws_)
           d == draws + 1
           rec == [draw |-> d, under |-> p]
<1>1. Drawing /\ Submitted /\ Fenced /\ Stages /\ Recorded /\ Indexed BY DEF FramesInv
<1>2. /\ at = "packets" /\ in_frame_ /\ open
      /\ draws' = d /\ pipeline' = p /\ wanted' = Append(wanted, rec)
      /\ recorded' = (IF flushed THEN Flushed ELSE recorded)
      /\ pending_draws_' = Append(IF flushed THEN <<>> ELSE pending_draws_, d)
      /\ Upload(current_frame_index_, textures) /\ Allocate(current_frame_index_, d)
      /\ UNCHANGED <<at, cmd, in_frame_, current_frame_index_, current_frame_, fence, open, inflight, surface>>
  BY <1>1 DEF Draw, DrawIn, Stages
<1>3. /\ n \in Nat /\ m \in Nat /\ m <= kMaxBatchedDraws /\ d \in Nat /\ rec \in Recording /\ p \in Bound
      /\ recorded \in Seq(Recording) /\ pending_draws_ \in Seq(Nat) /\ wanted \in Seq(Recording)
      /\ current_frame_index_ \in 0 .. MAX_FRAMES - 1
  <2>1. /\ recorded \in Seq(Recording) /\ pending_draws_ \in Seq(Nat) /\ wanted \in Seq(Recording)
        /\ draws \in Nat /\ Len(pending_draws_) <= kMaxBatchedDraws /\ current_frame_index_ \in 0 .. MAX_FRAMES - 1
    BY <1>1 DEF Drawing
  <2>. QED BY <2>1 DEF Recording, Bound
<1>4. n + m = Len(wanted) /\ \A i \in 1 .. m : wanted[n + i] = [draw |-> pending_draws_[i], under |-> pipeline]
  BY <1>1, <1>2 DEF Recorded
<1>5. \A i \in 1 .. n : recorded[i] = wanted[i] BY <1>1, <1>2 DEF Recorded
<1> HIDE DEF flushed, rec, d
<1>6. /\ wanted' \in Seq(Recording) /\ Len(wanted') = n + m + 1 /\ wanted'[n + m + 1] = rec
      /\ \A i \in 1 .. n + m : wanted'[i] = wanted[i]
  BY <1>2, <1>3, <1>4, AppendProperties
<1>7. ASSUME flushed PROVE Recorded' /\ Drawing'
  <2>1. recorded' = Flushed /\ pending_draws_' = <<d>> BY <1>2, <1>7
  <2>2. /\ recorded' \in Seq(Recording) /\ Len(recorded') = n + m
        /\ \A i \in 1 .. n : recorded'[i] = wanted[i]
        /\ \A i \in 1 .. m : recorded'[n + i] = wanted[n + i]
    BY <1>1, <1>4, <1>5, <2>1, FlushedFacts
  <2>3. \A i \in 1 .. n + m : recorded'[i] = wanted'[i]
    <3>1. \A i \in 1 .. n + m : i \in 1 .. n \/ (i - n \in 1 .. m /\ n + (i - n) = i) BY <1>3
    <3>2. \A i \in 1 .. n + m : recorded'[i] = wanted[i] BY <2>2, <3>1
    <3>. QED BY <1>6, <3>2
  <2>4. pending_draws_' \in Seq(Nat) /\ Len(pending_draws_') = 1 /\ pending_draws_'[1] = d BY <1>3, <2>1
  <2>5. Recorded'
    <3>1. \A i \in 1 .. 1 : i = 1 /\ wanted'[n + m + i] = [draw |-> pending_draws_'[i], under |-> pipeline']
      BY <1>2, <1>6, <2>4 DEF rec
    <3>2. Len(recorded') <= Len(wanted') BY <1>3, <1>6, <2>2
    <3>. QED BY <1>2, <1>6, <2>2, <2>3, <2>4, <3>1, <3>2 DEF Recorded
  <2>6. Drawing' BY <1>1, <1>2, <1>3, <1>6, <2>2, <2>4 DEF Drawing, Batched
  <2>. QED BY <2>5, <2>6
<1>8. ASSUME ~flushed PROVE Recorded' /\ Drawing'
  <2>1. recorded' = recorded /\ pending_draws_' = Append(pending_draws_, d) /\ p = pipeline
        /\ m # kMaxBatchedDraws
    BY <1>2, <1>8 DEF flushed, BindFlushes
  <2>2. /\ pending_draws_' \in Seq(Nat) /\ Len(pending_draws_') = m + 1 /\ pending_draws_'[m + 1] = d
        /\ \A i \in 1 .. m : pending_draws_'[i] = pending_draws_[i]
    BY <1>3, <2>1, AppendProperties
  <2>3. Recorded'
    <3>1. \A i \in 1 .. n : recorded'[i] = wanted'[i]
      <4>1. \A i \in 1 .. n : i \in 1 .. n + m BY <1>3
      <4>. QED BY <1>5, <1>6, <2>1, <4>1
    <3>2. \A i \in 1 .. m + 1 : wanted'[n + i] = [draw |-> pending_draws_'[i], under |-> pipeline']
      <4>1. \A i \in 1 .. m + 1 : i = m + 1 \/ (i \in 1 .. m /\ n + i \in 1 .. n + m) BY <1>3
      <4>2. n + (m + 1) = n + m + 1 BY <1>3
      <4>. QED BY <1>2, <1>4, <1>6, <2>1, <2>2, <4>1, <4>2 DEF rec
    <3>3. n <= Len(wanted') /\ n + (m + 1) = Len(wanted') BY <1>3, <1>6
    <3>. QED BY <1>2, <2>1, <2>2, <3>1, <3>2, <3>3 DEF Recorded
  <2>4. m + 1 <= kMaxBatchedDraws BY <1>3, <2>1 DEF Batched
  <2>5. Drawing' BY <1>1, <1>2, <1>3, <1>6, <2>1, <2>2, <2>4 DEF Drawing
  <2>. QED BY <2>3, <2>5
<1>9. /\ \A i \in DOMAIN contents : i # current_frame_index_ => contents'[i] = contents[i]
      /\ DOMAIN contents' = DOMAIN contents
  BY <1>2 DEF Upload
<1>10. pool' \in Seq(Buffer) /\ \A b \in DOMAIN pool : pool'[b] = pool[b] BY <1>1, <1>2, <1>3, Allocated
<1>11. Submitted' BY <1>1, <1>2, <1>9, <1>10 DEF Submitted, surface
<1>12. Fenced' /\ Stages' /\ Indexed' BY <1>1, <1>2 DEF Fenced, FencesWillSignal, Stages, Indexed
<1>13. Reads BY <1>1, <1>2, <1>9, <1>10 DEF Reads, Indexed
<1>14. Recorded' /\ Drawing' BY <1>7, <1>8
<1>. QED BY <1>11, <1>12, <1>13, <1>14 DEF FramesInv

\* The frame index of a frame that is begun is not one the device reads.
LEMMA NextIndexFree ==
  ASSUME FramesInv, BeginFrame
  PROVE  /\ NextIndex \in 0 .. MAX_FRAMES - 1
         /\ \A i \in DOMAIN inflight : inflight[i].index # NextIndex
<1>1. current_frame_index_ \in {0, 1, 2}
  <2>1. current_frame_index_ \in 0 .. MAX_FRAMES - 1 BY DEF FramesInv, Drawing
  <2>. QED BY <2>1, SlotsValue
<1>2. NextIndex \in {0, 1, 2} /\ NextIndex # current_frame_index_ /\ NextIndex # MAX_FRAMES
  BY <1>1 DEF NextIndex, MAX_FRAMES
<1>. QED BY <1>2, Begun, SlotsValue

LEMMA FirstDrawnStep == ASSUME Batched, FramesInv, FirstDrawn PROVE FramesInv' /\ Reads
<1> DEFINE d == draws + 1
<1>1. /\ at = "begin draw" /\ at' = "packets" /\ BeginFrame /\ in_frame_' = TRUE /\ current_frame_index_' = NextIndex
      /\ draws' = d /\ pipeline' = cmd.pipeline /\ pending_draws_' = <<d>> /\ recorded' = <<>>
      /\ Upload(NextIndex, cmd.textures) /\ Allocate(NextIndex, d)
      /\ wanted' = <<[draw |-> d, under |-> cmd.pipeline]>> /\ cmd' = NoDraw
  BY DEF FirstDrawn
<1>2. Drawing /\ Submitted BY DEF FramesInv
<1>3. d \in Nat /\ cmd.pipeline \in Bound /\ [draw |-> d, under |-> cmd.pipeline] \in Recording
  <2>1. draws \in Nat /\ cmd \in [pipeline : Bound, textures : BOOLEAN] BY <1>2 DEF Drawing
  <2>. QED BY <2>1 DEF Recording
<1> HIDE DEF d
<1>4. Drawing'
  <2>1. pending_draws_' \in Seq(Nat) /\ Len(pending_draws_') = 1 /\ 1 <= kMaxBatchedDraws
    <3>1. pending_draws_' = <<d>> /\ d \in Nat BY <1>1, <1>3
    <3>2. 1 <= kMaxBatchedDraws BY DEF Batched
    <3>. QED BY <3>1, <3>2, OneOf
  <2>2. recorded' \in Seq(Recording) /\ wanted' \in Seq(Recording)
    <3>1. <<>> \in Seq(Recording) OBVIOUS
    <3>. QED BY <1>1, <1>3, <3>1, OneOf
  <2>3. cmd' \in [pipeline : Bound, textures : BOOLEAN] BY <1>1 DEF NoDraw, Bound
  <2>. QED BY <1>1, <1>3, <2>1, <2>2, <2>3, NextIndexFree DEF Drawing
<1>5. /\ DOMAIN contents' = DOMAIN contents
      /\ \A i \in DOMAIN contents : i # NextIndex => contents'[i] = contents[i]
  BY <1>1 DEF Upload
<1>6. pool' \in Seq(Buffer) /\ \A b \in DOMAIN pool : pool'[b] = pool[b]
  BY <1>1, <1>2, <1>3, NextIndexFree, Allocated
<1>7. Submitted' BY <1>1, <1>2, <1>5, <1>6, Begun DEF Submitted
<1>8. Fenced' BY <1>1, Begun
<1>9. Stages' BY <1>1, Begun DEF Stages
<1>10. Recorded'
  <2>1. Len(recorded') = 0 /\ Len(wanted') = 1 /\ Len(pending_draws_') = 1 BY <1>1
  <2>2. \A i \in 1 .. 1 : i = 1 /\ 0 + i = 1 OBVIOUS
  <2>3. wanted'[1] = [draw |-> pending_draws_'[1], under |-> pipeline'] BY <1>1
  <2>4. \A i \in 1 .. Len(recorded') : recorded'[i] = wanted'[i] BY <2>1
  <2>5. \A i \in 1 .. Len(pending_draws_') :
          wanted'[Len(recorded') + i] = [draw |-> pending_draws_'[i], under |-> pipeline']
    BY <2>1, <2>2, <2>3
  <2>6. Len(recorded') <= Len(wanted') /\ Len(recorded') + Len(pending_draws_') = Len(wanted') BY <2>1
  <2>. QED BY <1>1, <2>4, <2>5, <2>6 DEF Recorded
<1>11. Indexed' BY <1>1, Begun, NextIndexFree DEF Indexed
<1>12. Reads BY <1>1, <1>5, <1>6, NextIndexFree DEF Reads
<1>. QED BY <1>4, <1>7, <1>8, <1>9, <1>10, <1>11, <1>12 DEF FramesInv

LEMMA FirstSkippedStep == ASSUME Batched, FramesInv, FirstSkipped PROVE FramesInv' /\ Reads
<1>1. /\ at' = "packets" /\ BeginFrame /\ in_frame_' = TRUE /\ current_frame_index_' = NextIndex
      /\ pipeline' = None /\ pending_draws_' = <<>> /\ recorded' = <<>> /\ wanted' = <<>> /\ cmd' = NoDraw
      /\ UNCHANGED <<data, draws>>
  BY DEF FirstSkipped
<1>2. Drawing /\ Submitted BY DEF FramesInv
<1>3. Drawing'
  <2>1. pending_draws_' \in Seq(Nat) /\ Len(pending_draws_') = 0 /\ 0 <= kMaxBatchedDraws BY <1>1 DEF Batched
  <2>2. recorded' \in Seq(Recording) /\ wanted' \in Seq(Recording) BY <1>1
  <2>3. cmd' \in [pipeline : Bound, textures : BOOLEAN] BY <1>1 DEF NoDraw, Bound
  <2>4. pipeline' \in Bound BY <1>1 DEF Bound
  <2>. QED BY <1>1, <1>2, <2>1, <2>2, <2>3, <2>4, NextIndexFree DEF Drawing
<1>4. Submitted' BY <1>1, <1>2, Begun DEF Submitted, data
<1>5. Fenced' /\ Stages' BY <1>1, Begun DEF Stages
<1>6. Recorded'
  <2>1. Len(recorded') = 0 /\ Len(wanted') = 0 /\ Len(pending_draws_') = 0 /\ 1 .. 0 = {} BY <1>1
  <2>. QED BY <1>1, <2>1 DEF Recorded
<1>7. Indexed' BY <1>1, Begun, NextIndexFree DEF Indexed
<1>8. Reads BY <1>1 DEF Reads, data
<1>. QED BY <1>3, <1>4, <1>5, <1>6, <1>7, <1>8 DEF FramesInv

\* A frame that fails to begin, a stage of Present's and a flag of the
\* application's disturb nothing of the invariant's.
LEMMA QuietStep ==
  ASSUME FramesInv, at' \in {"packets", "present", "recover", "retry", "suboptimal", "begin draw"},
         at' \in {"suboptimal", "begin draw"} => ~in_frame_,
         cmd' \in [pipeline : Bound, textures : BOOLEAN], swapchain_' \in {"ok", None},
         UNCHANGED <<in_frame_, current_frame_index_, batch, data, device, wanted, draws>>
  PROVE  FramesInv' /\ Reads
<1>1. Drawing' BY DEF FramesInv, Drawing, batch, device
<1>2. Submitted' BY DEF FramesInv, Submitted, data, device
<1>3. Fenced' BY DEF FramesInv, Fenced, FencesWillSignal, device
<1>4. Stages' BY DEF FramesInv, Stages, device
<1>5. Recorded' BY DEF FramesInv, Recorded, batch, device
<1>6. Indexed' BY DEF FramesInv, Indexed, device
<1>7. Reads BY DEF Reads, data
<1>. QED BY <1>1, <1>2, <1>3, <1>4, <1>5, <1>6, <1>7 DEF FramesInv

LEMMA StreamFlushed ==
  ASSUME FramesInv, in_frame_
  PROVE  /\ open /\ Flushed \in Seq(Recording) /\ Len(Flushed) = Len(wanted)
         /\ \A i \in 1 .. Len(Flushed) : Flushed[i] = wanted[i]
         /\ {Flushed[i].draw : i \in DOMAIN Flushed} \in SUBSET Nat
<1> DEFINE n == Len(recorded)
           m == Len(pending_draws_)
<1>1. Drawing /\ Recorded /\ open BY DEF FramesInv, Stages
<1>2. n \in Nat /\ m \in Nat
  <2>1. recorded \in Seq(Recording) /\ pending_draws_ \in Seq(Nat) BY <1>1 DEF Drawing
  <2>. QED BY <2>1
<1>3. Flushed \in Seq(Recording) /\ Len(Flushed) = n + m /\ n + m = Len(wanted) BY <1>1, FlushedFacts DEF Recorded
<1>4. \A i \in 1 .. n : Flushed[i] = wanted[i] BY <1>1, FlushedFacts DEF Recorded
<1>5. \A i \in 1 .. m : Flushed[n + i] = wanted[n + i] BY <1>1, FlushedFacts DEF Recorded
<1>6. \A i \in 1 .. n + m : i \in 1 .. n \/ (i - n \in 1 .. m /\ n + (i - n) = i) BY <1>2
<1>7. \A i \in 1 .. n + m : Flushed[i] = wanted[i] BY <1>4, <1>5, <1>6
<1>8. \A i \in DOMAIN Flushed : Flushed[i].draw \in Nat
  <2>1. \A i \in DOMAIN Flushed : Flushed[i] \in Recording BY <1>3
  <2>2. \A r \in Recording : r.draw \in Nat BY DEF Recording
  <2>. QED BY <2>1, <2>2
<1>. QED BY <1>1, <1>3, <1>7, <1>8

LEMMA ResolveStep == ASSUME Batched, FramesInv, Resolve PROVE FramesInv' /\ Reads
<1>1. /\ at = "packets" /\ in_frame_ /\ pending_draws_' = <<>>
      /\ UNCHANGED <<cmd, current_frame_index_, pipeline, data, surface, draws>>
  BY DEF Resolve
<1>2. Drawing /\ Submitted /\ Fenced /\ Stages /\ Recorded /\ Indexed BY DEF FramesInv
<1>3. pending_draws_' \in Seq(Nat) /\ Len(pending_draws_') = 0 /\ 0 <= kMaxBatchedDraws BY <1>1 DEF Batched
<1>4. Reads BY <1>1 DEF Reads, data
<1> DEFINE drawn == {Flushed[i].draw : i \in DOMAIN Flushed}
<1>5. ASSUME EndFrame(drawn, current_frame_index_), in_frame_' = FALSE, at' = "present", wanted' = <<>> PROVE FramesInv'
  <2>1. drawn \in SUBSET Nat /\ open /\ current_frame_index_ \in 0 .. MAX_FRAMES
    BY <1>1, <1>2, StreamFlushed, SlotsValue DEF Drawing
  <2> HIDE DEF drawn
  <2>2. /\ ~open' /\ open' = FALSE /\ recorded' = <<>> /\ current_frame_' \in Slots /\ UNCHANGED fence
        /\ inflight' \in Seq(Submission) /\ Fenced'
        /\ inflight' # <<>> /\ inflight'[Len(inflight')].index = current_frame_index_
    <3>1. open' = FALSE BY <1>5 DEF EndFrame
    <3>. QED BY <1>5, <2>1, <3>1, Ended
  <2>3. wanted' \in Seq(Recording) /\ recorded' \in Seq(Recording) BY <1>5, <2>2
  <2>4. Drawing' BY <1>1, <1>2, <1>3, <1>5, <2>3 DEF Drawing
  <2>5. Submitted' BY <1>1, <1>2, <2>2 DEF Submitted, data, surface
  <2>6. Stages' BY <1>5 DEF Stages
  <2>7. Recorded' BY <1>1, <1>5, <2>2 DEF Recorded
  <2>8. Indexed' BY <1>1, <1>5, <2>2 DEF Indexed
  <2>. QED BY <2>2, <2>4, <2>5, <2>6, <2>7, <2>8 DEF FramesInv
<1>6. ASSUME recorded' = Flushed, UNCHANGED <<at, in_frame_, current_frame_, fence, open, inflight, wanted>> PROVE FramesInv'
  <2>1. Drawing' BY <1>1, <1>2, <1>3, <1>6, StreamFlushed DEF Drawing
  <2>2. Submitted' BY <1>1, <1>2, <1>6 DEF Submitted, data, surface
  <2>3. Fenced' /\ Stages' /\ Indexed' BY <1>1, <1>2, <1>6 DEF Fenced, FencesWillSignal, Stages, Indexed
  <2>4. Recorded'
    <3>1. wanted \in Seq(Recording) BY <1>2 DEF Drawing
    <3>2. Len(wanted) \in Nat /\ 1 .. 0 = {} BY <3>1
    <3>. QED BY <1>1, <1>3, <1>6, <3>2, StreamFlushed DEF Recorded
  <2>. QED BY <2>1, <2>2, <2>3, <2>4 DEF FramesInv
<1>. QED BY <1>4, <1>5, <1>6 DEF Resolve
LEMMA SwapStep == ASSUME Batched, FramesInv, Swap PROVE FramesInv' /\ Reads
<1>1. /\ at' = "present" /\ recorded' = Flushed /\ pending_draws_' = <<>> /\ in_frame_' = FALSE
      /\ UNCHANGED <<cmd, current_frame_index_, pipeline, data, current_frame_, fence, open,
                     inflight, surface, wanted, draws>>
  BY DEF Swap
<1>2. Drawing /\ Submitted /\ Fenced /\ Recorded /\ Indexed BY DEF FramesInv
<1>3. pending_draws_' \in Seq(Nat) /\ Len(pending_draws_') = 0 /\ 0 <= kMaxBatchedDraws BY <1>1 DEF Batched
<1>4. Drawing' BY <1>1, <1>2, <1>3, FlushedFacts DEF Drawing
<1>5. Submitted' BY <1>1, <1>2 DEF Submitted, data, surface
<1>6. Fenced' BY <1>1, <1>2 DEF Fenced, FencesWillSignal
<1>7. Stages' BY <1>1 DEF Stages
<1>8. open => /\ Len(Flushed) <= Len(wanted)
              /\ \A i \in 1 .. Len(Flushed) : Flushed[i] = wanted[i]
  <2>1. wanted \in Seq(Recording) /\ recorded \in Seq(Recording) BY <1>2 DEF Drawing
  <2>2. Len(wanted) \in Nat /\ Len(recorded) \in Nat BY <2>1
  <2>3. CASE in_frame_ BY <2>2, <2>3, StreamFlushed
  <2>4. CASE ~in_frame_
    <3>1. Len(pending_draws_) = 0 BY <1>2, <2>4 DEF Recorded
    <3>2. Len(Flushed) = Len(recorded) /\ \A i \in 1 .. Len(recorded) : Flushed[i] = recorded[i]
      BY <1>2, <2>2, <3>1, FlushedFacts
    <3>. QED BY <1>2, <3>2 DEF Recorded
  <2>. QED BY <2>3, <2>4
<1>9. Recorded' BY <1>1, <1>8 DEF Recorded
<1>10. Indexed' BY <1>1, <1>2 DEF Indexed
<1>11. Reads BY <1>1 DEF Reads, data
<1>. QED BY <1>4, <1>5, <1>6, <1>7, <1>9, <1>10, <1>11 DEF FramesInv

LEMMA PresentBeginStep == ASSUME FramesInv, PresentBegin PROVE FramesInv' /\ Reads
<1>1. /\ at' = "end" /\ recorded' = <<>> /\ BeginFrame
      /\ UNCHANGED <<cmd, in_frame_, current_frame_index_, batch, data, wanted, draws>>
  BY DEF PresentBegin, Stage
<1>2. Drawing /\ Submitted /\ Recorded /\ ~in_frame_ BY <1>1, Begun DEF FramesInv
<1>3. wanted \in Seq(Recording) BY <1>2 DEF Drawing
<1>4. recorded' \in Seq(Recording) /\ Len(recorded') = 0 /\ Len(recorded') <= Len(wanted) /\ 1 .. 0 = {} BY <1>1, <1>3
<1>5. Drawing' BY <1>1, <1>2, <1>4 DEF Drawing, batch
<1>6. Submitted' BY <1>1, <1>2, Begun DEF Submitted, data
<1>7. Fenced' /\ Stages' BY <1>1, <1>2, Begun DEF Stages
<1>8. Recorded' BY <1>1, <1>2, <1>4 DEF Recorded, batch
<1>9. Indexed' BY <1>1, <1>2, Begun DEF Indexed
<1>10. Reads BY <1>1 DEF Reads, data
<1>. QED BY <1>5, <1>6, <1>7, <1>8, <1>9, <1>10 DEF FramesInv

LEMMA PresentEndStep == ASSUME FramesInv, PresentEnd PROVE FramesInv' /\ Reads
<1>1. /\ at = "end" /\ at' \in {"packets", "suboptimal"} /\ EndFrame({}, MAX_FRAMES)
      /\ UNCHANGED <<cmd, in_frame_, current_frame_index_, batch, data, wanted, draws, surface>>
  BY DEF PresentEnd, Stage
<1>2. Drawing /\ Submitted /\ Recorded /\ ~in_frame_ /\ open BY <1>1 DEF FramesInv, Stages
<1>3. /\ open' = FALSE /\ recorded' = <<>> /\ current_frame_' \in Slots /\ UNCHANGED fence
      /\ inflight' \in Seq(Submission) /\ Fenced'
      /\ inflight' # <<>> /\ inflight'[Len(inflight')].index = MAX_FRAMES
  <2>1. open' = FALSE BY <1>1 DEF EndFrame
  <2>2. {} \in SUBSET Nat /\ MAX_FRAMES \in 0 .. MAX_FRAMES BY DEF MAX_FRAMES
  <2>. QED BY <1>1, <1>2, <2>1, <2>2, Ended
<1>4. <<>> \in Seq(Recording) OBVIOUS
<1>5. Drawing' BY <1>1, <1>2, <1>3, <1>4 DEF Drawing, batch
<1>6. Submitted' BY <1>1, <1>2, <1>3 DEF Submitted, data, surface
<1>7. Stages' BY <1>1, <1>2 DEF Stages
<1>8. Recorded' BY <1>1, <1>2, <1>3 DEF Recorded, batch
<1>9. Indexed' BY <1>1, <1>2, <1>3 DEF Indexed
<1>10. Reads BY <1>1 DEF Reads, data
<1>. QED BY <1>3, <1>5, <1>6, <1>7, <1>8, <1>9, <1>10 DEF FramesInv

\* The device signals the oldest submission's fence, and no other.
LEMMA CompleteStep == ASSUME FramesInv, Complete PROVE FramesInv' /\ Reads
<1> DEFINE n == Len(inflight)
           s == Head(inflight).slot
<1>1. /\ inflight # <<>> /\ fence' = [fence EXCEPT ![s] = "signaled"] /\ inflight' = Tail(inflight)
      /\ UNCHANGED <<at, cmd, in_frame_, current_frame_index_, batch, data, current_frame_, open, recorded,
                     surface, wanted, draws>>
  BY DEF Complete
<1>2. Drawing /\ Submitted /\ Fenced /\ Stages /\ Recorded /\ Indexed BY DEF FramesInv
<1>3. /\ n \in Nat /\ DOMAIN inflight = 1 .. n /\ n >= 1 /\ s = inflight[1].slot
      /\ inflight' \in Seq(Submission) /\ Len(inflight') = n - 1 /\ DOMAIN inflight' = 1 .. n - 1
      /\ \A i \in 1 .. n - 1 : inflight'[i] = inflight[i + 1]
  <2>1. inflight \in Seq(Submission) BY <1>2, InflightFacts
  <2>2. n \in Nat /\ DOMAIN inflight = 1 .. n BY <2>1
  <2>3. n >= 1 /\ Head(inflight) = inflight[1] BY <1>1, <2>1
  <2>4. inflight' \in Seq(Submission) /\ Len(inflight') = n - 1 /\ \A i \in 1 .. n - 1 : inflight'[i] = inflight[i + 1]
    BY <1>1, <2>1, HeadTailProperties
  <2>5. DOMAIN inflight' = 1 .. n - 1 BY <2>4
  <2>. QED BY <2>2, <2>3, <2>4, <2>5
<1>4. /\ \A i \in 1 .. n - 1 : i \in 1 .. n /\ i + 1 \in 1 .. n /\ i + 1 # 1
      /\ \A i \in 1 .. n : i = 1 \/ (i - 1 \in 1 .. n - 1 /\ (i - 1) + 1 = i)
      /\ 1 \in 1 .. n /\ \A i, j \in 1 .. n - 1 : i + 1 = j + 1 => i = j
  BY <1>3
<1>5. s \in Slots BY <1>2, <1>3, <1>4, InflightFacts
<1>6. /\ fence' \in [Slots -> {"signaled", "reset"}] /\ fence'[s] = "signaled"
      /\ \A t \in Slots : t # s => fence'[t] = fence[t]
  BY <1>1, <1>2, <1>5 DEF Submitted
<1> HIDE DEF n, s
<1>7. \A i, j \in 1 .. n : inflight[i].slot = inflight[j].slot => i = j BY <1>2, <1>3 DEF Fenced
<1>8. \A i \in 1 .. n - 1 : inflight'[i].slot # s /\ inflight'[i].slot \in Slots
  <2>1. \A i \in 1 .. n : inflight[i].slot \in Slots BY <1>2, <1>3, InflightFacts
  <2>. QED BY <1>3, <1>4, <1>7, <2>1
<1>9. Fenced'
  <2>1. open' => fence'[current_frame_'] = "reset" /\ \A i \in DOMAIN inflight' : inflight'[i].slot # current_frame_'
    <3>1. open => /\ fence[current_frame_] = "reset" /\ \A i \in 1 .. n : inflight[i].slot # current_frame_
      BY <1>2, <1>3 DEF Fenced
    <3>2. current_frame_ \in Slots BY <1>2 DEF Submitted
    <3>. QED BY <1>1, <1>3, <1>4, <1>6, <3>1, <3>2
  <2>2. \A i \in DOMAIN inflight' : fence'[inflight'[i].slot] = "reset"
    <3>1. \A i \in 1 .. n : fence[inflight[i].slot] = "reset" BY <1>2, <1>3 DEF Fenced
    <3>. QED BY <1>3, <1>4, <1>6, <1>8, <3>1
  <2>3. \A i, j \in DOMAIN inflight' : inflight'[i].slot = inflight'[j].slot => i = j
    <3>. SUFFICES ASSUME NEW i \in 1 .. n - 1, NEW j \in 1 .. n - 1, inflight'[i].slot = inflight'[j].slot PROVE i = j
      BY <1>3
    <3>1. i + 1 = j + 1 BY <1>3, <1>4, <1>7
    <3>. QED BY <1>4, <3>1
  <2>4. ASSUME NEW t \in Slots, fence'[t] = "reset"
        PROVE  (\E i \in DOMAIN inflight' : inflight'[i].slot = t) \/ (open' /\ t = current_frame_')
    <3>1. t # s /\ fence[t] = "reset" BY <1>6, <2>4
    <3>2. (\E i \in 1 .. n : inflight[i].slot = t) \/ (open /\ t = current_frame_)
      BY <1>2, <1>3, <3>1 DEF Fenced, FencesWillSignal
    <3>3. CASE \E i \in 1 .. n : inflight[i].slot = t
      <4>1. PICK i \in 1 .. n : inflight[i].slot = t BY <3>3
      <4>2. i # 1 BY <1>3, <3>1, <4>1
      <4>3. i - 1 \in 1 .. n - 1 /\ inflight'[i - 1] = inflight[i] BY <1>3, <1>4, <4>2
      <4>. QED BY <1>3, <4>1, <4>3
    <3>. QED BY <1>1, <3>2, <3>3
  <2>5. FencesWillSignal' BY <2>4 DEF FencesWillSignal
  <2>. QED BY <2>1, <2>2, <2>3, <2>5 DEF Fenced
<1>10. Drawing' BY <1>1, <1>2 DEF Drawing, batch
<1>11. Submitted' BY <1>1, <1>2, <1>3, <1>6 DEF Submitted, data, surface
<1>12. Stages' BY <1>1, <1>2 DEF Stages
<1>13. Recorded' BY <1>1, <1>2 DEF Recorded, batch
<1>14. Indexed'
  <2>1. in_frame_ => \A i \in 1 .. n : inflight[i].index # current_frame_index_ BY <1>2, <1>3 DEF Indexed
  <2>2. in_frame_' => \A i \in DOMAIN inflight' : inflight'[i].index # current_frame_index_' BY <1>1, <1>3, <1>4, <2>1
  <2>3. ASSUME ~open', inflight' # <<>> PROVE inflight'[Len(inflight')].index \in {current_frame_index_', MAX_FRAMES}
    <3>1. n - 1 \in 1 .. n - 1 /\ (n - 1) + 1 = n
      <4>1. Len(inflight') # 0 BY <1>3, <2>3
      <4>. QED BY <1>3, <4>1
    <3>2. inflight'[Len(inflight')] = inflight[n] BY <1>3, <3>1
    <3>. QED BY <1>1, <1>2, <2>3, <3>2 DEF Indexed, n
  <2>. QED BY <2>2, <2>3 DEF Indexed
<1>15. Reads BY <1>1 DEF Reads, data
<1>. QED BY <1>9, <1>10, <1>11, <1>12, <1>13, <1>14, <1>15 DEF FramesInv

LEMMA StepFrames == ASSUME Batched, FramesInv, FramesNext PROVE FramesInv' /\ Reads
<1>1. cmd \in [pipeline : Bound, textures : BOOLEAN] /\ swapchain_ \in {"ok", None} BY DEF FramesInv, Drawing, Submitted
<1>2. NoDraw \in [pipeline : Bound, textures : BOOLEAN] BY DEF NoDraw, Bound
<1>3. ASSUME NEW p \in Pipeline, NEW textures \in BOOLEAN, Draw(p, textures) PROVE FramesInv' /\ Reads BY <1>3, DrawStep
<1>4. ASSUME NEW p \in Pipeline, NEW textures \in BOOLEAN, FirstDraw(p, textures) PROVE FramesInv' /\ Reads
  <2>1. /\ at' = "begin draw" /\ ~in_frame_ /\ cmd' = [pipeline |-> p, textures |-> textures]
        /\ UNCHANGED <<in_frame_, current_frame_index_, batch, data, device, surface, wanted, draws>>
    BY <1>4 DEF FirstDraw
  <2>2. cmd' \in [pipeline : Bound, textures : BOOLEAN] BY <2>1 DEF Bound
  <2>3. swapchain_' \in {"ok", None} BY <1>1, <2>1 DEF surface
  <2>. QED BY <2>1, <2>2, <2>3, QuietStep
<1>5. ASSUME FirstDropped PROVE FramesInv' /\ Reads
  <2>1. /\ at' = "packets" /\ cmd' = NoDraw
        /\ UNCHANGED <<in_frame_, current_frame_index_, batch, data, device, swapchain_, wanted, draws>>
    BY <1>5 DEF FirstDropped, BeginFails
  <2>. QED BY <1>1, <1>2, <2>1, QuietStep
<1>6. ASSUME SetConstants PROVE FramesInv' /\ Reads
  <2>1. /\ at' = "packets" /\ UNCHANGED <<cmd, in_frame_, current_frame_index_, batch, data, device, swapchain_, wanted, draws>>
    BY <1>6 DEF SetConstants, surface
  <2>. QED BY <1>1, <2>1, QuietStep
<1>7. ASSUME SlowFrame PROVE FramesInv' /\ Reads
  <2>1. /\ at' = "present" /\ UNCHANGED <<cmd, in_frame_, current_frame_index_, batch, data, device, swapchain_, wanted, draws>>
    BY <1>7 DEF SlowFrame, surface
  <2>. QED BY <1>1, <2>1, QuietStep
<1>8. ASSUME Present PROVE FramesInv' /\ Reads
  <2>1. CASE PresentNothing
    <3>1. /\ at' = "packets" /\ UNCHANGED <<cmd, in_frame_, current_frame_index_, batch, data, device, swapchain_, wanted, draws>>
      BY <2>1 DEF PresentNothing, Stage, BeginFails, surface
    <3>. QED BY <1>1, <3>1, QuietStep
  <2>2. CASE PresentFails
    <3>1. /\ at' = "recover" /\ UNCHANGED <<cmd, in_frame_, current_frame_index_, batch, data, device, swapchain_, wanted, draws>>
      BY <2>2 DEF PresentFails, Stage, BeginFails
    <3>. QED BY <1>1, <3>1, QuietStep
  <2>3. CASE Recover
    <3>1. /\ at' \in {"packets", "retry"} /\ swapchain_' \in {"ok", None}
          /\ UNCHANGED <<cmd, in_frame_, current_frame_index_, batch, data, device, wanted, draws>>
      BY <2>3 DEF Recover, Recreate, Stage
    <3>. QED BY <1>1, <3>1, QuietStep
  <2>. QED BY <1>8, <2>1, <2>2, <2>3, PresentBeginStep, PresentEndStep DEF Present
<1>9. ASSUME Resize \/ SetPresentMode PROVE FramesInv' /\ Reads
  <2>1. /\ swapchain_' \in {"ok", None}
        /\ UNCHANGED <<at, cmd, in_frame_, current_frame_index_, batch, data, device, wanted, draws>>
    BY <1>1, <1>9 DEF Resize, Recreate, SetPresentMode
  <2>2. CASE at' \in {"packets", "present", "recover", "retry", "suboptimal", "begin draw"}
    <3>1. at' \in {"suboptimal", "begin draw"} => ~in_frame_ BY <2>1 DEF FramesInv, Stages
    <3>. QED BY <1>1, <2>1, <2>2, <3>1, QuietStep
  <2>3. CASE at' = "end"
    <3>1. Drawing' BY <2>1 DEF FramesInv, Drawing, batch, device
    <3>2. Submitted' BY <2>1 DEF FramesInv, Submitted, data, device
    <3>3. Fenced' BY <2>1 DEF FramesInv, Fenced, FencesWillSignal, device
    <3>4. Stages' BY <2>1 DEF FramesInv, Stages, device
    <3>5. Recorded' BY <2>1 DEF FramesInv, Recorded, batch, device
    <3>6. Indexed' BY <2>1 DEF FramesInv, Indexed, device
    <3>7. Reads BY <2>1 DEF Reads, data
    <3>. QED BY <3>1, <3>2, <3>3, <3>4, <3>5, <3>6, <3>7 DEF FramesInv
  <2>4. at' \in {"packets", "begin draw", "present", "recover", "retry", "end", "suboptimal"}
    BY <2>1 DEF FramesInv, Drawing
  <2>. QED BY <2>2, <2>3, <2>4
<1>. QED BY <1>3, <1>4, <1>5, <1>6, <1>7, <1>8, <1>9, FirstDrawnStep, FirstSkippedStep, ResolveStep, SwapStep,
            CompleteStep DEF FramesNext
-----------------------------------------------------------------------------
LEMMA FramesStutter == ASSUME FramesInv, UNCHANGED frame_vars PROVE FramesInv' /\ Reads
<1>1. Drawing' BY DEF frame_vars, FramesInv, Drawing, batch, device
<1>2. Submitted' BY DEF frame_vars, FramesInv, Submitted, data, device, surface
<1>3. Fenced' BY DEF frame_vars, FramesInv, Fenced, FencesWillSignal, device
<1>4. Stages' BY DEF frame_vars, FramesInv, Stages, device
<1>5. Recorded' BY DEF frame_vars, FramesInv, Recorded, batch, device
<1>6. Indexed' BY DEF frame_vars, FramesInv, Indexed, device
<1>7. Reads BY DEF frame_vars, Reads, data
<1>. QED BY <1>1, <1>2, <1>3, <1>4, <1>5, <1>6, <1>7 DEF FramesInv

LEMMA SubSeqOf ==
  ASSUME NEW S, NEW s \in Seq(S), NEW t \in Seq(S), Len(s) <= Len(t), \A i \in 1 .. Len(s) : s[i] = t[i]
  PROVE  s = SubSeq(t, 1, Len(s))
<1>1. Len(s) \in Nat /\ Len(t) \in Nat OBVIOUS
<1>2. s = [i \in 1 .. Len(s) |-> s[i]] OBVIOUS
<1>3. SubSeq(t, 1, Len(s)) = [i \in 1 .. Len(s) |-> t[i]] BY <1>1
<1>. QED BY <1>2, <1>3

LEMMA FramesMeaning == ASSUME FramesInv PROVE FramesOK /\ DrawsUnderTheirPipeline /\ FencesWillSignal
<1>1. Drawing /\ Submitted /\ Fenced /\ Recorded BY DEF FramesInv
<1>2. FramesOK
  <2>1. Len(inflight) <= MAX_FRAMES_IN_FLIGHT
    <3>1. SUFFICES ASSUME Len(inflight) >= 3 PROVE FALSE BY <1>1, InflightFacts DEF MAX_FRAMES_IN_FLIGHT
    <3>2. 1 \in DOMAIN inflight /\ 2 \in DOMAIN inflight /\ 3 \in DOMAIN inflight BY <1>1, <3>1, InflightFacts
    <3>3. inflight[1].slot \in {0, 1} /\ inflight[2].slot \in {0, 1} /\ inflight[3].slot \in {0, 1}
      BY <1>1, <3>2, InflightFacts, SlotsValue
    <3>4. \A i, j \in DOMAIN inflight : inflight[i].slot = inflight[j].slot => i = j BY <1>1 DEF Fenced
    <3>. QED BY <3>2, <3>3, <3>4
  <2>. QED BY <1>1, <2>1 DEF FramesOK, Drawing, Submitted, Bound
<1>3. DrawsUnderTheirPipeline
  <2>1. recorded \in Seq(Recording) /\ wanted \in Seq(Recording) BY <1>1 DEF Drawing
  <2>2. open => recorded = SubSeq(wanted, 1, Len(recorded)) BY <1>1, <2>1, SubSeqOf DEF Recorded
  <2>. QED BY <1>1, <2>2 DEF DrawsUnderTheirPipeline, Recorded
<1>. QED BY <1>1, <1>2, <1>3 DEF Fenced

\* A submission that stays in flight keeps what it reads.
LEMMA Untouching == ASSUME FramesInv', Reads PROVE \A i \in DOMAIN inflight :
                        (\E j \in DOMAIN inflight' : inflight'[j] = inflight[i]) => Untouched(inflight[i])
<1>1. ASSUME NEW i \in DOMAIN inflight, NEW j \in DOMAIN inflight', inflight'[j] = inflight[i]
      PROVE  Untouched(inflight[i])
  <2>1. ~(open' /\ current_frame_' = inflight[i].slot) BY <1>1 DEF FramesInv, Fenced
  <2>. QED BY <2>1 DEF Untouched, Reads
<1>. QED BY <1>1

\* The invariant of the frames.
THEOREM FramesInvariance == ASSUME Batched PROVE FramesSpec => []FramesInv
<1>1. FramesInit => FramesInv BY InitFrames
<1>2. FramesInv /\ [FramesNext]_frame_vars => FramesInv' BY StepFrames, FramesStutter
<1>. QED BY <1>1, <1>2, PTL DEF FramesSpec

\* The commands of a frame are each of its draws, once, in order, under the
\* pipeline bound for it, for any pipelines and any batch (command_processor.cpp:3165).
THEOREM DrawsKept == ASSUME Batched PROVE FramesSpec => [](FramesOK /\ DrawsUnderTheirPipeline)
<1>1. FramesInv => FramesOK /\ DrawsUnderTheirPipeline BY FramesMeaning
<1>. QED BY <1>1, FramesInvariance, PTL

\* A fence that is not signalled is the device's to signal, or belongs to the
\* frame being recorded (vulkan_backend.cpp:916).
THEOREM FencesKept == ASSUME Batched PROVE FramesSpec => []FencesWillSignal
<1>1. FramesInv => FencesWillSignal BY FramesMeaning
<1>. QED BY <1>1, FramesInvariance, PTL

\* While a submission is on the device no step writes its descriptors, its
\* buffers or its command buffer.
THEOREM ReadsKept == ASSUME Batched PROVE FramesSpec => InFlightUntouched
<1>1. FramesInv /\ [FramesNext]_frame_vars => [\A i \in DOMAIN inflight :
         (\E j \in DOMAIN inflight' : inflight'[j] = inflight[i]) => Untouched(inflight[i])]_frame_vars
  BY StepFrames, FramesStutter, Untouching
<1>. QED BY <1>1, FramesInvariance, PTL DEF FramesSpec, InFlightUntouched
=============================================================================
