------------------------- MODULE AudioOutputProofs -------------------------
(***************************************************************************)
(* Proofs about the two ends of the audio path: that the ring to the       *)
(* device implements a bounded queue, for every size of the ring, every    *)
(* size of request and any number of frames; and, at the end, what the XMA *)
(* processor and its mixer keep.                                           *)
(*                                                                         *)
(* The owner and the device thread hold positions and counts they loaded   *)
(* earlier.  What makes that sound is the invariant: an end's position     *)
(* moves by its own hand only, so what the other end loaded is out of date *)
(* in one direction only, and the count stays within what there is.        *)
(***************************************************************************)
EXTENDS AudioOutput, XmaProcessor, Apu, Integers, SequenceTheorems, WellFoundedInduction, TLAPS

\* A ring of at least one cell, and requests of whole frames.
Sized == capacity_ \in Nat \ {0} /\ Request \subseteq Nat /\ MaxFrames \in Nat

Cell == 0 .. (capacity_ - 1)

-----------------------------------------------------------------------------
(* Positions                                                                *)

LEMMA DivMod ==
  ASSUME NEW a \in Nat, NEW r \in Nat, r > 0
  PROVE  /\ a % r \in Nat /\ a % r < r
         /\ a \div r \in Int /\ a = r * (a \div r) + (a % r)
OBVIOUS

LEMMA Below == ASSUME NEW a \in Nat, NEW r \in Nat, a < r PROVE a % r = a
<1> DEFINE q == a \div r
<1>1. q \in Int /\ a = r * q + (a % r) /\ a % r \in Nat /\ a % r < r BY DivMod
<1> HIDE DEF q
<1>2. CASE q >= 1
  <2>1. r * q >= r * 1 BY <1>1, <1>2
  <2>. QED BY <1>1, <2>1
<1>3. CASE q <= -1
  <2>1. r * q <= r * (-1) BY <1>1, <1>3
  <2>. QED BY <1>1, <2>1
<1>4. CASE q = 0 BY <1>1, <1>4
<1>. QED BY <1>1, <1>2, <1>3, <1>4

LEMMA Once == ASSUME NEW a \in Nat, NEW r \in Nat, r <= a, a < r + r PROVE a % r = a - r
<1> DEFINE q == a \div r
<1>1. q \in Int /\ a = r * q + (a % r) /\ a % r \in Nat /\ a % r < r BY DivMod
<1> HIDE DEF q
<1>2. CASE q >= 2
  <2>1. r * q >= r * 2 BY <1>1, <1>2
  <2>. QED BY <1>1, <2>1
<1>3. CASE q <= 0
  <2>1. r * q <= r * 0 BY <1>1, <1>3
  <2>. QED BY <1>1, <2>1
<1>4. CASE q = 1 BY <1>1, <1>4
<1>. QED BY <1>1, <1>2, <1>3, <1>4

\* A step of at most a turn from a position.
LEMMA Wrap ==
  ASSUME NEW c \in Nat, NEW p \in Nat, NEW i \in Nat, p < c, i <= c
  PROVE  /\ (p + i) % c = IF p + i < c THEN p + i ELSE p + i - c
         /\ (p + i) % c \in 0 .. (c - 1)
<1>1. CASE p + i < c BY <1>1, Below
<1>2. CASE c <= p + i
  <2>1. p + i \in Nat /\ p + i < c + c /\ p + i - c \in 0 .. (c - 1) BY <1>2
  <2>2. (p + i) % c = (p + i) - c BY <1>2, <2>1, Once
  <2>. QED BY <1>2, <2>1, <2>2
<1>. QED BY <1>1, <1>2

\* The distance back to a position is the step that was taken.
LEMMA Back ==
  ASSUME NEW c \in Nat, NEW p \in Nat, NEW i \in Nat, p < c, i < c
  PROVE  ((((p + i) % c) + c) - p) % c = i
<1> DEFINE x == (p + i) % c
<1>1. x = IF p + i < c THEN p + i ELSE p + i - c
  <2>1. i <= c OBVIOUS
  <2>. QED BY <2>1, Wrap
<1> HIDE DEF x
<1>2. CASE p + i < c
  <2>1. (x + c) - p = i + c BY <1>1, <1>2
  <2>2. (i + c) % c = i BY Once
  <2>. QED BY <2>1, <2>2 DEF x
<1>3. CASE ~(p + i < c)
  <2>1. (x + c) - p = i BY <1>1, <1>3
  <2>2. i % c = i BY Below
  <2>. QED BY <2>1, <2>2 DEF x
<1>. QED BY <1>2, <1>3

-----------------------------------------------------------------------------
(* The inductive invariant                                                  *)

Ring == /\ buffer_ \in [Cell -> Nat] /\ read_pos_ \in Cell /\ write_pos_ \in Cell
        /\ queued \in Nat

End == [at : {"idle", "copy", "publish"}, pos : Nat, n : Nat, data : Seq(Nat)]

\* What the owner loaded still holds of the ring, but for room it gained, and
\* what it copied is still there.
Writing ==
  /\ write \in End
  /\ write.at # "idle" =>
       /\ write.pos = write_pos_ /\ 1 <= write.n /\ write.n <= AvailableWrite
       /\ write.data = [i \in 1 .. write.n |-> queued + i]
  /\ write.at = "publish" =>
       \A i \in 1 .. write.n : buffer_[(write_pos_ + (i - 1)) % capacity_] = queued + i

\* What the device thread loaded still holds of the ring, but for frames it
\* gained, and what it copied is still there.
Reading ==
  /\ callback \in End
  /\ callback.at # "idle" =>
       callback.pos = read_pos_ /\ 1 <= callback.n /\ callback.n <= AvailableRead
  /\ callback.at = "publish" =>
       callback.data = [i \in 1 .. callback.n |-> buffer_[((read_pos_ + i) - 1) % capacity_]]

IInv == Ring /\ Writing /\ Reading

\* What is left of it once the error callback has freed the ring in the middle
\* of a write: positions and counts stay within the ring.
Typed ==
  /\ Ring /\ write \in End /\ callback \in End
  /\ write.at # "idle" => write.pos < capacity_ /\ write.n < capacity_ /\ Len(write.data) = write.n
  /\ callback.at # "idle" => callback.pos < capacity_ /\ callback.n < capacity_

AudioInv == Typed /\ (lost_ring = "no" => IInv)

\* The frames of n cells from r on.
Span(b, r, n) == [i \in 1 .. n |-> b[((r + i) - 1) % capacity_]]

LEMMA Available ==
  ASSUME Sized, Ring
  PROVE  /\ AvailableRead \in Nat /\ AvailableRead < capacity_
         /\ AvailableRead = 0 <=> read_pos_ = write_pos_
         /\ (read_pos_ + AvailableRead) % capacity_ = write_pos_
<1>1. capacity_ \in Nat /\ capacity_ > 0 BY DEF Sized
<1>2. /\ read_pos_ \in Nat /\ read_pos_ < capacity_
      /\ write_pos_ \in Nat /\ write_pos_ < capacity_
  BY <1>1 DEF Ring, Cell
<1>3. AvailableRead \in Nat /\ AvailableRead < capacity_ /\ (AvailableRead = 0 <=> read_pos_ = write_pos_)
  BY <1>1, <1>2 DEF AvailableRead
<1>4. read_pos_ + AvailableRead \in {write_pos_, write_pos_ + capacity_}
  BY <1>1, <1>2 DEF AvailableRead
<1>5. (read_pos_ + AvailableRead) % capacity_
        = IF read_pos_ + AvailableRead < capacity_ THEN read_pos_ + AvailableRead
          ELSE read_pos_ + AvailableRead - capacity_
  BY <1>1, <1>2, <1>3, Wrap
<1>. QED BY <1>1, <1>2, <1>3, <1>4, <1>5

\* A span of the ring is a sequence of frames.
LEMMA SpanCells ==
  ASSUME Sized, NEW b \in [Cell -> Nat], NEW r \in Cell, NEW a \in Nat, a < capacity_
  PROVE  /\ Span(b, r, a) \in Seq(Nat) /\ Len(Span(b, r, a)) = a
         /\ \A i \in 1 .. a : /\ ((r + i) - 1) % capacity_ \in Cell
                              /\ Span(b, r, a)[i] = b[((r + i) - 1) % capacity_]
<1>1. capacity_ \in Nat /\ r \in Nat /\ r < capacity_ BY DEF Sized, Cell
<1>2. ASSUME NEW i \in 1 .. a PROVE ((r + i) - 1) % capacity_ \in Cell
  <2>1. i - 1 \in Nat /\ i - 1 <= capacity_ /\ (r + i) - 1 = r + (i - 1) BY <1>1
  <2>2. (r + (i - 1)) % capacity_ \in 0 .. (capacity_ - 1) BY <1>1, <2>1, Wrap
  <2>. QED BY <2>1, <2>2 DEF Cell
<1>3. \A i \in 1 .. a : b[((r + i) - 1) % capacity_] \in Nat BY <1>2
<1>. QED BY <1>2, <1>3 DEF Span

\* A shorter span from the same position is a prefix.
LEMMA SpanPrefix ==
  ASSUME Sized, NEW b \in [Cell -> Nat], NEW r \in Cell, NEW a \in Nat, a < capacity_,
         NEW n \in Nat, n <= a
  PROVE  SubSeq(Span(b, r, a), 1, n) = Span(b, r, n)
<1> DEFINE s == Span(b, r, a)
           t == Span(b, r, n)
<1>1. n < capacity_ BY DEF Sized
<1>2. s \in Seq(Nat) /\ Len(s) = a /\ \A i \in 1 .. a : s[i] = b[((r + i) - 1) % capacity_]
  BY SpanCells
<1>3. t \in Seq(Nat) /\ Len(t) = n /\ \A i \in 1 .. n : t[i] = b[((r + i) - 1) % capacity_]
  BY <1>1, SpanCells
<1> HIDE DEF s, t
<1>4. \A i \in 1 .. n : i \in 1 .. a /\ s[i] \in Nat BY <1>2
<1>5. /\ SubSeq(s, 1, n) \in Seq(Nat) /\ Len(SubSeq(s, 1, n)) = n
      /\ \A i \in 1 .. n : SubSeq(s, 1, n)[i] = s[i]
  <2>1. 1 \in Int /\ n \in Int OBVIOUS
  <2>2. /\ SubSeq(s, 1, n) \in Seq(Nat) /\ Len(SubSeq(s, 1, n)) = IF 1 <= n THEN n - 1 + 1 ELSE 0
        /\ \A i \in 1 .. n - 1 + 1 : SubSeq(s, 1, n)[i] = s[1 + i - 1]
    BY <1>4, <2>1, SubSeqProperties
  <2>3. n - 1 + 1 = n /\ \A i \in 1 .. n : 1 + i - 1 = i OBVIOUS
  <2>. QED BY <2>2, <2>3
<1>6. \A i \in 1 .. n : SubSeq(s, 1, n)[i] = t[i] BY <1>2, <1>3, <1>4, <1>5
<1>7. SubSeq(s, 1, n) = t BY <1>3, <1>5, <1>6, SeqEqual
<1>. QED BY <1>7 DEF s, t

\* Two steps in turn are one.
LEMMA Further ==
  ASSUME Sized, NEW p \in Cell, NEW n \in Cell, NEW d \in Cell, n + d < capacity_
  PROVE  (((p + n) % capacity_) + d) % capacity_ = (p + (n + d)) % capacity_
<1> DEFINE x == (p + n) % capacity_
<1>1. /\ capacity_ \in Nat /\ p \in Nat /\ p < capacity_ /\ n \in Nat /\ n <= capacity_
      /\ d \in Nat /\ d <= capacity_ /\ n + d \in Nat
  BY DEF Sized, Cell
<1>2. x = (IF p + n < capacity_ THEN p + n ELSE p + n - capacity_) /\ x \in 0 .. (capacity_ - 1)
  BY <1>1, Wrap
<1> HIDE DEF x
<1>3. PICK y \in Nat : y = x + d /\ y < capacity_ + capacity_ BY <1>1, <1>2
<1>4. y % capacity_ = IF y < capacity_ THEN y ELSE y - capacity_
  <2>1. CASE y < capacity_ BY <1>1, <2>1, Below
  <2>2. CASE ~(y < capacity_)
    <3>1. capacity_ <= y BY <1>1, <2>2
    <3>. QED BY <1>1, <1>3, <2>2, <3>1, Once
  <2>. QED BY <2>1, <2>2
<1>5. PICK e \in Nat : e = n + d BY <1>1
<1>6. (p + e) % capacity_ = IF p + e < capacity_ THEN p + e ELSE p + e - capacity_
  <2>1. e <= capacity_ BY <1>1, <1>5
  <2>. QED BY <1>1, <2>1, Wrap
<1>7. y % capacity_ = (p + e) % capacity_ BY <1>1, <1>2, <1>3, <1>4, <1>5, <1>6
<1>. QED BY <1>3, <1>5, <1>7 DEF x

\* What is left of a span when its first frames are taken.
LEMMA SpanRest ==
  ASSUME Sized, NEW b \in [Cell -> Nat], NEW r \in Cell, NEW a \in Nat, a < capacity_,
         NEW n \in Nat, n <= a
  PROVE  SubSeq(Span(b, r, a), n + 1, a) = Span(b, (r + n) % capacity_, a - n)
<1> DEFINE q == (r + n) % capacity_
           s == Span(b, r, a)
           t == Span(b, q, a - n)
<1>1. /\ capacity_ \in Nat /\ r \in Nat /\ r < capacity_ /\ n < capacity_
      /\ a - n \in Nat /\ a - n < capacity_
  BY DEF Sized, Cell
<1>2. q = (IF r + n < capacity_ THEN r + n ELSE r + n - capacity_) /\ q \in Cell
  <2>1. n <= capacity_ BY <1>1
  <2>. QED BY <1>1, <2>1, Wrap DEF Cell
<1>3. s \in Seq(Nat) /\ Len(s) = a /\ \A i \in 1 .. a : s[i] = b[((r + i) - 1) % capacity_]
  BY SpanCells
<1> HIDE DEF q
<1>4. t \in Seq(Nat) /\ Len(t) = a - n /\ \A i \in 1 .. a - n : t[i] = b[((q + i) - 1) % capacity_]
  BY <1>1, <1>2, SpanCells
<1>5. ASSUME NEW i \in 1 .. a - n
      PROVE  ((q + i) - 1) % capacity_ = ((r + (n + i)) - 1) % capacity_
  <2>1. PICK d \in Cell : d = i - 1 /\ n + d < capacity_ BY <1>1 DEF Cell
  <2>2. (q + i) - 1 = q + d /\ (r + (n + i)) - 1 = r + (n + d)
    BY <1>1, <1>2, <2>1 DEF Cell
  <2>3. (((r + n) % capacity_) + d) % capacity_ = (r + (n + d)) % capacity_
    <3>1. n \in Cell BY <1>1 DEF Cell
    <3>. QED BY <2>1, <3>1, Further
  <2>4. q = (r + n) % capacity_ BY DEF q
  <2>. QED BY <2>2, <2>3, <2>4
<1> HIDE DEF s, t
<1>6. \A i \in n + 1 .. a : i \in 1 .. a /\ s[i] \in Nat BY <1>3
<1>7. /\ SubSeq(s, n + 1, a) \in Seq(Nat) /\ Len(SubSeq(s, n + 1, a)) = a - n
      /\ \A i \in 1 .. a - n : SubSeq(s, n + 1, a)[i] = s[n + i]
  <2>1. n + 1 \in Int /\ a \in Int OBVIOUS
  <2>2. /\ SubSeq(s, n + 1, a) \in Seq(Nat)
        /\ Len(SubSeq(s, n + 1, a)) = IF n + 1 <= a THEN a - (n + 1) + 1 ELSE 0
        /\ \A i \in 1 .. a - (n + 1) + 1 : SubSeq(s, n + 1, a)[i] = s[(n + 1) + i - 1]
    BY <1>6, <2>1, SubSeqProperties
  <2>3. a - (n + 1) + 1 = a - n /\ \A i \in 1 .. a - n : (n + 1) + i - 1 = n + i OBVIOUS
  <2>. QED BY <2>2, <2>3
<1>8. ASSUME NEW i \in 1 .. a - n PROVE SubSeq(s, n + 1, a)[i] = t[i]
  <2>1. n + i \in 1 .. a OBVIOUS
  <2>. QED BY <1>3, <1>4, <1>5, <1>7, <2>1
<1>9. SubSeq(s, n + 1, a) = t BY <1>4, <1>7, <1>8, SeqEqual
<1>. QED BY <1>9 DEF s, t, q

LEMMA HeldSpan == Held = Span(buffer_, read_pos_, AvailableRead)
BY DEF Held, Span

\* A cell the owner is writing holds no frame of the queue.
LEMMA Apart ==
  ASSUME Sized, Ring, NEW i \in 1 .. AvailableRead, NEW j \in Nat, AvailableRead + j < capacity_
  PROVE  ((read_pos_ + i) - 1) % capacity_ # (write_pos_ + j) % capacity_
<1>1. /\ capacity_ \in Nat /\ read_pos_ \in Nat /\ read_pos_ < capacity_
      /\ write_pos_ \in Nat /\ write_pos_ < capacity_
  BY DEF Sized, Ring, Cell
<1>2. AvailableRead \in Nat /\ AvailableRead < capacity_ BY Available
<1>3. i - 1 \in Nat /\ i - 1 <= capacity_ /\ (read_pos_ + i) - 1 = read_pos_ + (i - 1) /\ j <= capacity_
  BY <1>1, <1>2
<1>4. (read_pos_ + (i - 1)) % capacity_ = IF read_pos_ + (i - 1) < capacity_ THEN read_pos_ + (i - 1)
                                          ELSE read_pos_ + (i - 1) - capacity_
  BY <1>1, <1>3, Wrap
<1>5. (write_pos_ + j) % capacity_ = IF write_pos_ + j < capacity_ THEN write_pos_ + j
                                     ELSE write_pos_ + j - capacity_
  BY <1>1, <1>3, Wrap
<1>6. read_pos_ + AvailableRead \in {write_pos_, write_pos_ + capacity_}
  BY <1>1 DEF AvailableRead
<1>. QED BY <1>1, <1>2, <1>3, <1>4, <1>5, <1>6

-----------------------------------------------------------------------------
(* The owner's end                                                          *)

LEMMA WriteBeginStep ==
  ASSUME Sized, IInv, NEW n \in Request, WriteBegin(n)
  PROVE  IInv' /\ UNCHANGED <<queued, Held, played>>
<1>1. PICK count : /\ count = Least(n, AvailableWrite) /\ count > 0
                   /\ write' = [at |-> "copy", pos |-> write_pos_, n |-> count,
                                data |-> [i \in 1 .. count |-> queued + i]]
  BY DEF WriteBegin
<1>2. UNCHANGED <<buffer_, read_pos_, write_pos_, callback, queued, played>> BY DEF WriteBegin, ring
<1>3. AvailableRead \in Nat /\ AvailableRead < capacity_ /\ capacity_ \in Nat /\ n \in Nat
  BY Available DEF IInv, Sized
<1>4. count \in Nat /\ 1 <= count /\ count <= AvailableWrite
  BY <1>1, <1>3 DEF Least, AvailableWrite
<1>5. [i \in 1 .. count |-> queued + i] \in Seq(Nat) /\ Len([i \in 1 .. count |-> queued + i]) = count
  BY <1>4 DEF IInv, Ring
<1>6. Ring' /\ Reading' BY <1>2 DEF IInv, Ring, Reading, AvailableRead
<1>7. Writing'
  <2>1. write' \in End BY <1>1, <1>4, <1>5 DEF End, IInv, Ring, Cell, Sized
  <2>2. AvailableWrite' = AvailableWrite BY <1>2 DEF AvailableWrite, AvailableRead
  <2>3. /\ write'.at = "copy" /\ write'.pos = write_pos_ /\ write'.n = count
        /\ write'.data = [i \in 1 .. count |-> queued + i]
    BY <1>1
  <2>. QED BY <1>2, <1>4, <2>1, <2>2, <2>3 DEF Writing
<1>. QED BY <1>2, <1>6, <1>7 DEF IInv, Held, AvailableRead

\* Copying disturbs neither the queue nor what the device thread has copied.
LEMMA WriteCopyStep ==
  ASSUME Sized, IInv, lost_ring = "no", WriteCopy
  PROVE  IInv' /\ UNCHANGED <<queued, Held, played>>
<1>1. /\ write.at = "copy" /\ write.pos = write_pos_ /\ write.n \in Nat
      /\ AvailableRead \in Nat /\ AvailableRead + write.n < capacity_ /\ capacity_ \in Nat
      /\ write.data \in Seq(Nat) /\ Len(write.data) = write.n
      /\ write_pos_ \in Nat /\ write_pos_ < capacity_ /\ DOMAIN buffer_ = Cell
  BY SMTT(40), Available DEF IInv, Ring, Writing, WriteCopy, End, AvailableWrite, Sized, Cell
<1>2. UNCHANGED <<read_pos_, write_pos_, callback, queued, played>> BY DEF WriteCopy
<1>3. buffer_' = [c \in Cell |->
        IF \E i \in 0 .. write.n - 1 : c = (write_pos_ + i) % capacity_
        THEN write.data[1 + (((c + capacity_) - write_pos_) % capacity_)]
        ELSE buffer_[c]]
  BY <1>1 DEF WriteCopy, Landing
<1>4. buffer_' \in [Cell -> Nat]
  <2>1. ASSUME NEW c \in Cell, NEW i \in 0 .. write.n - 1, c = (write_pos_ + i) % capacity_
        PROVE  write.data[1 + (((c + capacity_) - write_pos_) % capacity_)] \in Nat
    <3>1. i \in Nat /\ i < capacity_ BY <1>1
    <3>2. ((c + capacity_) - write_pos_) % capacity_ = i BY <1>1, <2>1, <3>1, Back
    <3>3. 1 + i \in 1 .. Len(write.data) BY <1>1
    <3>. QED BY SMTT(40), <1>1, <3>2, <3>3
  <2>2. \A c \in Cell : buffer_[c] \in Nat BY DEF IInv, Ring
  <2>. QED BY <1>3, <2>1, <2>2
<1>5. ASSUME NEW i \in 1 .. AvailableRead
      PROVE  buffer_'[((read_pos_ + i) - 1) % capacity_] = buffer_[((read_pos_ + i) - 1) % capacity_]
  <2>1. ((read_pos_ + i) - 1) % capacity_ \in Cell
    <3>1. /\ read_pos_ \in Nat /\ read_pos_ < capacity_ /\ i - 1 \in Nat /\ i - 1 <= capacity_
          /\ (read_pos_ + i) - 1 = read_pos_ + (i - 1)
      BY <1>1 DEF IInv, Ring, Cell
    <3>2. (read_pos_ + (i - 1)) % capacity_ \in 0 .. (capacity_ - 1) BY <1>1, <3>1, Wrap
    <3>. QED BY <3>1, <3>2 DEF Cell
  <2>2. ASSUME NEW j \in 0 .. write.n - 1
        PROVE  ((read_pos_ + i) - 1) % capacity_ # (write_pos_ + j) % capacity_
    <3>1. j \in Nat /\ AvailableRead + j < capacity_ BY <1>1
    <3>. QED BY <3>1, Apart DEF IInv
  <2>. QED BY <1>3, <2>1, <2>2
<1>6. AvailableRead' = AvailableRead BY <1>2 DEF AvailableRead
<1>7. Held' = Held BY <1>2, <1>5, <1>6 DEF Held
<1>8. Ring' BY <1>2, <1>4 DEF IInv, Ring
<1>9. Writing'
  <2>1. write' \in End /\ write'.at = "publish" /\ write'.pos = write.pos /\ write'.n = write.n
        /\ write'.data = write.data
    BY DEF WriteCopy, IInv, Writing, End
  <2>2. write.data = [i \in 1 .. write.n |-> queued + i] /\ 1 <= write.n /\ write.n <= AvailableWrite
    BY <1>1 DEF IInv, Writing
  <2>3. ASSUME NEW i \in 1 .. write.n
        PROVE  buffer_'[(write_pos_ + (i - 1)) % capacity_] = queued + i
    <3>1. /\ i - 1 \in 0 .. write.n - 1 /\ i - 1 \in Nat /\ i - 1 < capacity_ /\ i - 1 <= capacity_
          /\ 1 + (i - 1) = i
      BY <1>1
    <3> DEFINE j == i - 1  c == (write_pos_ + j) % capacity_
    <3> HIDE DEF j
    <3>2. c \in Cell BY <1>1, <3>1, Wrap DEF Cell, j
    <3>3. ((c + capacity_) - write_pos_) % capacity_ = j BY <1>1, <3>1, Back DEF j
    <3>4. \E k \in 0 .. write.n - 1 : c = (write_pos_ + k) % capacity_ BY <3>1 DEF j
    <3> HIDE DEF c
    <3>5. buffer_'[c] = write.data[1 + j] BY <1>3, <3>2, <3>3, <3>4
    <3>6. write.data[1 + j] = queued + i BY <2>2, <3>1 DEF j
    <3>. QED BY <3>5, <3>6 DEF c, j
  <2>4. AvailableWrite' = AvailableWrite BY <1>6 DEF AvailableWrite
  <2>. QED BY <1>1, <1>2, <2>1, <2>2, <2>3, <2>4 DEF Writing
<1>10. Reading'
  <2>1. CASE callback.at = "publish"
    <3>1. \A i \in 1 .. callback.n : i \in 1 .. AvailableRead
      BY <1>1, <2>1 DEF IInv, Reading, End
    <3>. QED BY <1>2, <1>5, <1>6, <2>1, <3>1 DEF IInv, Reading
  <2>2. CASE callback.at # "publish" BY <1>2, <1>6, <2>2 DEF IInv, Reading
  <2>. QED BY <2>1, <2>2
<1>. QED BY <1>2, <1>7, <1>8, <1>9, <1>10 DEF IInv

\* Publishing puts the copied frames behind those the queue holds.
LEMMA WritePublishStep ==
  ASSUME Sized, IInv, lost_ring = "no", WritePublish
  PROVE  IInv' /\ Fifo!Put
<1>1. /\ write.at = "publish" /\ write.pos = write_pos_ /\ write.n \in Nat /\ 1 <= write.n
      /\ AvailableRead \in Nat /\ AvailableRead + write.n < capacity_
  BY Available DEF IInv, Writing, WritePublish, End, AvailableWrite, Sized
<1>2. /\ capacity_ \in Nat /\ write_pos_ \in Nat /\ write_pos_ < capacity_
      /\ read_pos_ \in Nat /\ read_pos_ < capacity_
  BY DEF IInv, Ring, Sized, Cell
<1>3. UNCHANGED <<buffer_, read_pos_, callback, played>> /\ write' = NoRequest
      /\ write_pos_' = (write_pos_ + write.n) % capacity_ /\ queued' = queued + write.n
  BY <1>1 DEF WritePublish, Landing, status
<1>4. write_pos_' = IF write_pos_ + write.n < capacity_ THEN write_pos_ + write.n
                    ELSE write_pos_ + write.n - capacity_
  <2>1. write.n <= capacity_ BY <1>1, <1>2
  <2>. QED BY <1>1, <1>2, <1>3, <2>1, Wrap
<1>5. AvailableRead' = AvailableRead + write.n
  <2>1. AvailableRead = IF write_pos_ >= read_pos_ THEN write_pos_ - read_pos_
                        ELSE (capacity_ - read_pos_) + write_pos_
    BY DEF AvailableRead
  <2>2. AvailableRead' = IF write_pos_' >= read_pos_ THEN write_pos_' - read_pos_
                         ELSE (capacity_ - read_pos_) + write_pos_'
    BY <1>3 DEF AvailableRead
  <2>3. PICK n \in Nat : n = write.n BY <1>1
  <2>. QED BY <1>1, <1>2, <1>4, <2>1, <2>2, <2>3
<1>6. Ring'
  <2>1. write_pos_' \in Cell BY <1>1, <1>2, <1>4 DEF Cell
  <2>. QED BY <1>1, <1>3, <2>1 DEF IInv, Ring
<1>7. Writing' BY <1>3 DEF Writing, End, NoRequest
<1>8. Reading' BY SMTT(40), <1>1, <1>3, <1>5 DEF IInv, Reading, End
<1>9. Held' = Span(buffer_, read_pos_, AvailableRead + write.n)
  BY <1>3, <1>5 DEF Held, Span
<1>10. AvailableRead + write.n \in Nat /\ AvailableRead <= AvailableRead + write.n
       /\ buffer_ \in [Cell -> Nat] /\ read_pos_ \in Cell /\ AvailableRead < capacity_
  BY <1>1, <1>2 DEF IInv, Ring
<1>11. Len(Held) = AvailableRead /\ Len(Held') = AvailableRead + write.n
  BY <1>1, <1>9, <1>10, HeldSpan, SpanCells
<1>12. Held' = Held \o [i \in 1 .. write.n |-> queued + i]
  <2> DEFINE a == AvailableRead  n == write.n  F == [i \in 1 .. n |-> queued + i]
  <2>1. a \in Nat /\ n \in Nat /\ a + n < capacity_ BY <1>1
  <2>2. queued \in Nat /\ \A i \in 1 .. n : buffer_[(write_pos_ + (i - 1)) % capacity_] = queued + i
    BY <1>1 DEF IInv, Ring, Writing
  <2>3. F \in Seq(Nat) /\ Len(F) = n /\ \A i \in 1 .. n : F[i] = queued + i BY <2>1, <2>2
  <2>4. /\ Held \in Seq(Nat) /\ Len(Held) = a
        /\ \A i \in 1 .. a : Held[i] = buffer_[((read_pos_ + i) - 1) % capacity_]
    BY <1>1, <1>10, HeldSpan, SpanCells
  <2>5. /\ Held' \in Seq(Nat) /\ Len(Held') = a + n
        /\ \A i \in 1 .. a + n : Held'[i] = buffer_[((read_pos_ + i) - 1) % capacity_]
    BY <1>1, <1>9, <1>10, SpanCells
  <2>6. (read_pos_ + a) % capacity_ = write_pos_ BY Available DEF IInv
  <2> HIDE DEF a, n, F
  <2>7. ASSUME NEW i \in 1 .. a + n PROVE Held'[i] = (Held \o F)[i]
    <3>1. CASE i \in 1 .. a
      <4>1. Held'[i] = Held[i] BY <2>1, <2>4, <2>5, <3>1
      <4>2. (Held \o F)[i] = Held[i]
        <5> DEFINE s == Held
        <5>1. s \in Seq(Nat) /\ Len(s) = a BY <2>4
        <5> HIDE DEF s
        <5>2. i \in 1 .. Len(s) + Len(F) BY <2>1, <2>3, <3>1, <5>1
        <5>3. (s \o F)[i] = s[i] BY <2>1, <2>3, <3>1, <5>1, <5>2
        <5>. QED BY <5>3 DEF s
      <4>. QED BY <4>1, <4>2
    <3>2. CASE i \notin 1 .. a
      <4>1. PICK d \in Nat : i = (a + d) + 1 /\ d + 1 \in 1 .. n BY <2>1, <3>2
      <4>2. a \in Cell /\ d \in Cell /\ a + d < capacity_ BY <1>2, <2>1, <4>1 DEF Cell
      <4>3. (read_pos_ + i) - 1 = read_pos_ + (a + d) BY <1>2, <2>1, <4>1
      <4>4. ((read_pos_ + i) - 1) % capacity_ = (write_pos_ + d) % capacity_
        BY <1>10, <2>6, <4>2, <4>3, Further
      <4>5. (d + 1) - 1 = d BY <4>1
      <4>6. Held'[i] = queued + (d + 1) BY <2>2, <2>5, <4>1, <4>4, <4>5 DEF n
      <4>7. (Held \o F)[i] = F[d + 1] BY <2>1, <2>3, <2>4, <4>1
      <4>. QED BY <2>3, <4>1, <4>6, <4>7
    <3>. QED BY <3>1, <3>2
  <2>8. Held \o F \in Seq(Nat) /\ Len(Held \o F) = a + n BY <2>1, <2>3, <2>4
  <2>9. Held' = Held \o F BY <2>5, <2>7, <2>8, SeqEqual
  <2>. QED BY <2>9 DEF F, n
<1>13. write.n \in 1 .. (capacity_ - 1) - Len(Held) BY <1>1, <1>2, <1>11
<1>. QED BY <1>3, <1>6, <1>7, <1>8, <1>12, <1>13 DEF IInv, Fifo!Put

-----------------------------------------------------------------------------
(* The device thread's end                                                  *)

LEMMA CallbackBeginStep ==
  ASSUME Sized, IInv, NEW n \in Request, CallbackBegin(n)
  PROVE  IInv' /\ UNCHANGED <<queued, Held, played>>
<1>1. PICK count : /\ count = Least(n, AvailableRead) /\ count > 0
                   /\ callback' = [at |-> "copy", pos |-> read_pos_, n |-> count, data |-> <<>>]
  BY DEF CallbackBegin
<1>2. UNCHANGED <<buffer_, read_pos_, write_pos_, write, queued, played>> BY DEF CallbackBegin, ring
<1>3. AvailableRead \in Nat /\ n \in Nat BY Available DEF IInv, Sized
<1>4. count \in Nat /\ 1 <= count /\ count <= AvailableRead BY <1>1, <1>3 DEF Least
<1>5. Ring' /\ Writing' BY <1>2 DEF IInv, Ring, Writing, AvailableWrite, AvailableRead
<1>6. Reading'
  <2>1. callback' \in End BY <1>1, <1>4 DEF End, IInv, Ring, Cell, Sized
  <2>2. AvailableRead' = AvailableRead BY <1>2 DEF AvailableRead
  <2>. QED BY <1>1, <1>2, <1>4, <2>1, <2>2 DEF Reading
<1>. QED BY <1>2, <1>5, <1>6 DEF IInv, Held, AvailableRead

LEMMA CallbackCopyStep ==
  ASSUME Sized, IInv, CallbackCopy
  PROVE  IInv' /\ UNCHANGED <<queued, Held, played>>
<1>1. /\ callback.at = "copy" /\ callback.pos = read_pos_ /\ callback.n \in Nat
      /\ 1 <= callback.n /\ callback.n <= AvailableRead
      /\ AvailableRead \in Nat /\ AvailableRead < capacity_ /\ capacity_ \in Nat
      /\ callback \in End
  BY Available DEF IInv, Reading, CallbackCopy, End, Sized
<1>2. UNCHANGED <<buffer_, read_pos_, write_pos_, write, queued, played>> BY DEF CallbackCopy, ring
<1>3. /\ callback'.at = "publish" /\ callback'.pos = read_pos_ /\ callback'.n = callback.n
      /\ callback'.data = Span(buffer_, read_pos_, callback.n)
      /\ callback' = [callback EXCEPT !.at = "publish", !.data = Span(buffer_, read_pos_, callback.n)]
  BY <1>1 DEF CallbackCopy, End, Span
<1>4. Span(buffer_, read_pos_, callback.n) \in Seq(Nat)
  <2>1. callback.n < capacity_ BY <1>1
  <2>. QED BY <1>1, <2>1, SpanCells DEF IInv, Ring
<1>5. Ring' /\ Writing' BY <1>2 DEF IInv, Ring, Writing, AvailableWrite, AvailableRead
<1>6. Reading'
  <2>1. callback' \in End BY <1>1, <1>3, <1>4 DEF End
  <2>2. AvailableRead' = AvailableRead BY <1>2 DEF AvailableRead
  <2>. QED BY <1>1, <1>2, <1>3, <2>1, <2>2 DEF Reading, Span
<1>. QED BY <1>2, <1>5, <1>6 DEF IInv, Held, AvailableRead

\* Publishing takes the copied frames off the queue's front.
LEMMA CallbackPublishStep ==
  ASSUME Sized, IInv, CallbackPublish
  PROVE  IInv' /\ Fifo!Get
<1>1. PICK n \in Nat : n = callback.n BY DEF IInv, Reading, End
<1>2. /\ callback.at = "publish" /\ callback.pos = read_pos_ /\ 1 <= n /\ n <= AvailableRead
      /\ AvailableRead \in Nat /\ AvailableRead < capacity_
      /\ callback.data = Span(buffer_, read_pos_, n)
  BY <1>1, Available DEF IInv, Reading, CallbackPublish, Span
<1>3. /\ capacity_ \in Nat /\ write_pos_ \in Nat /\ write_pos_ < capacity_
      /\ read_pos_ \in Nat /\ read_pos_ < capacity_
  BY DEF IInv, Ring, Sized, Cell
<1>4. UNCHANGED <<buffer_, write_pos_, write, queued>> /\ callback' = NoRequest
      /\ read_pos_' = (read_pos_ + n) % capacity_
      /\ played' = played \o Span(buffer_, read_pos_, n)
  BY <1>1, <1>2 DEF CallbackPublish, status
<1>5. read_pos_' = IF read_pos_ + n < capacity_ THEN read_pos_ + n ELSE read_pos_ + n - capacity_
  <2>1. n <= capacity_ BY <1>2, <1>3
  <2>. QED BY <1>3, <1>4, <2>1, Wrap
<1>6. AvailableRead' = AvailableRead - n
  <2>1. AvailableRead = IF write_pos_ >= read_pos_ THEN write_pos_ - read_pos_
                        ELSE (capacity_ - read_pos_) + write_pos_
    BY DEF AvailableRead
  <2>2. AvailableRead' = IF write_pos_ >= read_pos_' THEN write_pos_ - read_pos_'
                         ELSE (capacity_ - read_pos_') + write_pos_
    BY <1>4 DEF AvailableRead
  <2>. QED BY <1>2, <1>3, <1>5, <2>1, <2>2
<1>7. Ring'
  <2>1. read_pos_' \in Cell BY <1>2, <1>3, <1>5 DEF Cell
  <2>. QED BY <1>4, <2>1 DEF IInv, Ring
<1>8. Reading' BY <1>4 DEF Reading, End, NoRequest
<1>9. Writing'
  <2>1. write.at # "idle" => write.n \in Nat /\ write.n <= AvailableWrite
    BY DEF IInv, Writing, End
  <2>2. write.at # "idle" => write.n <= AvailableWrite'
    BY <1>2, <1>3, <1>6, <2>1 DEF AvailableWrite
  <2>. QED BY <1>4, <2>2 DEF IInv, Writing
<1>10. buffer_ \in [Cell -> Nat] /\ read_pos_ \in Cell BY DEF IInv, Ring
<1>11. Len(Held) = AvailableRead BY <1>2, <1>10, HeldSpan, SpanCells
<1>12. Held' = SubSeq(Held, n + 1, Len(Held))
  <2>1. Held' = Span(buffer_, (read_pos_ + n) % capacity_, AvailableRead - n)
    BY <1>4, <1>6 DEF Held, Span
  <2>. QED BY SMTT(40), <1>2, <1>10, <1>11, <2>1, HeldSpan, SpanRest
<1>13. played' = played \o SubSeq(Held, 1, n)
  BY <1>2, <1>4, <1>10, HeldSpan, SpanPrefix
<1>14. n \in 1 .. Len(Held) BY <1>2, <1>11
<1>. QED BY <1>4, <1>7, <1>8, <1>9, <1>12, <1>13, <1>14 DEF IInv, Fifo!Get

-----------------------------------------------------------------------------
(* The owner's calls and the device's error callback                        *)

LEMMA ClearingStep ==
  ASSUME Sized, Typed, Initialize \/ Shutdown \/ Stop \/ Disconnect
  PROVE  /\ Typed' /\ Fifo!Clear
         /\ lost_ring' = "no" => IInv'
<1>1. ClearRing /\ UNCHANGED <<write, callback, queued, played>> /\ callback.at = "idle"
  BY DEF Initialize, Shutdown, Stop, Disconnect, StopNow, Quiet
<1>2. buffer_' = buffer_ \/ buffer_' = Empty BY DEF Initialize, Shutdown, Stop, Disconnect
<1>3. buffer_' \in [Cell -> Nat] BY <1>2 DEF Typed, Ring, Empty, Cell
<1>4. read_pos_' = 0 /\ write_pos_' = 0 BY <1>1 DEF ClearRing
<1>5. 0 \in Cell BY DEF Sized, Cell
<1>6. AvailableRead' = 0 BY <1>4 DEF AvailableRead
<1>7. Held' = <<>> BY <1>6 DEF Held
<1>8. Ring' BY <1>1, <1>3, <1>4, <1>5 DEF Typed, Ring
<1>9. Typed' BY <1>1, <1>8 DEF Typed
<1>10. ASSUME lost_ring' = "no" PROVE IInv'
  <2>1. write.at = "idle" BY <1>1, <1>10 DEF ClearRing
  <2>. QED BY <1>1, <1>8, <2>1 DEF IInv, Typed, Writing, Reading
<1>. QED BY <1>1, <1>7, <1>9, <1>10 DEF Fifo!Clear

LEMMA SilentStep ==
  ASSUME IInv, Start \/ Pause \/ Resume \/ UNCHANGED avars
  PROVE  IInv' /\ UNCHANGED <<queued, Held, played>>
<1>1. UNCHANGED <<buffer_, read_pos_, write_pos_, write, callback, queued, played>>
  BY DEF Start, Pause, Resume, avars, ring
<1>. QED
  BY <1>1 DEF IInv, Ring, Writing, Reading, AvailableWrite, AvailableRead, Held

LEMMA InitStep == ASSUME Sized, AudioInit PROVE AudioInv /\ Fifo!Init
<1>1. 0 \in Cell /\ Empty \in [Cell -> Nat] BY DEF Sized, Cell, Empty
<1>2. Ring BY <1>1 DEF AudioInit, Ring
<1>3. Writing /\ Reading BY DEF AudioInit, Writing, Reading, NoRequest, End
<1>4. Held = <<>> BY DEF AudioInit, Held, AvailableRead
<1>5. Typed BY <1>2, <1>3 DEF Typed, Writing, Reading, AudioInit, NoRequest
<1>. QED BY <1>2, <1>3, <1>4, <1>5 DEF AudioInit, AudioInv, IInv, Fifo!Init

\* The owner's own steps keep the types, whichever ring they reach.
LEMMA WriteTyped ==
  ASSUME Sized, Typed, (\E n \in Request : WriteBegin(n)) \/ WriteCopy \/ WritePublish
  PROVE  Typed'
<1>1. capacity_ \in Nat /\ capacity_ > 0 BY DEF Sized
<1>2. UNCHANGED <<read_pos_, callback>> BY DEF WriteBegin, WriteCopy, WritePublish, ring
<1>3. ASSUME NEW n \in Request, WriteBegin(n) PROVE Typed'
  <2>. n \in Nat BY DEF Sized
  <2>1. PICK count : /\ count = Least(n, AvailableWrite) /\ count > 0
                     /\ write' = [at |-> "copy", pos |-> write_pos_, n |-> count,
                                  data |-> [i \in 1 .. count |-> queued + i]]
    BY <1>3 DEF WriteBegin
  <2>2. AvailableRead \in Nat /\ AvailableRead < capacity_ BY Available DEF Typed
  <2>3. count \in Nat /\ count < capacity_ BY <1>1, <2>1, <2>2 DEF Least, AvailableWrite
  <2>4. write_pos_ \in Nat /\ write_pos_ < capacity_ /\ queued \in Nat BY <1>1 DEF Typed, Ring, Cell
  <2>5. [i \in 1 .. count |-> queued + i] \in Seq(Nat) /\ Len([i \in 1 .. count |-> queued + i]) = count
    BY <2>3, <2>4
  <2>6. write' \in End BY <2>1, <2>3, <2>4, <2>5 DEF End
  <2>7. Ring' BY <1>3 DEF WriteBegin, ring, Typed, Ring
  <2>. QED BY <1>2, <2>1, <2>3, <2>4, <2>5, <2>6, <2>7 DEF Typed
<1>4. CASE WriteCopy
  <2>1. /\ write.at = "copy" /\ write.pos \in Nat /\ write.pos < capacity_ /\ write.n \in Nat
        /\ write.n < capacity_ /\ write.data \in Seq(Nat) /\ Len(write.data) = write.n
        /\ DOMAIN buffer_ = Cell
    BY <1>4 DEF WriteCopy, Typed, End, Ring
  <2>2. PICK lands : buffer_' = [c \in Cell |->
          IF lands /\ \E i \in 0 .. write.n - 1 : c = (write.pos + i) % capacity_
          THEN write.data[1 + (((c + capacity_) - write.pos) % capacity_)]
          ELSE buffer_[c]]
    BY <1>4, <2>1 DEF WriteCopy
  <2>3. ASSUME NEW c \in Cell, NEW i \in 0 .. write.n - 1, c = (write.pos + i) % capacity_
        PROVE  write.data[1 + (((c + capacity_) - write.pos) % capacity_)] \in Nat
    <3>1. i \in Nat /\ i < capacity_ BY <1>1, <2>1
    <3>2. ((c + capacity_) - write.pos) % capacity_ = i BY <1>1, <2>1, <2>3, <3>1, Back
    <3>3. 1 + i \in 1 .. Len(write.data) BY <2>1
    <3>. QED BY SMTT(40), <2>1, <3>2, <3>3
  <2>4. \A c \in Cell : buffer_[c] \in Nat BY DEF Typed, Ring
  <2>5. buffer_' \in [Cell -> Nat] BY <2>2, <2>3, <2>4
  <2>6. Ring' BY <1>4, <2>5 DEF WriteCopy, Typed, Ring
  <2>7. write' \in End /\ write'.pos = write.pos /\ write'.n = write.n /\ write'.data = write.data
    BY <1>4 DEF WriteCopy, Typed, End
  <2>. QED BY <1>2, <2>1, <2>6, <2>7 DEF Typed
<1>5. CASE WritePublish
  <2>1. /\ write.at = "publish" /\ write.pos \in Nat /\ write.pos < capacity_
        /\ write.n \in Nat /\ write.n < capacity_
    BY <1>5 DEF WritePublish, Typed, End
  <2>2. (write.pos + write.n) % capacity_ \in Cell
    <3>1. write.n <= capacity_ BY <1>1, <2>1
    <3>. QED BY <1>1, <2>1, <3>1, Wrap DEF Cell
  <2>3. Ring' BY <1>5, <2>1, <2>2 DEF WritePublish, Typed, Ring
  <2>4. write' = NoRequest BY <1>5 DEF WritePublish
  <2>5. write' \in End /\ write'.at = "idle" BY <2>4 DEF NoRequest, End
  <2>. QED BY <1>2, <2>3, <2>5 DEF Typed
<1>. QED BY <1>3, <1>4, <1>5

\* So do the device thread's.
LEMMA CallbackTyped ==
  ASSUME Sized, Typed, (\E n \in Request : CallbackBegin(n)) \/ CallbackCopy \/ CallbackPublish
  PROVE  Typed'
<1>1. capacity_ \in Nat /\ capacity_ > 0 BY DEF Sized
<1>2. UNCHANGED <<buffer_, write_pos_, write, queued>>
  BY DEF CallbackBegin, CallbackCopy, CallbackPublish, ring
<1>3. ASSUME NEW n \in Request, CallbackBegin(n) PROVE Typed'
  <2>. n \in Nat BY DEF Sized
  <2>1. PICK count : /\ count = Least(n, AvailableRead) /\ count > 0
                     /\ callback' = [at |-> "copy", pos |-> read_pos_, n |-> count, data |-> <<>>]
    BY <1>3 DEF CallbackBegin
  <2>2. AvailableRead \in Nat /\ AvailableRead < capacity_ BY Available DEF Typed
  <2>3. count \in Nat /\ count < capacity_ BY <1>1, <2>1, <2>2 DEF Least
  <2>4. read_pos_ \in Nat /\ read_pos_ < capacity_ BY <1>1 DEF Typed, Ring, Cell
  <2>5. callback' \in End BY <2>1, <2>3, <2>4 DEF End
  <2>6. Ring' BY <1>2, <1>3 DEF CallbackBegin, ring, Typed, Ring
  <2>. QED BY <1>2, <2>1, <2>3, <2>4, <2>5, <2>6 DEF Typed
<1>4. CASE CallbackCopy
  <2>1. /\ callback.at = "copy" /\ callback.pos \in Cell /\ callback.n \in Nat
        /\ callback.n < capacity_ /\ callback.pos < capacity_ /\ buffer_ \in [Cell -> Nat]
    BY <1>1, <1>4 DEF CallbackCopy, Typed, End, Ring, Cell
  <2>2. callback' = [callback EXCEPT !.at = "publish", !.data = Span(buffer_, callback.pos, callback.n)]
    BY <1>4 DEF CallbackCopy, Span
  <2>3. Span(buffer_, callback.pos, callback.n) \in Seq(Nat) BY <2>1, SpanCells
  <2>4. callback' \in End /\ callback'.pos = callback.pos /\ callback'.n = callback.n
    BY <2>2, <2>3 DEF Typed, End
  <2>5. Ring' BY <1>2, <1>4 DEF CallbackCopy, ring, Typed, Ring
  <2>. QED BY <1>2, <2>1, <2>4, <2>5 DEF Typed
<1>5. CASE CallbackPublish
  <2>1. /\ callback.at = "publish" /\ callback.pos \in Nat /\ callback.pos < capacity_
        /\ callback.n \in Nat /\ callback.n < capacity_
    BY <1>5 DEF CallbackPublish, Typed, End
  <2>2. (callback.pos + callback.n) % capacity_ \in Cell
    <3>1. callback.n <= capacity_ BY <1>1, <2>1
    <3>. QED BY <1>1, <2>1, <3>1, Wrap DEF Cell
  <2>3. Ring' BY <1>2, <1>5, <2>2 DEF CallbackPublish, Typed, Ring
  <2>4. callback' = NoRequest BY <1>5 DEF CallbackPublish
  <2>5. callback' \in End /\ callback'.at = "idle" BY <2>4 DEF NoRequest, End
  <2>. QED BY <1>2, <2>3, <2>5 DEF Typed
<1>. QED BY <1>3, <1>4, <1>5

\* Every step of the ring is a step of the queue or none, or is one of a write
\* that lost its ring or comes after such a write.
LEMMA Step ==
  ASSUME Sized, AudioInv, [AudioNext]_avars
  PROVE  AudioInv' /\ [Torn \/ Fifo!Next]_(Fifo!fifo)
<1> USE DEF AudioInv, Fifo!Next, Fifo!fifo
<1>1. CASE Initialize \/ Shutdown \/ Stop \/ Disconnect BY <1>1, ClearingStep
<1>2. CASE Start \/ Pause \/ Resume \/ UNCHANGED avars
  <2>1. UNCHANGED <<buffer_, read_pos_, write_pos_, write, lost_ring, callback, queued, played>>
    BY <1>2 DEF Start, Pause, Resume, avars, ring
  <2>2. Typed' BY <2>1 DEF Typed, Ring
  <2>3. UNCHANGED Fifo!fifo BY <2>1 DEF Held, AvailableRead
  <2>. QED BY <1>2, <2>1, <2>2, <2>3, SilentStep
<1>3. CASE \/ \E n \in Request : WriteBegin(n) \/ CallbackBegin(n)
           \/ WriteCopy \/ WritePublish \/ CallbackCopy \/ CallbackPublish
  <2>1. Typed' BY <1>3, WriteTyped, CallbackTyped
  <2>2. lost_ring' = "no" <=> lost_ring = "no"
    BY <1>3 DEF WriteBegin, WriteCopy, WritePublish, CallbackBegin, CallbackCopy, CallbackPublish
  <2>3. CASE lost_ring = "no"
    <3>1. IInv BY <2>3
    <3>2. CASE \E n \in Request : WriteBegin(n) BY <2>1, <3>1, <3>2, WriteBeginStep
    <3>3. CASE \E n \in Request : CallbackBegin(n) BY <2>1, <3>1, <3>3, CallbackBeginStep
    <3>4. CASE WriteCopy BY <2>1, <2>3, <3>1, <3>4, WriteCopyStep
    <3>5. CASE WritePublish BY <2>1, <2>3, <3>1, <3>5, WritePublishStep
    <3>6. CASE CallbackCopy BY <2>1, <3>1, <3>6, CallbackCopyStep
    <3>7. CASE CallbackPublish BY <2>1, <3>1, <3>7, CallbackPublishStep
    <3>. QED BY <1>3, <3>2, <3>3, <3>4, <3>5, <3>6, <3>7
  <2>4. CASE lost_ring # "no" BY <2>1, <2>2, <2>4 DEF Torn
  <2>. QED BY <2>3, <2>4
<1>. QED BY <1>1, <1>2, <1>3 DEF AudioNext

\* The ring implements the queue: frames are delivered once and in order, none
\* is overwritten before the device has it, and only a clear drops frames,
\* however the owner's writes, the device's reads and the error callback
\* interleave; all but a device lost in the middle of a write, up to the next
\* clear with no write in progress.
THEOREM Implements == ASSUME Sized PROVE AudioSpec => RingIsFifo
<1>1. AudioInit => AudioInv /\ Fifo!Init BY InitStep
<1>2. AudioInv /\ [AudioNext]_avars => AudioInv' /\ [Torn \/ Fifo!Next]_(Fifo!fifo) BY Step
<1>. QED BY <1>1, <1>2, PTL DEF AudioSpec, RingIsFifo
-----------------------------------------------------------------------------
(* The XMA contexts and their voices                                        *)

\* Whatever is added to a position is added to it modulo the ring.
LEMMA ModAdd ==
  ASSUME NEW a \in Nat, NEW n \in Nat, NEW r \in Nat, r > 0, a < r
  PROVE  (a + n) % r = (a + (n % r)) % r
<1> DEFINE p == n \div r  m == n % r  b == a + m
<1>1. p \in Int /\ n = r * p + m /\ m \in Nat /\ m < r BY DivMod
<1>2. b % r = IF b < r THEN b ELSE b - r BY <1>1, Wrap
<1> DEFINE q == (a + n) \div r  x == (a + n) % r
<1>3. q \in Int /\ a + n = r * q + x /\ x \in Nat /\ x < r BY DivMod
<1> HIDE DEF p, m, q, x
<1>4. r * q + x = r * p + b BY <1>1, <1>3
<1>5. CASE q > p + 1
  <2>1. r * q >= r * (p + 2) BY <1>1, <1>3, <1>5
  <2>2. r * (p + 2) = r * p + r + r BY <1>1
  <2>. QED BY <1>1, <1>3, <1>4, <2>1, <2>2
<1>6. CASE q < p
  <2>1. r * (q + 1) <= r * p BY <1>1, <1>3, <1>6
  <2>2. r * (q + 1) = r * q + r BY <1>3
  <2>. QED BY <1>1, <1>3, <1>4, <2>1, <2>2
<1>7. CASE q = p + 1
  <2>1. r * q = r * p + r BY <1>1, <1>7
  <2>. QED BY <1>1, <1>2, <1>3, <1>4, <2>1 DEF x, m
<1>8. CASE q = p BY <1>1, <1>2, <1>3, <1>4, <1>8 DEF x, m
<1>. QED BY <1>1, <1>3, <1>5, <1>6, <1>7, <1>8

\* What a ring of size b holds between its positions.
Between(b, r, w) == IF w >= r THEN w - r ELSE (b - r) + w

\* Writing n samples: what is held grows by n, modulo the ring.
LEMMA Submitted ==
  ASSUME NEW b \in Nat, NEW r \in Nat, NEW w \in Nat, NEW n \in Nat, r < b, w < b
  PROVE  /\ (w + n) % b \in Nat /\ (w + n) % b < b
         /\ Between(b, r, (w + n) % b) = (Between(b, r, w) + n) % b
<1> DEFINE m == n % b  k == Between(b, r, w)
<1>1. b > 0 /\ m \in Nat /\ m <= b BY DivMod
<1>2. k \in Nat /\ k < b BY DEF Between
<1>3. (w + n) % b = (w + m) % b BY <1>1, ModAdd
<1>4. (k + n) % b = (k + m) % b
  <2> HIDE DEF k
  <2>. QED BY <1>1, <1>2, ModAdd
<1>5. (w + m) % b = IF w + m < b THEN w + m ELSE w + m - b
  <2> HIDE DEF m
  <2>. QED BY <1>1, Wrap
<1>6. (k + m) % b = IF k + m < b THEN k + m ELSE k + m - b
  <2> HIDE DEF m, k
  <2>. QED BY <1>1, <1>2, Wrap
<1>7. m < b BY DivMod
<1> HIDE DEF m
<1>. QED BY <1>1, <1>3, <1>4, <1>5, <1>6, <1>7 DEF Between

\* Reading n of them: it falls by n.
LEMMA Taken ==
  ASSUME NEW b \in Nat, NEW r \in Nat, NEW w \in Nat, NEW n \in Nat, r < b, w < b, n <= Between(b, r, w)
  PROVE  /\ (r + n) % b \in Nat /\ (r + n) % b < b
         /\ Between(b, (r + n) % b, w) = Between(b, r, w) - n
<1>1. n <= b BY DEF Between
<1>2. (r + n) % b = IF r + n < b THEN r + n ELSE r + n - b BY <1>1, Wrap
<1>. QED BY <1>1, <1>2 DEF Between

\* The ring of a voice: its positions are in it, and it holds what is unplayed.
RingOf(v) ==
  /\ voices_[v].read_pos < BufferSize(v) /\ voices_[v].write_pos < BufferSize(v)
  /\ unplayed[v] = Buffered(v)
Rings == \A v \in VoiceIds : RingOf(v)

LEMMA Sizes == 
  /\ XmaContexts \in Nat \ {0} /\ Voices \in Nat /\ PacketsPerPass \in Nat \ {0}
  /\ VoiceFrames \in Nat \ {0} /\ PacketFrames \in Nat /\ MixFrames \in Nat
BY XmaAssumption

LEMMA Times == ASSUME NEW k \in 1 .. 6, NEW x \in Nat PROVE x * k \in Nat /\ (x > 0 => x * k > 0)
<1>. QED BY k \in {1, 2, 3, 4, 5, 6}

LEMMA RingSize ==
  ASSUME NEW v \in VoiceIds, voices_[v] \in Voice
  PROVE  BufferSize(v) \in Nat /\ BufferSize(v) > 0
BY Times, Sizes DEF BufferSize, Voice

LEMMA BufferedIs ==
  ASSUME NEW v \in VoiceIds, voices_[v] \in Voice
  PROVE  Buffered(v) = Between(BufferSize(v), voices_[v].read_pos, voices_[v].write_pos)
BY DEF Buffered, Between

\* The callback's loop stops at the first frame there are no samples for.
LEMMA MixedIs ==
  ASSUME NEW v \in VoiceIds, voices_[v] \in Voice
  PROVE  /\ Mixed(v) \in 0 .. MixFrames
         /\ \A i \in 0 .. (Mixed(v) - 1) : ((Position(v, i) \div 2) + 1) * voices_[v].channels < Buffered(v)
<1> DEFINE Needs(i) == ((Position(v, i) \div 2) + 1) * voices_[v].channels
           More(i) == Needs(i) < Buffered(v)
           T == {m \in 0 .. MixFrames : m < MixFrames => ~More(m)}
           Stops(m) == (\A i \in 0 .. (m - 1) : More(i)) /\ (m < MixFrames => Needs(m) >= Buffered(v))
<1>1. T \subseteq Nat /\ T # {}
  <2>1. MixFrames \in T BY Sizes
  <2>2. T \subseteq Nat BY Sizes
  <2> HIDE DEF T
  <2>. QED BY <2>1, <2>2
<1>2. PICK x \in T : \A y \in T : ~(y < x)
  <2>1. \E x \in T : \A y \in T : ~(<<y, x>> \in OpToRel(<, Nat))
    BY <1>1, WFMin, NatLessThanWellFounded
  <2>. QED BY <1>1, <2>1 DEF OpToRel
<1>3. \A i \in Nat : Needs(i) \in Int
  <2>1. TAKE i \in Nat
  <2>2. voices_[v].channels \in {1, 2, 3, 4, 5, 6} /\ voices_[v].position \in {0, 1} /\ voices_[v].halves \in {1, 2}
    BY DEF Voice, Half
  <2>3. Position(v, i) \in Int BY <2>2 DEF Position
  <2> DEFINE d == Position(v, i) \div 2
  <2>4. d \in Int BY <2>3
  <2> HIDE DEF d
  <2>5. (d + 1) * voices_[v].channels \in Int BY <2>2, <2>4
  <2>. QED BY <2>5 DEF d
<1>4. Buffered(v) \in Int BY RingSize DEF Buffered, Voice
<1>5. x \in 0 .. MixFrames /\ x \in Nat /\ (x < MixFrames => ~More(x)) BY <1>1
<1>6. \A i \in 0 .. (x - 1) : More(i)
  <2>1. TAKE i \in 0 .. (x - 1)
  <2>2. i \in 0 .. MixFrames /\ i < MixFrames /\ i < x BY <1>5, Sizes
  <2>3. i \notin T BY <1>2, <2>2
  <2> HIDE DEF More
  <2>. QED BY <2>2, <2>3
<1>7. x < MixFrames => Needs(x) >= Buffered(v)
  <2>1. Needs(x) \in Int BY <1>3, <1>5
  <2> HIDE DEF Needs
  <2>. QED BY <1>4, <1>5, <2>1
<1>8. \E m \in 0 .. MixFrames : Stops(m)
  <2> HIDE DEF More, Needs, T
  <2>. QED BY <1>5, <1>6, <1>7
<1>9. Mixed(v) = CHOOSE m \in 0 .. MixFrames : Stops(m) BY DEF Mixed
<1> HIDE DEF Stops
<1>10. Mixed(v) \in 0 .. MixFrames /\ Stops(Mixed(v)) BY <1>8, <1>9
<1>. QED BY <1>10 DEF Stops

\* So it takes no more than there is.
LEMMA ConsumedIs ==
  ASSUME NEW v \in VoiceIds, voices_[v] \in Voice, RingOf(v)
  PROVE  Consumed(v) \in Nat /\ Consumed(v) <= Buffered(v)
<1> DEFINE m == Mixed(v)  ch == voices_[v].channels  h == voices_[v].halves  p == voices_[v].position
<1>1. m \in 0 .. MixFrames /\ \A i \in 0 .. (m - 1) : ((Position(v, i) \div 2) + 1) * ch < Buffered(v)
  BY MixedIs
<1>2. ch \in 1 .. 6 /\ h \in {1, 2} /\ p \in {0, 1} BY DEF Voice, Half
<1>3. Buffered(v) \in Nat BY RingSize, BufferedIs DEF Between, RingOf, Voice
<1>4. Consumed(v) = (Position(v, m) \div 2) * ch BY DEF Consumed
<1>5. m \in Nat BY <1>1, Sizes
<1> HIDE DEF m, ch, h, p
<1>6. CASE m = 0
  <2>1. Position(v, m) = p BY <1>2, <1>6 DEF Position, p, h
  <2>2. p \div 2 = 0 BY <1>2
  <2>. QED BY <1>2, <1>3, <1>4, <2>1, <2>2
<1>7. CASE m > 0
  <2>1. m - 1 \in 0 .. (m - 1) BY <1>5, <1>7
  <2>2. ((Position(v, m - 1) \div 2) + 1) * ch < Buffered(v) BY <1>1, <2>1
  <2> DEFINE a == Position(v, m - 1)  z == Position(v, m)
  <2>3. z = a + h /\ a \in Nat
    <3>1. a = p + (m - 1) * h /\ z = p + m * h BY DEF Position, p, h
    <3>2. CASE h = 1 BY <1>2, <1>5, <1>7, <3>1, <3>2
    <3>3. CASE h = 2 BY <1>2, <1>5, <1>7, <3>1, <3>3
    <3>. QED BY <1>2, <3>2, <3>3
  <2> HIDE DEF a, z
  <2> DEFINE d == z \div 2  e == a \div 2
  <2>4. d \in Nat /\ e \in Nat /\ d <= e + 1 BY <1>2, <2>3
  <2>5. (e + 1) * ch < Buffered(v) BY <2>2 DEF a
  <2>6. Consumed(v) = d * ch BY <1>4 DEF z
  <2> HIDE DEF d, e
  <2>7. d * ch \in Nat /\ d * ch <= (e + 1) * ch
    <3>1. ch \in {1, 2, 3, 4, 5, 6} BY <1>2
    <3>. QED BY <2>4, <3>1
  <2>8. (e + 1) * ch \in Nat
    <3>1. ch \in {1, 2, 3, 4, 5, 6} BY <1>2
    <3>. QED BY <2>4, <3>1
  <2>. QED BY <1>3, <2>5, <2>6, <2>7, <2>8
<1>. QED BY <1>5, <1>6, <1>7

-----------------------------------------------------------------------------
(* The inductive invariant.                                                 *)

\* How far a context is with its buffers, unless the one being read was replaced:
\* it reads one in order, and the other is all unread or all read.
ReadsAs(x, u) ==
  /\ x.read <= x.size[x.index] /\ u[x.index] = x.size[x.index] - x.read
  /\ x.consumed[x.index] => x.read = x.size[x.index]
  /\ u[Other(x)] = IF x.consumed[Other(x)] THEN 0 ELSE x.size[Other(x)]
Reads(c) == ReadsAs(contexts_[c], unread[c])
Streams == \A c \in Ids : Exists(c) /\ c \notin spoilt => Reads(c)
\* A slot without a context plays nothing.
Slots == \A c \in Ids : ~Exists(c) => contexts_[c] = NoContext
XmaInv == XmaOK /\ Rings /\ Slots /\ Streams /\ OutputFits /\ VoicesOwned

LEMMA KeptByInv == ASSUME XmaInv PROVE XmaKept
<1>1. ConsumedMeansRead
  <2>1. ASSUME NEW c \in Ids, Exists(c), c \notin spoilt, NEW h \in Half, contexts_[c].consumed[h]
        PROVE  unread[c][h] = 0
    <3>1. Reads(c) BY <2>1 DEF XmaInv, Streams
    <3>2. contexts_[c] \in HardwareContext BY DEF XmaInv, XmaOK
    <3>3. CASE h = contexts_[c].index BY <2>1, <3>1, <3>2, <3>3 DEF Reads, ReadsAs, HardwareContext
    <3>4. CASE h = Other(contexts_[c]) BY <2>1, <3>1, <3>4 DEF Reads, ReadsAs
    <3>. QED BY <3>2, <3>3, <3>4 DEF HardwareContext, Half, Other
  <2>. QED BY <2>1 DEF ConsumedMeansRead
<1>2. PlaysWhatIsSubmitted
  <2>1. ASSUME NEW v \in VoiceIds PROVE unplayed[v] >= 0 /\ Buffered(v) = unplayed[v]
    <3>1. voices_[v] \in Voice /\ RingOf(v) BY DEF XmaInv, XmaOK, Rings
    <3>2. Buffered(v) \in Nat BY <3>1, RingSize, BufferedIs DEF Between, RingOf, Voice
    <3>. QED BY <3>1, <3>2 DEF RingOf
  <2>. QED BY <2>1 DEF PlaysWhatIsSubmitted
<1>. QED BY <1>1, <1>2 DEF XmaKept, XmaInv

LEMMA Begun == ASSUME XmaInit PROVE XmaInv
<1>1. NoContext \in HardwareContext /\ NoVoice \in Voice BY DEF NoContext, NoVoice, HardwareContext, Voice, Half
<1>2. XmaOK BY <1>1, Sizes DEF XmaInit, XmaOK, Half, Resting
<1>3. Rings
  <2>1. ASSUME NEW v \in VoiceIds PROVE RingOf(v)
    <3>1. voices_[v] = NoVoice /\ unplayed[v] = 0 BY DEF XmaInit
    <3>2. BufferSize(v) > 0 BY <1>1, <3>1, RingSize
    <3>. QED BY <3>1, <3>2 DEF RingOf, Buffered, NoVoice
  <2>. QED BY <2>1 DEF Rings
<1>4. Slots /\ Streams /\ OutputFits BY DEF XmaInit, Slots, Streams, OutputFits, Exists, NoContext
<1>5. VoicesOwned BY DEF XmaInit, VoicesOwned, Exists, NoContext, NoVoice
<1>. QED BY <1>2, <1>3, <1>4, <1>5 DEF XmaInv

-----------------------------------------------------------------------------
(* What the steps do to the voices.                                         *)

VoicesWell == voices_ \in [VoiceIds -> Voice] /\ unplayed \in [VoiceIds -> Int] /\ Rings
SameVoices == \A v \in VoiceIds : voices_'[v].exists = voices_[v].exists

LEMMA SubmitStep ==
  ASSUME XmaInv, NEW v \in VoiceIds, NEW n \in Nat, submit_samples(v, n)
  PROVE  VoicesWell' /\ SameVoices
<1>1. \A w \in VoiceIds : voices_[w] \in Voice /\ RingOf(w) BY DEF XmaInv, XmaOK, Rings
<1> DEFINE b == BufferSize(v)  r == voices_[v].read_pos  w0 == voices_[v].write_pos  w1 == (w0 + n) % b
<1>2. b \in Nat /\ b > 0 BY <1>1, RingSize
<1>3. r \in Nat /\ w0 \in Nat /\ r < b /\ w0 < b BY <1>1 DEF Voice, RingOf
<1>4. w1 \in Nat /\ w1 < b /\ Between(b, r, w1) = (Between(b, r, w0) + n) % b
  <2> HIDE DEF b, r, w0
  <2>. QED BY <1>2, <1>3, Submitted
<1>5. voices_' = [voices_ EXCEPT ![v] = [voices_[v] EXCEPT !.write_pos = w1]]
  BY DEF submit_samples, XmaInv, XmaOK
<1>6. unplayed' = [unplayed EXCEPT ![v] = (unplayed[v] + n) % b] BY DEF submit_samples
<1>7. unplayed[v] = Between(b, r, w0) BY <1>1, BufferedIs DEF RingOf
<1> HIDE DEF w1
<1>8. [voices_[v] EXCEPT !.write_pos = w1] \in Voice BY <1>1, <1>4 DEF Voice
<1>9. voices_' \in [VoiceIds -> Voice] BY <1>5, <1>8 DEF XmaInv, XmaOK
<1>10. unplayed'[v] = Between(b, r, w1) BY <1>4, <1>6, <1>7 DEF XmaInv, XmaOK
<1>11. unplayed' \in [VoiceIds -> Int]
  <2>1. Between(b, r, w1) \in Int BY <1>2, <1>3, <1>4 DEF Between
  <2>. QED BY <1>4, <1>6, <1>7, <2>1 DEF XmaInv, XmaOK
<1>12. ASSUME NEW w \in VoiceIds PROVE RingOf(w)' /\ voices_'[w].exists = voices_[w].exists
  <2>1. CASE w = v
    <3>1. voices_'[v] = [voices_[v] EXCEPT !.write_pos = w1] BY <1>5 DEF XmaInv, XmaOK
    <3>2. BufferSize(v)' = b BY <1>1, <3>1 DEF BufferSize, Voice
    <3>3. voices_'[v].read_pos = r /\ voices_'[v].write_pos = w1 /\ voices_'[v].exists = voices_[v].exists
      BY <1>1, <3>1 DEF Voice
    <3>4. Buffered(v)' = Between(b, r, w1) BY <3>2, <3>3 DEF Buffered, Between
    <3>. QED BY <1>3, <1>4, <1>10, <2>1, <3>2, <3>3, <3>4 DEF RingOf
  <2>2. CASE w # v
    <3>1. voices_'[w] = voices_[w] /\ unplayed'[w] = unplayed[w] BY <1>5, <1>6, <2>2 DEF XmaInv, XmaOK
    <3>. QED BY <1>1, <3>1 DEF RingOf, Buffered, BufferSize
  <2>. QED BY <2>1, <2>2
<1>. QED BY <1>9, <1>11, <1>12 DEF VoicesWell, Rings, SameVoices

LEMMA NoVoiceWell == NoVoice \in Voice /\ ~NoVoice.exists BY DEF NoVoice, Voice, Half

LEMMA DestroyStep ==
  ASSUME XmaInv, NEW V, destroy_voices(V)
  PROVE  VoicesWell' /\ \A v \in VoiceIds : voices_'[v].exists = (voices_[v].exists /\ v \notin V)
<1>1. \A w \in VoiceIds : voices_[w] \in Voice /\ RingOf(w) BY DEF XmaInv, XmaOK, Rings
<1>2. voices_' \in [VoiceIds -> Voice] /\ unplayed' \in [VoiceIds -> Int]
  BY <1>1, NoVoiceWell DEF destroy_voices, XmaInv, XmaOK
<1>3. ASSUME NEW v \in VoiceIds
      PROVE  RingOf(v)' /\ voices_'[v].exists = (voices_[v].exists /\ v \notin V)
  <2>1. CASE v \in V
    <3>1. voices_'[v] = NoVoice /\ unplayed'[v] = 0 BY <2>1 DEF destroy_voices
    <3>2. BufferSize(v)' = VoiceFrames BY <3>1, Sizes DEF BufferSize, NoVoice
    <3>3. RingOf(v)' BY <3>1, <3>2, Sizes DEF RingOf, Buffered, NoVoice
    <3>4. voices_'[v].exists = FALSE BY <3>1, NoVoiceWell, NoVoiceWell DEF NoVoice
    <3>. QED BY <2>1, <3>3, <3>4
  <2>2. CASE v \notin V
    <3>1. voices_'[v] = voices_[v] /\ unplayed'[v] = unplayed[v] BY <2>2 DEF destroy_voices
    <3>2. voices_[v].exists \in BOOLEAN BY <1>1 DEF Voice
    <3>3. RingOf(v)' BY <1>1, <3>1 DEF RingOf, Buffered, BufferSize
    <3>. QED BY <2>2, <3>1, <3>2, <3>3
  <2>. QED BY <2>1, <2>2
<1>. QED BY <1>2, <1>3 DEF VoicesWell, Rings

LEMMA CreateStep ==
  ASSUME XmaInv, NEW v \in VoiceIds, NEW ctx \in HardwareContext, create_voice(v, ctx)
  PROVE  VoicesWell' /\ \A w \in VoiceIds : voices_'[w].exists = (voices_[w].exists \/ w = v)
<1>1. \A w \in VoiceIds : voices_[w] \in Voice /\ RingOf(w) BY DEF XmaInv, XmaOK, Rings
<1> DEFINE x == [NoVoice EXCEPT !.exists = TRUE, !.channels = ctx.channels, !.halves = ctx.halves]
<1>2. x \in Voice /\ x.exists /\ x.read_pos = 0 /\ x.write_pos = 0
  BY DEF HardwareContext, Voice, NoVoice, Half
<1>3. voices_' = [voices_ EXCEPT ![v] = x] /\ unplayed' = [unplayed EXCEPT ![v] = 0] BY DEF create_voice
<1> HIDE DEF x
<1>4. voices_' \in [VoiceIds -> Voice] /\ unplayed' \in [VoiceIds -> Int] BY <1>2, <1>3 DEF XmaInv, XmaOK
<1>5. ASSUME NEW w \in VoiceIds
      PROVE  RingOf(w)' /\ voices_'[w].exists = (voices_[w].exists \/ w = v)
  <2>1. CASE w = v
    <3>1. voices_'[w] = x /\ unplayed'[w] = 0 BY <1>3, <2>1 DEF XmaInv, XmaOK
    <3>2. BufferSize(w)' \in Nat /\ BufferSize(w)' > 0
      <4>1. BufferSize(w)' = VoiceFrames * x.channels BY <3>1 DEF BufferSize
      <4>2. x.channels \in 1 .. 6 BY <1>2 DEF Voice
      <4>. QED BY <4>1, <4>2, Sizes, Times
    <3>3. RingOf(w)' BY <1>2, <3>1, <3>2 DEF RingOf, Buffered
    <3>4. voices_'[w].exists = TRUE BY <1>2, <3>1 DEF Voice
    <3>. QED BY <2>1, <3>3, <3>4
  <2>2. CASE w # v
    <3>1. voices_'[w] = voices_[w] /\ unplayed'[w] = unplayed[w] BY <1>3, <2>2 DEF XmaInv, XmaOK
    <3>2. voices_[w].exists \in BOOLEAN BY <1>1 DEF Voice
    <3>3. RingOf(w)' BY <1>1, <3>1 DEF RingOf, Buffered, BufferSize
    <3>. QED BY <2>2, <3>1, <3>2, <3>3
  <2>. QED BY <2>1, <2>2
<1>. QED BY <1>4, <1>5 DEF VoicesWell, Rings

LEMMA OutputStep == ASSUME XmaInv, get_output PROVE VoicesWell' /\ SameVoices
<1>1. \A w \in VoiceIds : voices_[w] \in Voice /\ RingOf(w) BY DEF XmaInv, XmaOK, Rings
<1>2. ASSUME NEW v \in VoiceIds
      PROVE  /\ voices_'[v] \in Voice /\ unplayed'[v] \in Int /\ RingOf(v)'
             /\ voices_'[v].exists = voices_[v].exists
  <2>1. CASE v \in Playing
    <3> DEFINE b == BufferSize(v)  r == voices_[v].read_pos  w == voices_[v].write_pos  n == Consumed(v)
               r1 == (r + n) % b  q == Position(v, Mixed(v)) % 2
    <3>1. n \in Nat /\ n <= Buffered(v) BY <1>1, ConsumedIs
    <3>2. b \in Nat /\ b > 0 /\ Buffered(v) = Between(b, r, w) BY <1>1, RingSize, BufferedIs
    <3>3. r \in Nat /\ w \in Nat /\ r < b /\ w < b BY <1>1 DEF Voice, RingOf
    <3>4. q \in Half
      <4>1. Position(v, Mixed(v)) \in Nat
        <5>1. Mixed(v) \in Nat BY <1>1, MixedIs, Sizes
        <5>2. voices_[v].position \in {0, 1} /\ voices_[v].halves \in {1, 2} BY <1>1 DEF Voice, Half
        <5> HIDE DEF q
        <5>. QED BY <5>1, <5>2 DEF Position
      <4> DEFINE z == Position(v, Mixed(v))
      <4> HIDE DEF z
      <4>2. z \in Nat => z % 2 \in {0, 1} OBVIOUS
      <4>. QED BY <4>1, <4>2 DEF z, Half
    <3>5. voices_'[v] = [voices_[v] EXCEPT !.read_pos = r1, !.position = q]
      BY <2>1 DEF get_output, Played
    <3>6. unplayed'[v] = unplayed[v] - n BY <2>1 DEF get_output
    <3> HIDE DEF n, q
    <3>7. r1 \in Nat /\ r1 < b /\ Between(b, r1, w) = Between(b, r, w) - n
      <4>1. n <= Between(b, r, w) BY <3>1, <3>2
      <4> HIDE DEF b, r, w
      <4>. QED BY <3>1, <3>2, <3>3, <4>1, Taken
    <3> HIDE DEF r1
    <3>8. voices_'[v] \in Voice /\ voices_'[v].exists = voices_[v].exists /\ voices_'[v].read_pos = r1
          /\ voices_'[v].write_pos = w /\ voices_'[v].channels = voices_[v].channels
      BY <1>1, <3>4, <3>5, <3>7 DEF Voice
    <3>9. BufferSize(v)' = b /\ Buffered(v)' = Between(b, r1, w) BY <3>8 DEF BufferSize, Buffered, Between
    <3>10. unplayed[v] = Between(b, r, w) BY <1>1, <3>2 DEF RingOf
    <3>11. Between(b, r, w) \in Int BY <3>2, <3>3 DEF Between
    <3> HIDE DEF b, r, w
    <3>12. unplayed'[v] \in Int /\ unplayed'[v] = Buffered(v)' BY <3>1, <3>6, <3>7, <3>9, <3>10, <3>11
    <3>13. RingOf(v)' BY <3>3, <3>7, <3>8, <3>9, <3>12 DEF RingOf
    <3>. QED BY <3>8, <3>12, <3>13
  <2>2. CASE v \notin Playing
    <3>1. voices_'[v] = voices_[v] /\ unplayed'[v] = unplayed[v] BY <2>2 DEF get_output
    <3>. QED BY <1>1, <3>1 DEF RingOf, Buffered, BufferSize, XmaInv, XmaOK
  <2>. QED BY <2>1, <2>2
<1>3. voices_' \in [VoiceIds -> Voice] /\ unplayed' \in [VoiceIds -> Int]
  <2>1. voices_' = [v \in VoiceIds |-> voices_'[v]] /\ unplayed' = [v \in VoiceIds |-> unplayed'[v]]
    BY DEF get_output
  <2>. QED BY <1>2, <2>1
<1>. QED BY <1>2, <1>3 DEF VoicesWell, Rings, SameVoices

-----------------------------------------------------------------------------
(* What they do to a context.                                               *)

\* A context is changed to x, which reads where its history says.
LEMMA Changed ==
  ASSUME XmaInv, NEW c \in Ids, NEW x \in HardwareContext, Exists(c), x.exists,
         contexts_' = [contexts_ EXCEPT ![c] = x], x.written <= x.out,
         x.voice = contexts_[c].voice, VoicesWell', SameVoices,
         \A d \in Ids \ {c} : unread'[d] = unread[d] /\ (d \in spoilt' <=> d \in spoilt),
         c \notin spoilt' => Reads(c)',
         unread' \in [Ids -> [Half -> Nat]], spoilt' \subseteq Ids
  PROVE  Slots' /\ Streams' /\ OutputFits' /\ VoicesOwned' /\ Rings'
         /\ contexts_' \in [Ids -> HardwareContext]
<1>1. contexts_ \in [Ids -> HardwareContext] BY DEF XmaInv, XmaOK
<1>2. contexts_'[c] = x /\ \A d \in Ids \ {c} : contexts_'[d] = contexts_[d] BY <1>1
<1>3. contexts_' \in [Ids -> HardwareContext] BY <1>1
<1>4. \A d \in Ids : Exists(d)' <=> Exists(d)
  <2>1. Exists(c)' /\ Exists(c) BY <1>2 DEF Exists
  <2>. QED BY <1>2, <2>1 DEF Exists
<1>5. Slots' BY <1>2, <1>4 DEF XmaInv, Slots, Exists
<1>6. OutputFits' BY <1>2 DEF XmaInv, OutputFits
<1>7. Streams'
  <2>1. ASSUME NEW d \in Ids, d # c, Exists(d)', d \notin spoilt' PROVE Reads(d)'
    <3>1. Reads(d) BY <1>4, <2>1 DEF XmaInv, Streams
    <3>. QED BY <1>2, <2>1, <3>1 DEF Reads, ReadsAs
  <2>. QED BY <2>1 DEF Streams
<1>8. \A d \in Ids : contexts_'[d].voice = contexts_[d].voice BY <1>2
<1>9. VoicesOwned'
  <2>1. {v \in VoiceIds : voices_'[v].exists} = {v \in VoiceIds : voices_[v].exists} BY DEF SameVoices
  <2>2. {d \in Ids : Exists(d)'} = {d \in Ids : Exists(d)} BY <1>4
  <2>. QED BY <1>8, <2>1, <2>2 DEF XmaInv, VoicesOwned
<1>. QED BY <1>3, <1>5, <1>6, <1>7, <1>9 DEF VoicesWell

LEMMA KeptVoices == ASSUME XmaInv, UNCHANGED <<voices_, unplayed>> PROVE VoicesWell' /\ SameVoices
BY DEF XmaInv, XmaOK, VoicesWell, SameVoices, Rings, RingOf, Buffered, BufferSize

LEMMA SetInputStep ==
  ASSUME XmaInv, NEW c \in Ids, NEW size \in InputSize, NEW h \in Half, calls' \in Nat,
         set_input_buffer(c, size, h)
  PROVE  XmaInv'
<1> DEFINE y == contexts_[c]  x == [y EXCEPT !.size[h] = size, !.consumed[h] = FALSE]
<1>1. y \in HardwareContext /\ Exists(c) /\ size \in Nat BY XmaAssumption DEF XmaInv, XmaOK, set_input_buffer
<1>2. x \in HardwareContext /\ x.exists /\ x.voice = y.voice /\ x.written = y.written /\ x.out = y.out
      /\ x.index = y.index /\ x.read = y.read
      /\ x.size = [y.size EXCEPT ![h] = size] /\ x.consumed = [y.consumed EXCEPT ![h] = FALSE]
  BY <1>1 DEF HardwareContext, Exists
<1>3. contexts_' = [contexts_ EXCEPT ![c] = x] BY DEF set_input_buffer, XmaInv, XmaOK
<1>4. unread' = [unread EXCEPT ![c] = [unread[c] EXCEPT ![h] = size]] BY DEF set_input_buffer, XmaInv, XmaOK
<1>5. unread' \in [Ids -> [Half -> Nat]] BY <1>1, <1>4 DEF XmaInv, XmaOK
<1>6. spoilt' \subseteq Ids /\ (\A d \in Ids \ {c} : d \in spoilt' <=> d \in spoilt)
      /\ (c \notin spoilt' => c \notin spoilt /\ ~(y.index = h /\ y.read > 0))
  BY DEF set_input_buffer, XmaInv, XmaOK
<1>7. \A d \in Ids \ {c} : unread'[d] = unread[d] BY <1>4 DEF XmaInv, XmaOK
<1>8. contexts_'[c] = x /\ unread'[c] = [unread[c] EXCEPT ![h] = size] BY <1>3, <1>4 DEF XmaInv, XmaOK
<1> HIDE DEF x
<1>9. ASSUME c \notin spoilt' PROVE Reads(c)'
  <2>1. Reads(c) /\ ~(y.index = h /\ y.read > 0) BY <1>1, <1>6, <1>9 DEF XmaInv, Streams
  <2>2. unread[c] \in [Half -> Nat] BY DEF XmaInv, XmaOK
  <2>3. y.size \in [Half -> Nat] /\ y.consumed \in [Half -> BOOLEAN] /\ y.index \in Half /\ y.read \in Nat
    BY <1>1 DEF HardwareContext
  <2>4. CASE h = y.index
    <3>1. y.read = 0 BY <2>1, <2>3, <2>4
    <3>. QED BY <1>1, <1>2, <1>8, <2>1, <2>2, <2>3, <2>4, <3>1 DEF Reads, ReadsAs, Other, Half
  <2>5. CASE h # y.index
    <3>1. h = 1 - y.index BY <2>3, <2>5 DEF Half
    <3>. QED BY <1>1, <1>2, <1>8, <2>1, <2>2, <2>3, <2>5, <3>1 DEF Reads, ReadsAs, Other, Half
  <2>. QED BY <2>4, <2>5
<1>10. VoicesWell' /\ SameVoices BY KeptVoices DEF set_input_buffer
<1>11. x.written <= x.out BY <1>2 DEF XmaInv, OutputFits
<1>12. Slots' /\ Streams' /\ OutputFits' /\ VoicesOwned' /\ Rings' /\ contexts_' \in [Ids -> HardwareContext]
  BY <1>1, <1>2, <1>3, <1>5, <1>6, <1>7, <1>9, <1>10, <1>11, Changed
<1>13. UNCHANGED <<running_, processing, blocked>> BY DEF set_input_buffer
<1>. QED BY <1>5, <1>6, <1>10, <1>12, <1>13 DEF XmaInv, XmaOK, VoicesWell

\* A context keeps its buffers, and where it is with them.
LEMMA ConfigureStep ==
  ASSUME XmaInv, NEW c \in Ids, NEW x \in HardwareContext, calls' \in Nat, Exists(c), x.exists,
         contexts_' = [contexts_ EXCEPT ![c] = x], x.written <= x.out,
         x.voice = contexts_[c].voice, x.size = contexts_[c].size, x.consumed = contexts_[c].consumed,
         x.index = contexts_[c].index, x.read = contexts_[c].read,
         UNCHANGED <<voices_, running_, processing, blocked, unread, spoilt, unplayed>>
  PROVE  XmaInv'
<1>1. contexts_'[c] = x BY DEF XmaInv, XmaOK
<1>2. ASSUME c \notin spoilt' PROVE Reads(c)'
  <2>1. Reads(c) BY <1>2 DEF XmaInv, Streams
  <2>. QED BY <1>1, <2>1 DEF Reads, ReadsAs, Other
<1>3. VoicesWell' /\ SameVoices BY KeptVoices
<1>4. Slots' /\ Streams' /\ OutputFits' /\ VoicesOwned' /\ Rings' /\ contexts_' \in [Ids -> HardwareContext]
  BY <1>2, <1>3, Changed DEF XmaInv, XmaOK
<1>. QED BY <1>3, <1>4 DEF XmaInv, XmaOK, VoicesWell

LEMMA SetOutputStep ==
  ASSUME XmaInv, NEW c \in Ids, NEW size \in OutputSize, calls' \in Nat, set_output_buffer(c, size)
  PROVE  XmaInv'
<1> DEFINE y == contexts_[c]  x == [y EXCEPT !.out = size, !.written = 0]
<1>1. y \in HardwareContext /\ Exists(c) /\ size \in Nat BY XmaAssumption DEF XmaInv, XmaOK, set_output_buffer
<1>2. x \in HardwareContext /\ x.exists /\ x.voice = y.voice /\ x.written = 0 /\ x.out = size
      /\ x.index = y.index /\ x.read = y.read /\ x.size = y.size /\ x.consumed = y.consumed
  BY <1>1 DEF HardwareContext, Exists
<1>3. contexts_' = [contexts_ EXCEPT ![c] = x] BY DEF set_output_buffer, XmaInv, XmaOK
<1>4. UNCHANGED <<voices_, running_, processing, blocked, unread, spoilt, unplayed>>
  BY DEF set_output_buffer, history_vars
<1> HIDE DEF x
<1>5. x.written <= x.out BY <1>1, <1>2
<1>. QED BY <1>1, <1>2, <1>3, <1>4, <1>5, ConfigureStep

LEMMA SetDataStep ==
  ASSUME XmaInv, NEW c \in Ids, NEW channels \in Channels, NEW halves \in {1, 2}, calls' \in Nat,
         SetContextData(c, channels, halves)
  PROVE  XmaInv'
<1> DEFINE y == contexts_[c]  x == [y EXCEPT !.channels = channels, !.halves = halves]
<1>1. y \in HardwareContext /\ Exists(c) /\ channels \in 1 .. 6 BY XmaAssumption DEF XmaInv, XmaOK, SetContextData
<1>2. x \in HardwareContext /\ x.exists /\ x.voice = y.voice /\ x.written = y.written /\ x.out = y.out
      /\ x.index = y.index /\ x.read = y.read /\ x.size = y.size /\ x.consumed = y.consumed
  BY <1>1 DEF HardwareContext, Exists
<1>3. contexts_' = [contexts_ EXCEPT ![c] = x] BY DEF SetContextData, XmaInv, XmaOK
<1>4. UNCHANGED <<voices_, running_, processing, blocked, unread, spoilt, unplayed>>
  BY DEF SetContextData, history_vars
<1> HIDE DEF x
<1>5. x.written <= x.out BY <1>2 DEF XmaInv, OutputFits
<1>. QED BY <1>1, <1>2, <1>3, <1>4, <1>5, ConfigureStep

LEMMA DisableStep == ASSUME XmaInv, NEW c \in Ids, calls' \in Nat, disable_context(c) PROVE XmaInv'
<1> DEFINE y == contexts_[c]  x == [y EXCEPT !.active = FALSE]
<1>1. y \in HardwareContext /\ Exists(c) BY DEF XmaInv, XmaOK, disable_context
<1>2. x \in HardwareContext /\ x.exists /\ x.voice = y.voice /\ x.written = y.written /\ x.out = y.out
      /\ x.index = y.index /\ x.read = y.read /\ x.size = y.size /\ x.consumed = y.consumed
  BY <1>1 DEF HardwareContext, Exists
<1>3. contexts_' = [contexts_ EXCEPT ![c] = x] BY DEF disable_context, XmaInv, XmaOK
<1>4. UNCHANGED <<voices_, running_, processing, blocked, unread, spoilt, unplayed>>
  BY DEF disable_context, history_vars
<1> HIDE DEF x
<1>5. x.written <= x.out BY <1>2 DEF XmaInv, OutputFits
<1>. QED BY <1>1, <1>2, <1>3, <1>4, <1>5, ConfigureStep

\* A restarted context reads from the start of a buffer; both are unread unless empty.
LEMMA RestartedIs ==
  ASSUME NEW y \in HardwareContext
  PROVE  LET x == Restarted(y) IN
         /\ x \in HardwareContext /\ x.exists = y.exists /\ x.voice = y.voice /\ x.written = y.written
         /\ x.out = y.out /\ x.index = y.index /\ x.read = 0 /\ x.size = y.size
         /\ \A h \in Half : x.consumed[h] <=> y.size[h] = 0
<1> DEFINE f == [h \in Half |-> y.size[h] = 0]
<1>1. f \in [Half -> BOOLEAN] /\ \A h \in Half : f[h] <=> y.size[h] = 0 OBVIOUS
<1>2. Restarted(y) = [y EXCEPT !.active = TRUE, !.read = 0, !.consumed = f] BY DEF Restarted
<1> HIDE DEF f
<1>3. [y EXCEPT !.active = TRUE, !.read = 0, !.consumed = f] \in HardwareContext BY <1>1 DEF HardwareContext
<1>4. Restarted(y).consumed = f BY <1>2 DEF HardwareContext
<1>5. Restarted(y).exists = y.exists BY <1>2 DEF HardwareContext
<1>. QED BY <1>1, <1>2, <1>3, <1>4, <1>5 DEF HardwareContext

LEMMA Afresh ==
  ASSUME NEW c \in Ids, NEW y \in HardwareContext, NEW x \in HardwareContext,
         contexts_'[c] = x, unread'[c] = y.size, x.index = y.index, x.read = 0, x.size = y.size,
         \A h \in Half : x.consumed[h] <=> y.size[h] = 0
  PROVE  Reads(c)'
<1>1. y.size \in [Half -> Nat] /\ y.index \in Half /\ 1 - y.index \in Half BY DEF HardwareContext, Half
<1>2. y.size[y.index] \in Nat /\ y.size[1 - y.index] \in Nat BY <1>1
<1>3. x.consumed[x.index] => y.size[y.index] = 0 BY <1>1
<1>4. unread'[c][1 - x.index] = IF x.consumed[1 - x.index] THEN 0 ELSE x.size[1 - x.index]
  <2>1. CASE x.consumed[1 - x.index] BY <1>1, <2>1
  <2>2. CASE ~x.consumed[1 - x.index] BY <1>1, <2>2
  <2>. QED BY <2>1, <2>2
<1>. QED BY <1>1, <1>2, <1>3, <1>4 DEF Reads, ReadsAs, Other

\* Both buffers are unread again; a voice is found if there was none.
LEMMA EnableStep == ASSUME XmaInv, NEW c \in Ids, calls' \in Nat, enable_context(c) PROVE XmaInv'
<1> DEFINE y == contexts_[c]  x == Restarted(y)
<1>1. y \in HardwareContext /\ Exists(c) BY DEF XmaInv, XmaOK, enable_context
<1>2. /\ x \in HardwareContext /\ x.exists /\ x.voice = y.voice /\ x.written = y.written /\ x.out = y.out
      /\ x.index = y.index /\ x.read = 0 /\ x.size = y.size
      /\ \A h \in Half : x.consumed[h] <=> y.size[h] = 0
  BY <1>1, RestartedIs DEF Exists
<1> HIDE DEF x
<1>3. y.written <= y.out BY DEF XmaInv, OutputFits
<1>4. unread' = [unread EXCEPT ![c] = y.size] /\ spoilt' = spoilt \ {c}
      /\ UNCHANGED <<running_, processing, blocked>>
  BY DEF enable_context
<1>5. unread' \in [Ids -> [Half -> Nat]] /\ spoilt' \subseteq Ids BY <1>1, <1>4 DEF XmaInv, XmaOK, HardwareContext
<1>6. unread'[c] = y.size /\ \A d \in Ids \ {c} : unread'[d] = unread[d] /\ (d \in spoilt' <=> d \in spoilt)
  BY <1>4 DEF XmaInv, XmaOK
<1>7. CASE y.voice = NoId /\ FreeVoices # {}
  <2>1. PICK v \in FreeVoices :
          contexts_' = [contexts_ EXCEPT ![c] = [x EXCEPT !.voice = v]] /\ create_voice(v, x)
    BY <1>2, <1>7 DEF enable_context, x
  <2> DEFINE z == [x EXCEPT !.voice = v]
  <2>2. v \in VoiceIds /\ ~voices_[v].exists /\ v # NoId BY Sizes DEF FreeVoices, VoiceIds, NoId
  <2>3. z \in HardwareContext /\ z.exists /\ z.voice = v /\ z.written = y.written /\ z.out = y.out
        /\ z.index = y.index /\ z.read = 0 /\ z.size = y.size /\ z.consumed = x.consumed
    BY <1>2, <2>2 DEF HardwareContext
  <2>4. contexts_' = [contexts_ EXCEPT ![c] = z] BY <2>1
  <2>5. VoicesWell' /\ \A w \in VoiceIds : voices_'[w].exists = (voices_[w].exists \/ w = v)
    <3>. QED BY <1>2, <2>1, <2>2, CreateStep
  <2> HIDE DEF z
  <2>6. contexts_ \in [Ids -> HardwareContext] BY DEF XmaInv, XmaOK
  <2>7. contexts_'[c] = z /\ \A d \in Ids \ {c} : contexts_'[d] = contexts_[d] BY <2>4, <2>6
  <2>8. contexts_' \in [Ids -> HardwareContext] BY <2>3, <2>4, <2>6
  <2>9. \A d \in Ids : Exists(d)' <=> Exists(d)
    <3>1. Exists(c)' BY <2>3, <2>7 DEF Exists
    <3>. QED BY <1>1, <2>7, <3>1 DEF Exists
  <2>10. Slots' BY <2>7, <2>9, <1>1 DEF XmaInv, Slots
  <2>11. OutputFits' BY <1>3, <2>3, <2>7 DEF XmaInv, OutputFits
  <2>12. Streams'
    <3>1. ASSUME NEW d \in Ids, d # c, Exists(d)', d \notin spoilt' PROVE Reads(d)'
      <4>1. Reads(d) BY <1>6, <2>9, <3>1 DEF XmaInv, Streams
      <4>. QED BY <1>6, <2>7, <3>1, <4>1 DEF Reads, ReadsAs
    <3>2. Reads(c)'
      <4>1. z.consumed = x.consumed BY <2>3
      <4>. QED BY <1>1, <1>2, <1>6, <2>3, <2>7, <4>1, Afresh
    <3>. QED BY <3>1, <3>2 DEF Streams
  <2>13. VoicesOwned'
    <3> DEFINE Owned == {contexts_[d].voice : d \in {e \in Ids : Exists(e)}} \ {NoId}
    <3>1. {w \in VoiceIds : voices_[w].exists} = Owned BY DEF XmaInv, VoicesOwned
    <3>2. \A d \in Ids : contexts_[d].voice # v
      <4>1. v \notin Owned BY <2>2, <3>1
      <4>2. \A d \in Ids : Exists(d) => contexts_[d].voice # v BY <2>2, <4>1
      <4>3. \A d \in Ids : ~Exists(d) => contexts_[d].voice = NoId BY DEF XmaInv, Slots, NoContext
      <4>. QED BY <2>2, <4>2, <4>3
    <3>3. \A d, e \in Ids : contexts_'[d].voice = contexts_'[e].voice /\ contexts_'[d].voice # NoId => d = e
      BY <2>3, <2>7, <3>2 DEF XmaInv, VoicesOwned
    <3>4. {w \in VoiceIds : voices_'[w].exists} = Owned \cup {v}
      <4>1. {w \in VoiceIds : voices_'[w].exists} = {w \in VoiceIds : voices_[w].exists} \cup {v} BY <2>2, <2>5
      <4>. QED BY <3>1, <4>1
    <3>5. {contexts_'[d].voice : d \in {e \in Ids : Exists(e)'}} \ {NoId} = Owned \cup {v}
      <4>1. ASSUME NEW d \in Ids, Exists(d)', contexts_'[d].voice # NoId PROVE contexts_'[d].voice \in Owned \cup {v}
        BY <2>3, <2>7, <2>9, <4>1
      <4>2. ASSUME NEW w \in Owned PROVE \E d \in Ids : Exists(d)' /\ contexts_'[d].voice = w /\ w # NoId
        <5>1. PICK d \in Ids : Exists(d) /\ contexts_[d].voice = w /\ w # NoId BY <4>2
        <5>2. d # c BY <1>7, <5>1
        <5>. QED BY <2>7, <2>9, <5>1, <5>2
      <4>3. Exists(c)' /\ contexts_'[c].voice = v BY <1>1, <2>3, <2>7, <2>9
      <4> HIDE DEF Owned
      <4>. QED BY <2>2, <4>1, <4>2, <4>3
    <3>. QED BY <3>3, <3>4, <3>5 DEF VoicesOwned
  <2>. QED BY <1>4, <1>5, <2>5, <2>8, <2>10, <2>11, <2>12, <2>13 DEF XmaInv, XmaOK, VoicesWell
<1>8. CASE ~(y.voice = NoId /\ FreeVoices # {})
  <2>1. contexts_' = [contexts_ EXCEPT ![c] = x] /\ UNCHANGED <<voices_, unplayed>>
    BY <1>2, <1>8 DEF enable_context, x
  <2>2. contexts_'[c] = x BY <2>1 DEF XmaInv, XmaOK
  <2>3. Reads(c)' BY <1>1, <1>2, <1>6, <2>2, Afresh
  <2>4. VoicesWell' /\ SameVoices BY <2>1, KeptVoices
  <2>5. x.written <= x.out BY <1>2, <1>3
  <2>6. Slots' /\ Streams' /\ OutputFits' /\ VoicesOwned' /\ Rings' /\ contexts_' \in [Ids -> HardwareContext]
    BY <1>1, <1>2, <1>5, <1>6, <2>1, <2>3, <2>4, <2>5, Changed
  <2>. QED BY <1>4, <1>5, <2>4, <2>6 DEF XmaInv, XmaOK, VoicesWell
<1>. QED BY <1>7, <1>8

LEMMA CreateContextStep == ASSUME XmaInv, NEW c \in Ids, calls' \in Nat, create_context(c) PROVE XmaInv'
<1> DEFINE x == [NoContext EXCEPT !.exists = TRUE]
<1>1. x \in HardwareContext /\ x.exists /\ x.voice = NoId /\ x.written = 0 /\ x.out = 0
      /\ x.index = 0 /\ x.read = 0 /\ x.size = [h \in Half |-> 0] /\ x.consumed = [h \in Half |-> FALSE]
  <2>1. NoContext \in HardwareContext BY DEF HardwareContext, NoContext, Half
  <2>2. x \in HardwareContext /\ x.exists BY <2>1 DEF HardwareContext
  <2>3. x.voice = NoId /\ x.written = 0 /\ x.out = 0 /\ x.index = 0 /\ x.read = 0 BY DEF NoContext
  <2>4. x.size = [h \in Half |-> 0] /\ x.consumed = [h \in Half |-> FALSE] BY DEF NoContext
  <2>. QED BY <2>2, <2>3, <2>4
<1>2. contexts_' = [contexts_ EXCEPT ![c] = x] /\ UNCHANGED <<voices_, running_, processing, blocked, unplayed>>
      /\ unread' = [unread EXCEPT ![c] = [h \in Half |-> 0]] /\ spoilt' = spoilt \ {c} /\ ~Exists(c)
  BY DEF create_context
<1> HIDE DEF x
<1>3. contexts_ \in [Ids -> HardwareContext] /\ unread \in [Ids -> [Half -> Nat]] BY DEF XmaInv, XmaOK
<1>4. contexts_' \in [Ids -> HardwareContext] /\ unread' \in [Ids -> [Half -> Nat]] /\ spoilt' \subseteq Ids
  BY <1>1, <1>2, <1>3 DEF XmaInv, XmaOK
<1>5. contexts_'[c] = x /\ unread'[c] = [h \in Half |-> 0]
      /\ \A d \in Ids \ {c} : contexts_'[d] = contexts_[d] /\ unread'[d] = unread[d] /\ (d \in spoilt' <=> d \in spoilt)
  BY <1>2, <1>3
<1>6. \A d \in Ids \ {c} : Exists(d)' <=> Exists(d) BY <1>5 DEF Exists
<1>7. Exists(c)' BY <1>1, <1>5 DEF Exists
<1>8. Slots' BY <1>5, <1>6, <1>7 DEF XmaInv, Slots
<1>9. OutputFits' BY <1>1, <1>5 DEF XmaInv, OutputFits
<1>10. Streams'
  <2>1. ASSUME NEW d \in Ids, d # c, Exists(d)', d \notin spoilt' PROVE Reads(d)'
    <3>1. Reads(d) BY <1>5, <1>6, <2>1 DEF XmaInv, Streams
    <3>. QED BY <1>5, <2>1, <3>1 DEF Reads, ReadsAs
  <2>2. Reads(c)' BY <1>1, <1>5 DEF Reads, ReadsAs, Other, Half
  <2>. QED BY <2>1, <2>2 DEF Streams
<1>11. VoicesOwned'
  <2>1. contexts_[c].voice = NoId BY <1>2 DEF XmaInv, Slots, NoContext
  <2>2. \A d \in Ids : contexts_'[d].voice = contexts_[d].voice BY <1>1, <1>5, <2>1
  <2>3. {contexts_'[d].voice : d \in {e \in Ids : Exists(e)'}} \ {NoId}
        = {contexts_[d].voice : d \in {e \in Ids : Exists(e)}} \ {NoId}
    BY <1>6, <2>1, <2>2
  <2>. QED BY <1>2, <2>2, <2>3 DEF XmaInv, VoicesOwned
<1>12. VoicesWell' BY <1>2, KeptVoices
<1>. QED BY <1>2, <1>4, <1>8, <1>9, <1>10, <1>11, <1>12 DEF XmaInv, XmaOK, VoicesWell

\* The contexts in C are gone, with their voices.
LEMMA GoneStep ==
  ASSUME XmaInv, NEW C, C \subseteq Ids, calls' \in Nat, running_' \in BOOLEAN,
         contexts_' = [d \in Ids |-> IF d \in C THEN NoContext ELSE contexts_[d]],
         destroy_voices({contexts_[d].voice : d \in C}),
         UNCHANGED <<processing, blocked, unread, spoilt>>
  PROVE  XmaInv'
<1> DEFINE V == {contexts_[d].voice : d \in C}
<1>1. NoContext \in HardwareContext /\ ~NoContext.exists /\ NoContext.voice = NoId
      /\ NoContext.written = 0 /\ NoContext.out = 0
  BY DEF NoContext, HardwareContext, Half
<1>2. VoicesWell' /\ \A v \in VoiceIds : voices_'[v].exists = (voices_[v].exists /\ v \notin V) BY DestroyStep
<1>3. contexts_' \in [Ids -> HardwareContext] BY <1>1 DEF XmaInv, XmaOK
<1>4. \A d \in Ids : (d \in C => contexts_'[d] = NoContext) /\ (d \notin C => contexts_'[d] = contexts_[d]) OBVIOUS
<1>5. \A d \in Ids : Exists(d)' <=> Exists(d) /\ d \notin C BY <1>1, <1>4 DEF Exists
<1>6. Slots' BY <1>4, <1>5 DEF XmaInv, Slots
<1>7. OutputFits' BY <1>1, <1>4 DEF XmaInv, OutputFits
<1>8. Streams'
  <2>1. ASSUME NEW d \in Ids, Exists(d)', d \notin spoilt' PROVE Reads(d)'
    <3>1. Reads(d) /\ d \notin C BY <1>5, <2>1 DEF XmaInv, Streams
    <3>. QED BY <1>4, <3>1 DEF Reads, ReadsAs
  <2>. QED BY <2>1 DEF Streams
<1>9. VoicesOwned'
  <2>1. \A d, e \in Ids : contexts_'[d].voice = contexts_'[e].voice /\ contexts_'[d].voice # NoId => d = e
    BY <1>1, <1>4 DEF XmaInv, VoicesOwned
  <2> DEFINE Owned == {contexts_[d].voice : d \in {e \in Ids : Exists(e)}} \ {NoId}
             Owned1 == {contexts_'[d].voice : d \in {e \in Ids : Exists(e)'}} \ {NoId}
  <2>2. {v \in VoiceIds : voices_[v].exists} = Owned BY DEF XmaInv, VoicesOwned
  <2>3. {v \in VoiceIds : voices_'[v].exists} = Owned \ V
    <3> HIDE DEF Owned, V
    <3>. QED BY <1>2, <2>2
  <2>4. Owned1 \subseteq Owned \ V
    <3>1. ASSUME NEW d \in Ids, Exists(d)', contexts_'[d].voice # NoId PROVE contexts_'[d].voice \in Owned \ V
      <4>1. d \notin C /\ Exists(d) /\ contexts_'[d] = contexts_[d] BY <1>4, <1>5, <3>1
      <4>2. contexts_[d].voice \notin V BY <3>1, <4>1 DEF XmaInv, VoicesOwned
      <4>. QED BY <3>1, <4>1, <4>2
    <3>. QED BY <3>1
  <2>5. Owned \ V \subseteq Owned1
    <3>1. ASSUME NEW d \in Ids, Exists(d), contexts_[d].voice # NoId, contexts_[d].voice \notin V
          PROVE  contexts_[d].voice \in Owned1
      <4>1. d \notin C BY <3>1
      <4>. QED BY <1>4, <1>5, <3>1, <4>1
    <3>. QED BY <3>1
  <2>. QED BY <2>1, <2>3, <2>4, <2>5 DEF VoicesOwned
<1>. QED BY <1>2, <1>3, <1>6, <1>7, <1>8, <1>9 DEF XmaInv, XmaOK, VoicesWell

\* The context a packet is decoded for: only where it reads may have changed.
LEMMA CurrentIs ==
  ASSUME NEW y \in HardwareContext
  PROVE  LET x == Current(y) IN
         /\ x \in HardwareContext /\ x.exists = y.exists /\ x.voice = y.voice /\ x.written = y.written
         /\ x.out = y.out /\ x.size = y.size /\ x.channels = y.channels /\ x.index \in {y.index, Other(y)}
         /\ Finished(y) => x.consumed = [y.consumed EXCEPT ![y.index] = TRUE]
<1> DEFINE f == [y.consumed EXCEPT ![y.index] = TRUE]  o == Other(y)
<1>1. f \in [Half -> BOOLEAN] /\ o \in Half BY DEF HardwareContext, Half, Other
<1>2. CASE ~Finished(y) BY <1>2 DEF Current
<1>3. CASE Finished(y) /\ y.size[o] > 0 /\ ~y.consumed[o]
  <2>1. Current(y) = [y EXCEPT !.consumed = f, !.index = o, !.read = 0]
    BY <1>3 DEF Current, HardwareContext
  <2> HIDE DEF f, o
  <2>2. [y EXCEPT !.consumed = f, !.index = o, !.read = 0] \in HardwareContext BY <1>1 DEF HardwareContext
  <2>3. Current(y).consumed = f BY <2>1 DEF HardwareContext
  <2>4. Current(y).exists = y.exists BY <2>1 DEF HardwareContext
  <2>5. Current(y).index = o BY <2>1 DEF HardwareContext
  <2>. QED BY <2>1, <2>2, <2>3, <2>4, <2>5 DEF HardwareContext, f, o
<1>4. CASE Finished(y) /\ ~(y.size[o] > 0 /\ ~y.consumed[o])
  <2>1. Current(y) = [y EXCEPT !.consumed = f] BY <1>4 DEF Current, HardwareContext
  <2> HIDE DEF f, o
  <2>2. [y EXCEPT !.consumed = f] \in HardwareContext BY <1>1 DEF HardwareContext
  <2>3. Current(y).consumed = f BY <2>1 DEF HardwareContext
  <2>4. Current(y).exists = y.exists BY <2>1 DEF HardwareContext
  <2>. QED BY <2>1, <2>2, <2>3, <2>4 DEF HardwareContext, f
<1>. QED BY <1>2, <1>3, <1>4

\* It reads where its history says, as the one it came from did.
LEMMA CurrentReads ==
  ASSUME NEW y \in HardwareContext, NEW u \in [Half -> Nat], ReadsAs(y, u)
  PROVE  ReadsAs(Current(y), u)
<1> DEFINE o == Other(y)  i == y.index  x == Current(y)
<1>1. /\ i \in Half /\ o \in Half /\ o # i /\ 1 - o = i /\ y.size \in [Half -> Nat]
      /\ y.consumed \in [Half -> BOOLEAN] /\ y.read \in Nat
  BY DEF HardwareContext, Half, Other
<1>2. CASE ~Finished(y) BY <1>2 DEF Current
<1>3. CASE Finished(y) /\ y.size[o] > 0 /\ ~y.consumed[o]
  <2>1. x.index = o /\ x.read = 0 /\ x.size = y.size BY <1>3, CurrentIs DEF Current, HardwareContext
  <2>2. x.consumed = [y.consumed EXCEPT ![i] = TRUE] BY <1>3, CurrentIs
  <2>3. x.consumed[i] /\ ~x.consumed[o] BY <1>1, <1>3, <2>2
  <2>4. u[o] = y.size[o] /\ u[i] = 0
    <3>1. u[o] = y.size[o] BY <1>3 DEF ReadsAs
    <3>2. y.read >= y.size[i] BY <1>3 DEF Finished
    <3>. QED BY <1>1, <3>1, <3>2 DEF ReadsAs
  <2>5. Other(x) = i BY <1>1, <2>1 DEF Other
  <2> HIDE DEF x, o, i
  <2>6. ReadsAs(x, u) BY <1>1, <2>1, <2>3, <2>4, <2>5 DEF ReadsAs
  <2>. QED BY <2>6 DEF x
<1>4. CASE Finished(y) /\ ~(y.size[o] > 0 /\ ~y.consumed[o])
  <2>1. x.index = i /\ x.read = y.read /\ x.size = y.size BY <1>4, CurrentIs DEF Current, HardwareContext
  <2>2. x.consumed = [y.consumed EXCEPT ![i] = TRUE] BY <1>4, CurrentIs
  <2>3. x.consumed[i] /\ (x.consumed[o] <=> y.consumed[o]) BY <1>1, <2>2
  <2>4. y.read = y.size[i]
    <3>1. y.read >= y.size[i] BY <1>4 DEF Finished
    <3>. QED BY <1>1, <3>1 DEF ReadsAs
  <2>5. Other(x) = o BY <2>1 DEF Other
  <2>6. u[i] = y.size[i] - y.read /\ u[o] = IF y.consumed[o] THEN 0 ELSE y.size[o] BY DEF ReadsAs
  <2>7. u[o] = IF x.consumed[o] THEN 0 ELSE x.size[o]
    <3>1. CASE x.consumed[o] BY <2>3, <2>6, <3>1
    <3>2. CASE ~x.consumed[o] BY <2>1, <2>3, <2>6, <3>2
    <3>. QED BY <3>1, <3>2
  <2> HIDE DEF x, o, i
  <2>8. ReadsAs(x, u) BY <1>1, <2>1, <2>3, <2>4, <2>5, <2>6, <2>7 DEF ReadsAs
  <2>. QED BY <2>8 DEF x
<1>. QED BY <1>2, <1>3, <1>4

\* A packet: what is left of the buffer that is read falls by it.
LEMMA DecodeStep ==
  ASSUME XmaInv, NEW c \in Ids, NEW ok \in BOOLEAN, contexts_[c].active, decode_packet(c, ok)
  PROVE  /\ VoicesWell' /\ Slots' /\ Streams' /\ OutputFits' /\ VoicesOwned' /\ Rings'
         /\ contexts_' \in [Ids -> HardwareContext] /\ unread' \in [Ids -> [Half -> Nat]] /\ spoilt' \subseteq Ids
<1> DEFINE y == contexts_[c]  x == Current(y)  n == PacketFrames * x.channels  i == x.index
           w == IF ok THEN Written(x, n) ELSE x.written
           z == [x EXCEPT !.read = x.read + 1, !.written = w]
<1>1. y \in HardwareContext /\ unread[c] \in [Half -> Nat] BY DEF XmaInv, XmaOK
<1>2. x \in HardwareContext /\ x.exists = y.exists /\ x.voice = y.voice /\ x.written = y.written /\ x.out = y.out
      /\ x.channels = y.channels
  BY <1>1, CurrentIs
<1>3. Exists(c) BY DEF XmaInv, Slots, NoContext
<1>4. n \in Nat
  <2>1. x.channels \in 1 .. 6 BY <1>2 DEF HardwareContext
  <2> HIDE DEF x
  <2>. QED BY <2>1, Sizes, Times
<1>5. y.written <= y.out BY DEF XmaInv, OutputFits
<1>6. c \notin spoilt => ReadsAs(x, unread[c])
  <2>1. ASSUME c \notin spoilt PROVE ReadsAs(y, unread[c]) BY <1>3, <2>1 DEF XmaInv, Streams, Reads
  <2>. QED BY <1>1, <2>1, CurrentReads
<1> HIDE DEF x, n
<1>7. CASE Finished(x)
  <2>1. contexts_' = [contexts_ EXCEPT ![c] = x] /\ UNCHANGED <<voices_, unplayed, unread, spoilt>>
    BY <1>7 DEF decode_packet, history_vars, x
  <2>2. contexts_'[c] = x BY <2>1 DEF XmaInv, XmaOK
  <2>3. c \notin spoilt' => Reads(c)' BY <1>6, <2>1, <2>2 DEF Reads
  <2>4. VoicesWell' /\ SameVoices BY <2>1, KeptVoices
  <2>5. x.exists /\ x.written <= x.out BY <1>2, <1>3, <1>5 DEF Exists
  <2>6. unread' \in [Ids -> [Half -> Nat]] /\ spoilt' \subseteq Ids BY <2>1 DEF XmaInv, XmaOK
  <2>. QED BY <1>2, <1>3, <2>1, <2>3, <2>4, <2>5, <2>6, Changed
<1>8. CASE ~Finished(x)
  <2> DEFINE u == [unread[c] EXCEPT ![i] = IF unread[c][i] > 0 THEN unread[c][i] - 1 ELSE 0]
  <2>1. /\ contexts_' = [contexts_ EXCEPT ![c] = z]
        /\ IF ok /\ x.voice # NoId THEN submit_samples(x.voice, n) ELSE UNCHANGED <<voices_, unplayed>>
        /\ unread' = [unread EXCEPT ![c] = u] /\ spoilt' = spoilt
    BY <1>8 DEF decode_packet, x, n, XmaInv, XmaOK
  <2>2. w \in Nat /\ w <= x.out
    <3>1. x.written \in Nat /\ x.out \in Nat BY <1>2 DEF HardwareContext
    <3>. QED BY <1>2, <1>4, <1>5, <3>1 DEF Written
  <2> HIDE DEF w
  <2>3. /\ z \in HardwareContext /\ z.exists = x.exists /\ z.voice = x.voice /\ z.read = x.read + 1 /\ z.index = i
        /\ z.size = x.size /\ z.consumed = x.consumed /\ z.written = w /\ z.out = x.out
    <3>1. z.exists = x.exists BY <1>2 DEF HardwareContext
    <3>2. x.read + 1 \in Nat BY <1>2 DEF HardwareContext
    <3>3. z \in HardwareContext BY <1>2, <2>2, <3>2 DEF HardwareContext
    <3>4. z.read = x.read + 1 /\ z.written = w BY <1>2 DEF HardwareContext
    <3>. QED BY <1>2, <3>1, <3>3, <3>4 DEF HardwareContext
  <2>4. u \in [Half -> Nat] BY <1>1, <1>2 DEF HardwareContext
  <2> HIDE DEF z
  <2>5. contexts_'[c] = z /\ unread'[c] = u /\ (\A d \in Ids \ {c} : unread'[d] = unread[d])
        /\ unread' \in [Ids -> [Half -> Nat]] /\ spoilt' \subseteq Ids
    BY <2>1, <2>4 DEF XmaInv, XmaOK
  <2>6. ASSUME c \notin spoilt' PROVE Reads(c)'
    <3>1. ReadsAs(x, unread[c]) BY <1>6, <2>1, <2>6
    <3>2. /\ i \in Half /\ 1 - i \in Half /\ 1 - i # i /\ x.size \in [Half -> Nat] /\ x.read \in Nat
          /\ unread[c][i] \in Nat /\ x.size[i] \in Nat
      BY <1>1, <1>2 DEF HardwareContext, Half
    <3>3. x.read < x.size[i] BY <1>8, <3>2 DEF Finished
    <3>4. u[i] = x.size[i] - (x.read + 1) /\ u[1 - i] = unread[c][1 - i] BY <1>1, <3>1, <3>2, <3>3 DEF ReadsAs
    <3>5. ~x.consumed[i] BY <3>1, <3>2, <3>3 DEF ReadsAs
    <3>6. unread[c][1 - i] = IF x.consumed[1 - i] THEN 0 ELSE x.size[1 - i] BY <3>1 DEF ReadsAs, Other
    <3> HIDE DEF u, i
    <3>7. ReadsAs(z, u) BY <2>3, <3>2, <3>3, <3>4, <3>5, <3>6 DEF ReadsAs, Other
    <3>. QED BY <2>5, <3>7 DEF Reads
  <2>7. VoicesWell' /\ SameVoices
    <3>1. CASE ok /\ x.voice # NoId
      <4>1. x.voice \in VoiceIds BY <1>2, <3>1 DEF HardwareContext
      <4>. QED BY <1>4, <2>1, <3>1, <4>1, SubmitStep
    <3>2. CASE ~(ok /\ x.voice # NoId) BY <2>1, <3>2, KeptVoices
    <3>. QED BY <3>1, <3>2
  <2>8. z.exists /\ z.written <= z.out /\ z.voice = y.voice BY <1>2, <1>3, <2>2, <2>3 DEF Exists
  <2>. QED BY <1>2, <1>3, <2>1, <2>3, <2>5, <2>6, <2>7, <2>8, Changed
<1>. QED BY <1>7, <1>8

LEMMA StillStep ==
  ASSUME XmaInv, UNCHANGED <<contexts_, voices_, unread, spoilt, unplayed>>
  PROVE  /\ VoicesWell' /\ Slots' /\ Streams' /\ OutputFits' /\ VoicesOwned' /\ Rings'
         /\ contexts_' \in [Ids -> HardwareContext] /\ unread' \in [Ids -> [Half -> Nat]] /\ spoilt' \subseteq Ids
<1>1. VoicesWell' BY KeptVoices
<1>2. Slots' /\ Streams' /\ OutputFits' /\ VoicesOwned'
  BY DEF XmaInv, Slots, Streams, OutputFits, VoicesOwned, Exists, Reads
<1>. QED BY <1>1, <1>2 DEF XmaInv, XmaOK, VoicesWell

\* A pass over the contexts, packet by packet.
LEMMA FollowingIs ==
  ASSUME NEW i \in Ids
  PROVE  Following(i) \in {Resting} \cup [i : Ids, n : 0 .. (PacketsPerPass - 1)]
<1>1. CASE i + 1 = XmaContexts BY <1>1 DEF Following
<1>2. CASE i + 1 # XmaContexts
  <2>1. i + 1 \in Ids /\ 0 \in 0 .. (PacketsPerPass - 1) BY <1>2, Sizes DEF Ids
  <2>. QED BY <1>2, <2>1 DEF Following
<1>. QED BY <1>1, <1>2

LEMMA PassStep ==
  ASSUME XmaInv, NEW ok \in BOOLEAN, process_context(ok), calls' = calls
  PROVE  XmaInv'
<1> DEFINE i == processing.i
<1>1. i \in Ids /\ processing \in [i : Ids, n : 0 .. (PacketsPerPass - 1)]
  BY DEF process_context, Unlocked, XmaInv, XmaOK
<1>2. processing' \in {Resting} \cup [i : Ids, n : 0 .. (PacketsPerPass - 1)]
  <2>1. \/ processing' = Following(i)
        \/ processing' = [processing EXCEPT !.n = @ + 1] /\ processing.n + 1 < PacketsPerPass
    BY DEF process_context
  <2>2. CASE processing' = Following(i) BY <1>1, <2>2, FollowingIs
  <2>3. CASE processing' = [processing EXCEPT !.n = @ + 1] /\ processing.n + 1 < PacketsPerPass
    BY <1>1, <2>3, Sizes
  <2>. QED BY <2>1, <2>2, <2>3
<1>3. UNCHANGED <<running_, blocked>> BY DEF process_context
<1>4. CASE contexts_[i].active
  <2>1. decode_packet(i, ok) BY <1>4 DEF process_context
  <2>. QED BY <1>1, <1>2, <1>3, <1>4, <2>1, DecodeStep DEF XmaInv, XmaOK, VoicesWell
<1>5. CASE ~contexts_[i].active
  <2>1. UNCHANGED <<contexts_, voices_, unread, spoilt, unplayed>> BY <1>5 DEF process_context, history_vars
  <2>. QED BY <1>2, <1>3, <2>1, StillStep DEF XmaInv, XmaOK, VoicesWell
<1>. QED BY <1>4, <1>5

LEMMA BlockedStep ==
  ASSUME XmaInv, NEW t \in XmaThread, NEW ok \in BOOLEAN, Blocked(t, ok), calls' = calls
  PROVE  XmaInv'
<1> DEFINE c == blocked[t]
<1>1. c \in Ids BY DEF Blocked, XmaInv, XmaOK
<1>2. blocked' \in [XmaThread -> Ids \cup {NoId}] BY DEF Blocked, XmaInv, XmaOK
<1>3. UNCHANGED <<running_, processing>> BY DEF Blocked
<1>4. CASE contexts_[c].active
  <2>1. decode_packet(c, ok) BY <1>4 DEF Blocked
  <2>. QED BY <1>1, <1>2, <1>3, <1>4, <2>1, DecodeStep DEF XmaInv, XmaOK, VoicesWell
<1>5. CASE ~contexts_[c].active
  <2>1. UNCHANGED <<contexts_, voices_, unread, spoilt, unplayed>> BY <1>5 DEF Blocked, history_vars
  <2>. QED BY <1>2, <1>3, <2>1, StillStep DEF XmaInv, XmaOK, VoicesWell
<1>. QED BY <1>4, <1>5

LEMMA XmaStep == ASSUME XmaInv, [XmaNext]_xma_vars PROVE XmaInv'
<1>1. ASSUME calls' = calls + 1, XmaCall PROVE XmaInv'
  <2>1. calls' \in Nat BY <1>1 DEF XmaInv, XmaOK
  <2>2. PICK c \in Ids :
          \/ create_context(c) \/ destroy_context(c) \/ enable_context(c) \/ disable_context(c)
          \/ \E size \in InputSize, h \in Half : set_input_buffer(c, size, h)
          \/ \E size \in OutputSize : set_output_buffer(c, size)
          \/ \E channels \in Channels, halves \in {1, 2} : SetContextData(c, channels, halves)
          \/ \E t \in XmaThread : BlockWhileInUse(t, c)
    BY <1>1 DEF XmaCall
  <2>3. CASE create_context(c) BY <2>1, <2>3, CreateContextStep
  <2>4. CASE destroy_context(c)
    <3>1. contexts_' = [d \in Ids |-> IF d \in {c} THEN NoContext ELSE contexts_[d]]
      BY <2>4 DEF destroy_context, XmaInv, XmaOK
    <3>2. {contexts_[d].voice : d \in {c}} = {contexts_[c].voice} OBVIOUS
    <3>3. destroy_voices({contexts_[d].voice : d \in {c}}) BY <2>4, <3>2 DEF destroy_context
    <3>4. running_' \in BOOLEAN /\ UNCHANGED <<processing, blocked, unread, spoilt>>
      BY <2>4 DEF destroy_context, history_vars, XmaInv, XmaOK
    <3>. QED BY <2>1, <3>1, <3>3, <3>4, GoneStep
  <2>5. CASE enable_context(c) BY <2>1, <2>5, EnableStep
  <2>6. CASE disable_context(c) BY <2>1, <2>6, DisableStep
  <2>7. CASE \E size \in InputSize, h \in Half : set_input_buffer(c, size, h) BY <2>1, <2>7, SetInputStep
  <2>8. CASE \E size \in OutputSize : set_output_buffer(c, size) BY <2>1, <2>8, SetOutputStep
  <2>9. CASE \E channels \in Channels, halves \in {1, 2} : SetContextData(c, channels, halves)
    BY <2>1, <2>9, SetDataStep
  <2>10. CASE \E t \in XmaThread : BlockWhileInUse(t, c)
    <3>1. UNCHANGED <<contexts_, voices_, unread, spoilt, unplayed>> /\ UNCHANGED <<running_, processing>>
          /\ blocked' \in [XmaThread -> Ids \cup {NoId}]
      BY <2>10 DEF BlockWhileInUse, history_vars, XmaInv, XmaOK
    <3>. QED BY <2>1, <3>1, StillStep DEF XmaInv, XmaOK, VoicesWell
  <2>. QED BY <2>2, <2>3, <2>4, <2>5, <2>6, <2>7, <2>8, <2>9, <2>10
<1>2. ASSUME calls' = calls, get_output PROVE XmaInv'
  <2>1. VoicesWell' /\ SameVoices BY <1>2, OutputStep
  <2>2. UNCHANGED <<contexts_, running_, processing, blocked, unread, spoilt>> BY <1>2 DEF get_output, history_vars
  <2>3. Slots' /\ Streams' /\ OutputFits' BY <2>2 DEF XmaInv, Slots, Streams, OutputFits, Exists, Reads
  <2>4. VoicesOwned'
    <3>1. {v \in VoiceIds : voices_'[v].exists} = {v \in VoiceIds : voices_[v].exists} BY <2>1 DEF SameVoices
    <3>. QED BY <2>2, <3>1 DEF XmaInv, VoicesOwned, Exists
  <2>. QED BY <1>2, <2>1, <2>2, <2>3, <2>4 DEF XmaInv, XmaOK, VoicesWell
<1>3. ASSUME calls' = calls, process PROVE XmaInv'
  <2>1. UNCHANGED <<contexts_, voices_, unread, spoilt, unplayed>> /\ UNCHANGED <<running_, blocked>>
        /\ processing' = [i |-> 0, n |-> 0]
    BY <1>3 DEF process, history_vars
  <2>2. 0 \in Ids /\ 0 \in 0 .. (PacketsPerPass - 1) BY Sizes DEF Ids
  <2>. QED BY <1>3, <2>1, <2>2, StillStep DEF XmaInv, XmaOK, VoicesWell
<1>4. ASSUME calls' = calls, xma_shutdown PROVE XmaInv'
  <2>1. contexts_' = [d \in Ids |-> IF d \in Ids THEN NoContext ELSE contexts_[d]] BY <1>4 DEF xma_shutdown
  <2>2. destroy_voices({contexts_[d].voice : d \in Ids}) BY <1>4 DEF xma_shutdown
  <2>3. running_' \in BOOLEAN /\ UNCHANGED <<processing, blocked, unread, spoilt>> /\ calls' \in Nat
    BY <1>4 DEF xma_shutdown, history_vars, XmaInv, XmaOK
  <2>. QED BY <2>1, <2>2, <2>3, GoneStep
<1>5. ASSUME UNCHANGED xma_vars PROVE XmaInv'
  <2>1. UNCHANGED <<contexts_, voices_, unread, spoilt, unplayed>> /\ UNCHANGED <<running_, processing, blocked, calls>>
    BY <1>5 DEF xma_vars
  <2>. QED BY <2>1, StillStep DEF XmaInv, XmaOK, VoicesWell
<1>. QED BY <1>1, <1>2, <1>3, <1>4, <1>5, PassStep, BlockedStep DEF XmaNext

\* The invariant of the XMA processor and its mixer.
LEMMA XmaInvariance == XmaSpec => []XmaInv
<1>1. XmaInit => XmaInv BY Begun
<1>2. XmaInv /\ [XmaNext]_xma_vars => XmaInv' BY XmaStep
<1>. QED BY <1>1, <1>2, PTL DEF XmaSpec

\* Every context, voice and position stays of its type (XMAProcessor, AudioMixer).
THEOREM XmaTypes == XmaSpec => []XmaOK
<1>1. XmaInv => XmaOK BY DEF XmaInv
<1>. QED BY <1>1, XmaInvariance, PTL

\* For any number of contexts, voices and buffers: what is reported consumed was
\* read, no output buffer overflows, a voice is one living context's, and the
\* audio callback plays what was submitted and no more.
THEOREM StreamsKept == XmaSpec => []XmaKept
<1>1. XmaInv => XmaKept BY KeptByInv
<1>. QED BY <1>1, XmaInvariance, PTL
-----------------------------------------------------------------------------
(* The APU's contexts: what a done context was given, it played.           *)
(*                                                                         *)
(* Of a context that nobody raced for, what is played, what is left of     *)
(* this turn and the turns still to come make up what was owed, counted in *)
(* 32-bit offsets. A pass that took a piece of it finds it as it left it.  *)

\* Equal but for whole turns of the offset.
Congruent(a, b) == \E k \in Int : a = b + k * OffsetMod

StillToPlay(c) ==
  (xma_contexts_[c].write - xma_contexts_[c].read) + xma_contexts_[c].loops * xma_contexts_[c].write
Accounted(c) == Congruent(played_out[c] + StillToPlay(c), owed[c])
Fair(c) == c \notin raced /\ xma_contexts_[c].valid

XmaContext == [valid : BOOLEAN, codec : Codec, write : Nat, read : Offset, loop : BOOLEAN, loops : Nat]
XmaPass == [at : {"idle", "scan", "dma", "commit"}, i : Nat, seen : Offset, n : Nat, any : BOOLEAN]

ApuTyped ==
  /\ hw \in [Context -> XmaStream]
  /\ xma_contexts_ \in [Context -> XmaContext]
  /\ pass \in [Pass -> XmaPass] /\ \A p \in Pass : pass[p].i <= LastContext + 1
  /\ owed \in [Context -> Offset] /\ played_out \in [Context -> Offset]
  /\ context_enable_ \cup context_done_ \cup context_lock_ \cup raced \subseteq Context
  /\ interrupt_status_ \in BOOLEAN /\ interrupt_mask_ \in BOOLEAN

\* A context that was not to loop has no turn to come.
LoopsEnd == \A c \in Context : ~xma_contexts_[c].loop => xma_contexts_[c].loops = 0
\* The offset a pass read, and that there is something left, still hold.
PiecesHeld ==
  \A p \in Pass, c \in Context :
    (pass[p].at = "commit" /\ pass[p].i = c /\ Fair(c)) =>
      pass[p].seen = xma_contexts_[c].read /\ Remaining(c) # 0
AllAccounted == \A c \in Context : Fair(c) => Accounted(c)

ApuInv == ApuTyped /\ LoopsEnd /\ PiecesHeld /\ AllAccounted

LEMMA Turns ==
  ASSUME NEW a \in Int, NEW m \in Nat, m > 0
  PROVE  a % m \in 0 .. (m - 1) /\ a \div m \in Int /\ a = (a % m) + (a \div m) * m
OBVIOUS

LEMMA Sized32 == OffsetMod \in Nat /\ OffsetMod > 0 /\ Offset \subseteq Nat /\ 0 \in Offset
BY ApuAssumption DEF Offset

\* The lemmas about Congruent: it is kept by sums, and an offset is its own rest.
LEMMA Wrapped ==
  ASSUME NEW a \in Int PROVE Unsigned(a) \in Offset /\ Unsigned(a) \in Int /\ Congruent(a, Unsigned(a))
<1>1. a % OffsetMod \in 0 .. (OffsetMod - 1) /\ a \div OffsetMod \in Int
      /\ a = (a % OffsetMod) + (a \div OffsetMod) * OffsetMod
  BY Sized32, Turns
<1>. QED BY <1>1 DEF Unsigned, Offset, Congruent

LEMMA Same == ASSUME NEW a \in Int PROVE Congruent(a, a)
<1>1. a = a + 0 * OffsetMod BY Sized32
<1>. QED BY <1>1 DEF Congruent

LEMMA Plus ==
  ASSUME NEW a \in Int, NEW b \in Int, NEW d \in Int, NEW e \in Int, Congruent(a, b), Congruent(d, e)
  PROVE  Congruent(a + d, b + e) /\ Congruent(a - d, b - e)
<1>1. PICK k \in Int : a = b + k * OffsetMod BY DEF Congruent
<1>2. PICK l \in Int : d = e + l * OffsetMod BY DEF Congruent
<1>3. (k + l) * OffsetMod = k * OffsetMod + l * OffsetMod
      /\ (k - l) * OffsetMod = k * OffsetMod - l * OffsetMod
  BY Sized32
<1>4. k * OffsetMod \in Int /\ l * OffsetMod \in Int BY Sized32
<1>5. a + d = (b + e) + (k + l) * OffsetMod /\ a - d = (b - e) + (k - l) * OffsetMod
  <2> DEFINE x == k * OffsetMod  y == l * OffsetMod  u == (k + l) * OffsetMod  v == (k - l) * OffsetMod
  <2>1. x \in Int /\ y \in Int /\ u = x + y /\ v = x - y /\ a = b + x /\ d = e + y BY <1>1, <1>2, <1>3, <1>4
  <2> HIDE DEF x, y, u, v
  <2>2. a + d = (b + e) + u /\ a - d = (b - e) + v BY <2>1
  <2>. QED BY <2>2 DEF u, v
<1>. QED BY <1>5 DEF Congruent

LEMMA Chain ==
  ASSUME NEW a \in Int, NEW b \in Int, NEW d \in Int, Congruent(a, b)
  PROVE  Congruent(b, a) /\ (Congruent(b, d) => Congruent(a, d))
<1>1. PICK k \in Int : a = b + k * OffsetMod BY DEF Congruent
<1>2. Congruent(b, a)
  <2>1. (-k) * OffsetMod = -(k * OffsetMod) /\ k * OffsetMod \in Int BY Sized32
  <2>2. b = a + (-k) * OffsetMod BY <1>1, <2>1
  <2>. QED BY <2>2 DEF Congruent
<1>3. ASSUME Congruent(b, d) PROVE Congruent(a, d)
  <2>1. Congruent(a - b, b - b)
    BY <1>1, Plus, Same, b \in Int, a \in Int
  <2>2. Congruent((a - b) + b, (b - b) + d) BY <1>3, <2>1, Plus, a - b \in Int, b - b \in Int
  <2>3. (a - b) + b = a /\ (b - b) + d = d OBVIOUS
  <2>. QED BY <2>2, <2>3
<1>. QED BY <1>2, <1>3

LEMMA OneOffset == ASSUME NEW a \in Offset, NEW b \in Offset, Congruent(a, b) PROVE a = b
<1>1. PICK k \in Int : a = b + k * OffsetMod BY DEF Congruent
<1>2. OffsetMod \in Nat /\ OffsetMod > 0 /\ a \in 0 .. (OffsetMod - 1) /\ b \in 0 .. (OffsetMod - 1)
  BY Sized32 DEF Offset
<1>3. CASE k >= 1
  <2>1. k * OffsetMod >= 1 * OffsetMod BY <1>2, <1>3
  <2>. QED BY <1>1, <1>2, <2>1
<1>4. CASE k <= -1
  <2>1. k * OffsetMod <= (-1) * OffsetMod BY <1>2, <1>4
  <2>. QED BY <1>1, <1>2, <2>1
<1>5. CASE k = 0 BY <1>1, <1>2, <1>5
<1>. QED BY <1>3, <1>4, <1>5

LEMMA PieceIs ==
  ASSUME NEW codec \in Codec, NEW n \in Offset
  PROVE  Piece(codec, n) \in Nat /\ (codec = "xma" /\ n = 0 => Piece(codec, n) = 0)
<1>1. n \in Nat BY Sized32
<1>2. CASE codec = "xma" BY <1>1, <1>2 DEF Piece, Lesser, XMA_PACKET_SIZE
<1>3. CASE codec = "xwma" BY <1>1, <1>3 DEF Piece, Lesser
<1>4. CASE codec = "pcm" BY <1>1, <1>4 DEF Piece, Lesser
<1>5. CASE codec = "pcm3"
  <2>1. Lesser(n, 6) \in Nat BY <1>1 DEF Lesser
  <2>2. Lesser(n, 6) \div 3 \in Nat BY <2>1
  <2>. QED BY <1>5, <2>2 DEF Piece
<1>. QED BY <1>2, <1>3, <1>4, <1>5 DEF Codec

LEMMA RemainingIs ==
  ASSUME ApuTyped, NEW c \in Context
  PROVE  /\ xma_contexts_[c].write \in Nat /\ xma_contexts_[c].read \in Offset /\ xma_contexts_[c].read \in Nat
         /\ xma_contexts_[c].loops \in Nat /\ StillToPlay(c) \in Int /\ Remaining(c) \in Offset
         /\ Congruent(xma_contexts_[c].write - xma_contexts_[c].read, Remaining(c))
         /\ owed[c] \in Offset /\ owed[c] \in Nat /\ played_out[c] \in Offset /\ played_out[c] \in Nat
<1>1. xma_contexts_[c] \in XmaContext BY DEF ApuTyped
<1>2. xma_contexts_[c].write \in Nat /\ xma_contexts_[c].read \in Offset /\ xma_contexts_[c].loops \in Nat
  BY <1>1 DEF XmaContext
<1>3. xma_contexts_[c].read \in Nat BY <1>2, Sized32
<1>4. xma_contexts_[c].loops * xma_contexts_[c].write \in Nat BY <1>2
<1>5. xma_contexts_[c].write - xma_contexts_[c].read \in Int BY <1>2, <1>3
<1>6. StillToPlay(c) \in Int BY <1>4, <1>5 DEF StillToPlay
<1>7. owed[c] \in Offset /\ played_out[c] \in Offset BY DEF ApuTyped
<1>. QED BY <1>2, <1>3, <1>5, <1>6, <1>7, Wrapped, Sized32 DEF Remaining

LEMMA ApuBegun == ASSUME ApuInit PROVE ApuInv
<1>1. 0 \in Offset /\ 0 \in Nat BY Sized32
<1>2. hw \in [Context -> XmaStream] BY <1>1 DEF ApuInit, NoStream, XmaStream, Codec
<1>3. xma_contexts_ \in [Context -> XmaContext] /\ \A c \in Context : xma_contexts_[c] = NoXmaContext
  BY <1>1 DEF ApuInit, NoXmaContext, XmaContext, Codec
<1>4. pass \in [Pass -> XmaPass] /\ \A p \in Pass : pass[p] = IdlePass
  BY <1>1 DEF ApuInit, IdlePass, XmaPass
<1>5. ApuTyped
  <2>1. \A p \in Pass : pass[p].i <= LastContext + 1 BY <1>4, ApuAssumption DEF IdlePass
  <2>. QED BY <1>1, <1>2, <1>3, <1>4, <2>1 DEF ApuTyped, ApuInit
<1>6. LoopsEnd BY <1>3 DEF LoopsEnd, NoXmaContext
<1>7. PiecesHeld BY <1>4 DEF PiecesHeld, IdlePass
<1>8. AllAccounted BY <1>3 DEF AllAccounted, Fair, NoXmaContext
<1>. QED BY <1>5, <1>6, <1>7, <1>8 DEF ApuInv

\* Where a pass goes: on to the next context, or to committing a piece.
LEMMA OnwardIs ==
  ASSUME ApuTyped, NEW p \in Pass, pass[p].i <= LastContext, NEW any \in BOOLEAN, Onward(p, any)
  PROVE  /\ pass' \in [Pass -> XmaPass] /\ \A q \in Pass : pass'[q].i <= LastContext + 1
         /\ \A q \in Pass : pass'[q] = pass[q] \/ pass'[q].at = "scan"
         /\ \A q \in Pass \ {p} : pass'[q] = pass[q]
<1>1. pass \in [Pass -> XmaPass] /\ pass[p].i \in Nat BY DEF ApuTyped, XmaPass
<1> DEFINE next == [at |-> "scan", i |-> pass[p].i + 1, seen |-> 0, n |-> 0, any |-> any]
<1>2. next \in XmaPass /\ next.i = pass[p].i + 1 /\ next.at = "scan" BY <1>1, Sized32 DEF XmaPass
<1>3. pass' = [pass EXCEPT ![p] = next] BY DEF Onward
<1> HIDE DEF next
<1>4. LastContext \in Nat BY ApuAssumption
<1>5. \A q \in Pass : pass'[q] = IF q = p THEN next ELSE pass[q] BY <1>1, <1>3
<1>6. pass' \in [Pass -> XmaPass] BY <1>1, <1>2, <1>3
<1>. QED BY <1>1, <1>2, <1>4, <1>5, <1>6 DEF ApuTyped

LEMMA CommitsTo ==
  ASSUME ApuTyped, NEW p \in Pass, NEW c \in Context, NEW n \in Nat, pass[p].i = c,
         Decoding(p, c, n)
  PROVE  /\ pass' \in [Pass -> XmaPass] /\ \A q \in Pass : pass'[q].i <= LastContext + 1
         /\ \A q \in Pass \ {p} : pass'[q] = pass[q]
         /\ pass'[p].i = c /\ pass'[p].seen = xma_contexts_[c].read
<1>1. pass \in [Pass -> XmaPass] /\ pass[p] \in XmaPass BY DEF ApuTyped
<1> DEFINE next == [pass[p] EXCEPT !.at = "commit", !.n = n, !.seen = xma_contexts_[c].read]
<1>2. next \in XmaPass /\ next.i = c /\ next.seen = xma_contexts_[c].read
  BY <1>1, RemainingIs DEF XmaPass
<1>3. pass' = [pass EXCEPT ![p] = next] BY <1>1 DEF XmaPass, Decoding
<1> HIDE DEF next
<1>4. \A q \in Pass : pass'[q] = IF q = p THEN next ELSE pass[q] BY <1>1, <1>3
<1>5. pass' \in [Pass -> XmaPass] BY <1>1, <1>2, <1>3
<1>. QED BY <1>2, <1>4, <1>5 DEF ApuTyped

\* A step that leaves the contexts alone, and lets a pass commit only to what is there.
LEMMA QuietStep ==
  ASSUME ApuInv, ApuTyped', UNCHANGED <<xma_contexts_, apu_history>>,
         \A p \in Pass : \/ pass'[p] = pass[p] \/ pass'[p].at # "commit"
                         \/ LET c == pass'[p].i IN
                            c \in Context /\ pass'[p].seen = xma_contexts_[c].read /\ Remaining(c) # 0
  PROVE  ApuInv'
<1>1. UNCHANGED <<xma_contexts_, owed, played_out, raced>> BY DEF apu_history
<1>2. LoopsEnd' BY <1>1 DEF ApuInv, LoopsEnd
<1>3. AllAccounted' BY <1>1 DEF ApuInv, AllAccounted, Fair, Accounted, StillToPlay
<1>4. PiecesHeld' BY <1>1 DEF ApuInv, PiecesHeld, Fair, Remaining
<1>. QED BY <1>2, <1>3, <1>4 DEF ApuInv

\* What most steps of a guest or of a pass leave as it was.
LEMMA GuestQuiet ==
  ASSUME ApuInv, UNCHANGED <<xma_contexts_, pass, apu_history>>, hw' \in [Context -> XmaStream],
         context_enable_' \cup context_done_' \cup context_lock_' \subseteq Context,
         interrupt_status_' \in BOOLEAN, interrupt_mask_' \in BOOLEAN
  PROVE  ApuInv'
<1>1. ApuTyped' BY DEF ApuInv, ApuTyped, apu_history
<1>. QED BY <1>1, QuietStep

LEMMA PassQuiet ==
  ASSUME ApuInv, UNCHANGED <<apu_registers, xma_contexts_, apu_history>>, hw' \in [Context -> XmaStream],
         context_done_' \subseteq Context, interrupt_status_' \in BOOLEAN,
         pass' \in [Pass -> XmaPass], \A q \in Pass : pass'[q].i <= LastContext + 1,
         \A p \in Pass : \/ pass'[p] = pass[p] \/ pass'[p].at # "commit"
                         \/ LET c == pass'[p].i IN
                            c \in Context /\ pass'[p].seen = xma_contexts_[c].read /\ Remaining(c) # 0
  PROVE  ApuInv'
<1>1. ApuTyped' BY DEF ApuInv, ApuTyped, apu_history, apu_registers
<1>. QED BY <1>1, QuietStep

LEMMA WrittenBackIs == ASSUME ApuTyped, NEW c \in Context PROVE WrittenBack(c) \in XmaStream
<1>1. hw[c] \in XmaStream BY DEF ApuTyped
<1>. QED BY <1>1, RemainingIs DEF WrittenBack, XmaStream

LEMMA SmallSteps ==
  ASSUME ApuInv
  PROVE  /\ \A c \in Context : Describe(c) \/ WriteClear(c) => ApuInv'
         /\ \A v \in SUBSET Context : WriteLock(v) => ApuInv'
         /\ WriteMask \/ WriteStatus => ApuInv'
<1>1. ASSUME NEW c \in Context, Describe(c) PROVE ApuInv'
  <2>1. hw' \in [Context -> XmaStream] BY <1>1, ApuAssumption DEF Describe, ApuInv, ApuTyped
  <2>. QED BY <1>1, <2>1, GuestQuiet DEF Describe, apu_registers, ApuInv, ApuTyped
<1>2. ASSUME NEW c \in Context, WriteClear(c) PROVE ApuInv'
  BY <1>2, GuestQuiet DEF WriteClear, apu_registers, ApuInv, ApuTyped
<1>3. ASSUME NEW v \in SUBSET Context, WriteLock(v) PROVE ApuInv'
  BY <1>3, GuestQuiet DEF WriteLock, ApuInv, ApuTyped
<1>4. ASSUME WriteMask PROVE ApuInv' BY <1>4, GuestQuiet DEF WriteMask, ApuInv, ApuTyped
<1>5. ASSUME WriteStatus PROVE ApuInv' BY <1>5, GuestQuiet DEF WriteStatus, apu_registers, ApuInv, ApuTyped
<1>. QED BY <1>1, <1>2, <1>3, <1>4, <1>5

LEMMA ContextIs == ASSUME NEW c \in Context PROVE c \in Nat /\ c <= LastContext
BY ApuAssumption DEF Context

\* A step of pass p that only goes on.
LEMMA GoesOn ==
  ASSUME ApuInv, NEW p \in Pass, pass[p].i <= LastContext, NEW any \in BOOLEAN, Onward(p, any),
         UNCHANGED <<apu_registers, xma_contexts_, apu_history>>, hw' \in [Context -> XmaStream],
         context_done_' \subseteq Context, interrupt_status_' \in BOOLEAN
  PROVE  ApuInv'
<1>1. ApuTyped BY DEF ApuInv
<1>2. /\ pass' \in [Pass -> XmaPass] /\ \A q \in Pass : pass'[q].i <= LastContext + 1
      /\ \A q \in Pass : pass'[q] = pass[q] \/ pass'[q].at = "scan"
  BY <1>1, OnwardIs
<1>. QED BY <1>2, PassQuiet

LEMMA AnyIs == ASSUME ApuTyped, NEW p \in Pass PROVE pass[p].any \in BOOLEAN /\ pass[p].i \in Nat
BY DEF ApuTyped, XmaPass

LEMMA ScanSteps ==
  ASSUME ApuInv, NEW p \in Pass
  PROVE  /\ Kick(p) \/ SkipContext(p) \/ FinishPass(p) => ApuInv'
         /\ \A c \in Context : Complete(p, c) \/ ScanXma(p, c) \/ DecodeFails(p, c) => ApuInv'
<1>1. ApuTyped /\ hw \in [Context -> XmaStream] /\ context_done_ \subseteq Context
      /\ interrupt_status_ \in BOOLEAN /\ pass \in [Pass -> XmaPass] /\ pass[p].any \in BOOLEAN
  BY AnyIs DEF ApuInv, ApuTyped
<1>2. ASSUME Kick(p) PROVE ApuInv'
  <2>1. pass' \in [Pass -> XmaPass] /\ (\A q \in Pass : pass'[q].i <= LastContext + 1)
        /\ \A q \in Pass : pass'[q] = pass[q] \/ pass'[q].at # "commit"
    BY <1>1, <1>2 DEF Kick, XmaPass, ApuTyped
  <2>. QED BY <1>1, <1>2, <2>1, PassQuiet DEF Kick
<1>3. ASSUME SkipContext(p) PROVE ApuInv'
  <2>1. pass[p].i <= LastContext BY <1>3, ContextIs DEF SkipContext
  <2>. QED BY <1>1, <1>3, <2>1, GoesOn DEF SkipContext
<1>4. ASSUME FinishPass(p) PROVE ApuInv'
  <2>1. IdlePass \in XmaPass /\ IdlePass.at = "idle" /\ IdlePass.i = 0 BY Sized32 DEF IdlePass, XmaPass
  <2>2. pass' \in [Pass -> XmaPass] BY <1>1, <1>4, <2>1 DEF FinishPass
  <2>3. \A q \in Pass : pass'[q] = IF q = p THEN IdlePass ELSE pass[q] BY <1>1, <1>4 DEF FinishPass
  <2>4. \A q \in Pass : pass'[q].i <= LastContext + 1 BY <1>1, <2>1, <2>3, ApuAssumption DEF ApuTyped
  <2>5. \A q \in Pass : pass'[q] = pass[q] \/ pass'[q].at # "commit" BY <2>1, <2>3
  <2>6. interrupt_status_' \in BOOLEAN BY <1>1, <1>4 DEF FinishPass
  <2>. QED BY <1>1, <1>4, <2>2, <2>4, <2>5, <2>6, PassQuiet DEF FinishPass
<1>5. ASSUME NEW c \in Context, Complete(p, c) PROVE ApuInv'
  <2>1. pass[p].i <= LastContext BY <1>5, ContextIs DEF Complete, Scans
  <2>2. hw' \in [Context -> XmaStream] BY <1>1, <1>5, WrittenBackIs DEF Complete
  <2>3. context_done_' \subseteq Context BY <1>1, <1>5 DEF Complete
  <2>. QED BY <1>1, <1>5, <2>1, <2>2, <2>3, GoesOn DEF Complete
<1>6. ASSUME NEW c \in Context, ScanXma(p, c) PROVE ApuInv'
  <2>1. pass' \in [Pass -> XmaPass] /\ (\A q \in Pass : pass'[q].i <= LastContext + 1)
        /\ \A q \in Pass : pass'[q] = pass[q] \/ pass'[q].at # "commit"
    BY <1>1, <1>6 DEF ScanXma, XmaPass, ApuTyped
  <2>. QED BY <1>1, <1>6, <2>1, PassQuiet DEF ScanXma
<1>7. ASSUME NEW c \in Context, DecodeFails(p, c) PROVE ApuInv'
  <2>1. pass[p].i <= LastContext BY <1>7, ContextIs DEF DecodeFails
  <2>. QED BY <1>1, <1>7, <2>1, GoesOn DEF DecodeFails
<1>. QED BY <1>2, <1>3, <1>4, <1>5, <1>6, <1>7

\* A piece that is taken is of what is left.
LEMMA TakeSteps ==
  ASSUME ApuInv, NEW p \in Pass, NEW c \in Context, Take(p, c) \/ Dma(p, c)
  PROVE  ApuInv'
<1>1. ApuTyped /\ hw \in [Context -> XmaStream] /\ context_done_ \subseteq Context
      /\ interrupt_status_ \in BOOLEAN /\ pass[p].any \in BOOLEAN
  BY AnyIs DEF ApuInv, ApuTyped
<1>2. UNCHANGED <<hw, apu_registers, context_done_, interrupt_status_, xma_contexts_, apu_history>>
      /\ pass[p].i = c
  BY DEF Take, Dma, Scans
<1>3. c <= LastContext BY ContextIs
<1>4. CASE Onward(p, pass[p].any) BY <1>1, <1>2, <1>3, <1>4, GoesOn
<1>5. ASSUME NEW n \in Nat, Remaining(c) # 0,
             Decoding(p, c, n)
      PROVE  ApuInv'
  <2>1. /\ pass' \in [Pass -> XmaPass] /\ \A q \in Pass : pass'[q].i <= LastContext + 1
        /\ \A q \in Pass \ {p} : pass'[q] = pass[q]
        /\ pass'[p].i = c /\ pass'[p].seen = xma_contexts_[c].read
    BY <1>1, <1>2, <1>5, CommitsTo
  <2>2. \A q \in Pass : \/ pass'[q] = pass[q] \/ pass'[q].at # "commit"
                        \/ LET d == pass'[q].i IN
                           d \in Context /\ pass'[q].seen = xma_contexts_[d].read /\ Remaining(d) # 0
    <3> TAKE q \in Pass
    <3>1. CASE q = p BY <1>5, <2>1, <3>1
    <3>2. CASE q # p BY <2>1, <3>2
    <3>. QED BY <3>1, <3>2
  <2>. QED BY <1>1, <1>2, <2>1, <2>2, PassQuiet
<1>6. xma_contexts_[c].codec \in Codec /\ Remaining(c) \in Offset BY <1>1, RemainingIs DEF ApuTyped, XmaContext
<1>7. CASE Take(p, c)
  <2>1. Piece(xma_contexts_[c].codec, Remaining(c)) \in Nat BY <1>6, PieceIs
  <2>. QED BY <1>4, <1>5, <1>7, <2>1 DEF Take
<1>8. CASE Dma(p, c)
  <2>1. Piece("xma", Remaining(c)) \in Nat /\ (Remaining(c) = 0 => Piece("xma", Remaining(c)) = 0)
    BY <1>6, PieceIs DEF Codec
  <2>. QED BY <1>4, <1>5, <1>8, <2>1 DEF Dma
<1>. QED BY <1>7, <1>8

\* A context nobody touched is accounted for as before.
LEMMA Untouched ==
  ASSUME ApuInv, NEW c \in Context, xma_contexts_'[c] = xma_contexts_[c],
         owed'[c] = owed[c], played_out'[c] = played_out[c], Fair(c)' => Fair(c)
  PROVE  (~xma_contexts_[c].loop => xma_contexts_[c].loops = 0)' /\ (Fair(c) => Accounted(c))'
BY DEF ApuInv, LoopsEnd, AllAccounted, Accounted, StillToPlay

LEMMA ResetStep == ASSUME ApuInv, Reset PROVE ApuInv'
<1>1. 0 \in Offset /\ 0 \in Nat BY Sized32
<1>2. hw' \in [Context -> XmaStream] BY <1>1 DEF Reset, NoStream, XmaStream, Codec
<1>3. xma_contexts_' \in [Context -> XmaContext] /\ \A c \in Context : xma_contexts_'[c] = NoXmaContext
  BY <1>1 DEF Reset, NoXmaContext, XmaContext, Codec
<1>4. ApuTyped' BY <1>2, <1>3 DEF ApuInv, ApuTyped, Reset, apu_history
<1>5. \A c \in Context : ~Fair(c)' /\ xma_contexts_'[c].loops = 0 BY <1>3 DEF Fair, NoXmaContext
<1>6. LoopsEnd' BY <1>5 DEF LoopsEnd
<1>7. PiecesHeld' BY <1>5 DEF PiecesHeld, Fair
<1>8. AllAccounted' BY <1>5 DEF AllAccounted, Fair
<1>. QED BY <1>4, <1>6, <1>7, <1>8 DEF ApuInv

LEMMA Reread ==
  ASSUME NEW x \in XmaContext, NEW l \in Nat, NEW r \in Offset
  PROVE  [x EXCEPT !.loops = l, !.read = r] \in XmaContext /\ [x EXCEPT !.read = r] \in XmaContext
BY DEF XmaContext

\* The next turn plays the stream from its start; a pass that holds a piece of
\* this one would have something left.
LEMMA LoopStep == ASSUME ApuInv, NEW p \in Pass, NEW c \in Context, Loop(p, c) PROVE ApuInv'
<1> DEFINE x == xma_contexts_[c]
<1>1. ApuTyped /\ pass[p].any \in BOOLEAN BY AnyIs DEF ApuInv
<1>2. pass[p].i <= LastContext BY ContextIs DEF Loop, Scans
<1>3. /\ pass' \in [Pass -> XmaPass] /\ \A q \in Pass : pass'[q].i <= LastContext + 1
      /\ \A q \in Pass : pass'[q] = pass[q] \/ pass'[q].at = "scan"
  BY <1>1, <1>2, OnwardIs DEF Loop
<1>4. x \in XmaContext /\ x.loop /\ x.loops > 0 /\ x.loops \in Nat /\ x.write \in Nat /\ x.read \in Nat /\ Remaining(c) = 0
  BY <1>1, RemainingIs DEF Loop, Loops, ApuTyped
<1>5. /\ xma_contexts_' = [xma_contexts_ EXCEPT ![c] = [x EXCEPT !.loops = x.loops - 1, !.read = 0]]
      /\ UNCHANGED <<hw, apu_registers, context_done_, interrupt_status_, owed, played_out, raced>>
  BY DEF Loop, apu_history
<1>6. [x EXCEPT !.loops = x.loops - 1, !.read = 0] \in XmaContext
  <2>1. x.loops - 1 \in Nat BY <1>4
  <2>. QED BY <1>4, <2>1, Sized32, Reread
<1>7. xma_contexts_' \in [Context -> XmaContext] BY <1>1, <1>5, <1>6 DEF ApuTyped
<1>8. /\ xma_contexts_'[c].loops = x.loops - 1 /\ xma_contexts_'[c].read = 0 /\ xma_contexts_'[c].write = x.write
      /\ xma_contexts_'[c].loop = x.loop /\ xma_contexts_'[c].valid = x.valid
      /\ \A d \in Context \ {c} : xma_contexts_'[d] = xma_contexts_[d]
  BY <1>1, <1>4, <1>5 DEF ApuTyped, XmaContext
<1>9. ApuTyped' BY <1>1, <1>3, <1>5, <1>7 DEF ApuTyped, apu_registers
<1>10. \A d \in Context : Fair(d)' <=> Fair(d) BY <1>5, <1>8 DEF Fair
<1>11. ASSUME NEW d \in Context \ {c}
       PROVE  (~xma_contexts_[d].loop => xma_contexts_[d].loops = 0)' /\ (Fair(d) => Accounted(d))'
  <2>1. xma_contexts_'[d] = xma_contexts_[d] /\ owed'[d] = owed[d] /\ played_out'[d] = played_out[d]
        /\ (Fair(d)' => Fair(d))
    BY <1>5, <1>8, <1>10
  <2>. QED BY <2>1, Untouched
<1>12. (~xma_contexts_[c].loop => xma_contexts_[c].loops = 0)' BY <1>4, <1>8
<1>13. (Fair(c) => Accounted(c))'
  <2> SUFFICES ASSUME Fair(c)' PROVE Accounted(c)' OBVIOUS
  <2>1. Accounted(c) BY <1>10 DEF ApuInv, AllAccounted
  <2>2. StillToPlay(c)' = StillToPlay(c) - (x.write - x.read)
    <3>1. (x.loops - 1) * x.write = x.loops * x.write - x.write /\ x.loops * x.write \in Int BY <1>4
    <3>2. StillToPlay(c)' = (x.write - 0) + (x.loops - 1) * x.write BY <1>8 DEF StillToPlay
    <3>. QED BY <1>4, <3>1, <3>2 DEF StillToPlay
  <2>3. Congruent(x.write - x.read, 0) BY <1>1, <1>4, RemainingIs
  <2> DEFINE left == StillToPlay(c)  turn == x.write - x.read  out == played_out[c]  due == owed[c]
  <2>4. left \in Int /\ turn \in Int /\ out \in Int /\ due \in Int BY <1>1, <1>4, RemainingIs
  <2>5. Congruent(out + left, due) BY <2>1 DEF Accounted
  <2>6. Congruent(turn, 0) BY <2>3
  <2>7. StillToPlay(c)' = left - turn BY <2>2
  <2> HIDE DEF left, turn, out, due
  <2>8. Congruent((out + left) - turn, due - 0) BY <2>4, <2>5, <2>6, Plus
  <2>9. (out + left) - turn = out + (left - turn) /\ due - 0 = due BY <2>4
  <2>10. Congruent(out + (left - turn), due) BY <2>8, <2>9
  <2>11. played_out'[c] = out /\ owed'[c] = due BY <1>5 DEF out, due
  <2>12. Accounted(c)' <=> Congruent(played_out'[c] + StillToPlay(c)', owed'[c]) BY DEF Accounted, Congruent
  <2>. QED BY <2>7, <2>10, <2>11, <2>12
<1>14. LoopsEnd' BY <1>11, <1>12 DEF LoopsEnd
<1>15. AllAccounted' BY <1>11, <1>13 DEF AllAccounted
<1>16. PiecesHeld'
  <2> SUFFICES ASSUME NEW q \in Pass, NEW d \in Context, pass'[q].at = "commit", pass'[q].i = d, Fair(d)'
               PROVE  pass'[q].seen = xma_contexts_'[d].read /\ Remaining(d)' # 0
    BY DEF PiecesHeld
  <2>1. pass'[q] = pass[q] BY <1>3
  <2>2. pass[q].seen = xma_contexts_[d].read /\ Remaining(d) # 0
    BY <1>10, <2>1 DEF ApuInv, PiecesHeld
  <2>3. d # c BY <1>4, <2>2
  <2>. QED BY <1>8, <2>1, <2>2, <2>3 DEF Remaining
<1>. QED BY <1>9, <1>14, <1>15, <1>16 DEF ApuInv

\* What a commit plays it takes from what was left to play, if the pass was
\* alone inside of the context; if not, nothing is said of the context.
LEMMA CommitStep == ASSUME ApuInv, NEW p \in Pass, NEW c \in Context, Commit(p, c) PROVE ApuInv'
<1> DEFINE x == xma_contexts_[c]  n == pass[p].n  crowded == c \in raced \/ \E q \in Pass \ {p} : Inside(q, c)
<1>1. ApuTyped /\ pass[p].any \in BOOLEAN /\ n \in Nat /\ pass[p].seen \in Offset
  BY AnyIs DEF ApuInv, ApuTyped, XmaPass
<1>2. pass[p].i = c /\ pass[p].at = "commit" /\ pass[p].i <= LastContext BY ContextIs DEF Commit, At
<1>3. PICK from \in {x.read, pass[p].seen} :
        /\ xma_contexts_' = [xma_contexts_ EXCEPT ![c].read = Unsigned(from + n)]
        /\ hw' = [hw EXCEPT ![c].read = Unsigned(from + n), ![c].loops = x.loops]
  BY DEF Commit
<1> DEFINE to == Unsigned(from + n)
<1>4. /\ x \in XmaContext /\ hw[c] \in XmaStream /\ x.loops \in Nat /\ x.write \in Nat
      /\ from \in Offset /\ from \in Nat /\ to \in Offset /\ to \in Nat /\ Congruent(from + n, to)
  <2>1. from \in Offset /\ from \in Nat BY <1>1, RemainingIs, Sized32
  <2>2. from + n \in Int BY <1>1, <2>1
  <2>3. to \in Offset /\ Congruent(from + n, to) BY <2>2, Wrapped
  <2>. QED BY <1>1, <2>1, <2>3, RemainingIs, Sized32 DEF ApuTyped
<1>5. /\ pass' \in [Pass -> XmaPass] /\ \A q \in Pass : pass'[q].i <= LastContext + 1
      /\ \A q \in Pass : pass'[q] = pass[q] \/ pass'[q].at = "scan"
      /\ \A q \in Pass \ {p} : pass'[q] = pass[q]
  <2>1. Onward(p, pass[p].any) BY DEF Commit
  <2>. QED BY <1>1, <1>2, <2>1, OnwardIs
<1>6. pass'[p].at = "scan"
  <2>1. Onward(p, pass[p].any) BY DEF Commit
  <2>. QED BY <1>1, <2>1 DEF Onward, ApuTyped
<1>7. UNCHANGED <<context_enable_, context_lock_, interrupt_mask_, context_done_, interrupt_status_>>
  BY DEF Commit, apu_registers
<1> HIDE DEF n, to
<1>8. xma_contexts_' = [xma_contexts_ EXCEPT ![c] = [x EXCEPT !.read = to]] BY <1>3 DEF to, n
<1>9. xma_contexts_' \in [Context -> XmaContext]
  <2>1. [x EXCEPT !.read = to] \in XmaContext BY <1>4, Reread
  <2>. QED BY <1>1, <1>8, <2>1 DEF ApuTyped
<1>10. /\ xma_contexts_'[c].loops = x.loops /\ xma_contexts_'[c].read = to /\ xma_contexts_'[c].write = x.write
       /\ xma_contexts_'[c].loop = x.loop /\ xma_contexts_'[c].valid = x.valid
       /\ \A d \in Context \ {c} : xma_contexts_'[d] = xma_contexts_[d]
  BY <1>1, <1>4, <1>8 DEF ApuTyped, XmaContext
<1>11. hw' \in [Context -> XmaStream]
  <2>1. [hw[c] EXCEPT !.read = to, !.loops = x.loops] \in XmaStream BY <1>4 DEF XmaStream
  <2>2. hw' = [hw EXCEPT ![c] = [hw[c] EXCEPT !.read = to, !.loops = x.loops]]
    BY <1>1, <1>3 DEF to, n, ApuTyped, XmaStream
  <2>. QED BY <1>1, <2>1, <2>2 DEF ApuTyped
<1>12. LoopsEnd' BY <1>10 DEF ApuInv, LoopsEnd
<1>13. \A d \in Context \ {c} : owed'[d] = owed[d] /\ played_out'[d] = played_out[d] /\ (d \in raced' <=> d \in raced)
  BY <1>1 DEF Commit, Race, ApuTyped
<1>14. \A d \in Context \ {c} : (Fair(d) => Accounted(d))'
  <2> SUFFICES ASSUME NEW d \in Context \ {c} PROVE (Fair(d) => Accounted(d))' OBVIOUS
  <2>1. Fair(d)' => Fair(d) BY <1>10, <1>13 DEF Fair
  <2>. QED BY <1>10, <1>13, <2>1, Untouched
<1>15. CASE crowded
  <2>1. Race({c}) BY <1>15 DEF Commit
  <2>2. 0 \in Offset BY Sized32
  <2>3. owed' \in [Context -> Offset] /\ played_out' \in [Context -> Offset] /\ raced' \subseteq Context
    BY <1>1, <2>1, <2>2 DEF Race, ApuTyped
  <2>4. ApuTyped' BY <1>1, <1>5, <1>7, <1>9, <1>11, <2>3 DEF ApuTyped
  <2>5. ~Fair(c)' BY <2>1 DEF Race, Fair
  <2>6. AllAccounted' BY <1>14, <2>5 DEF AllAccounted
  <2>7. PiecesHeld'
    <3> SUFFICES ASSUME NEW q \in Pass, NEW d \in Context, pass'[q].at = "commit", pass'[q].i = d, Fair(d)'
                 PROVE  pass'[q].seen = xma_contexts_'[d].read /\ Remaining(d)' # 0
      BY DEF PiecesHeld
    <3>1. pass'[q] = pass[q] /\ d # c BY <1>5, <2>5
    <3>2. Fair(d) BY <1>10, <1>13, <3>1 DEF Fair
    <3>3. pass[q].seen = xma_contexts_[d].read /\ Remaining(d) # 0
      BY <3>1, <3>2 DEF ApuInv, PiecesHeld
    <3>. QED BY <1>10, <3>1, <3>3 DEF Remaining
  <2>. QED BY <1>12, <2>4, <2>6, <2>7 DEF ApuInv
<1>16. CASE ~crowded
  <2>1. played_out' = [played_out EXCEPT ![c] = Unsigned(played_out[c] + n)] /\ owed' = owed /\ raced' = raced
    BY <1>16 DEF Commit, n
  <2>2. played_out[c] \in Int /\ owed[c] \in Int /\ StillToPlay(c) \in Int BY <1>1, RemainingIs
  <2>3. /\ Unsigned(played_out[c] + n) \in Offset /\ Unsigned(played_out[c] + n) \in Int
        /\ Congruent(played_out[c] + n, Unsigned(played_out[c] + n))
    <3>1. played_out[c] + n \in Int BY <1>1, <2>2
    <3>. QED BY <3>1, Wrapped
  <2>4. ApuTyped' BY <1>1, <1>5, <1>7, <1>9, <1>11, <2>1, <2>3 DEF ApuTyped
  <2>5. (Fair(c) => Accounted(c))'
    <3> SUFFICES ASSUME Fair(c)' PROVE Accounted(c)' OBVIOUS
    <3>1. Fair(c) BY <1>10, <2>1 DEF Fair
    <3>2. from = x.read BY <1>2, <1>3, <3>1 DEF ApuInv, PiecesHeld
    <3> DEFINE turns == x.loops * x.write  w == x.write  f == x.read
               out == played_out[c]  out1 == Unsigned(played_out[c] + n)  due == owed[c]
    <3>3. turns \in Int /\ w \in Int /\ f \in Int /\ out \in Int /\ due \in Int /\ to \in Int /\ out1 \in Int
      <4>1. turns \in Int /\ w \in Int BY <1>4
      <4>2. f \in Int BY <1>4, <3>2
      <4>3. out \in Int /\ due \in Int /\ out1 \in Int BY <2>2, <2>3
      <4>4. to \in Int BY <1>4
      <4>. QED BY <4>1, <4>2, <4>3, <4>4
    <3>4. Congruent(out + ((w - f) + turns), due) BY <3>1 DEF ApuInv, AllAccounted, Accounted, StillToPlay
    <3>5. Congruent(f + n, to) /\ Congruent(out + n, out1) BY <1>4, <2>3, <3>2
    <3>6. Accounted(c)' <=> Congruent(out1 + ((w - to) + turns), due)
      <4>1. played_out'[c] = out1 /\ owed'[c] = due BY <1>1, <2>1 DEF ApuTyped
      <4>2. StillToPlay(c)' = (w - to) + turns BY <1>10 DEF StillToPlay
      <4>3. Accounted(c)' <=> Congruent(played_out'[c] + StillToPlay(c)', owed'[c]) BY DEF Accounted, Congruent
      <4>. QED BY <4>1, <4>2, <4>3
    <3>7. n \in Int BY <1>1
    <3> HIDE DEF turns, w, f, out, out1, due
    <3>8. Congruent((out + n) - (f + n), out1 - to) BY <3>3, <3>5, <3>7, Plus
    <3>9. Congruent(((out + n) - (f + n)) + (w + turns), (out1 - to) + (w + turns))
      BY <3>3, <3>7, <3>8, Plus, Same, w + turns \in Int, (out + n) - (f + n) \in Int, out1 - to \in Int
    <3>10. ((out + n) - (f + n)) + (w + turns) = out + ((w - f) + turns)
           /\ (out1 - to) + (w + turns) = out1 + ((w - to) + turns)
      BY <3>3, <3>7
    <3>11. Congruent(out + ((w - f) + turns), out1 + ((w - to) + turns)) BY <3>9, <3>10
    <3>12. Congruent(out1 + ((w - to) + turns), due)
      <4>1. out + ((w - f) + turns) \in Int /\ out1 + ((w - to) + turns) \in Int BY <3>3
      <4>2. Congruent(out1 + ((w - to) + turns), out + ((w - f) + turns)) BY <3>11, <4>1, <3>3, Chain
      <4>. QED BY <3>4, <4>1, <4>2, <3>3, Chain
    <3>. QED BY <3>6, <3>12
  <2>6. AllAccounted' BY <1>14, <2>5 DEF AllAccounted
  <2>7. PiecesHeld'
    <3> SUFFICES ASSUME NEW q \in Pass, NEW d \in Context, pass'[q].at = "commit", pass'[q].i = d, Fair(d)'
                 PROVE  pass'[q].seen = xma_contexts_'[d].read /\ Remaining(d)' # 0
      BY DEF PiecesHeld
    <3>1. q # p /\ pass'[q] = pass[q] BY <1>5, <1>6
    <3>2. d # c BY <1>16, <3>1 DEF Inside
    <3>3. Fair(d) BY <1>10, <1>13, <3>2 DEF Fair
    <3>4. pass[q].seen = xma_contexts_[d].read /\ Remaining(d) # 0
      BY <3>1, <3>3 DEF ApuInv, PiecesHeld
    <3>. QED BY <1>10, <3>1, <3>2, <3>4 DEF Remaining
  <2>. QED BY <1>12, <2>4, <2>6, <2>7 DEF ApuInv
<1>. QED BY <1>15, <1>16

LEMMA ParsedIs ==
  ASSUME ApuTyped, NEW c \in Context
  PROVE  /\ Parsed(c) \in XmaContext /\ Parsed(c).write \in Nat /\ Parsed(c).read \in Nat
         /\ hw[c].loops \in Nat /\ Parsed(c).loops = hw[c].loops
         /\ ~Parsed(c).loop => Parsed(c).loops = 0
<1>1. hw[c] \in XmaStream BY DEF ApuTyped
<1>2. hw[c].packets * XMA_PACKET_SIZE \in Nat BY <1>1 DEF XmaStream, XMA_PACKET_SIZE
<1>3. (hw[c].loops > 0) \in BOOLEAN /\ hw[c].read \in Offset /\ hw[c].loops \in Nat /\ hw[c].codec \in Codec
  BY <1>1 DEF XmaStream
<1>4. hw[c].read \in Nat BY <1>3, Sized32
<1>5. Parsed(c) \in XmaContext BY <1>2, <1>3 DEF Parsed, XmaContext
<1>6. Parsed(c).write = hw[c].packets * XMA_PACKET_SIZE /\ Parsed(c).read = hw[c].read
      /\ Parsed(c).loops = hw[c].loops /\ (Parsed(c).loop <=> hw[c].loops > 0)
  BY DEF Parsed
<1>. QED BY <1>2, <1>3, <1>4, <1>5, <1>6

\* An enabled context owes its stream, once and for every turn, and has played
\* nothing of it; a pass that was inside of it already makes it a raced one.
LEMMA EnableContextStep ==
  ASSUME ApuInv, NEW value \in SUBSET Context, WriteEnable(value) PROVE ApuInv'
<1> DEFINE on == value \ context_enable_  off == context_enable_ \ value
           due(c) == Unsigned(Unsigned(Parsed(c).write - Parsed(c).read) + hw[c].loops * Parsed(c).write)
<1>1. ApuTyped BY DEF ApuInv
<1>2. /\ context_enable_' = value
      /\ \A c \in Context : xma_contexts_'[c] =
           IF c \in on THEN Parsed(c)
           ELSE IF c \in off THEN [xma_contexts_[c] EXCEPT !.valid = FALSE] ELSE xma_contexts_[c]
      /\ DOMAIN xma_contexts_' = Context
      /\ hw' = [c \in Context |-> IF c \in off THEN WrittenBack(c) ELSE hw[c]]
      /\ raced' = (raced \ on) \cup {c \in on : \E p \in Pass : Inside(p, c)}
      /\ owed' = [c \in Context |-> IF c \in raced' THEN 0 ELSE IF c \in on THEN due(c) ELSE owed[c]]
      /\ played_out' = [c \in Context |-> IF c \in on \cup raced' THEN 0 ELSE played_out[c]]
      /\ UNCHANGED <<context_done_, context_lock_, interrupt_status_, interrupt_mask_, pass>>
  BY DEF WriteEnable
<1>3. \A c \in Context : /\ due(c) \in Offset
                         /\ Congruent((Parsed(c).write - Parsed(c).read) + hw[c].loops * Parsed(c).write, due(c))
  <2> SUFFICES ASSUME NEW c \in Context
               PROVE  /\ due(c) \in Offset
                      /\ Congruent((Parsed(c).write - Parsed(c).read) + hw[c].loops * Parsed(c).write, due(c))
    OBVIOUS
  <2> DEFINE d == Parsed(c).write - Parsed(c).read  t == hw[c].loops * Parsed(c).write
  <2>1. d \in Int /\ t \in Int BY <1>1, ParsedIs
  <2>2. due(c) = Unsigned(Unsigned(d) + t) OBVIOUS
  <2> HIDE DEF d, t, due
  <2>3. Unsigned(d) \in Int /\ Congruent(d, Unsigned(d)) BY <2>1, Wrapped
  <2>4. Unsigned(d) + t \in Int /\ d + t \in Int BY <2>1, <2>3
  <2>5. due(c) \in Offset /\ Congruent(Unsigned(d) + t, due(c)) /\ due(c) \in Int
    <3> DEFINE y == Unsigned(d) + t
    <3>1. y \in Int BY <2>4
    <3> HIDE DEF y
    <3>2. Unsigned(y) \in Offset /\ Unsigned(y) \in Int /\ Congruent(y, Unsigned(y)) BY <3>1, Wrapped
    <3>3. due(c) = Unsigned(y) BY <2>2 DEF y
    <3>. QED BY <3>2, <3>3 DEF y
  <2>6. Congruent(d + t, Unsigned(d) + t) BY <2>1, <2>3, Plus, Same
  <2>7. Congruent(d + t, due(c)) BY <2>4, <2>5, <2>6, Chain
  <2>. QED BY <2>5, <2>7 DEF d, t
<1> HIDE DEF on, off, due
<1>4. \A c \in Context : c \in off => xma_contexts_'[c].valid = FALSE /\ xma_contexts_'[c] \in XmaContext
                          /\ xma_contexts_'[c].loop = xma_contexts_[c].loop
                          /\ xma_contexts_'[c].loops = xma_contexts_[c].loops
  <2> TAKE c \in Context
  <2>1. xma_contexts_[c] \in XmaContext BY <1>1 DEF ApuTyped
  <2>2. c \in off => c \notin on BY DEF on, off
  <2>. QED BY <1>2, <2>1, <2>2 DEF XmaContext
<1>5. ApuTyped'
  <2>1. \A c \in Context : xma_contexts_'[c] \in XmaContext BY <1>1, <1>2, <1>4, ParsedIs DEF ApuTyped
  <2>2. xma_contexts_' = [c \in Context |-> xma_contexts_'[c]] BY DEF WriteEnable
  <2>3. xma_contexts_' \in [Context -> XmaContext] BY <2>1, <2>2
  <2>4. hw' \in [Context -> XmaStream] BY <1>1, <1>2, WrittenBackIs DEF ApuTyped
  <2>5. on \subseteq Context BY DEF on
  <2>6. owed' \in [Context -> Offset] /\ played_out' \in [Context -> Offset] /\ raced' \subseteq Context
    BY <1>1, <1>2, <1>3, <2>5, Sized32 DEF ApuTyped
  <2>. QED BY <1>1, <1>2, <2>3, <2>4, <2>6 DEF ApuTyped
<1>6. ASSUME NEW c \in Context
      PROVE  /\ (~xma_contexts_[c].loop => xma_contexts_[c].loops = 0)' /\ (Fair(c) => Accounted(c))'
             /\ Fair(c)' => \/ \A p \in Pass : ~Inside(p, c)
                            \/ xma_contexts_'[c] = xma_contexts_[c] /\ Fair(c)
  <2>1. CASE c \in on
    <3>1. xma_contexts_'[c] = Parsed(c) BY <1>2, <2>1
    <3>2. (~xma_contexts_[c].loop => xma_contexts_[c].loops = 0)' BY <1>1, <3>1, ParsedIs
    <3>3. Fair(c)' => \A p \in Pass : ~Inside(p, c) BY <1>2, <2>1 DEF Fair
    <3>4. (Fair(c) => Accounted(c))'
      <4> SUFFICES ASSUME Fair(c)' PROVE Accounted(c)' OBVIOUS
      <4>1. c \notin raced' BY DEF Fair
      <4>2. owed'[c] = due(c) /\ played_out'[c] = 0 BY <1>2, <2>1, <4>1
      <4>3. StillToPlay(c)' = (Parsed(c).write - Parsed(c).read) + hw[c].loops * Parsed(c).write
        BY <1>1, <3>1, ParsedIs DEF StillToPlay
      <4>4. StillToPlay(c)' \in Int BY <1>1, <4>3, ParsedIs
      <4>5. Congruent(0 + StillToPlay(c)', due(c)) BY <1>3, <4>3, <4>4
      <4>6. Accounted(c)' <=> Congruent(played_out'[c] + StillToPlay(c)', owed'[c]) BY DEF Accounted, Congruent
      <4>. QED BY <4>2, <4>5, <4>6
    <3>. QED BY <2>1, <3>2, <3>3, <3>4
  <2>2. CASE c \notin on /\ c \in off
    <3>1. ~Fair(c)' BY <1>4, <2>2 DEF Fair
    <3>2. (~xma_contexts_[c].loop => xma_contexts_[c].loops = 0)' BY <1>4, <2>2 DEF ApuInv, LoopsEnd
    <3>. QED BY <3>1, <3>2
  <2>3. CASE c \notin on /\ c \notin off
    <3>1. xma_contexts_'[c] = xma_contexts_[c] /\ (c \in raced' <=> c \in raced) BY <1>2, <2>3
    <3>2. Fair(c)' <=> Fair(c) BY <3>1 DEF Fair
    <3>3. CASE Fair(c)
      <4>1. owed'[c] = owed[c] /\ played_out'[c] = played_out[c] BY <1>2, <2>3, <3>1, <3>3 DEF Fair
      <4>. QED BY <3>1, <3>2, <3>3, <4>1, Untouched
    <3>4. CASE ~Fair(c)
      <4>1. (~xma_contexts_[c].loop => xma_contexts_[c].loops = 0)' BY <3>1 DEF ApuInv, LoopsEnd
      <4>. QED BY <3>2, <3>4, <4>1
    <3>. QED BY <3>3, <3>4
  <2>. QED BY <2>1, <2>2, <2>3
<1>7. LoopsEnd' BY <1>6 DEF LoopsEnd
<1>8. AllAccounted' BY <1>6 DEF AllAccounted
<1>9. PiecesHeld'
  <2> SUFFICES ASSUME NEW q \in Pass, NEW d \in Context, pass'[q].at = "commit", pass'[q].i = d, Fair(d)'
               PROVE  pass'[q].seen = xma_contexts_'[d].read /\ Remaining(d)' # 0
    BY DEF PiecesHeld
  <2>1. pass'[q] = pass[q] BY <1>2
  <2>2. Inside(q, d) BY <2>1 DEF Inside
  <2>3. xma_contexts_'[d] = xma_contexts_[d] /\ Fair(d) BY <1>6, <2>2
  <2>4. pass[q].seen = xma_contexts_[d].read /\ Remaining(d) # 0 BY <2>1, <2>3 DEF ApuInv, PiecesHeld
  <2>. QED BY <2>1, <2>3, <2>4 DEF Remaining
<1>. QED BY <1>5, <1>7, <1>8, <1>9 DEF ApuInv

LEMMA ApuStep == ASSUME ApuInv, [ApuNext]_apu_vars PROVE ApuInv'
<1>1. CASE ApuGuestStep
  <2>1. CASE \E c \in Context : Describe(c) \/ WriteClear(c) BY <2>1, SmallSteps
  <2>2. CASE \E v \in SUBSET Context : WriteEnable(v) \/ WriteLock(v) BY <2>2, SmallSteps, EnableContextStep
  <2>3. CASE WriteMask \/ WriteStatus \/ Reset BY <2>3, SmallSteps, ResetStep
  <2>. QED BY <1>1, <2>1, <2>2, <2>3 DEF ApuGuestStep
<1>2. ASSUME NEW p \in Pass, ApuPassStep(p) PROVE ApuInv'
  <2>1. CASE Kick(p) \/ SkipContext(p) \/ FinishPass(p) BY <2>1, ScanSteps
  <2>2. ASSUME NEW c \in Context, Complete(p, c) \/ ScanXma(p, c) \/ DecodeFails(p, c) PROVE ApuInv'
    BY <2>2, ScanSteps
  <2>3. ASSUME NEW c \in Context, Take(p, c) \/ Dma(p, c) PROVE ApuInv' BY <2>3, TakeSteps
  <2>. QED BY <1>2, <2>1, <2>2, <2>3, LoopStep, CommitStep DEF ApuPassStep
<1>3. CASE UNCHANGED apu_vars
  <2>1. UNCHANGED <<hw, context_enable_, context_done_, context_lock_, interrupt_status_, interrupt_mask_,
                    xma_contexts_, pass, apu_history>>
    BY <1>3 DEF apu_vars, apu_registers
  <2>. QED BY <2>1, GuestQuiet DEF ApuInv, ApuTyped
<1>. QED BY <1>1, <1>2, <1>3 DEF ApuNext

LEMMA ApuInvariance == ApuSpec => []ApuInv
<1>1. ApuInit => ApuInv BY ApuBegun
<1>2. ApuInv /\ [ApuNext]_apu_vars => ApuInv' BY ApuStep
<1>. QED BY <1>1, <1>2, PTL DEF ApuSpec

\* Only the end of the last turn reports a context, and nothing is left then.
LEMMA DoneByComplete ==
  ASSUME ApuInv, [ApuNext]_apu_vars, NEW c \in (context_done_' \ context_done_) \ raced
  PROVE  played_out[c] = owed[c]
<1>1. PICK p \in Pass : Complete(p, c) /\ c \in Context
  <2>1. ~UNCHANGED context_done_ /\ ~(context_done_' \subseteq context_done_) OBVIOUS
  <2>2. ~ApuGuestStep
    BY <2>1 DEF ApuGuestStep, Describe, WriteClear, WriteEnable, WriteLock, WriteMask, WriteStatus, Reset, apu_registers
  <2>3. ~UNCHANGED apu_vars BY <2>1 DEF apu_vars
  <2>4. PICK p \in Pass : ApuPassStep(p) BY <2>2, <2>3 DEF ApuNext
  <2>5. ~Kick(p) /\ ~SkipContext(p) /\ ~FinishPass(p) BY <2>1 DEF Kick, SkipContext, FinishPass
  <2>6. \A d \in Context : /\ ~Loop(p, d) /\ ~Take(p, d) /\ ~ScanXma(p, d)
                            /\ ~Dma(p, d) /\ ~DecodeFails(p, d) /\ ~Commit(p, d)
    BY <2>1 DEF Loop, Take, ScanXma, Dma, DecodeFails, Commit
  <2>7. PICK d \in Context : Complete(p, d) BY <2>4, <2>5, <2>6 DEF ApuPassStep
  <2>8. c = d BY <2>7 DEF Complete
  <2>. QED BY <2>7, <2>8
<1>2. ApuTyped /\ Fair(c) /\ Remaining(c) = 0 /\ ~Loops(c) BY <1>1 DEF Complete, Scans, Fair, ApuInv
<1>3. xma_contexts_[c].loops = 0
  <2>1. xma_contexts_[c].loops \in Nat BY <1>1, <1>2, RemainingIs
  <2>. QED BY <1>1, <1>2, <2>1 DEF Loops, ApuInv, LoopsEnd
<1> DEFINE out == played_out[c]  due == owed[c]  left == xma_contexts_[c].write - xma_contexts_[c].read
<1>4. out \in Offset /\ due \in Offset /\ out \in Int /\ due \in Int /\ left \in Int /\ Congruent(left, 0)
  BY <1>1, <1>2, RemainingIs
<1>5. StillToPlay(c) = left BY <1>1, <1>2, <1>3, <1>4, RemainingIs DEF StillToPlay
<1>6. Congruent(out + left, due) BY <1>1, <1>2, <1>5 DEF ApuInv, AllAccounted, Accounted
<1> HIDE DEF out, due, left
<1>7. Congruent((out + left) - left, due - 0) BY <1>4, <1>6, Plus, out + left \in Int
<1>8. (out + left) - left = out /\ due - 0 = due BY <1>4
<1>9. out = due BY <1>4, <1>7, <1>8, OneOffset
<1>. QED BY <1>9 DEF out, due

\* The registers, contexts and passes of the APU stay of their types (apu.cpp).
THEOREM ApuTypes == ApuSpec => []ApuOK
<1>1. ApuInv => ApuOK
  <2> SUFFICES ASSUME ApuInv PROVE ApuOK OBVIOUS
  <2>1. ApuTyped BY DEF ApuInv
  <2>2. \A c \in Context : hw[c].packets \in Nat /\ hw[c].loops \in Nat BY <2>1 DEF ApuTyped, XmaStream
  <2>3. \A c \in Context : xma_contexts_[c].read \in Offset /\ played_out[c] \in Offset BY <2>1, RemainingIs
  <2>4. \A p \in Pass : pass[p].at \in {"idle", "scan", "dma", "commit"} /\ pass[p].i \in 0 .. LastContext + 1
    BY <2>1, ApuAssumption DEF ApuTyped, XmaPass
  <2>. QED BY <2>1, <2>2, <2>3, <2>4 DEF ApuTyped, ApuOK
<1>. QED BY <1>1, ApuInvariance, PTL

\* For any number of contexts, passes and loops and any streams: a context the
\* APU reports done, and two did not race for, has played what it was given.
THEOREM PlayedOut == ApuSpec => DoneMeansPlayedOut
<1>1. ApuInv /\ [ApuNext]_apu_vars
      => [\A c \in (context_done_' \ context_done_) \ raced : played_out[c] = owed[c]]_apu_vars
  BY DoneByComplete
<1>. QED BY <1>1, ApuInvariance, PTL DEF ApuSpec, DoneMeansPlayedOut
=============================================================================
