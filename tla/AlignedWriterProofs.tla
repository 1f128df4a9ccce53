------------------------- MODULE AlignedWriterProofs -------------------------
(***************************************************************************)
(* Proofs about AlignedWriter: when the read block is a whole number of   *)
(* program units (R % P = 0) and the slot a whole number of read blocks   *)
(* (Slot % R = 0), every chunk split leaves the image in the slot, the     *)
(* slot past the download offset stays erased, and every read stays       *)
(* inside its buffers.  The inductive invariant WInv says the slot holds   *)
(* exactly the image below the offset and erased bytes above it.          *)
(* Without R % P = 0 the claims are false (run writer_overread); without  *)
(* Slot % R = 0 the last whole-block read runs past the slot's end.       *)
(***************************************************************************)
EXTENDS AlignedWriter, TLAPS

(* The hypothesis every theorem below rests on: bd_read_program_unit's    *)
(* unit lies inside its read block only when R is a multiple of P.        *)
UnitsInBlocks == R % P = 0

(* The second: the last block the handler reads whole (the tail of the    *)
(* signature check, the block of bd_read_program_unit) ends inside the    *)
(* slot only when the slot is a whole number of read blocks.  The code    *)
(* takes R = max(1024, read_size) and never checks the slot size.         *)
SlotInBlocks == Slot % R = 0

-----------------------------------------------------------------------------
(* Arithmetic of the align-downs and align-ups the handler computes.      *)

(* Aligning x down to a multiple of p gives a multiple of p within p of x. *)
LEMMA DivBounds ==
  ASSUME NEW x \in Nat, NEW p \in Nat \ {0}
  PROVE  /\ (x \div p) * p <= x
         /\ x < (x \div p) * p + p
         /\ ((x \div p) * p) % p = 0
         /\ (x \div p) \in Nat
OBVIOUS

(* Two distinct multiples of p are at least p apart. *)
LEMMA MultGap ==
  ASSUME NEW a \in Nat, NEW b \in Nat, NEW p \in Nat \ {0},
         a % p = 0, b % p = 0, a < b
  PROVE  a + p <= b
<1>1. a = (a \div p) * p /\ b = (b \div p) * p
  OBVIOUS
<1>2. (a \div p) < (b \div p)
  BY <1>1
<1>3. (a \div p) + 1 <= (b \div p)
  BY <1>2
<1>4. ((a \div p) + 1) * p <= (b \div p) * p
  BY <1>3
<1>5. QED
  BY <1>1, <1>4

(* A multiple of p leaves no remainder. *)
LEMMA MultMod ==
  ASSUME NEW k \in Nat, NEW p \in Nat \ {0}
  PROVE  (k * p) % p = 0
OBVIOUS

(* A multiple of r is a multiple of p when r is: an R-aligned address is *)
(* P-aligned when R % P = 0.                                             *)
LEMMA DivTrans ==
  ASSUME NEW a \in Nat, NEW p \in Nat \ {0}, NEW r \in Nat \ {0},
         a % r = 0, r % p = 0
  PROVE  a % p = 0
<1> DEFINE qa == a \div r
           qr == r \div p
<1>1. qa \in Nat /\ qr \in Nat
  OBVIOUS
<1>2. a = qa * r /\ r = qr * p
  OBVIOUS
<1>3. a = qa * (qr * p)
  BY <1>2
<1>4. qa * (qr * p) = (qa * qr) * p
  BY <1>1
<1>5. (qa * qr) \in Nat
  BY <1>1
<1>6. QED
  BY <1>3, <1>4, <1>5, MultMod


(* The align-down of o is the largest multiple of p not above o. *)
LEMMA MaxAligned ==
  ASSUME NEW x \in Nat, NEW o \in Nat, NEW p \in Nat \ {0},
         x % p = 0, x <= o
  PROVE  x <= (o \div p) * p
<1> DEFINE ad == (o \div p) * p
<1>1. ad \in Nat /\ ad <= o /\ o < ad + p /\ ad % p = 0
  BY DivBounds
<1>2. SUFFICES ASSUME x > ad PROVE FALSE
  OBVIOUS
<1>3. ad + p <= x
  BY <1>1, <1>2, MultGap
<1>4. QED
  BY <1>1, <1>3

(* The align-up of o, which HeadLen measures to, is a multiple of p at   *)
(* or above o and at most one unit past o's align-down.                  *)
LEMMA CeilBounds ==
  ASSUME NEW o \in Nat, NEW p \in Nat \ {0}
  PROVE  LET c == ((o + p - 1) \div p) * p
         IN  /\ c \in Nat /\ c % p = 0
             /\ o <= c /\ c <= (o \div p) * p + p
<1> DEFINE q  == o + p - 1
           c  == (q \div p) * p
           ad == (o \div p) * p
           k  == (o \div p) + 2
           b  == k * p
<1>0. q \in Nat /\ k \in Nat
  OBVIOUS
<1>1. c \in Nat /\ c <= q /\ q < c + p /\ c % p = 0
  <2>. HIDE DEF q
  <2>. QED  BY <1>0, DivBounds
<1>2. ad \in Nat /\ ad <= o /\ o < ad + p /\ ad % p = 0
  BY DivBounds
<1>3. b % p = 0 /\ b \in Nat /\ b = ad + 2 * p
  <2>1. b % p = 0
    <3>. HIDE DEF k
    <3>. QED  BY <1>0, MultMod, Zenon
  <2>. QED  BY <2>1, <1>0
<1>4. c + p <= b
  <2>1. c < b
    BY <1>1, <1>2, <1>3
  <2>. HIDE DEF c, b
  <2>. QED  BY <1>1, <1>3, <2>1, MultGap, Zenon
<1>5. QED
  BY <1>1, <1>3, <1>4

(* The sum of two multiples of p is one. *)
LEMMA ModAdd ==
  ASSUME NEW a \in Nat, NEW b \in Nat, NEW p \in Nat \ {0},
         a % p = 0, b % p = 0
  PROVE  (a + b) % p = 0
<1> DEFINE k == (a \div p) + (b \div p)
<1>1. k \in Nat /\ a + b = k * p
  OBVIOUS
<1>2. (k * p) % p = 0
  <2>. HIDE DEF k
  <2>. QED  BY <1>1, MultMod
<1>. QED  BY <1>1, <1>2

USE WriterAssumption

-----------------------------------------------------------------------------
(* bd_read_program_unit on an address of the slot: the read block lies in *)
(* the slot, the copied unit lies in the read block, and the copy starts   *)
(* at the program unit holding the address.                               *)
LEMMA UnitRead ==
  ASSUME UnitsInBlocks, SlotInBlocks, NEW x \in Nat, x < Slot
  PROVE  /\ ProgUnitRead(x).blk \in Nat
         /\ ProgUnitRead(x).blk + R <= Slot
         /\ ProgUnitRead(x).pos \in Nat
         /\ ProgUnitRead(x).pos + P <= R
         /\ ProgUnitRead(x).blk + ProgUnitRead(x).pos = (x \div P) * P
         /\ ProgUnitRead(x).len = P
         /\ ~OverRead(x)
<1> DEFINE rb == (x \div R) * R
           pu == (x \div P) * P
           rb1 == ((x \div R) + 1) * R
<1>1. rb \in Nat /\ rb <= x /\ x < rb + R /\ rb % R = 0
  BY DivBounds
<1>2. pu \in Nat /\ pu <= x /\ x < pu + P /\ pu % P = 0
  BY DivBounds
<1>3. rb % P = 0
  <2>. HIDE DEF rb
  <2>. QED  BY <1>1, DivTrans DEF UnitsInBlocks
<1>4. rb <= pu
  <2>. HIDE DEF rb
  <2>. QED  BY <1>1, <1>3, MaxAligned
<1>5. rb1 = rb + R /\ rb1 \in Nat /\ rb1 % P = 0
  <2>1. rb1 % R = 0
    <3>. (x \div R) + 1 \in Nat
      OBVIOUS
    <3>. HIDE DEF rb1
    <3>. QED  BY MultMod DEF rb1
  <2>2. rb1 \in Nat
    OBVIOUS
  <2>3. rb1 % P = 0
    <3>. HIDE DEF rb1
    <3>. QED  BY <2>1, <2>2, DivTrans DEF UnitsInBlocks
  <2>. QED  BY <2>2, <2>3
<1>6. pu + P <= rb + R
  <2>1. pu < rb1
    BY <1>1, <1>2, <1>5
  <2>2. pu + P <= rb1
    <3>. HIDE DEF rb, pu, rb1
    <3>. QED  BY <1>2, <1>5, <2>1, MultGap
  <2>. QED  BY <1>5, <2>2
<1>7. rb + R <= Slot
  <2>1. rb < Slot
    BY <1>1
  <2>. HIDE DEF rb
  <2>. QED  BY <1>1, <2>1, MultGap DEF SlotInBlocks
<1>. QED
  BY <1>1, <1>2, <1>4, <1>6, <1>7 DEF ProgUnitRead, ReadOp, OverRead

(* The unit bd_read_program_unit returns for an address of the slot is    *)
(* the device's bytes from the start of that unit on.                     *)
LEMMA UnitBytes ==
  ASSUME UnitsInBlocks, SlotInBlocks, NEW x \in Nat, x < Slot, NEW d, NEW g
  PROVE  \A i \in 1..P : ProgUnitBytes(d, x, g)[i] = d[(x \div P) * P + i - 1]
<1>1. /\ ProgUnitRead(x).pos \in Nat
      /\ ProgUnitRead(x).pos + P <= R
      /\ ProgUnitRead(x).blk + ProgUnitRead(x).pos = (x \div P) * P
  BY UnitRead
<1>. QED  BY <1>1 DEF ProgUnitBytes

-----------------------------------------------------------------------------
(* A program of b at a that covers [o, o2), rewrites the bytes below o    *)
(* with what they hold, puts the image in [o, o2) and erased bytes from   *)
(* o2 on, moves a good slot at o to a good slot at o2: intersecting with  *)
(* the old value is harmless because the bytes it programs are either     *)
(* unchanged or were erased.                                              *)
LEMMA ProgramGood ==
  ASSUME data \in [1..ImageLen -> Bytes],
         NEW d, NEW o \in 0..ImageLen, NEW o2 \in o..ImageLen,
         NEW a \in Nat, NEW L \in Nat, NEW b, Len(b) = L,
         Good(d, o),
         \A k \in o..(o2 - 1) : a <= k /\ k < a + L,
         \A i \in 1..L : a + i - 1 \in Addr =>
            /\ a + i - 1 < o => b[i] = d[a + i - 1]
            /\ o <= a + i - 1 /\ a + i - 1 < o2 => b[i] = data[a + i]
            /\ a + i - 1 >= o2 => b[i] = Erased
  PROVE  Good(Program(d, a, b), o2)
<1> DEFINE nd == Program(d, a, b)
<1>1. DOMAIN d = Addr /\ \A k \in Addr : d[k] \in Bytes
  BY DEF Good
<1>2. \A k \in Addr : nd[k] = IF a <= k /\ k < a + L THEN d[k] \cap b[k - a + 1]
                                                     ELSE d[k]
  BY <1>1 DEF Program
<1>3. \A k \in Addr : a <= k /\ k < a + L =>
         nd[k] = IF k < o THEN d[k] ELSE IF k < o2 THEN data[k + 1] ELSE Erased
  <2>. SUFFICES ASSUME NEW k \in Addr, a <= k, k < a + L
                PROVE  nd[k] = IF k < o THEN d[k] ELSE IF k < o2 THEN data[k + 1] ELSE Erased
    OBVIOUS
  <2>. DEFINE i == k - a + 1
  <2>1. i \in 1..L /\ a + i - 1 = k /\ a + i = k + 1
    BY DEF Addr
  <2>2. nd[k] = d[k] \cap b[i]
    BY <1>2
  <2>3. /\ k < o => b[i] = d[k]
        /\ o <= k /\ k < o2 => b[i] = data[k + 1]
        /\ k >= o2 => b[i] = Erased
    BY <2>1
  <2>4. CASE k < o
    BY <2>2, <2>3, <2>4
  <2>5. CASE o <= k /\ k < o2
    <3>1. d[k] = Bits /\ data[k + 1] \subseteq Bits
      BY <2>5 DEF Good, Erased, Bytes, Addr
    <3>. QED  BY <2>2, <2>3, <2>5, <3>1
  <2>6. CASE k >= o2
    <3>1. d[k] = Bits
      BY <2>6 DEF Good, Erased, Addr
    <3>. QED  BY <2>2, <2>3, <2>6, <3>1 DEF Erased
  <2>. QED  BY <2>4, <2>5, <2>6 DEF Addr
<1>4. nd \in [Addr -> Bytes]
  <2>1. \A k \in Addr : k < o2 /\ o <= k => data[k + 1] \in Bytes
    BY DEF Addr
  <2>. QED  BY <1>1, <1>2, <1>3, <2>1 DEF Program, Erased, Bytes
<1>5. \A k \in Addr : k < o2 => nd[k] = data[k + 1]
  <2>. SUFFICES ASSUME NEW k \in Addr, k < o2 PROVE nd[k] = data[k + 1]
    OBVIOUS
  <2>1. k < o => d[k] = data[k + 1]
    BY DEF Good
  <2>2. CASE a <= k /\ k < a + L
    BY <1>3, <2>1, <2>2
  <2>3. CASE ~(a <= k /\ k < a + L)
    <3>1. k < o
      BY <2>3 DEF Addr
    <3>. QED  BY <1>2, <2>1, <2>3, <3>1
  <2>. QED  BY <2>2, <2>3
<1>6. \A k \in Addr : k >= o2 => nd[k] = Erased
  <2>. SUFFICES ASSUME NEW k \in Addr, k >= o2 PROVE nd[k] = Erased
    OBVIOUS
  <2>1. d[k] = Erased
    BY DEF Good, Addr
  <2>2. CASE a <= k /\ k < a + L
    <3>1. ~(k < o) /\ ~(k < o2)
      BY DEF Addr
    <3>. QED  BY <1>3, <2>2, <3>1
  <2>3. CASE ~(a <= k /\ k < a + L)
    BY <1>2, <2>1, <2>3
  <2>. QED  BY <2>2, <2>3
<1>. QED  BY <1>4, <1>5, <1>6 DEF Good

-----------------------------------------------------------------------------
(* OTACtx_Reinit's erased slot at offset 0 satisfies the invariant. *)
LEMMA WInvInit == Init => WInv
<1> SUFFICES ASSUME Init PROVE WInv
  OBVIOUS
<1>1. TypeOK
  BY DEF Init, TypeOK, Bytes, Erased, Addr
<1>2. Good(dev, offset)
  BY DEF Init, Good, Bytes, Erased, Addr
<1>. QED  BY <1>1, <1>2 DEF Init, WInv, WrittenIsImage, ReadsInBounds

(* VerifySignature hashes exactly the image, so the digest matches; its   *)
(* block reads end at the last read block that holds image bytes, which   *)
(* lies inside the slot because the slot is a whole number of blocks.     *)
LEMMA VerifyInv ==
  ASSUME SlotInBlocks, WInv, VerifySignature
  PROVE  WInv'
<1> DEFINE full == ImageLen \div R
           rest == ImageLen % R
           fr   == full * R
<1>1. fr \in Nat /\ fr <= ImageLen /\ ImageLen = fr + rest /\ rest \in 0..(R - 1)
      /\ fr % R = 0
  BY DivBounds
<1>2. offset = ImageLen /\ phase = "Download"
  BY DEF VerifySignature
<1>3. [k \in 1..ImageLen |-> dev[k - 1]] = data
  BY <1>2 DEF WInv, Good, TypeOK, Addr
<1>4. phase' = "Verified"
  BY <1>3 DEF VerifySignature
<1>5. \A j \in 0..(full - 1) : j * R + R <= Slot
  <2>. SUFFICES ASSUME NEW j \in 0..(full - 1) PROVE j * R + R <= Slot
    OBVIOUS
  <2>1. j + 1 <= full /\ full \in Nat
    OBVIOUS
  <2>2. (j + 1) * R <= full * R
    BY <2>1
  <2>. QED  BY <1>1, <2>2
<1>6. rest > 0 => fr + R <= Slot
  <2>. SUFFICES ASSUME rest > 0 PROVE fr + R <= Slot
    OBVIOUS
  <2>1. fr < Slot
    BY <1>1
  <2>. HIDE DEF fr
  <2>. QED  BY <1>1, <2>1, MultGap DEF SlotInBlocks
<1>7. ReadsInBounds'
  <2>1. lastReads' = {ReadOp(j * R, 0, R) : j \in 0..(full - 1)}
                       \cup (IF rest > 0 THEN {ReadOp(fr, 0, rest)} ELSE {})
    BY DEF VerifySignature
  <2>2. \A j \in 0..(full - 1) : /\ ReadOp(j * R, 0, R).blk + R <= Slot
                                 /\ 0 <= ReadOp(j * R, 0, R).pos
                                 /\ ReadOp(j * R, 0, R).pos
                                      + ReadOp(j * R, 0, R).len <= R
    BY <1>5 DEF ReadOp
  <2>3. rest > 0 => /\ ReadOp(fr, 0, rest).blk + R <= Slot
                    /\ 0 <= ReadOp(fr, 0, rest).pos
                    /\ ReadOp(fr, 0, rest).pos + ReadOp(fr, 0, rest).len <= R
    BY <1>1, <1>6 DEF ReadOp
  <2>. HIDE DEF full, rest, fr
  <2>. QED  BY <2>1, <2>2, <2>3 DEF ReadsInBounds
<1>8. TypeOK'
  <2>1. lastReads' \subseteq [blk : Nat, pos : Nat, len : Nat]
    <3>1. \A j \in 0..(full - 1) : ReadOp(j * R, 0, R) \in [blk : Nat, pos : Nat, len : Nat]
      BY DEF ReadOp
    <3>2. ReadOp(fr, 0, rest) \in [blk : Nat, pos : Nat, len : Nat]
      BY <1>1 DEF ReadOp
    <3>. QED  BY <3>1, <3>2 DEF VerifySignature
  <2>2. UNCHANGED <<data, dev, offset>>
    BY DEF VerifySignature
  <2>. QED  BY <1>4, <2>1, <2>2 DEF WInv, TypeOK
<1>. QED  BY <1>4, <1>7, <1>8 DEF WInv, VerifySignature, WrittenIsImage, Good

(* How CombinedDownloadInstall splits an n-byte chunk at offset o: the   *)
(* head ends at the next unit boundary (or the chunk's end), the middle is *)
(* a whole number of units, and a non-empty tail starts on a unit boundary *)
(* inside the slot and is shorter than a unit.                            *)
LEMMA ChunkSplit ==
  ASSUME NEW o \in 0..(ImageLen - 1), NEW n \in 1..(ImageLen - o)
  PROVE  LET first == (o \div P) * P
             todo1 == HeadLen(o, n)
             todo2 == MidLen(o, n)
             off2  == TailOff(o, n)
             todo3 == n - todo1 - todo2
         IN  /\ first \in Nat /\ first <= o /\ o < first + P /\ first + P <= Slot
             /\ todo1 \in 0..n /\ o + todo1 <= first + P
             /\ todo2 \in Nat /\ todo1 + todo2 <= n
             /\ todo3 \in 0..(P - 1) /\ off2 = o + todo1 + todo2
             /\ off2 + todo3 = o + n
             /\ todo3 > 0 => /\ (off2 \div P) * P = off2 /\ off2 \in Nat
                             /\ off2 < Slot
<1> DEFINE fst == (o \div P) * P
           t1 == HeadLen(o, n)
           t2 == MidLen(o, n)
           o1  == o + t1
           o2  == TailOff(o, n)
           t3 == n - t1 - t2
<1>1. fst \in Nat /\ fst <= o /\ o < fst + P /\ fst % P = 0
  BY DivBounds
<1>2. fst + P <= Slot
  <2>1. fst < Slot
    BY <1>1
  <2>. HIDE DEF fst
  <2>. QED  BY <1>1, <2>1, MultGap
<1>3. /\ t1 \in 0..n /\ o1 <= fst + P
      /\ t1 < n => o1 % P = 0
  <2> DEFINE c == ((o + P - 1) \div P) * P
  <2>1. c \in Nat /\ c % P = 0 /\ o <= c /\ c <= fst + P
    BY CeilBounds
  <2>2. t1 = IF c - o < n THEN c - o ELSE n
    BY DEF HeadLen, MinOf
  <2>. QED  BY <2>1, <2>2
<1>4. /\ t2 \in Nat /\ t2 % P = 0 /\ t1 + t2 <= n
      /\ t3 \in 0..(P - 1) /\ o2 = o1 + t2 /\ o2 + t3 = o + n
  <2> DEFINE x == n - t1
             q == (x \div P) * P
  <2>1. x \in Nat /\ t1 \in Nat
    BY <1>3
  <2>2. t2 = q
    BY DEF MidLen
  <2>3. q \in Nat /\ q <= x /\ x < q + P /\ q % P = 0
    <3>1. \A y \in Nat : /\ (y \div P) * P \in Nat /\ (y \div P) * P <= y
                        /\ y < (y \div P) * P + P /\ ((y \div P) * P) % P = 0
      BY DivBounds
    <3>. HIDE DEF x
    <3>. QED  BY <2>1, <3>1
  <2>4. o2 = o1 + t2
    BY DEF TailOff
  <2>5. t3 = x - t2 /\ x = n - t1 /\ o1 = o + t1
    OBVIOUS
  <2>. HIDE DEF t1, t2, o1, o2, t3, x, q
  <2>. QED  BY <2>1, <2>2, <2>3, <2>4, <2>5
<1>5. t3 > 0 => /\ o2 % P = 0 /\ (o2 \div P) * P = o2
                /\ o2 \in Nat /\ o2 < Slot
  <2>. SUFFICES ASSUME t3 > 0
                PROVE  /\ o2 % P = 0 /\ (o2 \div P) * P = o2
                       /\ o2 \in Nat /\ o2 < Slot
    OBVIOUS
  <2>1. o1 % P = 0 /\ o1 \in Nat /\ t2 \in Nat /\ t2 % P = 0
    BY <1>3, <1>4
  <2>2. o2 % P = 0
    <3>. HIDE DEF o1, t2, o2
    <3>. QED  BY <1>4, <2>1, ModAdd
  <2>3. o2 \in Nat /\ o2 < Slot
    <3>1. t3 \in Nat /\ o + n <= Slot
      BY <1>4
    <3>. HIDE DEF o1, t2, o2, t3
    <3>. QED  BY <1>4, <2>1, <3>1
  <2>4. (o2 \div P) * P = o2
    <3>. HIDE DEF o2
    <3>. QED  BY <2>2, <2>3
  <2>. QED  BY <2>2, <2>3, <2>4
<1>. QED  BY <1>1, <1>2, <1>3, <1>4, <1>5

(* One chunk of CombinedDownloadInstall: the head, the aligned middle and *)
(* the tail each move the good slot on, and the head and tail reads are   *)
(* the program units of in-slot addresses.                                *)
LEMMA DownloadInv ==
  ASSUME UnitsInBlocks, SlotInBlocks, WInv, DownloadChunk
  PROVE  WInv'
<1>1. PICK n \in 1..MinOf(MaxChunk, ImageLen - offset) :
        \E g1 \in Fills(offset), g2 \in Fills(TailOff(offset, n)) :
          CombinedDownloadInstall(n, g1, g2)
  BY DEF DownloadChunk
<1>2. PICK g1 \in Fills(offset), g2 \in Fills(TailOff(offset, n)) :
          CombinedDownloadInstall(n, g1, g2)
  BY <1>1
<1> DEFINE o     == offset
           chunk == SubSeq(data, o + 1, o + n)
           todo1 == HeadLen(o, n)
           first == (o \div P) * P
           unit1 == ProgUnitBytes(dev, o, g1)
           head  == [i \in 1..P |->
                       IF first + i - 1 >= o /\ first + i - 1 < o + todo1
                         THEN chunk[first + i - o]
                         ELSE unit1[i]]
           dev1  == IF todo1 > 0 THEN Program(dev, first, head) ELSE dev
           off1  == o + todo1
           todo2 == MidLen(o, n)
           mid   == SubSeq(chunk, todo1 + 1, todo1 + todo2)
           dev2  == Program(dev1, off1, mid)
           off2  == TailOff(o, n)
           todo3 == n - todo1 - todo2
           unit2 == ProgUnitBytes(dev2, off2, g2)
           tail  == [i \in 1..P |->
                       IF i <= todo3 THEN chunk[todo1 + todo2 + i] ELSE unit2[i]]
           dev3  == IF todo3 > 0 THEN Program(dev2, off2, tail) ELSE dev2
<1>3. /\ dev' = dev3
      /\ offset' = o + n
      /\ lastReads' = (IF todo1 > 0 THEN {ProgUnitRead(o)} ELSE {})
                        \cup (IF todo3 > 0 THEN {ProgUnitRead(off2)} ELSE {})
      /\ UNCHANGED <<data, phase>>
  BY <1>2 DEF CombinedDownloadInstall, DownloadChunk
<1> HIDE DEF chunk, unit1, head, dev1, mid, dev2, unit2, tail, dev3
<1>4. /\ o \in 0..(ImageLen - 1) /\ n \in 1..(ImageLen - o)
      /\ data \in [1..ImageLen -> Bytes] /\ Good(dev, o)
  BY <1>1 DEF DownloadChunk, MinOf, WInv, TypeOK
<1>5. /\ first \in Nat /\ first <= o /\ o < first + P /\ first + P <= Slot
      /\ todo1 \in 0..n /\ off1 <= first + P
      /\ todo2 \in Nat /\ todo1 + todo2 <= n
      /\ todo3 \in 0..(P - 1) /\ off2 = off1 + todo2 /\ off2 + todo3 = o + n
      /\ todo3 > 0 => /\ (off2 \div P) * P = off2 /\ off2 \in Nat /\ off2 < Slot
  <2>1. o \in 0..(ImageLen - 1) /\ n \in 1..(ImageLen - o)
    BY <1>4
  <2>2. /\ first \in Nat /\ first <= o /\ o < first + P /\ first + P <= Slot
        /\ todo1 \in 0..n /\ o + todo1 <= first + P
        /\ todo2 \in Nat /\ todo1 + todo2 <= n
        /\ todo3 \in 0..(P - 1) /\ off2 = o + todo1 + todo2
        /\ off2 + todo3 = o + n
        /\ todo3 > 0 => /\ (off2 \div P) * P = off2 /\ off2 \in Nat
                        /\ off2 < Slot
    <3>. HIDE DEF o
    <3>. QED  BY <2>1, ChunkSplit, Zenon
  <2>. QED  BY <2>2
<1> HIDE DEF first, todo1, off1, todo2, off2, todo3
<1>6. /\ off1 = o + todo1 /\ todo3 = n - todo1 - todo2
      /\ off1 \in Nat /\ off2 \in Nat /\ todo3 \in Nat
  BY <1>4, <1>5 DEF off1, todo3
<1>9. \A j \in 1..n : chunk[j] = data[o + j]
  BY <1>4 DEF chunk
<1>10. Good(dev1, off1)
  <2>1. CASE todo1 = 0
    BY <1>4, <1>6, <2>1 DEF dev1
  <2>2. CASE todo1 > 0
    <3>1. \A i \in 1..P : unit1[i] = dev[first + i - 1]
      <4>. o \in Nat /\ o < Slot
        BY <1>4
      <4>. HIDE DEF o
      <4>. QED  BY UnitBytes DEF unit1, first
    <3>2. Len(head) = P
      BY DEF head
    <3>3. \A k \in o..(off1 - 1) : first <= k /\ k < first + P
      BY <1>4, <1>5, <1>6
    <3>4. \A i \in 1..P : first + i - 1 \in Addr =>
             /\ first + i - 1 < o => head[i] = dev[first + i - 1]
             /\ o <= first + i - 1 /\ first + i - 1 < off1 => head[i] = data[first + i]
             /\ first + i - 1 >= off1 => head[i] = Erased
      <4>. SUFFICES ASSUME NEW i \in 1..P, first + i - 1 \in Addr
                    PROVE  /\ first + i - 1 < o => head[i] = dev[first + i - 1]
                           /\ o <= first + i - 1 /\ first + i - 1 < off1 => head[i] = data[first + i]
                           /\ first + i - 1 >= off1 => head[i] = Erased
        OBVIOUS
      <4>1. first + i - 1 >= o => dev[first + i - 1] = Erased
        BY <1>4 DEF Good
      <4>2. o <= first + i - 1 /\ first + i - 1 < off1 => first + i - o \in 1..n
        BY <1>4, <1>5, <1>6
      <4>. QED  BY <1>4, <1>5, <1>6, <1>9, <3>1, <4>1, <4>2 DEF head
    <3>5. /\ data \in [1..ImageLen -> Bytes] /\ Good(dev, o)
          /\ o \in 0..ImageLen /\ off1 \in o..ImageLen
          /\ first \in Nat /\ P \in Nat
      BY <1>4, <1>5, <1>6
    <3>6. Good(Program(dev, first, head), off1)
      <4>. HIDE DEF o
      <4>. HIDE WriterAssumption
      <4>. QED  BY <3>2, <3>3, <3>4, <3>5, ProgramGood, Zenon
    <3>. QED  BY <2>2, <3>6 DEF dev1
  <2>. QED  BY <1>5, <1>6, <2>1, <2>2
<1>11. Good(dev2, off2)
  <2>1. Len(mid) = todo2 /\ \A i \in 1..todo2 : mid[i] = data[off1 + i]
    <3>1. Len(mid) = todo2 /\ \A i \in 1..todo2 : mid[i] = chunk[todo1 + i]
      BY <1>5, <1>6 DEF mid
    <3>2. \A i \in 1..todo2 : chunk[todo1 + i] = data[off1 + i]
      BY <1>4, <1>5, <1>6, <1>9
    <3>. QED  BY <3>1, <3>2
  <2>2. \A i \in 1..todo2 : off1 + i - 1 \in Addr =>
           /\ off1 + i - 1 < off1 => mid[i] = dev1[off1 + i - 1]
           /\ off1 <= off1 + i - 1 /\ off1 + i - 1 < off2 => mid[i] = data[off1 + i]
           /\ off1 + i - 1 >= off2 => mid[i] = Erased
    <3>. SUFFICES ASSUME NEW i \in 1..todo2
                  PROVE  /\ off1 + i - 1 < off1 => mid[i] = dev1[off1 + i - 1]
                         /\ off1 <= off1 + i - 1 /\ off1 + i - 1 < off2 => mid[i] = data[off1 + i]
                         /\ off1 + i - 1 >= off2 => mid[i] = Erased
      OBVIOUS
    <3>1. off1 <= off1 + i - 1 /\ off1 + i - 1 < off2
      BY <1>5, <1>6
    <3>. QED  BY <1>6, <2>1, <3>1
  <2>3. /\ off1 \in 0..ImageLen /\ off2 \in off1..ImageLen /\ off1 \in Nat
        /\ data \in [1..ImageLen -> Bytes]
    BY <1>4, <1>5, <1>6
  <2>4. \A k \in off1..(off2 - 1) : off1 <= k /\ k < off1 + todo2
    BY <1>5, <1>6
  <2>5. todo2 \in Nat
    BY <1>5, <1>6
  <2>6. Good(Program(dev1, off1, mid), off2)
    <3>. HIDE WriterAssumption
    <3>. QED  BY <1>10, <2>1, <2>2, <2>3, <2>4, <2>5, ProgramGood, Zenon
  <2>. QED  BY <2>6 DEF dev2
<1>12. Good(dev3, o + n)
  <2>1. CASE todo3 = 0
    BY <1>4, <1>5, <1>6, <1>11, <2>1 DEF dev3
  <2>2. CASE todo3 > 0
    <3>1. \A i \in 1..P : unit2[i] = dev2[off2 + i - 1]
      <4>1. off2 \in Nat /\ off2 < Slot /\ (off2 \div P) * P = off2
        BY <1>5, <1>6, <2>2
      <4>. HIDE DEF off2
      <4>. QED  BY <4>1, UnitBytes DEF unit2
    <3>2. Len(tail) = P
      BY DEF tail
    <3>3. \A k \in off2..(o + n - 1) : off2 <= k /\ k < off2 + P
      BY <1>4, <1>5, <1>6
    <3>4. \A i \in 1..P : off2 + i - 1 \in Addr =>
             /\ off2 + i - 1 < off2 => tail[i] = dev2[off2 + i - 1]
             /\ off2 <= off2 + i - 1 /\ off2 + i - 1 < o + n => tail[i] = data[off2 + i]
             /\ off2 + i - 1 >= o + n => tail[i] = Erased
      <4>. SUFFICES ASSUME NEW i \in 1..P, off2 + i - 1 \in Addr
                    PROVE  /\ off2 + i - 1 < off2 => tail[i] = dev2[off2 + i - 1]
                           /\ off2 <= off2 + i - 1 /\ off2 + i - 1 < o + n => tail[i] = data[off2 + i]
                           /\ off2 + i - 1 >= o + n => tail[i] = Erased
        OBVIOUS
      <4>1. off2 + i - 1 >= o + n => dev2[off2 + i - 1] = Erased
        BY <1>5, <1>6, <1>11 DEF Good
      <4>2. i <= todo3 => todo1 + todo2 + i \in 1..n /\ o + todo1 + todo2 + i = off2 + i
        BY <1>5, <1>6
      <4>. QED  BY <1>4, <1>5, <1>6, <1>9, <3>1, <4>1, <4>2 DEF tail
    <3>5. /\ data \in [1..ImageLen -> Bytes] /\ Good(dev2, off2)
          /\ off2 \in 0..ImageLen /\ o + n \in off2..ImageLen
          /\ off2 \in Nat /\ P \in Nat
      BY <1>4, <1>5, <1>6, <1>11
    <3>6. Good(Program(dev2, off2, tail), o + n)
      <4> DEFINE e == o + n
      <4>1. \A k \in off2..(e - 1) : off2 <= k /\ k < off2 + P
        BY <1>4, <1>5, <1>6 DEF e
      <4>2. \A i \in 1..P : off2 + i - 1 \in Addr =>
               /\ off2 + i - 1 < off2 => tail[i] = dev2[off2 + i - 1]
               /\ off2 <= off2 + i - 1 /\ off2 + i - 1 < e => tail[i] = data[off2 + i]
               /\ off2 + i - 1 >= e => tail[i] = Erased
        BY <3>4
      <4>3. e \in off2..ImageLen
        BY <3>5
      <4>4. Good(Program(dev2, off2, tail), e)
        <5>. HIDE DEF o, e
        <5>. HIDE WriterAssumption
        <5>. QED  BY <3>2, <3>5, <4>1, <4>2, <4>3, ProgramGood, Zenon
      <4>. QED  BY <4>4
    <3>. QED  BY <2>2, <3>6 DEF dev3
  <2>. QED  BY <1>5, <1>6, <2>1, <2>2
<1>13. ReadsInBounds'
  <2>1. todo1 > 0 => /\ ProgUnitRead(o).blk + R <= Slot
                     /\ 0 <= ProgUnitRead(o).pos /\ ProgUnitRead(o).pos + ProgUnitRead(o).len <= R
    <3>. o \in Nat /\ o < Slot
      BY <1>4
    <3>. HIDE DEF o
    <3>. QED  BY UnitRead
  <2>2. todo3 > 0 => /\ ProgUnitRead(off2).blk + R <= Slot
                     /\ 0 <= ProgUnitRead(off2).pos /\ ProgUnitRead(off2).pos + ProgUnitRead(off2).len <= R
    <3>. SUFFICES ASSUME todo3 > 0
                  PROVE  /\ ProgUnitRead(off2).blk + R <= Slot
                         /\ 0 <= ProgUnitRead(off2).pos
                         /\ ProgUnitRead(off2).pos + ProgUnitRead(off2).len <= R
      OBVIOUS
    <3>1. off2 \in Nat /\ off2 < Slot
      BY <1>5, <1>6
    <3>. HIDE DEF off2
    <3>. QED  BY <3>1, UnitRead
  <2>. QED  BY <1>3, <2>1, <2>2 DEF ReadsInBounds
<1>14. lastReads' \subseteq [blk : Nat, pos : Nat, len : Nat]
  <2>1. o \in Nat /\ o < Slot
    BY <1>4
  <2>2. todo3 > 0 => off2 \in Nat /\ off2 < Slot
    BY <1>5, <1>6
  <2>3. \A x \in Nat : x < Slot => ProgUnitRead(x) \in [blk : Nat, pos : Nat, len : Nat]
    <3>. SUFFICES ASSUME NEW x \in Nat, x < Slot
                  PROVE  ProgUnitRead(x) \in [blk : Nat, pos : Nat, len : Nat]
      OBVIOUS
    <3>1. ProgUnitRead(x).blk \in Nat /\ ProgUnitRead(x).pos \in Nat /\ ProgUnitRead(x).len = P
      BY UnitRead
    <3>. QED  BY <3>1 DEF ProgUnitRead, ReadOp
  <2>. HIDE DEF o, off2
  <2>. QED  BY <1>3, <2>1, <2>2, <2>3
<1>. QED
  BY <1>3, <1>4, <1>12, <1>13, <1>14 DEF WInv, TypeOK, Good, WrittenIsImage, DownloadChunk

(* Every step of the writer preserves the invariant. *)
LEMMA WInvStep ==
  ASSUME UnitsInBlocks, SlotInBlocks
  PROVE  WInv /\ [Next]_vars => WInv'
<1> SUFFICES ASSUME WInv, [Next]_vars PROVE WInv'
  OBVIOUS
<1>1. CASE DownloadChunk
  BY <1>1, DownloadInv
<1>2. CASE VerifySignature
  BY <1>2, VerifyInv
<1>3. CASE UNCHANGED vars
  BY <1>3 DEF WInv, TypeOK, Good, WrittenIsImage, ReadsInBounds, vars
<1>. QED  BY <1>1, <1>2, <1>3 DEF Next

-----------------------------------------------------------------------------
(* When each read block is a whole number of program units, the slot      *)
(* always holds the image below the download offset and erased bytes      *)
(* above it, for every chunk split the HTTP client may choose.             *)
THEOREM WInvProved ==
  ASSUME UnitsInBlocks, SlotInBlocks
  PROVE  Spec => []WInv
BY WInvInit, WInvStep, PTL DEF Spec

(* CombinedDownloadInstall leaves exactly the image in the slot, so        *)
(* VerifySignature's digest never mismatches, however the chunks fall.    *)
THEOREM WrittenIsImageProved ==
  ASSUME UnitsInBlocks, SlotInBlocks
  PROVE  Spec => []WrittenIsImage
<1>1. WInv => WrittenIsImage
  BY DEF WInv
<1>. QED  BY <1>1, WInvProved, PTL

(* No chunk programs a byte past the download offset to a non-erased      *)
(* value: the padding of a partial head or tail unit is the erased bytes  *)
(* bd_read_program_unit read back.                                        *)
THEOREM AheadErasedProved ==
  ASSUME UnitsInBlocks, SlotInBlocks
  PROVE  Spec => []AheadErased
<1>1. WInv => AheadErased
  BY DEF WInv, Good, AheadErased
<1>. QED  BY <1>1, WInvProved, PTL

(* bd_read_program_unit's read block lies in the slot and its memcpy stays *)
(* inside the read buffer, and VerifySignature's reads stay in the slot.  *)
THEOREM ReadsInBoundsProved ==
  ASSUME UnitsInBlocks, SlotInBlocks
  PROVE  Spec => []ReadsInBounds
<1>1. WInv => ReadsInBounds
  BY DEF WInv
<1>. QED  BY <1>1, WInvProved, PTL

(* The writer's variables keep their types: the slot holds bytes, the     *)
(* download offset stays within the image, and every read is a block of  *)
(* the slot with a copy position at or after the block's start.  The      *)
(* first hypothesis is needed: when R is not a multiple of P, the memcpy  *)
(* of bd_read_program_unit starts before its read block (position -1 on  *)
(* the overread instance).                                                *)
THEOREM WriterTypeCorrect ==
  ASSUME UnitsInBlocks, SlotInBlocks
  PROVE  Spec => []TypeOK
<1>1. WInv => TypeOK
  BY DEF WInv
<1>. QED  BY <1>1, WInvProved, PTL

=============================================================================
