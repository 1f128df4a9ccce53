---------------------------- MODULE AlignedWriter ----------------------------
(***************************************************************************)
(* How MCUbUpdateHandlerImpl::CombinedDownloadInstall writes a downloaded  *)
(* chunk to the secondary block device, and how VerifySignature reads the  *)
(* image back (mcubupdate_handler.cpp).  A chunk at download offset 'off'  *)
(* is written in three parts:                                              *)
(*   - the unaligned head up to the next program-unit boundary: the unit   *)
(*     is read with bd_read_program_unit, the head spliced in at its       *)
(*     intra-unit position, and the whole unit programmed;                 *)
(*   - the aligned middle, programmed directly;                            *)
(*   - the unaligned tail: the unit at the aligned offset is read, the     *)
(*     tail copied to its start, and the whole unit programmed at once.    *)
(* So the unit holding a tail is programmed again by the head of the next  *)
(* chunk.  The device is NOR flash: a program can only clear bits, so a    *)
(* byte is a set of bits and programming intersects it with the new value  *)
(* (an erased byte has every bit set).                                     *)
(*                                                                         *)
(* The header check of the first chunk and the failure of a read or a     *)
(* program (the download then fails and the next one erases the slot) are *)
(* modelled in McubUpdate; here every device operation succeeds.          *)
(***************************************************************************)
EXTENDS Naturals, Sequences

CONSTANTS
  P,          \* secondary_bd_progunit_size: the device's program size
  R,          \* secondary_bd_readblock_size: the device's read size
  Slot,       \* bytes of the secondary slot
  ImageLen,   \* fileEntity.SizeInBytes: bytes of the downloaded image
  MaxChunk,   \* largest chunk the HTTP client hands to the callback
  Bits        \* the bits of a byte (a byte value is a subset)

ASSUME WriterAssumption ==
  /\ P \in Nat \ {0} /\ R \in Nat \ {0}
  /\ R >= P                                  \* asserted in bd_read_program_unit
  /\ Slot \in Nat /\ Slot % P = 0            \* the device programs whole units
  /\ ImageLen \in 1..Slot
  /\ MaxChunk \in Nat \ {0}
  /\ Bits # {}

VARIABLES
  data,       \* the image the cloud serves, byte by byte
  dev,        \* contents of the secondary slot
  offset,     \* otaCtx_inst->dl_prog.offset
  phase,      \* "Download", then "Verified" or "Mismatch"
  lastReads   \* the reads the last step issued (for the bounds check)

vars == <<data, dev, offset, phase, lastReads>>

Bytes  == SUBSET Bits
Erased == Bits
Addr   == 0..(Slot - 1)

MinOf(a, b) == IF a < b THEN a ELSE b

(* BlockDevice::program of 'bytes' at 'addr': NOR flash clears bits only. *)
Program(d, addr, bytes) ==
  [k \in DOMAIN d |->
     IF addr <= k /\ k < addr + Len(bytes) THEN d[k] \cap bytes[k - addr + 1]
                                            ELSE d[k]]

(* A read of the device: the read block at blk, of which the caller copies *)
(* len bytes starting at pos.                                              *)
ReadOp(blk, pos, len) == [blk |-> blk, pos |-> pos, len |-> len]

(* Faulty variants of the copy: the two align-downs subtracted the wrong  *)
(* way round, and the copy started at the byte offset instead of at the    *)
(* program unit.                                                           *)
ProgUnitRead_Swapped(off) ==
  LET rb == (off \div R) * R
      pu == (off \div P) * P
  IN  ReadOp(rb, rb - pu, P)

ProgUnitRead_ByteAddr(off) ==
  LET rb == (off \div R) * R
  IN  ReadOp(rb, off - rb, P)

(* bd_read_program_unit: read the read block holding 'off', copy out the  *)
(* program unit holding 'off'.  The copy starts progunit_aligndown -       *)
(* readblock_aligndown bytes into the read block and is P bytes long.     *)
ProgUnitRead(off) ==
  LET rb == (off \div R) * R
      pu == (off \div P) * P
  IN  ReadOp(rb, pu - rb, P)

(* The copy reads outside the read-block buffer when the program unit     *)
(* does not lie inside the read block (R not a multiple of P).  The bytes  *)
(* read there are whatever the heap holds: any byte values.                *)
OverRead(off) == ProgUnitRead(off).pos < 0 \/ ProgUnitRead(off).pos + P > R

Fills(off) ==
  IF OverRead(off) THEN [1..P -> Bytes] ELSE {[i \in 1..P |-> Erased]}

(* Faulty variant: the unit buffer is zero-filled instead of read back. *)
ProgUnitBytes_Zero(d, off, g) == [i \in 1..P |-> {}]

(* The program unit bd_read_program_unit returns, with g the bytes read   *)
(* outside the buffer.                                                     *)
ProgUnitBytes(d, off, g) ==
  LET r == ProgUnitRead(off)
  IN  [i \in 1..P |-> IF 0 <= r.pos + i - 1 /\ r.pos + i - 1 < R
                        THEN d[r.blk + r.pos + i - 1]
                        ELSE g[i]]

(* The split of an n-byte chunk at offset off: the head up to the next    *)
(* program-unit boundary, the aligned middle, and where the tail starts.  *)
HeadLen(off, n) == MinOf(((off + P - 1) \div P) * P - off, n)
MidLen(off, n)  == ((n - HeadLen(off, n)) \div P) * P
(* Faulty variant: the head's bytes are not added to the offset. *)
TailOff_NoHead(off, n) == off + MidLen(off, n)

TailOff(off, n) == off + HeadLen(off, n) + MidLen(off, n)

(* The chunk callback for a chunk of n bytes at the current offset; g1 and *)
(* g2 are the bytes the head and the tail read past the read buffer.      *)
CombinedDownloadInstall(n, g1, g2) ==
  LET chunk   == SubSeq(data, offset + 1, offset + n)
      todo1   == HeadLen(offset, n)
      first   == (offset \div P) * P
      head    == LET unit == ProgUnitBytes(dev, offset, g1)
                 IN  [i \in 1..P |->
                        IF first + i - 1 >= offset /\ first + i - 1 < offset + todo1
                          THEN chunk[first + i - offset]
                          ELSE unit[i]]
      dev1    == IF todo1 > 0 THEN Program(dev, first, head) ELSE dev
      off1    == offset + todo1
      todo2   == MidLen(offset, n)
      dev2    == Program(dev1, off1, SubSeq(chunk, todo1 + 1, todo1 + todo2))
      off2    == TailOff(offset, n)
      todo3   == n - todo1 - todo2
      tail    == LET unit == ProgUnitBytes(dev2, off2, g2)
                 IN  [i \in 1..P |->
                        IF i <= todo3 THEN chunk[todo1 + todo2 + i] ELSE unit[i]]
      dev3    == IF todo3 > 0 THEN Program(dev2, off2, tail) ELSE dev2
  IN  /\ dev' = dev3
      /\ offset' = offset + n
      /\ lastReads' = (IF todo1 > 0 THEN {ProgUnitRead(offset)} ELSE {})
                        \cup (IF todo3 > 0 THEN {ProgUnitRead(off2)} ELSE {})

DownloadChunk ==
  /\ phase = "Download"
  /\ offset < ImageLen
  /\ \E n \in 1..MinOf(MaxChunk, ImageLen - offset) :
       \E g1 \in Fills(offset), g2 \in Fills(TailOff(offset, n)) :
         CombinedDownloadInstall(n, g1, g2)
  /\ UNCHANGED <<data, phase>>

(* VerifySignature: whole read blocks while at least R bytes remain, then *)
(* one read of a whole block of which only the remaining bytes are hashed. *)
(* The digest compare is modelled by comparing what was hashed with the   *)
(* image.                                                                  *)
VerifySignature ==
  LET full    == ImageLen \div R
      rest    == ImageLen % R
      hashed  == [k \in 1..ImageLen |-> dev[k - 1]]
      reads   == {ReadOp(j * R, 0, R) : j \in 0..(full - 1)}
                   \cup (IF rest > 0 THEN {ReadOp(full * R, 0, rest)} ELSE {})
  IN  /\ phase = "Download"
      /\ offset = ImageLen
      /\ phase' = IF hashed = data THEN "Verified" ELSE "Mismatch"
      /\ lastReads' = reads
      /\ UNCHANGED <<data, dev, offset>>

(* OTACtx_Reinit erased the slot; the cloud serves some image. *)
Init ==
  /\ data \in [1..ImageLen -> Bytes]
  /\ dev = [k \in Addr |-> Erased]
  /\ offset = 0
  /\ phase = "Download"
  /\ lastReads = {}

Next == DownloadChunk \/ VerifySignature

Spec == Init /\ [][Next]_vars

-----------------------------------------------------------------------------
TypeOK ==
  /\ data \in [1..ImageLen -> Bytes]
  /\ dev \in [Addr -> Bytes]
  /\ offset \in 0..ImageLen
  /\ phase \in {"Download", "Verified", "Mismatch"}
  /\ lastReads \subseteq [blk : Nat, pos : Nat, len : Nat]

(* Chunk-split invariance: however the HTTP client splits the image into  *)
(* chunks, the bytes CombinedDownloadInstall leaves in the slot are the    *)
(* image, so VerifySignature's digest matches.                             *)
WrittenIsImage == phase # "Mismatch"

(* Every read stays inside its buffers: the device read of a read block   *)
(* lies in the slot, and the bytes copied out of the read-block buffer     *)
(* (bd_read_program_unit's memcpy, VerifySignature's hash input) lie in    *)
(* that buffer.                                                            *)
ReadsInBounds ==
  \A r \in lastReads : /\ r.blk + R <= Slot
                       /\ 0 <= r.pos /\ r.pos + r.len <= R

(* Past the download offset the slot is still erased: no chunk programs   *)
(* a byte it does not own to a non-erased value.                          *)
AheadErased ==
  \A k \in Addr : k >= offset => dev[k] = Erased

(* The inductive form of the three properties above, which the proofs in  *)
(* AlignedWriterProofs rest on: after every chunk CombinedDownloadInstall  *)
(* has written, the slot holds exactly the image below the download       *)
(* offset and the erased bytes of OTACtx_Reinit from it on.               *)
Good(d, o) ==
  /\ d \in [Addr -> Bytes]
  /\ \A k \in Addr : k < o => d[k] = data[k + 1]
  /\ \A k \in Addr : k >= o => d[k] = Erased

WInv ==
  /\ TypeOK
  /\ Good(dev, offset)
  /\ WrittenIsImage
  /\ ReadsInBounds
=============================================================================
