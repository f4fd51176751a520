------------------------------- MODULE Frames -------------------------------
(***************************************************************************)
(* The data both programs pass on, as streams of bytes: files cut into     *)
(* block1 records, records into block2, frames of block2 into block3, and  *)
(* the way back that the test functions take.                              *)
(*                                                                         *)
(* A byte is a record that says where it comes from.  The fields of a      *)
(* structure before its buffer are one byte, and so is the frame header.   *)
(* A codec is what it makes of a block: bytes that only together give the  *)
(* block back, more or fewer than they were.                               *)
(***************************************************************************)
EXTENDS Naturals, FiniteSets, Sequences, SequencesExt

CONSTANTS
  Files,       \* the input in the order of trave_dir: [dir, name, size]
  block1Size,
  block2Size,
  block3Size,
  Slack,       \* what BLOCK2_MAX_SIZE adds to block2Size: 500 or 3000
  Garbage      \* the size that other bytes make when they are read as a header

ASSUME FramesAssumption ==
  /\ {block1Size, block2Size, block3Size} \subseteq Nat \ {0}
  /\ {Slack, Garbage} \subseteq Nat
  /\ Files \in Seq([dir : Nat, name : Nat, size : Nat])

BLOCK2_MAX_SIZE == block2Size + Slack
block1Bytes == 1 + block1Size        \* sizeof(block1)
block2Bytes == 1 + BLOCK2_MAX_SIZE   \* sizeof(block2)

NoByte == [none |-> 0]               \* memory nobody has written
DataBytes(f, from, n) == [k \in 1 .. n |-> [file |-> f, at |-> from + k]]
Fill(s, n) == s \o [k \in 1 .. n - Len(s) |-> NoByte]

block1(f, num, data) ==
  [file |-> f, blockNum |-> num, blockSize |-> Len(data), buffer |-> data]

Record1(b) == <<[b EXCEPT !.buffer = <<>>]>> \o Fill(b.buffer, block1Size)

(* What codec type makes of block n *)
Output(type, n, size) ==
  [k \in 1 .. size |-> [type |-> type, block |-> n, part |-> k, of |-> size]]

(* compressedBuffer + n * BLOCK2_MAX_SIZE: the macro has no parentheses, so *)
(* the outputs are block2Size apart, and the longer ones reach the next.   *)
dst(n) == n * block2Size + Slack

block2(n, type, data) ==
  [blockNum |-> n, blockSize |-> Len(data), compressType |-> type, buffer |-> data]

(* get_header: sizeof(block2) - BLOCK2_MAX_SIZE + blockSize, where the      *)
(* macro without parentheses adds Slack instead of taking it away.         *)
dataSize_NoFields(b) == b.blockSize  \* fault: the fields are not counted
dataSize(b) == block2Bytes - block2Size + Slack + b.blockSize

Frame(b) == <<[frame |-> dataSize(b)]>>
Record2(b) ==
  SubSeq(Fill(<<[b EXCEPT !.buffer = <<>>]>> \o b.buffer, dataSize(b)), 1, dataSize(b))

Least(a, b) == IF a <= b THEN a ELSE b

(* for (i = 0; i < size; i += n): the pieces of a stream *)
Pieces(s, n) ==
  [i \in 1 .. (Len(s) + n - 1) \div n |->
     SubSeq(s, (i - 1) * n + 1, Least(i * n, Len(s)))]

(* push refuses what would fill the queue to its last byte, too. *)
Refuses_OnlyMore(queue, data, capacity) ==  \* fault: or another bound than >=
  Len(queue) + Len(data) > capacity
Refuses(queue, data, capacity) == Len(queue) + Len(data) >= capacity
-----------------------------------------------------------------------------
(* The way back.  Exit stands for exit(1), where the test functions end    *)
(* when what they get does not fit, or codecs do not take it.              *)
Exit == <<[exit |-> 0]>>
Bad == [blockNum |-> 0, blockSize |-> 0, buffer |-> <<>>]

(* Whatever is where a header should be is taken for one. *)
headerSize(x) ==
  IF "frame" \in DOMAIN x THEN x.frame ELSE IF x = NoByte THEN 0 ELSE Garbage

(* The frames of a stream, the last of which must end where it ends *)
Unframe(s) ==
  LET after[p \in 1 .. Len(s) + 1] ==
        IF p > Len(s) THEN <<>>
        ELSE IF p + headerSize(s[p]) > Len(s) THEN <<Exit>>
        ELSE <<SubSeq(s, p + 1, p + headerSize(s[p]))>> \o after[p + headerSize(s[p]) + 1]
  IN after[1]

(* The structure at the head of some bytes, with its buffer *)
Unpack(bytes) ==
  IF bytes # <<>> /\ "blockSize" \in DOMAIN bytes[1] /\ Len(bytes) > bytes[1].blockSize
    THEN [bytes[1] EXCEPT !.buffer = SubSeq(bytes, 2, bytes[1].blockSize + 1)]
    ELSE Bad

Blocks2(s) == LET frames == Unframe(s) IN [n \in DOMAIN frames |-> Unpack(frames[n])]

(* How many bytes of a buffer are what codec type made of one block *)
Sound(type, buffer) ==
  IF buffer = <<>> \/ "block" \notin DOMAIN buffer[1] THEN 0
  ELSE LET whole == Output(type, buffer[1].block, buffer[1].of)
       IN CHOOSE k \in 0 .. Len(buffer) :
            /\ \A l \in 1 .. k : l <= Len(whole) /\ buffer[l] = whole[l]
            /\ k < Len(buffer) => k = Len(whole) \/ buffer[k + 1] # whole[k + 1]

(* gzdecompress ends at the first byte inflate does not take and returns 0 *)
(* all the same, with what came out until then.                            *)
gzdecompress(pieces, buffer) ==
  LET k == Sound(4, buffer)
  IN IF k = 0 THEN <<>>
     ELSE LET piece == pieces[buffer[1].block + 1]
          IN SubSeq(piece, 1, (k * Len(piece)) \div buffer[1].of)

(* The other codecs give back the block their output was made of or fail.  *)
Decompress(pieces, type, b) ==
  IF type = 4 THEN gzdecompress(pieces, b.buffer)
  ELSE LET k == Sound(type, b.buffer)
       IN IF k > 0 /\ k = Len(b.buffer) /\ k = b.buffer[1].of
            THEN pieces[b.buffer[1].block + 1]
            ELSE Exit

Blocks1(s) ==
  IF Len(s) % block1Bytes # 0 THEN Exit
  ELSE LET records == Pieces(s, block1Bytes)
       IN [n \in DOMAIN records |-> Unpack(records[n])]

(* Every record appends to the file of its name, whatever its directory. *)
Written(records, name) ==
  FlattenSeq([n \in DOMAIN records |->
    IF records[n] # Bad /\ Files[records[n].file].name = name
      THEN records[n].buffer ELSE <<>>])

Names == {Files[f].name : f \in DOMAIN Files}

Restored(records) ==
  [name \in Names |-> IF records = Exit THEN <<>> ELSE Written(records, name)]

Original ==
  [name \in Names |->
     LET f == CHOOSE f \in DOMAIN Files : Files[f].name = name
     IN DataBytes(f, 0, Files[f].size)]
=============================================================================
