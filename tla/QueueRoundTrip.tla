--------------------------- MODULE QueueRoundTrip ---------------------------
(***************************************************************************)
(* What the pipeline makes of the data, and test3 of what was sent.  The   *)
(* jobs of a stage finish in any order, and their blocks reach the next    *)
(* queue in that order (Pipeline has the protocol); the policy may change  *)
(* the codec from block to block.  Blocks carry their numbers, by which    *)
(* test3 puts them back in place.                                          *)
(*                                                                         *)
(* The codecs of the jobs that run at once all write to compressedBuffer,  *)
(* and each job copies its output from there: a step of its own, as the    *)
(* block's arrival at the feeder is.                                       *)
(***************************************************************************)
EXTENDS Frames, Functions

CONSTANTS
  Capacities,       \* [b1, b2]: BLOCK1_MAX_NUM and BLOCK2_MAX_NUM
  CompressTypes,    \* the codecs a policy may use
  CompressedSizes,  \* how many bytes a codec may make of a block
  Threads           \* how many compress_func may run at once

ASSUME RoundTripAssumption ==
  /\ \A c \in Capacities : {c.b1, c.b2} \subseteq Nat \ {0}
  /\ CompressTypes \subseteq Nat
  /\ CompressedSizes \subseteq Nat \ {0}
  /\ Threads \subseteq Nat \ {0}

VARIABLES
  cap, threads,
  arrived1,        \* the numbers of the block1 records, in order of arrival
  compressQueue1,
  compressedBuffer,
  compressing,     \* the jobs whose codec has written: [n, type, size]
  copied,          \* the block2 records on their way to the feeder
  arrived2,        \* and those it has pushed, in order of arrival
  transferQueue1,
  served,          \* the block3 the server holds
  refused, exited, \* a queue refused a record; a codec's output was too long
  sent             \* test3 may run

setting == <<cap, threads>>
stage1 == <<arrived1, compressQueue1>>
stage2 == <<compressedBuffer, compressing, copied, arrived2, transferQueue1>>
vars == <<setting, stage1, stage2, served, refused, exited, sent>>

(* addFile: the blocks in order, each numbered by its place in the storage *)
Cuts ==
  FlattenSeq([f \in DOMAIN Files |->
    [k \in 1 .. (Files[f].size + block1Size - 1) \div block1Size |->
      DataBytes(f, (k - 1) * block1Size,
                Least(block1Size, Files[f].size - (k - 1) * block1Size))]])

block1Storage ==
  [n \in 1 .. Least(Len(Cuts), cap.b1) |-> block1(Cuts[n][1].file, n - 1, Cuts[n])]

Pieces2 == Pieces(compressQueue1, block2Size)
block3Storage == Pieces(transferQueue1, block3Size)

Init ==
  /\ cap \in Capacities /\ threads \in Threads
  /\ arrived1 = <<>> /\ compressQueue1 = <<>>
  /\ compressedBuffer = [k \in 1 .. cap.b2 * block2Size + Slack |-> NoByte]
  /\ compressing = {} /\ copied = {}
  /\ arrived2 = <<>> /\ transferQueue1 = <<>>
  /\ served = {} /\ sent = FALSE /\ exited = FALSE
  /\ refused = (Len(Cuts) > cap.b1)

(* readFile has read block n, and run_compressQueue1 pushes it. *)
ReadBlock(n) ==
  LET record == Record1(block1Storage[n])
      full == Refuses(compressQueue1, record, cap.b1 * block1Bytes)
  IN
  /\ n \notin Range(arrived1)
  /\ arrived1' = Append(arrived1, n)
  /\ compressQueue1' = compressQueue1 \o (IF full THEN <<>> ELSE record)
  /\ refused' = (refused \/ full)
  /\ UNCHANGED <<setting, stage2, served, exited, sent>>

(* The queue is cut as it fills, a short piece last: compress_func of      *)
(* piece n may run when the piece is whole or the input over.  Beyond the  *)
(* end of block2Storage what the program does is undefined: it stops here. *)
Cut(n) ==
  \/ Len(Pieces2[n]) = block2Size
  \/ Len(arrived1) = Len(block1Storage)

Begun(n) ==
  \/ \E j \in compressing : j.n = n
  \/ \E b \in copied \cup ToSet(arrived2) : b.blockNum = n - 1

(* The codec has written its output, or ends the program when it is longer *)
(* than a block2 has room for.  What lies beyond the end of the buffer is  *)
(* undefined, too.                                                         *)
CompressBlock(n) ==
  /\ Cut(n)
  /\ n <= cap.b2
  /\ ~Begun(n)
  /\ Cardinality(compressing) < threads
  /\ \E type \in CompressTypes, size \in CompressedSizes :
       LET from == dst(n - 1)
           to == from + size
       IN IF size > BLOCK2_MAX_SIZE \/ to > Len(compressedBuffer)
            THEN exited' = TRUE /\ UNCHANGED <<compressedBuffer, compressing>>
            ELSE /\ compressedBuffer' = [k \in DOMAIN compressedBuffer |->
                      IF k \in from + 1 .. to THEN Output(type, n - 1, size)[k - from]
                      ELSE compressedBuffer[k]]
                 /\ compressing' = compressing \cup {[n |-> n, type |-> type, size |-> size]}
                 /\ UNCHANGED exited
  /\ UNCHANGED <<setting, stage1, copied, arrived2, transferQueue1, served, refused, sent>>

(* The job copies whatever is there by now. *)
CopyBlock(j) ==
  LET from == dst(j.n - 1) IN
  /\ compressing' = compressing \ {j}
  /\ copied' = copied \cup
       {block2(j.n - 1, j.type, SubSeq(compressedBuffer, from + 1, from + j.size))}
  /\ UNCHANGED <<setting, stage1, compressedBuffer, arrived2, transferQueue1,
                 served, refused, exited, sent>>

transferQueue_push(q, data) ==
  IF Refuses(q, data, cap.b2 * block2Bytes) THEN q ELSE q \o data

(* run_transferQueue1 takes block b and pushes its header and the block. *)
FrameBlock(b) ==
  LET withHeader == transferQueue_push(transferQueue1, Frame(b))
      q == transferQueue_push(withHeader, Record2(b))
  IN
  /\ copied' = copied \ {b}
  /\ arrived2' = Append(arrived2, b)
  /\ transferQueue1' = q
  /\ refused' = (refused \/ Len(q) < Len(transferQueue1) + 1 + dataSize(b))
  /\ UNCHANGED <<setting, stage1, compressedBuffer, compressing, served, exited, sent>>

(* The POSTs, some of which may fail *)
Transfer ==
  /\ Len(arrived1) = Len(block1Storage)
  /\ Len(arrived2) = Len(Pieces2)
  /\ sent' = TRUE
  /\ \E lost \in SUBSET DOMAIN block3Storage : served' = DOMAIN block3Storage \ lost
  /\ UNCHANGED <<setting, stage1, stage2, refused, exited>>

Next ==
  /\ ~sent /\ ~exited
  /\ \/ \E n \in DOMAIN block1Storage : ReadBlock(n)
     \/ \E n \in DOMAIN Pieces2 : CompressBlock(n)
     \/ \E j \in compressing : CopyBlock(j)
     \/ \E b \in copied : FrameBlock(b)
     \/ Transfer

Spec == Init /\ [][Next]_vars
-----------------------------------------------------------------------------
Fetched ==
  FlattenSeq([n \in DOMAIN block3Storage |->
                IF n \in served THEN block3Storage[n] ELSE <<>>])

(* test3 copies each record to the place its number names. *)
InPlace_AsCome(records) == records  \* fault: the order of arrival is kept
InPlace(records) ==
  [n \in DOMAIN records |->
     LET at == {k \in DOMAIN records : records[k].blockNum = n - 1}
     IN IF at = {} THEN Bad ELSE records[CHOOSE k \in at : \A l \in at : l <= k]]

CountFits_Unchecked(blocks) == TRUE  \* fault: fewer frames go unnoticed
CountFits(blocks) == Len(blocks) = Len(arrived2)

test3 ==
  LET blocks == InPlace(Blocks2(Fetched))
      type(b) == IF b = Bad THEN 0 ELSE b.compressType
      plain == [n \in DOMAIN blocks |-> Decompress(Pieces2, type(blocks[n]), blocks[n])]
  IN IF ~CountFits(blocks) \/ Exit \in Range(plain) THEN Exit
     ELSE InPlace(Blocks1(FlattenSeq(plain)))

OutputsFit == \A k \in DOMAIN arrived2 : arrived2[k].blockSize <= block2Size

(* In whatever order the jobs of both stages finish, and whichever codec   *)
(* each block got, test3 restores the files from what the server has, if   *)
(* nothing was refused and everything sent, and one job compresses at a    *)
(* time or no output is longer than block2Size.  The codecs promise no     *)
(* such thing, and BLOCK2_MAX_SIZE means to leave them more room: the      *)
(* program restores nothing of blocks that two jobs garbled.               *)
RestoredInAnyOrder ==
  sent /\ ~refused /\ served = DOMAIN block3Storage /\ (threads = 1 \/ OutputsFit)
    => Restored(test3) = Original

(* Transfer reports no POST that gets no response (it looks only at the    *)
(* responses it has), so the tests must: whatever did not reach the        *)
(* server, test3 ends with an error and writes no file.                    *)
LossIsNoticed ==
  sent /\ ~refused /\ served # DOMAIN block3Storage => test3 = Exit
=============================================================================
