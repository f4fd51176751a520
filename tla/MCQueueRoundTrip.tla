-------------------------- MODULE MCQueueRoundTrip --------------------------
(* Two files, four records, three blocks to compress; storages with room,  *)
(* and ones that are full to the last byte or before the end.  Of the      *)
(* sizes in the .cfg the first fits a slot of compressedBuffer, the second *)
(* reaches the next, and the third ends the program.                       *)
EXTENDS QueueRoundTrip

File(d, n, s) == [dir |-> d, name |-> n, size |-> s]
TwoFiles == <<File(1, 1, 4), File(2, 2, 5)>>

Cap(a, b) == [b1 |-> a, b2 |-> b]
MCCapacities == {Cap(5, 6), Cap(4, 6), Cap(3, 6), Cap(5, 2), Cap(5, 3)}
=============================================================================
