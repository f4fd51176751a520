---------------------------- MODULE MCSingleRun ----------------------------
(* A file of two blocks, the second short, one of a short block and an     *)
(* empty one; storages with room for all of it, and ones where one of them *)
(* is full to the last block or before it.                                 *)
EXTENDS SingleRun

File(d, n, s) == [dir |-> d, name |-> n, size |-> s]
ThreeFiles == <<File(1, 1, 3), File(2, 2, 1), File(1, 3, 0)>>

Cap(f, a, b, c) == [f |-> f, b1 |-> a, b2 |-> b, b3 |-> c]
MCCapacities == {Cap(3, 4, 5, 10), Cap(1, 4, 5, 10), Cap(3, 3, 5, 10), Cap(3, 2, 5, 10),
          Cap(3, 4, 2, 10), Cap(3, 4, 3, 10), Cap(3, 4, 5, 3)}
=============================================================================
