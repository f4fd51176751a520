----------------------------- MODULE MCPipeline -----------------------------
(***************************************************************************)
(* Instances of Pipeline for TLC.  Sizes are scaled down: a block read is  *)
(* 2 bytes and its block1 record 3, a block to compress 4, one to send 8,  *)
(* and the feeders of stages 2 and 3 see a record spread over two blocks.  *)
(***************************************************************************)
EXTENDS Pipeline

(* A file that ends in a short block. *)
OneFile == <<3, DirEnd>>

(* Two files, of which FILE_MAX_NUM = 1 lets only the first be read. *)
TwoFiles == <<1, 1, DirEnd>>

(* An empty subdirectory before a file. *)
Subdirectory == <<DirEnd, 2, DirEnd>>

(* Three files of one byte: two blocks of two bytes would hold them all. *)
ThreeFiles == <<1, 1, 1, DirEnd>>

(* What README.md section 4 asks for: BLOCK_NUM x SIZE > 3, the data set. *)
RuleCap == <<2, 3, 3>>

MCStorageCap == [s \in Stages |-> 3]

MCBlockSize == [s \in Stages |-> IF s = 1 THEN 2 ELSE IF s = 2 THEN 4 ELSE 8]

(* controlMethod of monitor(): the same grant in each period, pools 1, 2   *)
(* and 1.  The shipped grants exceed the data set, as 40 bytes do here.    *)
Shipped ==
  [p \in Periods |->
     [s \in Stages |-> [pool |-> IF s = 2 THEN 2 ELSE 1, credit |-> 40]]]

(* A policy in the manner of solveCT: stage 2 pauses (pool 0), the others  *)
(* change pools, a grant is less than a block, a refused one is negative.  *)
Throttled ==
  [p \in Periods |->
     [s \in Stages |->
        CASE p = 0 -> [pool |-> 1, credit |-> 1]
          [] p = 1 -> [pool |-> IF s = 2 THEN 0 ELSE 2, credit |-> 1]
          [] p = 2 -> [pool |-> 1, credit |-> IF s = 1 THEN -1 ELSE 1]]]

(* The record of the block read and the frame of the block compressed each *)
(* spread over two blocks of the next stage, where there is room for one   *)
(* to send: the second overruns block3Storage.                             *)
TightCap == <<2, 1, 1>>

SmallBlocks == <<1, 2, 2>>

(* Blocks that hold what one block of the stage before becomes. *)
WideBlocks == <<2, 6, 8>>
=============================================================================
