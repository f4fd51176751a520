------------------------------ MODULE MCPolicy ------------------------------
(***************************************************************************)
(* Instances of Policy for TLC: the table of Model::init rounded to whole  *)
(* MB/s, with several speeds of the disk and the network, so that solveCT  *)
(* goes through each of its three cases.                                   *)
(***************************************************************************)
EXTENDS Policy, TLC

MCSettings ==
  {[D |-> 64, V1 |-> v1, V3 |-> v3,
    C |-> <<<<7, 13, 17>>, <<4, 8, 10>>, <<88, 86, 85>>>> @@ (0 :> <<96, 160, 199>>),
    alpha |-> <<<<31, 10>>, <<36, 10>>, <<1, 1>>>> @@ (0 :> <<19, 10>>)] :
   v1 \in {10, 38}, v3 \in {1, 4, 16}}

MCFixed == [p \in 1..3 |-> [s \in Stages |-> [pool |-> IF s = 2 THEN 2 ELSE 1, credit |-> 10]]]

MCBlock == <<8, 8, 8>>
=============================================================================
