------------------------------ MODULE HandOff ------------------------------
(***************************************************************************)
(* What one stage of the pipeline promises the next: the producer gives    *)
(* blocks and then closes; the consumer takes each block given, in any     *)
(* order, and may declare the input over only when the producer has closed *)
(* and nothing is left to take.  Pipeline implements it twice, once        *)
(* between reading and compressing and once between compressing and        *)
(* sending.                                                                *)
(***************************************************************************)
CONSTANT Block

VARIABLES
  given,   \* blocks the producer has committed itself to deliver
  taken,   \* blocks the consumer has received
  closed,  \* the producer gives no more
  over     \* the consumer has left its receiving loop

vars == <<given, taken, closed, over>>

TypeOK ==
  /\ given \subseteq Block
  /\ taken \subseteq Block
  /\ closed \in BOOLEAN
  /\ over \in BOOLEAN

Init ==
  /\ given = {}
  /\ taken = {}
  /\ closed = FALSE
  /\ over = FALSE

Give(b) ==
  /\ ~closed
  /\ b \notin given
  /\ given' = given \cup {b}
  /\ UNCHANGED <<taken, closed, over>>

Close ==
  /\ closed' = TRUE
  /\ UNCHANGED <<given, taken, over>>

Take(b) ==
  /\ ~over
  /\ b \in given \ taken
  /\ taken' = taken \cup {b}
  /\ UNCHANGED <<given, closed, over>>

Finish ==
  /\ closed
  /\ taken = given
  /\ over' = TRUE
  /\ UNCHANGED <<given, taken, closed>>

Next == Close \/ Finish \/ \E b \in Block : Give(b) \/ Take(b)

Spec == Init /\ [][Next]_vars
=============================================================================
