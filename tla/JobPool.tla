------------------------------ MODULE JobPool ------------------------------
(***************************************************************************)
(* What thpool.h promises: jobs start in the order they were added, at     *)
(* most one per thread; thpool_wait returns after a moment at which no job *)
(* was queued or running; thpool_destroy lets running jobs end and drops   *)
(* the queued ones.                                                        *)
(***************************************************************************)
EXTENDS Naturals, Sequences, FiniteSets

CONSTANTS Job, Worker

VARIABLES
  todo,     \* the jobs the program has not added yet
  queued,   \* the jobs added and not started, oldest first
  running,
  waiter,   \* "out" of thpool_wait, "in" it, or it has seen the pool "idle"
  open      \* until a thpool_destroy

vars == <<todo, queued, running, waiter, open>>

Init ==
  /\ todo = Job
  /\ queued = <<>>
  /\ running = {}
  /\ waiter = "out"
  /\ open = TRUE

Add(j) ==
  /\ open
  /\ j \in todo
  /\ todo' = todo \ {j}
  /\ queued' = Append(queued, j)
  /\ UNCHANGED <<running, waiter, open>>

Start ==
  /\ queued # <<>>
  /\ Cardinality(running) < Cardinality(Worker)
  /\ running' = running \cup {Head(queued)}
  /\ queued' = Tail(queued)
  /\ UNCHANGED <<todo, waiter, open>>

Finish(j) ==
  /\ j \in running
  /\ running' = running \ {j}
  /\ UNCHANGED <<todo, queued, waiter, open>>

CallWait ==
  /\ open
  /\ waiter = "out"
  /\ waiter' = "in"
  /\ UNCHANGED <<todo, queued, running, open>>

SeeIdle ==
  /\ waiter = "in"
  /\ queued = <<>>
  /\ running = {}
  /\ waiter' = "idle"
  /\ UNCHANGED <<todo, queued, running, open>>

Return ==
  /\ waiter = "idle"
  /\ waiter' = "out"
  /\ UNCHANGED <<todo, queued, running, open>>

Close ==
  /\ open
  /\ waiter = "out"
  /\ open' = FALSE
  /\ UNCHANGED <<todo, queued, running, waiter>>

Drop ==
  /\ ~open
  /\ running = {}
  /\ queued' = <<>>
  /\ UNCHANGED <<todo, running, waiter, open>>

Next ==
  \/ \E j \in Job : Add(j) \/ Finish(j)
  \/ Start
  \/ CallWait \/ SeeIdle \/ Return
  \/ Close \/ Drop

SafeSpec == Init /\ [][Next]_vars

(* While a thread is free and the pool open, jobs are started; a caller of *)
(* thpool_wait does not miss that the pool has become idle for good.       *)
Spec ==
  /\ SafeSpec
  /\ WF_vars(open /\ Start)
  /\ WF_vars(SeeIdle)
  /\ WF_vars(Return)
=============================================================================
