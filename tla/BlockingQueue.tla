--------------------------- MODULE BlockingQueue ---------------------------
(***************************************************************************)
(* What a ThreadSafeQueue promises its callers, and what Pipeline takes a  *)
(* push or a pop to be: one step that waits for room or for an element.    *)
(***************************************************************************)
EXTENDS Naturals, Sequences

CONSTANTS Producer, Consumer, Elem, Capacity

VARIABLES
  queue,    \* the elements, oldest first
  pushing,  \* <<p, e>>: producer p is inside push and e not yet in queue
  popping   \* the consumers inside pop that have not yet got an element

vars == <<queue, pushing, popping>>

Init ==
  /\ queue = <<>>
  /\ pushing = {}
  /\ popping = {}

CallPush(p) ==
  /\ \A call \in pushing : call[1] # p
  /\ \E e \in Elem : pushing' = pushing \cup {<<p, e>>}
  /\ UNCHANGED <<queue, popping>>

CallPop(c) ==
  /\ c \notin popping
  /\ popping' = popping \cup {c}
  /\ UNCHANGED <<queue, pushing>>

Put ==
  /\ Len(queue) < Capacity
  /\ \E call \in pushing :
       /\ pushing' = pushing \ {call}
       /\ queue' = Append(queue, call[2])
  /\ UNCHANGED popping

Get ==
  /\ queue # <<>>
  /\ \E c \in popping : popping' = popping \ {c}
  /\ queue' = Tail(queue)
  /\ UNCHANGED pushing

Next ==
  \/ \E p \in Producer : CallPush(p)
  \/ \E c \in Consumer : CallPop(c)
  \/ Put
  \/ Get

SafeSpec == Init /\ [][Next]_vars

(* While there is room some push goes through, and while there is an       *)
(* element some pop does; which one is left to the scheduler.              *)
Spec == SafeSpec /\ WF_vars(Put) /\ WF_vars(Get)
=============================================================================
