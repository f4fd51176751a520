------------------------------ MODULE TSQueue ------------------------------
(***************************************************************************)
(* ThreadSafeQueue of thread_safe_queue.h: a mutex, a bounded std::queue   *)
(* and two condition variables, notified after the mutex is released.      *)
(*                                                                         *)
(* A step is a critical section of mMutex, up to its release by unlock or  *)
(* by the condition variable's wait, or one call of notify_one.            *)
(***************************************************************************)
EXTENDS Naturals, Sequences, FiniteSets

CONSTANTS
  Producer,  \* threads that call push
  Consumer,  \* threads that call pop
  Elem,
  Capacity   \* mCapacity

ASSUME TSQueueAssumption ==
  /\ IsFiniteSet(Producer)
  /\ IsFiniteSet(Consumer)
  /\ Capacity \in Nat \ {0}

VARIABLES
  mQueue,
  ppc,   \* ppc[p]: where producer p is
  elem,  \* elem[p]: what it pushes
  cpc    \* cpc[c]: where consumer c is

vars == <<mQueue, ppc, elem, cpc>>

(* Outside the call, about to lock mMutex, waiting on the condition        *)
(* variable, woken and about to lock mMutex again, about to notify.        *)
ThreadPC == {"idle", "lock", "wait", "woken", "notify"}

TypeOK ==
  /\ mQueue \in Seq(Elem)
  /\ Len(mQueue) <= Capacity
  /\ ppc \in [Producer -> ThreadPC]
  /\ elem \in [Producer -> Elem]
  /\ cpc \in [Consumer -> ThreadPC]

Init ==
  /\ mQueue = <<>>
  /\ ppc = [p \in Producer |-> "idle"]
  /\ elem \in [Producer -> Elem]
  /\ cpc = [c \in Consumer |-> "idle"]

(* notify_one on a condition variable wakes a waiting thread, if any. *)
NotifyOne(pc) ==
  IF \E t \in DOMAIN pc : pc[t] = "wait"
  THEN \E t \in DOMAIN pc : pc[t] = "wait" /\ pc' = [pc EXCEPT ![t] = "woken"]
  ELSE UNCHANGED pc
-----------------------------------------------------------------------------
CallPush(p) ==
  /\ ppc[p] = "idle"
  /\ ppc' = [ppc EXCEPT ![p] = "lock"]
  /\ \E e \in Elem : elem' = [elem EXCEPT ![p] = e]
  /\ UNCHANGED <<mQueue, cpc>>

HasRoom_Inclusive == Len(mQueue) <= Capacity  \* fault

HasRoom == Len(mQueue) < Capacity

PushLocked_OnlyIfEmpty(p) ==  \* fault: no notify if there were elements
  /\ ppc[p] \in {"lock", "woken"}
  /\ IF HasRoom
     THEN /\ mQueue' = Append(mQueue, elem[p])
          /\ ppc' = [ppc EXCEPT ![p] = IF mQueue = <<>> THEN "notify"
                                                        ELSE "idle"]
     ELSE /\ ppc' = [ppc EXCEPT ![p] = "wait"]
          /\ UNCHANGED mQueue
  /\ UNCHANGED <<elem, cpc>>

(* The mutex taken, the predicate of mNotFull.wait is evaluated; without   *)
(* room the thread waits, otherwise it adds its element and unlocks.       *)
PushLocked(p) ==
  /\ ppc[p] \in {"lock", "woken"}
  /\ IF HasRoom
     THEN /\ mQueue' = Append(mQueue, elem[p])
          /\ ppc' = [ppc EXCEPT ![p] = "notify"]
     ELSE /\ ppc' = [ppc EXCEPT ![p] = "wait"]
          /\ UNCHANGED mQueue
  /\ UNCHANGED <<elem, cpc>>

(* mNotEmpty.notify_one(), then push returns. *)
PushNotify(p) ==
  /\ ppc[p] = "notify"
  /\ ppc' = [ppc EXCEPT ![p] = "idle"]
  /\ NotifyOne(cpc)
  /\ UNCHANGED <<mQueue, elem>>
-----------------------------------------------------------------------------
CallPop(c) ==
  /\ cpc[c] = "idle"
  /\ cpc' = [cpc EXCEPT ![c] = "lock"]
  /\ UNCHANGED <<mQueue, ppc, elem>>

HasElement == mQueue # <<>>

PopLocked_OnlyIfFull(c) ==  \* fault: no notify if there was room
  /\ cpc[c] \in {"lock", "woken"}
  /\ IF HasElement
     THEN /\ mQueue' = Tail(mQueue)
          /\ cpc' = [cpc EXCEPT ![c] = IF HasRoom THEN "idle" ELSE "notify"]
     ELSE /\ cpc' = [cpc EXCEPT ![c] = "wait"]
          /\ UNCHANGED mQueue
  /\ UNCHANGED <<ppc, elem>>

PopLocked_OneTest(c) ==  \* fault: a woken thread does not look again
  /\ cpc[c] \in {"lock", "woken"}
  /\ IF HasElement \/ cpc[c] = "woken"
     THEN /\ mQueue' = IF HasElement THEN Tail(mQueue) ELSE mQueue
          /\ cpc' = [cpc EXCEPT ![c] = "notify"]
     ELSE /\ cpc' = [cpc EXCEPT ![c] = "wait"]
          /\ UNCHANGED mQueue
  /\ UNCHANGED <<ppc, elem>>

PopLocked(c) ==
  /\ cpc[c] \in {"lock", "woken"}
  /\ IF HasElement
     THEN /\ mQueue' = Tail(mQueue)
          /\ cpc' = [cpc EXCEPT ![c] = "notify"]
     ELSE /\ cpc' = [cpc EXCEPT ![c] = "wait"]
          /\ UNCHANGED mQueue
  /\ UNCHANGED <<ppc, elem>>

(* mNotFull.notify_one(), then pop returns. *)
PopNotify(c) ==
  /\ cpc[c] = "notify"
  /\ cpc' = [cpc EXCEPT ![c] = "idle"]
  /\ NotifyOne(ppc)
  /\ UNCHANGED <<mQueue, elem>>

(* A condition variable may wake a thread for no reason. *)
Spurious ==
  \/ /\ \E p \in Producer : ppc[p] = "wait" /\ ppc' = [ppc EXCEPT ![p] = "woken"]
     /\ UNCHANGED <<mQueue, elem, cpc>>
  \/ /\ \E c \in Consumer : cpc[c] = "wait" /\ cpc' = [cpc EXCEPT ![c] = "woken"]
     /\ UNCHANGED <<mQueue, elem, ppc>>

push(p) == PushLocked(p) \/ PushNotify(p)

pop(c) == PopLocked(c) \/ PopNotify(c)

Next ==
  \/ \E p \in Producer : CallPush(p) \/ push(p)
  \/ \E c \in Consumer : CallPop(c) \/ pop(c)
  \/ Spurious

Spec == Init /\ [][Next]_vars

(* A thread inside push or pop that does not wait goes on.  Nothing makes  *)
(* a caller call again, and nothing but a notify makes a waiter go on.     *)
FairSpec ==
  /\ Spec
  /\ \A p \in Producer : WF_vars(push(p))
  /\ \A c \in Consumer : WF_vars(pop(c))
-----------------------------------------------------------------------------
PC(pc, what) == {t \in DOMAIN pc : pc[t] = what}

(* No notification is lost: as long as a consumer waits, each element in   *)
(* the queue has a thread to fetch it, a woken consumer or one that a      *)
(* producer is still to wake.  With two elements pushed while two          *)
(* consumers wait, one wake-up would not do.                               *)
PopsAwake ==
  PC(cpc, "wait") # {} =>
    Len(mQueue) <= Cardinality(PC(cpc, "woken")) + Cardinality(PC(ppc, "notify"))

(* The same for producers that wait for room. *)
PushesAwake ==
  PC(ppc, "wait") # {} =>
    Capacity <= Len(mQueue) + Cardinality(PC(ppc, "woken"))
                            + Cardinality(PC(cpc, "notify"))

Blocking ==
  INSTANCE BlockingQueue WITH
    queue <- mQueue,
    pushing <- {<<p, elem[p]>> :
                  p \in {q \in Producer : ppc[q] \in {"lock", "wait", "woken"}}},
    popping <- {c \in Consumer : cpc[c] \in {"lock", "wait", "woken"}}

(* A ThreadSafeQueue is a blocking queue: a push or a pop takes effect in  *)
(* one step, and while there is room or an element some caller goes on.    *)
ActsAsBlockingQueue == Blocking!Spec
=============================================================================
