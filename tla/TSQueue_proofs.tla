--------------------------- MODULE TSQueue_proofs ---------------------------
(***************************************************************************)
(* No notification of a ThreadSafeQueue is lost, and it implements a       *)
(* blocking queue, whatever the number of threads and the capacity.        *)
(***************************************************************************)
EXTENDS TSQueue, FiniteSetTheorems, SequenceTheorems, TLAPS

(* How the threads at one place of a call come and go. *)

LEMMA PlacesFinite ==
  ASSUME NEW S, IsFiniteSet(S), NEW f \in [S -> ThreadPC], NEW what
  PROVE  IsFiniteSet(PC(f, what)) /\ Cardinality(PC(f, what)) \in Nat
<1>1. PC(f, what) \in SUBSET S
  BY DEF PC
<1> QED
  BY <1>1, FS_Subset, FS_CardinalityType

LEMMA Arrives ==
  ASSUME NEW S, IsFiniteSet(S), NEW f \in [S -> ThreadPC], NEW t \in S, NEW to,
         f[t] # to
  PROVE  Cardinality(PC([f EXCEPT ![t] = to], to)) = Cardinality(PC(f, to)) + 1
<1>1. PC([f EXCEPT ![t] = to], to) = PC(f, to) \cup {t} /\ t \notin PC(f, to)
  BY DEF PC
<1> QED
  BY <1>1, PlacesFinite, FS_AddElement

LEMMA InitType == Init => TypeOK
  BY TSQueueAssumption DEF Init, TypeOK, ThreadPC

LEMMA NextTypeOK == TypeOK /\ [Next]_vars => TypeOK'
<1> SUFFICES ASSUME TypeOK, [Next]_vars PROVE TypeOK'
  OBVIOUS
<1> USE DEF TypeOK, ThreadPC
<1>1. ASSUME NEW p \in Producer, CallPush(p) PROVE TypeOK'
  BY <1>1 DEF CallPush
<1>2. ASSUME NEW p \in Producer, PushLocked(p) PROVE TypeOK'
  <2>1. mQueue' \in Seq(Elem) /\ Len(mQueue') <= Capacity
    BY <1>2, TSQueueAssumption, AppendProperties DEF PushLocked, HasRoom
  <2>2. ppc' \in [Producer -> ThreadPC] /\ UNCHANGED <<elem, cpc>>
    BY <1>2 DEF PushLocked
  <2> QED
    BY <2>1, <2>2
<1>3. ASSUME NEW p \in Producer, PushNotify(p) PROVE TypeOK'
  BY <1>3 DEF PushNotify, NotifyOne
<1>4. ASSUME NEW c \in Consumer, CallPop(c) PROVE TypeOK'
  BY <1>4 DEF CallPop
<1>5. ASSUME NEW c \in Consumer, PopLocked(c) PROVE TypeOK'
  <2>1. mQueue' \in Seq(Elem) /\ Len(mQueue') <= Capacity
    BY <1>5, TSQueueAssumption, HeadTailProperties, SMTT(40) DEF PopLocked, HasElement
  <2>2. cpc' \in [Consumer -> ThreadPC] /\ UNCHANGED <<ppc, elem>>
    BY <1>5 DEF PopLocked
  <2> QED
    BY <2>1, <2>2
<1>6. ASSUME NEW c \in Consumer, PopNotify(c) PROVE TypeOK'
  BY <1>6 DEF PopNotify, NotifyOne
<1>7. CASE Spurious
  BY <1>7 DEF Spurious
<1>8. CASE UNCHANGED vars
  BY <1>8 DEF vars
<1> QED
  BY <1>1, <1>2, <1>3, <1>4, <1>5, <1>6, <1>7, <1>8 DEF Next, push, pop

-----------------------------------------------------------------------------
(* Consumers that wait. *)

LEMMA InitPopsAwake == Init => PopsAwake
  BY DEF Init, PopsAwake, PC

LEMMA NextPopsAwake == TypeOK /\ PopsAwake /\ [Next]_vars => PopsAwake'
<1> SUFFICES ASSUME TypeOK, PopsAwake, [Next]_vars PROVE PopsAwake'
  OBVIOUS
<1>0. /\ IsFiniteSet(Producer) /\ IsFiniteSet(Consumer)
      /\ ppc \in [Producer -> ThreadPC] /\ cpc \in [Consumer -> ThreadPC]
      /\ mQueue \in Seq(Elem) /\ Len(mQueue) \in Nat
      /\ Cardinality(PC(cpc, "woken")) \in Nat
      /\ Cardinality(PC(ppc, "notify")) \in Nat
  BY TSQueueAssumption, PlacesFinite DEF TypeOK
<1>1. ASSUME NEW p \in Producer, CallPush(p) PROVE PopsAwake'
  <2>1. PC(ppc', "notify") = PC(ppc, "notify") /\ cpc' = cpc /\ mQueue' = mQueue
    BY <1>0, <1>1 DEF CallPush, PC
  <2> QED
    BY <2>1 DEF PopsAwake, PC
<1>2. ASSUME NEW p \in Producer, PushLocked(p) PROVE PopsAwake'
  <2>1. CASE HasRoom
    <3>1. /\ Cardinality(PC(ppc', "notify")) = Cardinality(PC(ppc, "notify")) + 1
          /\ cpc' = cpc
      BY <1>0, <1>2, <2>1, Arrives DEF PushLocked
    <3>2. Len(mQueue') = Len(mQueue) + 1
      BY <1>0, <1>2, <2>1, AppendProperties DEF PushLocked, TypeOK
    <3>3. PC(cpc, "wait")' = PC(cpc, "wait") /\ PC(cpc, "woken")' = PC(cpc, "woken")
      BY <3>1 DEF PC
    <3>4. PC(ppc, "notify")' = PC(ppc', "notify")
      BY DEF PC
    <3> QED
      BY <1>0, <3>1, <3>2, <3>3, <3>4 DEF PopsAwake
  <2>2. CASE ~HasRoom
    <3>1. PC(ppc', "notify") = PC(ppc, "notify") /\ cpc' = cpc /\ mQueue' = mQueue
      BY <1>0, <1>2, <2>2 DEF PushLocked, PC
    <3> QED
      BY <3>1 DEF PopsAwake, PC
  <2> QED
    BY <2>1, <2>2
<1>3. ASSUME NEW p \in Producer, PushNotify(p) PROVE PopsAwake'
  <2>1. CASE PC(cpc, "wait") # {}
    <3>1. PICK c \in Consumer :
            cpc[c] = "wait" /\ cpc' = [cpc EXCEPT ![c] = "woken"]
      BY <1>0, <1>3, <2>1 DEF PushNotify, NotifyOne, PC
    <3>2. Cardinality(PC(cpc', "woken")) = Cardinality(PC(cpc, "woken")) + 1
      BY <1>0, <3>1, Arrives
    <3>3. /\ ppc[p] = "notify" /\ ppc' = [ppc EXCEPT ![p] = "idle"]
          /\ mQueue' = mQueue
      BY <1>3 DEF PushNotify
    <3>4. Cardinality(PC(ppc', "notify")) = Cardinality(PC(ppc, "notify")) - 1
      <4>1. PC(ppc', "notify") = PC(ppc, "notify") \ {p} /\ p \in PC(ppc, "notify")
        BY <1>0, <3>3 DEF PC
      <4> QED
        BY <1>0, <4>1, PlacesFinite, FS_RemoveElement
    <3>5. PC(ppc, "notify")' = PC(ppc', "notify") /\ PC(cpc, "woken")' = PC(cpc', "woken")
      BY DEF PC
    <3> QED
      BY <1>0, <2>1, <3>2, <3>3, <3>4, <3>5 DEF PopsAwake
  <2>2. CASE PC(cpc, "wait") = {}
    <3>1. cpc' = cpc
      BY <1>0, <1>3, <2>2 DEF PushNotify, NotifyOne, PC
    <3> QED
      BY <2>2, <3>1 DEF PopsAwake, PC
  <2> QED
    BY <2>1, <2>2
<1>4. ASSUME NEW c \in Consumer, CallPop(c) PROVE PopsAwake'
  <2>1. /\ PC(cpc', "woken") = PC(cpc, "woken")
        /\ PC(cpc', "wait") = PC(cpc, "wait")
        /\ ppc' = ppc /\ mQueue' = mQueue
    BY <1>0, <1>4 DEF CallPop, PC
  <2> QED
    BY <2>1 DEF PopsAwake, PC
<1>5. ASSUME NEW c \in Consumer, PopLocked(c) PROVE PopsAwake'
  <2>1. CASE HasElement
    <3>1. /\ cpc' = [cpc EXCEPT ![c] = "notify"]
          /\ cpc[c] \in {"lock", "woken"}
          /\ ppc' = ppc
          /\ mQueue' = Tail(mQueue) /\ mQueue # <<>>
      BY <1>5, <2>1 DEF PopLocked, HasElement
    <3>2. PC(cpc', "wait") = PC(cpc, "wait")
      BY <1>0, <3>1 DEF PC
    <3>3. Len(mQueue') = Len(mQueue) - 1
      BY <1>0, <3>1, HeadTailProperties
    <3>4. \/ Cardinality(PC(cpc', "woken")) = Cardinality(PC(cpc, "woken"))
          \/ Cardinality(PC(cpc', "woken")) = Cardinality(PC(cpc, "woken")) - 1
      <4>1. CASE cpc[c] = "woken"
        <5>1. PC(cpc', "woken") = PC(cpc, "woken") \ {c} /\ c \in PC(cpc, "woken")
          BY <1>0, <3>1, <4>1 DEF PC
        <5> QED
          BY <1>0, <5>1, PlacesFinite, FS_RemoveElement
      <4>2. CASE cpc[c] = "lock"
        <5>1. PC(cpc', "woken") = PC(cpc, "woken")
          BY <1>0, <3>1, <4>2 DEF PC
        <5> QED
          BY <5>1
      <4> QED
        BY <3>1, <4>1, <4>2
    <3>5. /\ PC(ppc, "notify")' = PC(ppc, "notify")
          /\ PC(cpc, "woken")' = PC(cpc', "woken")
          /\ PC(cpc, "wait")' = PC(cpc', "wait")
      BY <3>1 DEF PC
    <3> QED
      BY <1>0, <3>2, <3>3, <3>4, <3>5 DEF PopsAwake
  <2>2. CASE ~HasElement
    <3>1. mQueue' = <<>>
      BY <1>5, <2>2 DEF PopLocked, HasElement
    <3>2. cpc' \in [Consumer -> ThreadPC] /\ ppc' = ppc
      BY <1>0, <1>5, <2>2 DEF PopLocked, ThreadPC
    <3>3. /\ Cardinality(PC(cpc', "woken")) \in Nat
          /\ Cardinality(PC(ppc', "notify")) \in Nat
      BY <1>0, <3>2, PlacesFinite
    <3>4. /\ PC(ppc, "notify")' = PC(ppc', "notify")
          /\ PC(cpc, "woken")' = PC(cpc', "woken")
      BY DEF PC
    <3>5. Len(mQueue') = 0
      BY <3>1
    <3> QED
      BY <3>3, <3>4, <3>5 DEF PopsAwake
  <2> QED
    BY <2>1, <2>2
<1>6. ASSUME NEW c \in Consumer, PopNotify(c) PROVE PopsAwake'
  <2>1. /\ PC(cpc', "woken") = PC(cpc, "woken")
        /\ PC(cpc', "wait") = PC(cpc, "wait")
        /\ mQueue' = mQueue
    BY <1>0, <1>6 DEF PopNotify, PC
  <2>2. PC(ppc', "notify") = PC(ppc, "notify")
    <3>1. CASE \E t \in Producer : ppc[t] = "wait"
                                   /\ ppc' = [ppc EXCEPT ![t] = "woken"]
      BY <1>0, <3>1 DEF PC
    <3>2. CASE ppc' = ppc
      BY <3>2
    <3> QED
      BY <1>0, <1>6, <3>1, <3>2 DEF PopNotify, NotifyOne
  <2> QED
    BY <2>1, <2>2 DEF PopsAwake, PC
<1>7. CASE Spurious
  <2>1. CASE cpc' = cpc
    <3>1. PC(ppc', "notify") = PC(ppc, "notify") /\ mQueue' = mQueue
      BY <1>0, <1>7, <2>1 DEF Spurious, PC
    <3> QED
      BY <2>1, <3>1 DEF PopsAwake, PC
  <2>2. CASE \E c \in Consumer : cpc[c] = "wait"
                                 /\ cpc' = [cpc EXCEPT ![c] = "woken"]
    <3>1. PICK c \in Consumer : cpc[c] = "wait"
                                /\ cpc' = [cpc EXCEPT ![c] = "woken"]
      BY <2>2
    <3>2. Cardinality(PC(cpc', "woken")) = Cardinality(PC(cpc, "woken")) + 1
      BY <1>0, <3>1, Arrives
    <3>3. ppc' = ppc /\ mQueue' = mQueue
      BY <1>0, <1>7, <3>1 DEF Spurious
    <3>4. /\ PC(cpc, "woken")' = PC(cpc', "woken")
          /\ PC(ppc, "notify")' = PC(ppc, "notify")
          /\ PC(cpc, "wait") # {}
      BY <1>0, <3>1, <3>3 DEF PC
    <3> QED
      BY <1>0, <3>2, <3>3, <3>4 DEF PopsAwake
  <2> QED
    BY <1>7, <2>1, <2>2 DEF Spurious
<1>8. CASE UNCHANGED vars
  BY <1>8 DEF vars, PopsAwake, PC
<1> QED
  BY <1>1, <1>2, <1>3, <1>4, <1>5, <1>6, <1>7, <1>8 DEF Next, push, pop

-----------------------------------------------------------------------------
(* Producers that wait. *)

LEMMA InitPushesAwake == Init => PushesAwake
  BY DEF Init, PushesAwake, PC

LEMMA NextPushesAwake == TypeOK /\ PushesAwake /\ [Next]_vars => PushesAwake'
<1> SUFFICES ASSUME TypeOK, PushesAwake, [Next]_vars PROVE PushesAwake'
  OBVIOUS
<1>0. /\ IsFiniteSet(Producer) /\ IsFiniteSet(Consumer)
      /\ ppc \in [Producer -> ThreadPC] /\ cpc \in [Consumer -> ThreadPC]
      /\ mQueue \in Seq(Elem) /\ Len(mQueue) \in Nat
      /\ Capacity \in Nat
      /\ Cardinality(PC(ppc, "woken")) \in Nat
      /\ Cardinality(PC(cpc, "notify")) \in Nat
  BY TSQueueAssumption, PlacesFinite DEF TypeOK
<1>1. ASSUME NEW p \in Producer, CallPush(p) PROVE PushesAwake'
  <2>1. /\ PC(ppc', "woken") = PC(ppc, "woken")
        /\ PC(ppc', "wait") = PC(ppc, "wait")
        /\ cpc' = cpc /\ mQueue' = mQueue
    BY <1>0, <1>1 DEF CallPush, PC
  <2> QED
    BY <2>1 DEF PushesAwake, PC
<1>2. ASSUME NEW p \in Producer, PushLocked(p) PROVE PushesAwake'
  <2>1. CASE HasRoom
    <3>1. /\ ppc' = [ppc EXCEPT ![p] = "notify"]
          /\ ppc[p] \in {"lock", "woken"}
          /\ cpc' = cpc
          /\ mQueue' = Append(mQueue, elem[p])
      BY <1>2, <2>1 DEF PushLocked
    <3>2. PC(ppc', "wait") = PC(ppc, "wait")
      BY <1>0, <3>1 DEF PC
    <3>3. Len(mQueue') = Len(mQueue) + 1
      BY <3>1, AppendProperties DEF TypeOK
    <3>4. \/ Cardinality(PC(ppc', "woken")) = Cardinality(PC(ppc, "woken"))
          \/ Cardinality(PC(ppc', "woken")) = Cardinality(PC(ppc, "woken")) - 1
      <4>1. CASE ppc[p] = "woken"
        <5>1. PC(ppc', "woken") = PC(ppc, "woken") \ {p} /\ p \in PC(ppc, "woken")
          BY <1>0, <3>1, <4>1 DEF PC
        <5> QED
          BY <1>0, <5>1, PlacesFinite, FS_RemoveElement
      <4>2. CASE ppc[p] = "lock"
        <5>1. PC(ppc', "woken") = PC(ppc, "woken")
          BY <1>0, <3>1, <4>2 DEF PC
        <5> QED
          BY <5>1
      <4> QED
        BY <3>1, <4>1, <4>2
    <3>5. /\ PC(cpc, "notify")' = PC(cpc, "notify")
          /\ PC(ppc, "woken")' = PC(ppc', "woken")
          /\ PC(ppc, "wait")' = PC(ppc', "wait")
      BY <3>1 DEF PC
    <3> QED
      BY <1>0, <3>2, <3>3, <3>4, <3>5 DEF PushesAwake
  <2>2. CASE ~HasRoom
    <3>1. mQueue' = mQueue /\ Capacity <= Len(mQueue)
      BY <1>0, <1>2, <2>2 DEF PushLocked, HasRoom
    <3>2. ppc' \in [Producer -> ThreadPC] /\ cpc' = cpc
      BY <1>0, <1>2, <2>2 DEF PushLocked, ThreadPC
    <3>3. /\ Cardinality(PC(ppc', "woken")) \in Nat
          /\ Cardinality(PC(cpc', "notify")) \in Nat
      BY <1>0, <3>2, PlacesFinite
    <3>4. /\ PC(cpc, "notify")' = PC(cpc', "notify")
          /\ PC(ppc, "woken")' = PC(ppc', "woken")
      BY DEF PC
    <3> QED
      BY <1>0, <3>1, <3>3, <3>4 DEF PushesAwake
  <2> QED
    BY <2>1, <2>2
<1>3. ASSUME NEW p \in Producer, PushNotify(p) PROVE PushesAwake'
  <2>1. /\ PC(ppc', "woken") = PC(ppc, "woken")
        /\ PC(ppc', "wait") = PC(ppc, "wait")
        /\ mQueue' = mQueue
    BY <1>0, <1>3 DEF PushNotify, PC
  <2>2. PC(cpc', "notify") = PC(cpc, "notify")
    <3>1. CASE \E t \in Consumer : cpc[t] = "wait"
                                   /\ cpc' = [cpc EXCEPT ![t] = "woken"]
      BY <1>0, <3>1 DEF PC
    <3>2. CASE cpc' = cpc
      BY <3>2
    <3> QED
      BY <1>0, <1>3, <3>1, <3>2 DEF PushNotify, NotifyOne
  <2> QED
    BY <2>1, <2>2 DEF PushesAwake, PC
<1>4. ASSUME NEW c \in Consumer, CallPop(c) PROVE PushesAwake'
  <2>1. PC(cpc', "notify") = PC(cpc, "notify") /\ ppc' = ppc /\ mQueue' = mQueue
    BY <1>0, <1>4 DEF CallPop, PC
  <2> QED
    BY <2>1 DEF PushesAwake, PC
<1>5. ASSUME NEW c \in Consumer, PopLocked(c) PROVE PushesAwake'
  <2>1. CASE HasElement
    <3>1. /\ Cardinality(PC(cpc', "notify")) = Cardinality(PC(cpc, "notify")) + 1
          /\ ppc' = ppc
      BY <1>0, <1>5, <2>1, Arrives DEF PopLocked
    <3>2. Len(mQueue') = Len(mQueue) - 1
      BY <1>0, <1>5, <2>1, HeadTailProperties DEF PopLocked, HasElement
    <3>3. PC(ppc, "wait")' = PC(ppc, "wait") /\ PC(ppc, "woken")' = PC(ppc, "woken")
      BY <3>1 DEF PC
    <3>4. PC(cpc, "notify")' = PC(cpc', "notify")
      BY DEF PC
    <3> QED
      BY <1>0, <3>1, <3>2, <3>3, <3>4 DEF PushesAwake
  <2>2. CASE ~HasElement
    <3>1. PC(cpc', "notify") = PC(cpc, "notify") /\ ppc' = ppc /\ mQueue' = mQueue
      BY <1>0, <1>5, <2>2 DEF PopLocked, PC
    <3> QED
      BY <3>1 DEF PushesAwake, PC
  <2> QED
    BY <2>1, <2>2
<1>6. ASSUME NEW c \in Consumer, PopNotify(c) PROVE PushesAwake'
  <2>1. CASE PC(ppc, "wait") # {}
    <3>1. PICK p \in Producer :
            ppc[p] = "wait" /\ ppc' = [ppc EXCEPT ![p] = "woken"]
      BY <1>0, <1>6, <2>1 DEF PopNotify, NotifyOne, PC
    <3>2. Cardinality(PC(ppc', "woken")) = Cardinality(PC(ppc, "woken")) + 1
      BY <1>0, <3>1, Arrives
    <3>3. /\ cpc[c] = "notify" /\ cpc' = [cpc EXCEPT ![c] = "idle"]
          /\ mQueue' = mQueue
      BY <1>6 DEF PopNotify
    <3>4. Cardinality(PC(cpc', "notify")) = Cardinality(PC(cpc, "notify")) - 1
      <4>1. PC(cpc', "notify") = PC(cpc, "notify") \ {c} /\ c \in PC(cpc, "notify")
        BY <1>0, <3>3 DEF PC
      <4> QED
        BY <1>0, <4>1, PlacesFinite, FS_RemoveElement
    <3>5. PC(cpc, "notify")' = PC(cpc', "notify") /\ PC(ppc, "woken")' = PC(ppc', "woken")
      BY DEF PC
    <3> QED
      BY <1>0, <2>1, <3>2, <3>3, <3>4, <3>5 DEF PushesAwake
  <2>2. CASE PC(ppc, "wait") = {}
    <3>1. ppc' = ppc
      BY <1>0, <1>6, <2>2 DEF PopNotify, NotifyOne, PC
    <3> QED
      BY <2>2, <3>1 DEF PushesAwake, PC
  <2> QED
    BY <2>1, <2>2
<1>7. CASE Spurious
  <2>1. CASE ppc' = ppc
    <3>1. PC(cpc', "notify") = PC(cpc, "notify") /\ mQueue' = mQueue
      BY <1>0, <1>7, <2>1 DEF Spurious, PC
    <3> QED
      BY <2>1, <3>1 DEF PushesAwake, PC
  <2>2. CASE \E p \in Producer : ppc[p] = "wait"
                                 /\ ppc' = [ppc EXCEPT ![p] = "woken"]
    <3>1. PICK p \in Producer : ppc[p] = "wait"
                                /\ ppc' = [ppc EXCEPT ![p] = "woken"]
      BY <2>2
    <3>2. Cardinality(PC(ppc', "woken")) = Cardinality(PC(ppc, "woken")) + 1
      BY <1>0, <3>1, Arrives
    <3>3. cpc' = cpc /\ mQueue' = mQueue
      BY <1>0, <1>7, <3>1 DEF Spurious
    <3>4. /\ PC(ppc, "woken")' = PC(ppc', "woken")
          /\ PC(cpc, "notify")' = PC(cpc, "notify")
          /\ PC(ppc, "wait") # {}
      BY <1>0, <3>1, <3>3 DEF PC
    <3> QED
      BY <1>0, <3>2, <3>3, <3>4 DEF PushesAwake
  <2> QED
    BY <1>7, <2>1, <2>2 DEF Spurious
<1>8. CASE UNCHANGED vars
  BY <1>8 DEF vars, PushesAwake, PC
<1> QED
  BY <1>1, <1>2, <1>3, <1>4, <1>5, <1>6, <1>7, <1>8 DEF Next, push, pop

-----------------------------------------------------------------------------
(* The queue never holds more than mCapacity elements. *)
THEOREM TypeCorrect == Spec => []TypeOK
  BY InitType, NextTypeOK, PTL DEF Spec

(* While a thread waits in pop, every element queued has another thread,   *)
(* woken or about to be woken, to fetch it: notifying after the unlock     *)
(* loses no element, whatever the number of threads and the capacity.      *)
THEOREM PopsAwakeCorrect == Spec => []PopsAwake
<1>1. Init => TypeOK /\ PopsAwake
  BY InitType, InitPopsAwake
<1>2. TypeOK /\ PopsAwake /\ [Next]_vars => TypeOK' /\ PopsAwake'
  BY NextTypeOK, NextPopsAwake
<1> QED
  BY <1>1, <1>2, PTL DEF Spec

(* While a thread waits in push, every free place has another thread that  *)
(* will use it or pass the wake-up on.                                     *)
THEOREM PushesAwakeCorrect == Spec => []PushesAwake
<1>1. Init => TypeOK /\ PushesAwake
  BY InitType, InitPushesAwake
<1>2. TypeOK /\ PushesAwake /\ [Next]_vars => TypeOK' /\ PushesAwake'
  BY NextTypeOK, NextPushesAwake
<1> QED
  BY <1>1, <1>2, PTL DEF Spec

-----------------------------------------------------------------------------
(* The refinement of BlockingQueue.  A thread is inside a call from its    *)
(* CallPush or CallPop to the critical section that moves an element; the  *)
(* notify and the waits in between are stutters of the abstract queue.     *)

Inside == {"lock", "wait", "woken"}

Pushing(pc, e) == {<<p, e[p]>> : p \in {q \in Producer : pc[q] \in Inside}}

Popping(pc) == {c \in Consumer : pc[c] \in Inside}

(* What an abstract step or stutter is, in the variables of TSQueue. *)
LEMMA StepMaps ==
  ASSUME \/ \E p \in Producer :
              /\ \A call \in Pushing(ppc, elem) : call[1] # p
              /\ \E e \in Elem : Pushing(ppc', elem') = Pushing(ppc, elem) \cup {<<p, e>>}
              /\ UNCHANGED mQueue /\ Popping(cpc') = Popping(cpc)
         \/ \E c \in Consumer :
              /\ c \notin Popping(cpc)
              /\ Popping(cpc') = Popping(cpc) \cup {c}
              /\ UNCHANGED mQueue /\ Pushing(ppc', elem') = Pushing(ppc, elem)
         \/ /\ HasRoom
            /\ \E call \in Pushing(ppc, elem) :
                 /\ Pushing(ppc', elem') = Pushing(ppc, elem) \ {call}
                 /\ mQueue' = Append(mQueue, call[2])
            /\ Popping(cpc') = Popping(cpc)
         \/ /\ HasElement
            /\ \E c \in Popping(cpc) : Popping(cpc') = Popping(cpc) \ {c}
            /\ mQueue' = Tail(mQueue)
            /\ Pushing(ppc', elem') = Pushing(ppc, elem)
         \/ /\ UNCHANGED mQueue
            /\ Pushing(ppc', elem') = Pushing(ppc, elem)
            /\ Popping(cpc') = Popping(cpc)
  PROVE  [Blocking!Next]_Blocking!vars
  BY DEF Blocking!Next, Blocking!vars, Blocking!CallPush, Blocking!CallPop,
         Blocking!Put, Blocking!Get, HasRoom, HasElement, Pushing, Popping, Inside

(* A thread that moves between two places of the same side of its call. *)
LEMMA ProducerStays ==
  ASSUME ppc \in [Producer -> ThreadPC], NEW p \in Producer, NEW to,
         ppc' = [ppc EXCEPT ![p] = to], to \in Inside <=> ppc[p] \in Inside,
         UNCHANGED elem
  PROVE  Pushing(ppc', elem') = Pushing(ppc, elem)
<1>1. {q \in Producer : ppc'[q] \in Inside} = {q \in Producer : ppc[q] \in Inside}
  OBVIOUS
<1> QED
  BY <1>1 DEF Pushing

LEMMA ConsumerStays ==
  ASSUME cpc \in [Consumer -> ThreadPC], NEW c \in Consumer, NEW to,
         cpc' = [cpc EXCEPT ![c] = to], to \in Inside <=> cpc[c] \in Inside
  PROVE  Popping(cpc') = Popping(cpc)
  BY DEF Popping

LEMMA NextRefines == TypeOK /\ [Next]_vars => [Blocking!Next]_Blocking!vars
<1> SUFFICES ASSUME TypeOK, [Next]_vars PROVE [Blocking!Next]_Blocking!vars
  OBVIOUS
<1>0. /\ ppc \in [Producer -> ThreadPC] /\ elem \in [Producer -> Elem]
      /\ cpc \in [Consumer -> ThreadPC]
  BY DEF TypeOK
<1>1. ASSUME NEW p \in Producer, CallPush(p) PROVE [Blocking!Next]_Blocking!vars
  <2>1. PICK e \in Elem : elem' = [elem EXCEPT ![p] = e]
    BY <1>1 DEF CallPush
  <2>2. /\ ppc[p] = "idle" /\ ppc' = [ppc EXCEPT ![p] = "lock"]
        /\ UNCHANGED <<mQueue, cpc>>
    BY <1>1 DEF CallPush
  <2>3. \A call \in Pushing(ppc, elem) : call[1] # p
    BY <2>2 DEF Pushing, Inside
  <2>4. Pushing(ppc', elem') = Pushing(ppc, elem) \cup {<<p, e>>}
    <3>1. {q \in Producer : ppc'[q] \in Inside}
            = {q \in Producer : ppc[q] \in Inside} \cup {p}
      BY <1>0, <2>2 DEF Inside
    <3>2. elem'[p] = e /\ \A q \in Producer : q # p => elem'[q] = elem[q]
      BY <1>0, <2>1
    <3>3. p \notin {q \in Producer : ppc[q] \in Inside}
      BY <2>2 DEF Inside
    <3> QED
      BY <3>1, <3>2, <3>3 DEF Pushing
  <2> QED
    BY <2>2, <2>3, <2>4, StepMaps
<1>2. ASSUME NEW p \in Producer, PushLocked(p) PROVE [Blocking!Next]_Blocking!vars
  <2>1. CASE HasRoom
    <3>1. /\ ppc[p] \in Inside /\ ppc' = [ppc EXCEPT ![p] = "notify"]
          /\ mQueue' = Append(mQueue, elem[p])
          /\ UNCHANGED <<elem, cpc>>
      BY <1>2, <2>1 DEF PushLocked, Inside
    <3>2. {q \in Producer : ppc'[q] \in Inside}
            = {q \in Producer : ppc[q] \in Inside} \ {p}
      BY <1>0, <3>1 DEF Inside
    <3>3. Pushing(ppc', elem') = Pushing(ppc, elem) \ {<<p, elem[p]>>}
      BY <3>1, <3>2 DEF Pushing
    <3>4. <<p, elem[p]>> \in Pushing(ppc, elem)
      BY <3>1 DEF Pushing
    <3>5. /\ Pushing(ppc', elem') = Pushing(ppc, elem) \ {<<p, elem[p]>>}
          /\ mQueue' = Append(mQueue, <<p, elem[p]>>[2])
      BY <3>1, <3>3
    <3> QED
      BY <2>1, <3>1, <3>4, <3>5, StepMaps
  <2>2. CASE ~HasRoom
    <3>1. /\ ppc' = [ppc EXCEPT ![p] = "wait"] /\ ppc[p] \in Inside
          /\ UNCHANGED <<mQueue, elem, cpc>>
      BY <1>2, <2>2 DEF PushLocked, Inside
    <3>2. Pushing(ppc', elem') = Pushing(ppc, elem)
      BY <1>0, <3>1, ProducerStays DEF Inside
    <3> QED
      BY <3>1, <3>2, StepMaps
  <2> QED
    BY <2>1, <2>2
<1>3. ASSUME NEW p \in Producer, PushNotify(p) PROVE [Blocking!Next]_Blocking!vars
  <2>1. /\ ppc[p] = "notify" /\ ppc' = [ppc EXCEPT ![p] = "idle"]
        /\ UNCHANGED <<mQueue, elem>> /\ NotifyOne(cpc)
    BY <1>3 DEF PushNotify
  <2>2. Pushing(ppc', elem') = Pushing(ppc, elem)
    BY <1>0, <2>1, ProducerStays DEF Inside
  <2>3. Popping(cpc') = Popping(cpc)
    BY <1>0, <2>1, ConsumerStays DEF NotifyOne, Inside
  <2> QED
    BY <2>1, <2>2, <2>3, StepMaps
<1>4. ASSUME NEW c \in Consumer, CallPop(c) PROVE [Blocking!Next]_Blocking!vars
  <2>1. /\ cpc[c] = "idle" /\ cpc' = [cpc EXCEPT ![c] = "lock"]
        /\ UNCHANGED <<mQueue, ppc, elem>>
    BY <1>4 DEF CallPop
  <2>2. c \notin Popping(cpc) /\ Popping(cpc') = Popping(cpc) \cup {c}
    BY <1>0, <2>1 DEF Popping, Inside
  <2> QED
    BY <2>1, <2>2, StepMaps
<1>5. ASSUME NEW c \in Consumer, PopLocked(c) PROVE [Blocking!Next]_Blocking!vars
  <2>1. CASE HasElement
    <3>1. /\ cpc[c] \in Inside /\ cpc' = [cpc EXCEPT ![c] = "notify"]
          /\ mQueue' = Tail(mQueue)
          /\ UNCHANGED <<ppc, elem>>
      BY <1>5, <2>1 DEF PopLocked, Inside
    <3>2. c \in Popping(cpc) /\ Popping(cpc') = Popping(cpc) \ {c}
      BY <1>0, <3>1 DEF Popping, Inside
    <3> QED
      BY <2>1, <3>1, <3>2, StepMaps
  <2>2. CASE ~HasElement
    <3>1. /\ cpc' = [cpc EXCEPT ![c] = "wait"] /\ cpc[c] \in Inside
          /\ UNCHANGED <<mQueue, ppc, elem>>
      BY <1>5, <2>2 DEF PopLocked, Inside
    <3>2. Popping(cpc') = Popping(cpc)
      BY <1>0, <3>1, ConsumerStays DEF Inside
    <3> QED
      BY <3>1, <3>2, StepMaps
  <2> QED
    BY <2>1, <2>2
<1>6. ASSUME NEW c \in Consumer, PopNotify(c) PROVE [Blocking!Next]_Blocking!vars
  <2>1. /\ cpc[c] = "notify" /\ cpc' = [cpc EXCEPT ![c] = "idle"]
        /\ UNCHANGED <<mQueue, elem>> /\ NotifyOne(ppc)
    BY <1>6 DEF PopNotify
  <2>2. Popping(cpc') = Popping(cpc)
    BY <1>0, <2>1, ConsumerStays DEF Inside
  <2>3. Pushing(ppc', elem') = Pushing(ppc, elem)
    BY <1>0, <2>1, ProducerStays DEF NotifyOne, Inside
  <2> QED
    BY <2>1, <2>2, <2>3, StepMaps
<1>7. CASE Spurious
  <2>1. CASE \E p \in Producer : ppc[p] = "wait" /\ ppc' = [ppc EXCEPT ![p] = "woken"]
                                 /\ UNCHANGED <<mQueue, elem, cpc>>
    <3>1. Pushing(ppc', elem') = Pushing(ppc, elem)
      BY <1>0, <2>1, ProducerStays DEF Inside
    <3> QED
      BY <2>1, <3>1, StepMaps
  <2>2. CASE \E c \in Consumer : cpc[c] = "wait" /\ cpc' = [cpc EXCEPT ![c] = "woken"]
                                 /\ UNCHANGED <<mQueue, elem, ppc>>
    <3>1. Popping(cpc') = Popping(cpc)
      BY <1>0, <2>2, ConsumerStays DEF Inside
    <3> QED
      BY <2>2, <3>1, StepMaps
  <2> QED
    BY <1>7, <2>1, <2>2 DEF Spurious
<1>8. CASE UNCHANGED vars
  BY <1>8, StepMaps DEF vars
<1> QED
  BY <1>1, <1>2, <1>3, <1>4, <1>5, <1>6, <1>7, <1>8 DEF Next, push, pop

(* A ThreadSafeQueue is a blocking queue: whatever the locks, waits and    *)
(* wake-ups do, each push and each pop takes effect in one step of its     *)
(* own, in first-in first-out order, and never past mCapacity.             *)
THEOREM BlockingQueueCorrect == Spec => Blocking!SafeSpec
<1>1. Init => Blocking!Init
  BY DEF Init, Blocking!Init
<1> QED
  BY <1>1, InitType, NextTypeOK, NextRefines, PTL DEF Spec, Blocking!SafeSpec
=============================================================================
