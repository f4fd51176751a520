--------------------------- MODULE ThPool_proofs ---------------------------
(***************************************************************************)
(* Theorems about a pool of thpool.cpp, for any number of threads and jobs.*)
(***************************************************************************)
EXTENDS ThPool, FiniteSetTheorems, SequenceTheorems, TLAPS

(* The threads the two counters count. *)
Alive(p) == {w \in Worker : p[w] \notin {"born", "unlock", "gone"}}
AtWork(p) == {w \in Worker : p[w] \in {"pull", "post", "run", "uncount"}}

(* TypeOK is not inductive: that the counters stay between zero and the    *)
(* number of threads follows from what they count.                         *)
Typed ==
  /\ threads_keepalive \in BOOLEAN
  /\ queue \in Seq(Job)
  /\ v \in {0, 1}
  /\ pc \in [Worker -> WorkerPC]
  /\ job \in [Worker -> Job \cup {NoJob}]
  /\ apc \in [Adder -> {"out", "post"}]
  /\ mpc \in MainPC
  /\ todo \subseteq Job

Counted ==
  /\ num_threads_alive = Cardinality(Alive(pc))
  /\ num_threads_working = Cardinality(AtWork(pc))

(* A thread leaves thread_do only when the flag is down. *)
OpenWhileServing ==
  threads_keepalive => \A w \in Worker : pc[w] \notin {"leave", "unlock", "gone"}

Inv == Typed /\ Counted /\ OpenWhileServing

LEMMA CountersBounded ==
  ASSUME NEW p
  PROVE  /\ IsFiniteSet(Alive(p)) /\ IsFiniteSet(AtWork(p))
         /\ Cardinality(Alive(p)) \in 0 .. Cardinality(Worker)
         /\ Cardinality(AtWork(p)) \in 0 .. Cardinality(Worker)
<1>1. Alive(p) \in SUBSET Worker /\ AtWork(p) \in SUBSET Worker
  BY DEF Alive, AtWork
<1>2. /\ IsFiniteSet(Alive(p)) /\ Cardinality(Alive(p)) <= Cardinality(Worker)
      /\ IsFiniteSet(AtWork(p)) /\ Cardinality(AtWork(p)) <= Cardinality(Worker)
  BY <1>1, FS_Subset, ThPoolAssumption
<1> QED
  BY <1>2, FS_CardinalityType, ThPoolAssumption

LEMMA InvType == Inv => TypeOK
  BY CountersBounded DEF Inv, Typed, Counted, TypeOK

LEMMA InitInv == Init => Inv
<1> SUFFICES ASSUME Init PROVE Inv
  OBVIOUS
<1>1. Typed /\ OpenWhileServing
  BY DEF Init, Typed, OpenWhileServing, WorkerPC, MainPC
<1>2. Alive(pc) = {} /\ AtWork(pc) = {}
  BY DEF Init, Alive, AtWork
<1> QED
  BY <1>1, <1>2, FS_EmptySet DEF Init, Inv, Counted

(* A thread that moves between two places that are counted alike. *)
LEMMA MoveUncounted ==
  ASSUME NEW p \in [Worker -> WorkerPC], NEW w \in Worker, NEW to \in WorkerPC,
         w \in Alive(p) <=> to \notin {"born", "unlock", "gone"},
         w \in AtWork(p) <=> to \in {"pull", "post", "run", "uncount"}
  PROVE  /\ Alive([p EXCEPT ![w] = to]) = Alive(p)
         /\ AtWork([p EXCEPT ![w] = to]) = AtWork(p)
  BY DEF Alive, AtWork

-----------------------------------------------------------------------------
(* The inductive invariant. *)

(* A pool thread that takes a step is counted as before ... *)
LEMMA WorkerUncounted ==
  ASSUME Inv, NEW w \in Worker,
         \/ WhileKeepalive(w) \/ bsem_wait(w) \/ IfKeepalive(w)
         \/ jobqueue_pull(w) \/ Run(w) \/ Unlock(w)
  PROVE  Inv'
<1> USE DEF Inv, Typed
<1>1. ASSUME NEW to \in WorkerPC, pc' = [pc EXCEPT ![w] = to],
             w \in Alive(pc) <=> to \notin {"born", "unlock", "gone"},
             w \in AtWork(pc) <=> to \in {"pull", "post", "run", "uncount"},
             UNCHANGED <<num_threads_alive, num_threads_working>>
      PROVE  Counted'
  <2>1. Alive(pc') = Alive(pc) /\ AtWork(pc') = AtWork(pc)
    BY <1>1, MoveUncounted
  <2> QED
    BY <1>1, <2>1 DEF Counted, Alive, AtWork
<1>2. CASE WhileKeepalive(w)
  <2>1. PICK to \in {"wait", "leave"} :
          /\ pc' = [pc EXCEPT ![w] = to] /\ pc[w] = "top"
          /\ to = "leave" => ~threads_keepalive
    BY <1>2 DEF WhileKeepalive, Goes
  <2>2. Counted'
    BY <1>1, <1>2, <2>1 DEF WhileKeepalive, poolVars, WorkerPC, Alive, AtWork
  <2>3. Typed' /\ OpenWhileServing'
    BY <1>2, <2>1 DEF WhileKeepalive, poolVars, WorkerPC, OpenWhileServing
  <2> QED
    BY <2>2, <2>3
<1>3. CASE bsem_wait(w)
  <2>1. PICK to \in {"test", "sleep"} : pc' = [pc EXCEPT ![w] = to] /\ pc[w] = "wait"
    BY <1>3 DEF bsem_wait, Goes
  <2>2. Counted'
    BY <1>1, <1>3, <2>1 DEF bsem_wait, poolVars, WorkerPC, Alive, AtWork
  <2>3. Typed' /\ OpenWhileServing'
    BY <1>3, <2>1 DEF bsem_wait, poolVars, WorkerPC, OpenWhileServing
  <2> QED
    BY <2>2, <2>3
<1>4. CASE IfKeepalive(w)
  <2>1. PICK to \in {"count", "top"} : pc' = [pc EXCEPT ![w] = to] /\ pc[w] = "test"
    BY <1>4 DEF IfKeepalive, Goes
  <2>2. Counted'
    BY <1>1, <1>4, <2>1 DEF IfKeepalive, poolVars, WorkerPC, Alive, AtWork
  <2>3. Typed' /\ OpenWhileServing'
    BY <1>4, <2>1 DEF IfKeepalive, poolVars, WorkerPC, OpenWhileServing
  <2> QED
    BY <2>2, <2>3
<1>5. CASE jobqueue_pull(w)
  <2>1. PICK to \in {"post", "run", "uncount"} :
          pc' = [pc EXCEPT ![w] = to] /\ pc[w] = "pull"
    BY <1>5 DEF jobqueue_pull, Goes
  <2>2. Counted'
    BY <1>1, <1>5, <2>1 DEF jobqueue_pull, poolVars, WorkerPC, Alive, AtWork
  <2>3. queue' \in Seq(Job) /\ job' \in [Worker -> Job \cup {NoJob}]
    <3>1. CASE queue = <<>>
      BY <1>5, <3>1 DEF jobqueue_pull
    <3>2. CASE queue # <<>>
      <4>1. Head(queue) \in Job /\ Tail(queue) \in Seq(Job)
        BY <3>2, HeadTailProperties
      <4>2. queue' = Tail(queue) /\ job' = [job EXCEPT ![w] = Head(queue)]
        BY <1>5, <3>2 DEF jobqueue_pull
      <4> QED
        BY <4>1, <4>2
    <3> QED
      BY <3>1, <3>2
  <2>4. Typed' /\ OpenWhileServing'
    BY <1>5, <2>1, <2>3 DEF jobqueue_pull, poolVars, WorkerPC, OpenWhileServing
  <2> QED
    BY <2>2, <2>4
<1>6. CASE Run(w)
  <2>1. pc' = [pc EXCEPT ![w] = "uncount"] /\ pc[w] = "run"
    BY <1>6 DEF Run, Goes
  <2>2. Counted'
    BY <1>1, <1>6, <2>1 DEF Run, poolVars, WorkerPC, Alive, AtWork
  <2>3. Typed' /\ OpenWhileServing'
    BY <1>6, <2>1 DEF Run, poolVars, WorkerPC, OpenWhileServing
  <2> QED
    BY <2>2, <2>3
<1>7. CASE Unlock(w)
  <2>1. pc' = [pc EXCEPT ![w] = "gone"] /\ pc[w] = "unlock"
    BY <1>7 DEF Unlock, Goes
  <2>2. Counted'
    BY <1>1, <1>7, <2>1 DEF Unlock, poolVars, WorkerPC, Alive, AtWork
  <2>3. Typed' /\ OpenWhileServing'
    BY <1>7, <2>1 DEF Unlock, poolVars, WorkerPC, OpenWhileServing
  <2> QED
    BY <2>2, <2>3
<1> QED
  BY <1>2, <1>3, <1>4, <1>5, <1>6, <1>7

(* ... or changes the counter that counts it. *)
LEMMA WorkerCounted ==
  ASSUME Inv, NEW w \in Worker, Born(w) \/ Count(w) \/ Uncount(w) \/ Leave(w)
  PROVE  Inv'
<1> USE DEF Inv, Typed
<1>0. /\ IsFiniteSet(Alive(pc)) /\ IsFiniteSet(AtWork(pc))
      /\ Cardinality(Alive(pc)) \in Nat /\ Cardinality(AtWork(pc)) \in Nat
  BY CountersBounded, FS_CardinalityType
<1>1. CASE Born(w)
  <2>1. /\ pc[w] = "born" /\ pc' = [pc EXCEPT ![w] = "top"]
        /\ num_threads_alive' = num_threads_alive + 1
        /\ num_threads_working' = num_threads_working
    BY <1>1 DEF Born, Goes
  <2>2. Alive(pc)' = Alive(pc) \cup {w} /\ w \notin Alive(pc)
    BY <2>1 DEF Alive
  <2>3. AtWork(pc)' = AtWork(pc)
    BY <2>1 DEF AtWork
  <2>4. Cardinality(Alive(pc)') = Cardinality(Alive(pc)) + 1
    BY <1>0, <2>2, FS_AddElement
  <2>5. Counted'
    BY <2>1, <2>3, <2>4 DEF Counted
  <2>6. Typed' /\ OpenWhileServing'
    BY <1>1, <2>1 DEF Born, WorkerPC, OpenWhileServing
  <2> QED
    BY <2>5, <2>6
<1>2. CASE Count(w)
  <2>1. /\ pc[w] = "count" /\ pc' = [pc EXCEPT ![w] = "pull"]
        /\ num_threads_working' = num_threads_working + 1
        /\ num_threads_alive' = num_threads_alive
    BY <1>2 DEF Count, Goes
  <2>2. AtWork(pc)' = AtWork(pc) \cup {w} /\ w \notin AtWork(pc)
    BY <2>1 DEF AtWork
  <2>3. Alive(pc)' = Alive(pc)
    BY <2>1 DEF Alive
  <2>4. Cardinality(AtWork(pc)') = Cardinality(AtWork(pc)) + 1
    BY <1>0, <2>2, FS_AddElement
  <2>5. Counted'
    BY <2>1, <2>3, <2>4 DEF Counted
  <2>6. Typed' /\ OpenWhileServing'
    BY <1>2, <2>1 DEF Count, WorkerPC, OpenWhileServing
  <2> QED
    BY <2>5, <2>6
<1>3. CASE Uncount(w)
  <2>1. /\ pc[w] = "uncount" /\ pc' = [pc EXCEPT ![w] = "top"]
        /\ num_threads_working' = num_threads_working - 1
        /\ num_threads_alive' = num_threads_alive
    BY <1>3 DEF Uncount, Goes
  <2>2. AtWork(pc)' = AtWork(pc) \ {w} /\ w \in AtWork(pc)
    BY <2>1 DEF AtWork
  <2>3. Alive(pc)' = Alive(pc)
    BY <2>1 DEF Alive
  <2>4. Cardinality(AtWork(pc)') = Cardinality(AtWork(pc)) - 1
    BY <1>0, <2>2, FS_RemoveElement
  <2>5. Counted'
    BY <2>1, <2>3, <2>4 DEF Counted
  <2>6. mpc' \in MainPC
    BY <1>3 DEF Uncount, MainPC
  <2>7. Typed' /\ OpenWhileServing'
    BY <1>3, <2>1, <2>6 DEF Uncount, WorkerPC, OpenWhileServing
  <2> QED
    BY <2>5, <2>7
<1>4. CASE Leave(w)
  <2>1. /\ pc[w] = "leave" /\ pc' = [pc EXCEPT ![w] = "unlock"]
        /\ num_threads_alive' = num_threads_alive - 1
        /\ num_threads_working' = num_threads_working
    BY <1>4 DEF Leave, Goes
  <2>2. Alive(pc)' = Alive(pc) \ {w} /\ w \in Alive(pc)
    BY <2>1 DEF Alive
  <2>3. AtWork(pc)' = AtWork(pc)
    BY <2>1 DEF AtWork
  <2>4. Cardinality(Alive(pc)') = Cardinality(Alive(pc)) - 1
    BY <1>0, <2>2, FS_RemoveElement
  <2>5. Counted'
    BY <2>1, <2>3, <2>4 DEF Counted
  <2>6. Typed' /\ OpenWhileServing'
    BY <1>4, <2>1 DEF Leave, WorkerPC, OpenWhileServing
  <2> QED
    BY <2>5, <2>6
<1> QED
  BY <1>1, <1>2, <1>3, <1>4

(* A post of the semaphore moves threads that are not counted as working.  *)
LEMMA WakeOne ==
  ASSUME NEW p \in [Worker -> WorkerPC], NEW u \in Worker, p[u] = "sleep"
  PROVE  /\ [p EXCEPT ![u] = "wait"] \in [Worker -> WorkerPC]
         /\ Alive([p EXCEPT ![u] = "wait"]) = Alive(p)
         /\ AtWork([p EXCEPT ![u] = "wait"]) = AtWork(p)
  BY DEF WorkerPC, Alive, AtWork

LEMMA PullPostInv ==
  ASSUME Inv, NEW w \in Worker, PullPost(w)
  PROVE  Inv'
<1> DEFINE p == [pc EXCEPT ![w] = "run"]
<1>1. /\ pc[w] = "post" /\ v' = 1
      /\ \/ pc' = p
         \/ \E u \in Worker : p[u] = "sleep" /\ pc' = [p EXCEPT ![u] = "wait"]
      /\ UNCHANGED <<poolVars, queue, job, apc, mpc, todo>>
  BY DEF PullPost, BsemPost, Woken
<1>2. p \in [Worker -> WorkerPC]
  BY DEF Inv, Typed, WorkerPC
<1>3. Alive(p) = Alive(pc) /\ AtWork(p) = AtWork(pc)
  BY <1>1 DEF Inv, Typed, Alive, AtWork
<1>4. threads_keepalive => \A u \in Worker : p[u] \notin {"leave", "unlock", "gone"}
  BY DEF Inv, Typed, OpenWhileServing
<1> HIDE DEF p
<1>5. /\ v' = 1 /\ pc' \in [Worker -> WorkerPC]
      /\ Alive(pc') = Alive(p) /\ AtWork(pc') = AtWork(p)
      /\ \A u \in Worker : \/ pc'[u] = p[u]
                           \/ p[u] = "sleep" /\ pc'[u] = "wait"
  <2>1. CASE pc' = p
    BY <1>1, <1>2, <2>1
  <2>2. CASE \E u \in Worker : p[u] = "sleep" /\ pc' = [p EXCEPT ![u] = "wait"]
    <3>1. PICK u \in Worker : p[u] = "sleep" /\ pc' = [p EXCEPT ![u] = "wait"]
      BY <2>2
    <3>2. /\ pc' \in [Worker -> WorkerPC]
          /\ Alive(pc') = Alive(p) /\ AtWork(pc') = AtWork(p)
      BY <1>2, <3>1, WakeOne
    <3> QED
      BY <1>1, <1>2, <3>1, <3>2
  <2> QED
    BY <1>1, <2>1, <2>2
<1>6. Typed'
  BY <1>1, <1>5 DEF Inv, Typed, poolVars
<1>7. Counted'
  <2>1. Alive(pc)' = Alive(pc) /\ AtWork(pc)' = AtWork(pc)
    BY <1>3, <1>5 DEF Alive, AtWork
  <2> QED
    BY <1>1, <2>1 DEF Inv, Counted, poolVars
<1>8. OpenWhileServing'
  BY <1>1, <1>4, <1>5 DEF OpenWhileServing, poolVars
<1> QED
  BY <1>6, <1>7, <1>8 DEF Inv

LEMMA PushPostInv ==
  ASSUME Inv, NEW a \in Adder, PushPost(a)
  PROVE  Inv'
<1>1. /\ v' = 1
      /\ \/ pc' = pc
         \/ \E u \in Worker : pc[u] = "sleep" /\ pc' = [pc EXCEPT ![u] = "wait"]
      /\ apc' \in [Adder -> {"out", "post"}]
      /\ UNCHANGED <<poolVars, queue, job, mpc, todo>>
  BY DEF PushPost, BsemPost, Woken, Inv, Typed
<1>2. /\ v' = 1 /\ pc' \in [Worker -> WorkerPC]
      /\ Alive(pc') = Alive(pc) /\ AtWork(pc') = AtWork(pc)
      /\ \A u \in Worker : \/ pc'[u] = pc[u]
                           \/ pc[u] = "sleep" /\ pc'[u] = "wait"
  <2>1. pc \in [Worker -> WorkerPC]
    BY DEF Inv, Typed
  <2>2. CASE pc' = pc
    BY <1>1, <2>1, <2>2
  <2>3. CASE \E u \in Worker : pc[u] = "sleep" /\ pc' = [pc EXCEPT ![u] = "wait"]
    <3>1. PICK u \in Worker : pc[u] = "sleep" /\ pc' = [pc EXCEPT ![u] = "wait"]
      BY <2>3
    <3>2. /\ pc' \in [Worker -> WorkerPC]
          /\ Alive(pc') = Alive(pc) /\ AtWork(pc') = AtWork(pc)
      BY <2>1, <3>1, WakeOne
    <3> QED
      BY <1>1, <2>1, <3>1, <3>2
  <2> QED
    BY <1>1, <2>2, <2>3
<1>3. Typed'
  BY <1>1, <1>2 DEF Inv, Typed, poolVars
<1>4. Counted'
  <2>1. Alive(pc)' = Alive(pc) /\ AtWork(pc)' = AtWork(pc)
    BY <1>2 DEF Alive, AtWork
  <2> QED
    BY <1>1, <2>1 DEF Inv, Counted, poolVars
<1>5. OpenWhileServing'
  BY <1>1, <1>2 DEF Inv, OpenWhileServing, poolVars
<1> QED
  BY <1>3, <1>4, <1>5 DEF Inv

LEMMA SpuriousInv ==
  ASSUME Inv, Spurious
  PROVE  Inv'
<1>1. CASE \E w \in Worker : pc[w] = "sleep" /\ pc' = Woken(pc, w)
                             /\ UNCHANGED mpc
  <2>1. /\ pc' \in [Worker -> WorkerPC]
        /\ Alive(pc)' = Alive(pc) /\ AtWork(pc)' = AtWork(pc)
        /\ \A u \in Worker : pc'[u] = pc[u] \/ pc'[u] = "wait"
    BY <1>1 DEF Inv, Typed, Woken, WorkerPC, Alive, AtWork
  <2> QED
    BY <1>1, <2>1 DEF Spurious, poolVars, Inv, Typed, Counted, OpenWhileServing
<1>2. CASE mpc' = "wait" /\ UNCHANGED pc
  <2>1. Alive(pc)' = Alive(pc) /\ AtWork(pc)' = AtWork(pc)
    BY <1>2 DEF Alive, AtWork
  <2> QED
    BY <1>2, <2>1
    DEF Spurious, poolVars, Inv, Typed, Counted, OpenWhileServing, MainPC
<1> QED
  BY <1>1, <1>2 DEF Spurious

LEMMA WakeAllInv ==
  ASSUME Inv, WakeAll
  PROVE  Inv'
<1>1. /\ pc' \in [Worker -> WorkerPC] /\ v' = 1
      /\ \A u \in Worker : \/ pc'[u] = pc[u]
                           \/ pc[u] = "sleep" /\ pc'[u] = "wait"
  BY DEF Inv, Typed, WakeAll, BsemPostAll, WorkerPC
<1>2. Alive(pc)' = Alive(pc) /\ AtWork(pc)' = AtWork(pc)
  BY <1>1 DEF Inv, Typed, Alive, AtWork
<1> QED
  BY <1>1, <1>2 DEF WakeAll, poolVars, Inv, Typed, Counted, OpenWhileServing

LEMMA NextInv == Inv /\ [Next]_vars => Inv'
<1> SUFFICES ASSUME Inv, [Next]_vars PROVE Inv'
  OBVIOUS
<1>1. ASSUME NEW w \in Worker, thread_do(w) PROVE Inv'
  BY <1>1, WorkerUncounted, WorkerCounted, PullPostInv DEF thread_do
<1>2. ASSUME NEW a \in Adder, PushPost(a) PROVE Inv'
  BY <1>2, PushPostInv
<1>3. ASSUME UNCHANGED <<poolVars, v, pc, job>>,
             queue' \in Seq(Job), todo' \subseteq Job, mpc' \in MainPC,
             apc' \in [Adder -> {"out", "post"}]
      PROVE  Inv'
  <2>1. Alive(pc)' = Alive(pc) /\ AtWork(pc)' = AtWork(pc)
    BY <1>3 DEF Alive, AtWork
  <2> QED
    BY <1>3, <2>1 DEF Inv, Typed, Counted, OpenWhileServing, poolVars
<1>4. ASSUME NEW a \in Adder, jobqueue_push(a) PROVE Inv'
  <2>1. queue' \in Seq(Job) /\ todo' \subseteq Job
    BY <1>4, AppendProperties DEF jobqueue_push, Inv, Typed
  <2>2. apc' \in [Adder -> {"out", "post"}] /\ mpc' \in MainPC
    BY <1>4 DEF jobqueue_push, Inv, Typed
  <2>3. UNCHANGED <<poolVars, v, pc, job>>
    BY <1>4 DEF jobqueue_push
  <2> QED
    BY <1>3, <2>1, <2>2, <2>3
<1>5. CASE thpool_init \/ CallWait \/ TestLength \/ TestWorking
  <2>1. /\ UNCHANGED <<poolVars, v, pc, job>>
        /\ UNCHANGED <<queue, todo, apc>> /\ mpc' \in MainPC
    BY <1>5 DEF thpool_init, CallWait, TestLength, TestWorking, MainPC
  <2> QED
    BY <1>3, <2>1 DEF Inv, Typed
<1>6. CASE thpool_destroy
  <2>1. Alive(pc)' = Alive(pc) /\ AtWork(pc)' = AtWork(pc)
    BY <1>6 DEF thpool_destroy, Alive, AtWork
  <2> QED
    BY <1>6, <2>1
    DEF thpool_destroy, Inv, Typed, Counted, OpenWhileServing, MainPC
<1>7. CASE WakeAll
  BY <1>7, WakeAllInv
<1>8. CASE Free
  <2>1. Alive(pc)' = Alive(pc) /\ AtWork(pc)' = AtWork(pc)
    BY <1>8 DEF Free, Alive, AtWork
  <2>2. Typed'
    BY <1>8 DEF Free, poolVars, Inv, Typed, MainPC
  <2>3. Counted' /\ OpenWhileServing'
    BY <1>8, <2>1 DEF Free, poolVars, Inv, Counted, OpenWhileServing
  <2> QED
    BY <2>2, <2>3 DEF Inv
<1>9. CASE Spurious
  BY <1>9, SpuriousInv
<1>10. CASE UNCHANGED vars
  BY <1>10, <1>3 DEF vars, Inv, Typed
<1> QED
  BY <1>1, <1>2, <1>4, <1>5, <1>6, <1>7, <1>8, <1>9, <1>10 DEF Next, main

LEMMA InvAlways == Spec => []Inv
  BY InitInv, NextInv, PTL DEF Spec

(* Every variable of a pool keeps its type, and the counters never leave   *)
(* zero to the number of threads.                                          *)
THEOREM TypeCorrect == Spec => []TypeOK
  BY InvAlways, InvType, PTL

-----------------------------------------------------------------------------
(* No job is stranded. *)

LEMMA NextNoJobStranded ==
  Inv /\ NoJobStranded /\ [Next]_vars => NoJobStranded'
<1> SUFFICES ASSUME Inv, NoJobStranded, [Next]_vars,
                    threads_keepalive', queue' # <<>>
             PROVE  \/ ~QueueLockFree'
                    \/ \E w \in Worker : pc'[w] \in {"test", "count", "pull"}
                    \/ /\ v' = 1
                       /\ \E w \in Worker :
                            pc'[w] \notin {"sleep", "leave", "unlock", "gone"}
  BY DEF NoJobStranded
<1> DEFINE Pulling == \E w \in Worker : pc[w] \in {"test", "count", "pull"}
           Up == /\ v = 1
                 /\ \E w \in Worker : pc[w] \notin {"sleep", "leave", "unlock", "gone"}
<1>0. pc \in [Worker -> WorkerPC] /\ queue \in Seq(Job)
  BY DEF Inv, Typed
<1>1. ASSUME NEW w \in Worker, thread_do(w)
      PROVE  ~QueueLockFree' \/ Pulling' \/ Up'
  <2>0. /\ threads_keepalive
        /\ \A u \in Worker : pc[u] \notin {"leave", "unlock", "gone"}
    BY <1>1 DEF thread_do, Born, WhileKeepalive, bsem_wait, IfKeepalive, Count,
                jobqueue_pull, PullPost, Run, Uncount, Leave, Unlock, poolVars,
                Inv, OpenWhileServing
  <2>1. ASSUME pc[w] \notin {"test", "count", "pull", "post"}, UNCHANGED <<queue, apc, v>>,
               NEW to \in WorkerPC, to \notin {"sleep", "leave", "unlock", "gone"},
               pc' = [pc EXCEPT ![w] = to]
        PROVE  ~QueueLockFree' \/ Pulling' \/ Up'
    <3>1. ~QueueLockFree \/ Pulling \/ Up
      BY <2>0, <2>1 DEF NoJobStranded
    <3> QED
      BY <1>0, <2>1, <3>1 DEF QueueLockFree
  <2>2. CASE Born(w)
    BY <2>1, <2>2 DEF Born, Goes, WorkerPC
  <2>3. CASE WhileKeepalive(w)
    BY <2>0, <2>1, <2>3 DEF WhileKeepalive, Goes, WorkerPC
  <2>4. CASE bsem_wait(w)
    <3>1. CASE v = 1
      <4>1. pc' = [pc EXCEPT ![w] = "test"]
        BY <2>4, <3>1 DEF bsem_wait, Goes
      <4>2. pc'[w] = "test"
        BY <1>0, <4>1
      <4> QED
        BY <4>2
    <3>2. CASE v # 1
      <4>1. /\ pc' = [pc EXCEPT ![w] = "sleep"] /\ pc[w] = "wait"
            /\ UNCHANGED <<queue, apc>>
        BY <2>4, <3>2 DEF bsem_wait, Goes
      <4>2. ~QueueLockFree \/ Pulling
        BY <2>0, <3>2, <4>1 DEF NoJobStranded
      <4> QED
        BY <1>0, <4>1, <4>2 DEF QueueLockFree
    <3> QED
      BY <3>1, <3>2
  <2>5. CASE IfKeepalive(w)
    <3>1. pc'[w] = "count"
      BY <1>0, <2>0, <2>5 DEF IfKeepalive, Goes
    <3> QED
      BY <3>1
  <2>6. CASE Count(w)
    <3>1. pc'[w] = "pull"
      BY <1>0, <2>6 DEF Count, Goes
    <3> QED
      BY <3>1
  <2>7. CASE jobqueue_pull(w)
    <3>1. queue # <<>> /\ queue' = Tail(queue)
      BY <2>7 DEF jobqueue_pull
    <3>2. Len(queue') = Len(queue) - 1 /\ queue' \in Seq(Job)
      BY <1>0, <3>1, HeadTailProperties
    <3>3. Len(queue') # 0
      BY <3>2, EmptySeq
    <3>4. Len(queue) \in Nat /\ Len(queue) > 1
      BY <1>0, <3>1, <3>2, <3>3, HeadTailProperties
    <3>5. pc'[w] = "post"
      BY <1>0, <2>7, <3>1, <3>4 DEF jobqueue_pull, Goes
    <3> QED
      BY <3>5 DEF QueueLockFree
  <2>8. CASE PullPost(w)
    <3>1. /\ v' = 1
          /\ \/ pc' = [pc EXCEPT ![w] = "run"]
             \/ \E u \in Worker :
                  /\ [pc EXCEPT ![w] = "run"][u] = "sleep"
                  /\ pc' = [[pc EXCEPT ![w] = "run"] EXCEPT ![u] = "wait"]
      BY <2>8 DEF PullPost, BsemPost, Woken
    <3>2. pc'[w] \in {"run", "wait"}
      BY <1>0, <3>1
    <3> QED
      BY <3>1, <3>2
  <2>9. CASE Run(w)
    BY <2>1, <2>9 DEF Run, Goes, WorkerPC
  <2>10. CASE Uncount(w)
    BY <2>1, <2>10 DEF Uncount, Goes, WorkerPC
  <2>11. CASE Leave(w) \/ Unlock(w)
    BY <2>0, <2>11 DEF Leave, Unlock
  <2> QED
    BY <1>1, <2>2, <2>3, <2>4, <2>5, <2>6, <2>7, <2>8, <2>9, <2>10, <2>11
    DEF thread_do
<1>2. ASSUME NEW a \in Adder, jobqueue_push(a)
      PROVE  ~QueueLockFree'
  <2>1. apc'[a] = "post"
    BY <1>2 DEF jobqueue_push, Inv, Typed
  <2> QED
    BY <2>1 DEF QueueLockFree
<1>3. ASSUME NEW a \in Adder, PushPost(a)
      PROVE  Up'
  <2>1. /\ v' = 1 /\ threads_keepalive
        /\ \/ pc' = pc /\ \A u \in Worker : pc[u] # "sleep"
           \/ \E u \in Worker : pc[u] = "sleep" /\ pc' = [pc EXCEPT ![u] = "wait"]
    BY <1>3 DEF PushPost, BsemPost, Woken, poolVars
  <2>2. \A u \in Worker : pc[u] \notin {"leave", "unlock", "gone"}
    BY <2>1 DEF Inv, OpenWhileServing
  <2>3. \E u \in Worker : pc'[u] \notin {"sleep", "leave", "unlock", "gone"}
    <3>1. CASE pc' = pc /\ \A u \in Worker : pc[u] # "sleep"
      BY <2>2, <3>1, ThPoolAssumption
    <3>2. CASE \E u \in Worker : pc[u] = "sleep" /\ pc' = [pc EXCEPT ![u] = "wait"]
      <4>1. PICK u \in Worker : pc[u] = "sleep" /\ pc' = [pc EXCEPT ![u] = "wait"]
        BY <3>2
      <4>2. pc'[u] = "wait"
        BY <1>0, <4>1
      <4> QED
        BY <4>2
    <3> QED
      BY <2>1, <3>1, <3>2
  <2> QED
    BY <2>1, <2>3
<1>4. ASSUME UNCHANGED <<threads_keepalive, queue, v, pc, apc>>
      PROVE  ~QueueLockFree' \/ Pulling' \/ Up'
  BY <1>4 DEF NoJobStranded, QueueLockFree
<1>5. CASE thpool_init \/ CallWait \/ TestLength \/ TestWorking
  BY <1>4, <1>5 DEF thpool_init, CallWait, TestLength, TestWorking, poolVars
<1>6. CASE thpool_destroy
  BY <1>6 DEF thpool_destroy
<1>7. CASE WakeAll
  <2>1. /\ v' = 1 /\ threads_keepalive
        /\ pc' = [u \in Worker |-> IF pc[u] = "sleep" THEN "wait" ELSE pc[u]]
    BY <1>7 DEF WakeAll, BsemPostAll, poolVars
  <2>2. \A u \in Worker : pc'[u] \notin {"sleep", "leave", "unlock", "gone"}
    BY <2>1 DEF Inv, OpenWhileServing
  <2> QED
    BY <2>1, <2>2, ThPoolAssumption
<1>8. CASE Free
  BY <1>8 DEF Free
<1>9. CASE Spurious
  <2>1. CASE UNCHANGED pc
    BY <1>4, <1>9, <2>1 DEF Spurious, poolVars
  <2>2. CASE \E u \in Worker : pc[u] = "sleep" /\ pc' = [pc EXCEPT ![u] = "wait"]
    <3>1. PICK u \in Worker : pc[u] = "sleep" /\ pc' = [pc EXCEPT ![u] = "wait"]
      BY <2>2
    <3>2. UNCHANGED <<threads_keepalive, queue, v, apc>>
      BY <1>9 DEF Spurious, poolVars
    <3>3. ~QueueLockFree \/ Pulling \/ Up
      BY <3>2 DEF NoJobStranded
    <3> QED
      BY <1>0, <3>1, <3>2, <3>3 DEF QueueLockFree
  <2> QED
    BY <1>9, <2>1, <2>2 DEF Spurious, Woken
<1>10. CASE UNCHANGED vars
  BY <1>4, <1>10 DEF vars, poolVars
<1> QED
  BY <1>1, <1>2, <1>3, <1>5, <1>6, <1>7, <1>8, <1>9, <1>10 DEF Next, main

(* The binary semaphore strands no job: while a pool is open and jobs are  *)
(* queued, some thread is awake that will pull or post again.              *)
THEOREM NoJobStrandedCorrect == Spec => []NoJobStranded
<1>1. Init => NoJobStranded
  BY DEF Init, NoJobStranded
<1> QED
  BY <1>1, InvAlways, NextNoJobStranded, PTL DEF Spec

-----------------------------------------------------------------------------
(* thpool_wait. *)

LEMMA NextWaiterWillBeWoken ==
  Inv /\ WaiterWillBeWoken /\ [Next]_vars => WaiterWillBeWoken'
<1> SUFFICES ASSUME Inv, WaiterWillBeWoken, [Next]_vars, mpc' = "cond"
             PROVE  num_threads_working' # 0 \/ queue' # <<>>
  BY DEF WaiterWillBeWoken
<1>0. queue \in Seq(Job) /\ num_threads_working \in Nat
  BY CountersBounded DEF Inv, Typed, Counted
<1>1. ASSUME NEW w \in Worker, jobqueue_pull(w)
      PROVE  num_threads_working' # 0
  <2>1. w \in AtWork(pc)
    BY <1>1 DEF jobqueue_pull, AtWork
  <2>2. Cardinality(AtWork(pc)) # 0
    BY <2>1, CountersBounded, FS_EmptySet
  <2> QED
    BY <1>1, <2>2 DEF jobqueue_pull, poolVars, Inv, Counted
<1>2. ASSUME NEW w \in Worker, Count(w)
      PROVE  num_threads_working' # 0
  BY <1>0, <1>2 DEF Count
<1>3. ASSUME NEW w \in Worker, Uncount(w)
      PROVE  num_threads_working' # 0
  BY <1>3 DEF Uncount
<1>4. ASSUME UNCHANGED <<num_threads_working, queue, mpc>>
      PROVE  num_threads_working' # 0 \/ queue' # <<>>
  BY <1>4 DEF WaiterWillBeWoken
<1>5. ASSUME NEW w \in Worker,
             \/ Born(w) \/ WhileKeepalive(w) \/ bsem_wait(w) \/ IfKeepalive(w)
             \/ PullPost(w) \/ Run(w) \/ Leave(w) \/ Unlock(w)
      PROVE  num_threads_working' # 0 \/ queue' # <<>>
  BY <1>4, <1>5 DEF Born, WhileKeepalive, bsem_wait, IfKeepalive, PullPost, Run,
                    Leave, Unlock, poolVars
<1>6. ASSUME NEW a \in Adder, jobqueue_push(a)
      PROVE  queue' # <<>>
  BY <1>0, <1>6, AppendProperties DEF jobqueue_push
<1>7. ASSUME NEW a \in Adder, PushPost(a)
      PROVE  num_threads_working' # 0 \/ queue' # <<>>
  BY <1>4, <1>7 DEF PushPost, poolVars
<1>8. CASE TestLength
  BY <1>8 DEF TestLength, poolVars
<1>9. CASE TestWorking
  BY <1>9 DEF TestWorking, poolVars
<1>10. CASE thpool_init \/ CallWait \/ thpool_destroy \/ WakeAll \/ Free
  BY <1>4, <1>10 DEF thpool_init, CallWait, thpool_destroy, WakeAll, Free, poolVars
<1>11. CASE Spurious
  BY <1>4, <1>11 DEF Spurious, poolVars
<1>12. CASE UNCHANGED vars
  BY <1>4, <1>12 DEF vars, poolVars
<1> QED
  BY <1>1, <1>2, <1>3, <1>5, <1>6, <1>7, <1>8, <1>9, <1>10, <1>11, <1>12
  DEF Next, thread_do, main

(* thpool_wait never sleeps when no signal is to come: then a thread is at *)
(* work, and the last one signals, or a job is queued.                     *)
THEOREM WaiterWillBeWokenCorrect == Spec => []WaiterWillBeWoken
<1>1. Init => WaiterWillBeWoken
  BY DEF Init, WaiterWillBeWoken
<1> QED
  BY <1>1, InvAlways, NextWaiterWillBeWoken, PTL DEF Spec

-----------------------------------------------------------------------------
(* The refinement of JobPool.  A job is running from the pull to its end,  *)
(* whether or not the pull has still to post the semaphore.                *)

Busy(p) == {w \in Worker : p[w] \in {"post", "run"}}

Running(p, j) == {j[w] : w \in Busy(p)}

Waiter(m, working) ==
  CASE m \in {"wait", "cond"} -> "in"
    [] m = "second" -> IF working = 0 THEN "idle" ELSE "in"
    [] OTHER -> "out"

(* A job is in one place: still to be added, once in the queue, or with    *)
(* one thread.                                                             *)
OnePlace ==
  /\ \A w \in Busy(pc) : job[w] \in Job \ todo
  /\ \A w, u \in Busy(pc) : job[w] = job[u] => w = u
  /\ \A i \in 1 .. Len(queue) :
       /\ queue[i] \notin todo
       /\ \A w \in Busy(pc) : queue[i] # job[w]
  /\ \A i, k \in 1 .. Len(queue) : queue[i] = queue[k] => i = k

ClosedBeforeDestroy == mpc \in {"destroy", "freed"} => ~threads_keepalive

JobInv == OnePlace /\ ClosedBeforeDestroy

LEMMA InitJobInv == Init => JobInv
<1> SUFFICES ASSUME Init PROVE JobInv
  OBVIOUS
<1>1. Busy(pc) = {} /\ queue = <<>> /\ mpc = "init"
  BY DEF Init, Busy
<1>2. Len(queue) = 0
  BY <1>1
<1> QED
  BY <1>1, <1>2 DEF JobInv, OnePlace, ClosedBeforeDestroy

(* Steps that neither move a job nor start or end one. *)
LEMMA JobsStay ==
  ASSUME JobInv, Busy(pc') = Busy(pc), UNCHANGED <<queue, job, todo>>
  PROVE  OnePlace'
<1>1. Busy(pc)' = Busy(pc)
  BY DEF Busy
<1> QED
  BY <1>1 DEF JobInv, OnePlace

(* ... among them every step that moves a sleeping thread, or a thread     *)
(* between two places outside its job.                                     *)
LEMMA BusyStays ==
  ASSUME NEW p \in [Worker -> WorkerPC], NEW w \in Worker, NEW to,
         w \in Busy(p) <=> to \in {"post", "run"}
  PROVE  Busy([p EXCEPT ![w] = to]) = Busy(p)
  BY DEF Busy

LEMMA PostBusy ==
  ASSUME NEW p \in [Worker -> WorkerPC], BsemPost(p)
  PROVE  Busy(pc') = Busy(p)
<1>1. CASE pc' = p
  BY <1>1
<1>2. CASE \E w \in Worker : p[w] = "sleep" /\ pc' = [p EXCEPT ![w] = "wait"]
  BY <1>2, BusyStays DEF Busy
<1> QED
  BY <1>1, <1>2 DEF BsemPost, Woken

(* The steps of a pool thread outside pull and the end of a job. *)
LEMMA WorkerJobsStay ==
  ASSUME Inv, NEW w \in Worker,
         \/ Born(w) \/ WhileKeepalive(w) \/ bsem_wait(w) \/ IfKeepalive(w)
         \/ Count(w) \/ PullPost(w) \/ Uncount(w) \/ Leave(w) \/ Unlock(w)
  PROVE  Busy(pc') = Busy(pc) /\ UNCHANGED <<queue, job, todo, threads_keepalive>>
<1>0. pc \in [Worker -> WorkerPC]
  BY DEF Inv, Typed
<1>1. UNCHANGED <<queue, job, todo, threads_keepalive>>
  BY DEF Born, WhileKeepalive, bsem_wait, IfKeepalive, Count, PullPost, Uncount,
         Leave, Unlock, poolVars
<1>2. CASE PullPost(w)
  <2>1. Busy([pc EXCEPT ![w] = "run"]) = Busy(pc)
    BY <1>0, <1>2, BusyStays DEF PullPost, Busy
  <2>2. [pc EXCEPT ![w] = "run"] \in [Worker -> WorkerPC]
    BY <1>0 DEF WorkerPC
  <2>3. BsemPost([pc EXCEPT ![w] = "run"])
    BY <1>2 DEF PullPost
  <2> QED
    BY <1>1, <2>1, <2>2, <2>3, PostBusy
<1>3. CASE \/ Born(w) \/ WhileKeepalive(w) \/ bsem_wait(w) \/ IfKeepalive(w)
           \/ Count(w) \/ Uncount(w) \/ Leave(w) \/ Unlock(w)
  <2>1. PICK to \in WorkerPC \ {"post", "run"} :
          pc' = [pc EXCEPT ![w] = to] /\ pc[w] \notin {"post", "run"}
    BY <1>3 DEF Born, WhileKeepalive, bsem_wait, IfKeepalive, Count, Uncount,
                Leave, Unlock, Goes, WorkerPC
  <2>2. Busy(pc') = Busy(pc)
    BY <1>0, <2>1, BusyStays DEF Busy
  <2> QED
    BY <1>1, <2>2
<1> QED
  BY <1>2, <1>3

(* The first job goes from the queue to the thread. *)
LEMMA PullMovesJob ==
  ASSUME Inv, JobInv, NEW w \in Worker, jobqueue_pull(w), queue # <<>>
  PROVE  /\ w \notin Busy(pc) /\ Busy(pc') = Busy(pc) \cup {w}
         /\ job' = [job EXCEPT ![w] = Head(queue)]
         /\ Head(queue) \in Job /\ Head(queue) = queue[1]
         /\ queue' = Tail(queue) /\ Len(queue') = Len(queue) - 1
         /\ Len(queue) \in Nat \ {0}
         /\ \A i \in 1 .. Len(queue') : queue'[i] = queue[i + 1]
<1>0. pc \in [Worker -> WorkerPC] /\ queue \in Seq(Job)
  BY DEF Inv, Typed
<1>1. /\ pc[w] = "pull"
      /\ pc' = [pc EXCEPT ![w] = "post"] \/ pc' = [pc EXCEPT ![w] = "run"]
      /\ job' = [job EXCEPT ![w] = Head(queue)] /\ queue' = Tail(queue)
  BY DEF jobqueue_pull, Goes
<1>2. w \notin Busy(pc) /\ Busy(pc') = Busy(pc) \cup {w}
  BY <1>0, <1>1 DEF Busy
<1>3. /\ Head(queue) \in Job /\ Head(queue) = queue[1]
      /\ Len(queue') = Len(queue) - 1
      /\ \A i \in 1 .. Len(queue') : queue'[i] = queue[i + 1]
  BY <1>0, <1>1, HeadTailProperties
<1>4. Len(queue) \in Nat \ {0}
  BY <1>0, EmptySeq, LenProperties
<1> QED
  BY <1>1, <1>2, <1>3, <1>4

LEMMA PullJobInv ==
  ASSUME Inv, JobInv, NEW w \in Worker, jobqueue_pull(w)
  PROVE  OnePlace'
<1>0. pc \in [Worker -> WorkerPC] /\ job \in [Worker -> Job \cup {NoJob}]
  BY DEF Inv, Typed
<1>1. CASE queue = <<>>
  <2>1. /\ pc' = [pc EXCEPT ![w] = "uncount"] /\ pc[w] = "pull"
        /\ UNCHANGED <<queue, job, todo>>
    BY <1>1 DEF jobqueue_pull, Goes
  <2>2. Busy(pc') = Busy(pc)
    BY <1>0, <2>1, BusyStays DEF Busy
  <2> QED
    BY <2>1, <2>2, JobsStay
<1>2. CASE queue # <<>>
  <2>1. /\ w \notin Busy(pc) /\ Busy(pc') = Busy(pc) \cup {w}
        /\ job' = [job EXCEPT ![w] = Head(queue)]
        /\ Head(queue) \in Job /\ Head(queue) = queue[1]
        /\ Len(queue') = Len(queue) - 1 /\ Len(queue) \in Nat \ {0}
        /\ \A i \in 1 .. Len(queue') : queue'[i] = queue[i + 1]
    BY <1>2, PullMovesJob
  <2>2. todo' = todo
    BY DEF jobqueue_pull
  <2>3. job'[w] = queue[1] /\ \A u \in Busy(pc) : job'[u] = job[u]
    BY <1>0, <2>1 DEF Busy
  <2>4. \A i \in 1 .. Len(queue') : i + 1 \in 1 .. Len(queue) /\ i + 1 # 1
    BY <2>1
  <2>5. 1 \in 1 .. Len(queue)
    BY <2>1
  <2>6. \A i, k \in 1 .. Len(queue') : i + 1 = k + 1 => i = k
    BY <2>1
  <2>7. Busy(pc)' = Busy(pc) \cup {w}
    BY <2>1 DEF Busy
  <2>8. \A u \in Busy(pc)' : job'[u] \in Job \ todo'
    BY <2>1, <2>2, <2>3, <2>5, <2>7 DEF JobInv, OnePlace
  <2>9. \A t, u \in Busy(pc)' : job'[t] = job'[u] => t = u
    BY <2>3, <2>5, <2>7 DEF JobInv, OnePlace
  <2>10. \A i \in 1 .. Len(queue') :
           /\ queue'[i] \notin todo'
           /\ \A u \in Busy(pc)' : queue'[i] # job'[u]
    BY <2>1, <2>2, <2>3, <2>4, <2>5, <2>7 DEF JobInv, OnePlace
  <2>11. \A i, k \in 1 .. Len(queue') : queue'[i] = queue'[k] => i = k
    BY <2>1, <2>4, <2>6 DEF JobInv, OnePlace
  <2> QED
    BY <2>8, <2>9, <2>10, <2>11 DEF OnePlace
<1> QED
  BY <1>1, <1>2

LEMMA RunEndsJob ==
  ASSUME Inv, NEW w \in Worker, Run(w)
  PROVE  /\ w \in Busy(pc) /\ Busy(pc') = Busy(pc) \ {w}
         /\ \A u \in Busy(pc') : job'[u] = job[u]
         /\ UNCHANGED <<queue, todo, threads_keepalive, mpc, num_threads_working>>
  BY DEF Run, Goes, Busy, Inv, Typed, poolVars

LEMMA PushAddsJob ==
  ASSUME Inv, JobInv, NEW a \in Adder, jobqueue_push(a)
  PROVE  OnePlace'
<1>0. queue \in Seq(Job) /\ todo \subseteq Job /\ Len(queue) \in Nat
  BY LenProperties DEF Inv, Typed
<1>1. PICK j \in todo : todo' = todo \ {j} /\ queue' = Append(queue, j)
  BY DEF jobqueue_push
<1>2. Busy(pc)' = Busy(pc) /\ job' = job
  BY DEF jobqueue_push, Busy
<1>3. /\ Len(queue') = Len(queue) + 1 /\ queue'[Len(queue) + 1] = j
      /\ \A i \in 1 .. Len(queue) : queue'[i] = queue[i]
  BY <1>0, <1>1, AppendProperties
<1>4. \A i \in 1 .. Len(queue') : i \in 1 .. Len(queue) \/ i = Len(queue) + 1
  BY <1>0, <1>3
<1>5. \A w \in Busy(pc) : job[w] # j
  BY DEF JobInv, OnePlace
<1>6. \A i \in 1 .. Len(queue) : queue[i] # j
  BY DEF JobInv, OnePlace
<1>7. \A i \in 1 .. Len(queue') :
        /\ queue'[i] \notin todo'
        /\ \A w \in Busy(pc)' : queue'[i] # job'[w]
  BY <1>1, <1>2, <1>3, <1>4, <1>5 DEF JobInv, OnePlace
<1>8. \A i, k \in 1 .. Len(queue') : queue'[i] = queue'[k] => i = k
  BY <1>3, <1>4, <1>6 DEF JobInv, OnePlace
<1>9. /\ \A w \in Busy(pc)' : job'[w] \in Job \ todo'
      /\ \A w, u \in Busy(pc)' : job'[w] = job'[u] => w = u
  BY <1>1, <1>2 DEF JobInv, OnePlace
<1> QED
  BY <1>7, <1>8, <1>9 DEF OnePlace

LEMMA NextJobInv == Inv /\ JobInv /\ [Next]_vars => JobInv'
<1> SUFFICES ASSUME Inv, JobInv, [Next]_vars PROVE OnePlace' /\ ClosedBeforeDestroy'
  BY DEF JobInv
<1>0. pc \in [Worker -> WorkerPC]
  BY DEF Inv, Typed
<1>1. ASSUME NEW w \in Worker, thread_do(w) PROVE OnePlace' /\ ClosedBeforeDestroy'
  <2>1. /\ threads_keepalive' = threads_keepalive
        /\ mpc' = mpc \/ mpc' = "wait"
    BY <1>1 DEF thread_do, Born, WhileKeepalive, bsem_wait, IfKeepalive, Count,
                jobqueue_pull, PullPost, Run, Uncount, Leave, Unlock, poolVars
  <2>2. ClosedBeforeDestroy'
    BY <2>1 DEF JobInv, ClosedBeforeDestroy
  <2>3. CASE jobqueue_pull(w)
    BY <2>2, <2>3, PullJobInv
  <2>4. CASE Run(w)
    <3>1. /\ w \in Busy(pc) /\ Busy(pc') = Busy(pc) \ {w}
          /\ \A u \in Busy(pc') : job'[u] = job[u]
          /\ UNCHANGED <<queue, todo>>
      BY <2>4, RunEndsJob
    <3>2. Busy(pc)' = Busy(pc')
      BY DEF Busy
    <3>3. OnePlace'
      BY <3>1, <3>2 DEF JobInv, OnePlace
    <3> QED
      BY <2>2, <3>3
  <2>5. CASE ~jobqueue_pull(w) /\ ~Run(w)
    BY <1>1, <2>2, <2>5, WorkerJobsStay, JobsStay DEF thread_do
  <2> QED
    BY <2>3, <2>4, <2>5
<1>2. ASSUME NEW a \in Adder, jobqueue_push(a) PROVE OnePlace' /\ ClosedBeforeDestroy'
  BY <1>2, PushAddsJob DEF jobqueue_push, poolVars, JobInv, ClosedBeforeDestroy
<1>3. ASSUME NEW a \in Adder, PushPost(a) PROVE OnePlace' /\ ClosedBeforeDestroy'
  <2>1. Busy(pc') = Busy(pc) /\ UNCHANGED <<queue, job, todo>>
    BY <1>0, <1>3, PostBusy DEF PushPost
  <2> QED
    BY <1>3, <2>1, JobsStay DEF PushPost, poolVars, JobInv, ClosedBeforeDestroy
<1>4. CASE thpool_init \/ CallWait \/ TestLength \/ TestWorking
  <2>1. Busy(pc') = Busy(pc) /\ UNCHANGED <<queue, job, todo>>
    BY <1>4 DEF thpool_init, CallWait, TestLength, TestWorking
  <2>2. mpc' \notin {"destroy", "freed"}
    BY <1>4 DEF thpool_init, CallWait, TestLength, TestWorking
  <2> QED
    BY <2>1, <2>2, JobsStay DEF ClosedBeforeDestroy
<1>5. CASE thpool_destroy
  <2>1. Busy(pc') = Busy(pc) /\ UNCHANGED <<queue, job, todo>> /\ ~threads_keepalive'
    BY <1>5 DEF thpool_destroy
  <2> QED
    BY <2>1, JobsStay DEF ClosedBeforeDestroy
<1>6. CASE WakeAll
  <2>1. Busy(pc') = Busy(pc) /\ UNCHANGED <<queue, job, todo>>
    BY <1>0, <1>6 DEF WakeAll, BsemPostAll, Busy
  <2> QED
    BY <1>6, <2>1, JobsStay DEF WakeAll, poolVars, JobInv, ClosedBeforeDestroy
<1>7. CASE Free
  <2>1. Len(queue') = 0 /\ Busy(pc)' = Busy(pc) /\ UNCHANGED <<job, todo>>
    BY <1>7 DEF Free, Busy
  <2>2. OnePlace'
    BY <2>1 DEF JobInv, OnePlace
  <2> QED
    BY <1>7, <2>2 DEF Free, poolVars, JobInv, ClosedBeforeDestroy
<1>8. CASE Spurious
  <2>1. Busy(pc') = Busy(pc) /\ UNCHANGED <<queue, job, todo, threads_keepalive>>
    BY <1>0, <1>8, BusyStays DEF Spurious, Woken, Busy, poolVars
  <2>2. mpc' = mpc \/ mpc' = "wait"
    BY <1>8 DEF Spurious
  <2> QED
    BY <2>1, <2>2, JobsStay DEF JobInv, ClosedBeforeDestroy
<1>9. CASE UNCHANGED vars
  <2>1. Busy(pc') = Busy(pc)
    BY <1>9 DEF vars
  <2> QED
    BY <1>9, <2>1, JobsStay DEF vars, poolVars, JobInv, ClosedBeforeDestroy
<1> QED
  BY <1>1, <1>2, <1>3, <1>4, <1>5, <1>6, <1>7, <1>8, <1>9 DEF Next, main

(* JobPool counts with its own copy of the library's operator. *)
LEMMA SameCardinality == \A S : Jobs!Cardinality(S) = Cardinality(S)
  BY Zenon DEF Jobs!Cardinality, Cardinality

(* What an abstract step or stutter is, in the variables of ThPool. *)
LEMMA JobStepMaps ==
  ASSUME \/ \E j \in todo \cap Job :  \* Add
              /\ threads_keepalive
              /\ todo' = todo \ {j} /\ queue' = Append(queue, j)
              /\ Running(pc', job') = Running(pc, job)
              /\ Waiter(mpc', num_threads_working') = Waiter(mpc, num_threads_working)
              /\ UNCHANGED threads_keepalive
         \/ \E j \in Running(pc, job) \cap Job :  \* Finish
              /\ Running(pc', job') = Running(pc, job) \ {j}
              /\ Waiter(mpc', num_threads_working') = Waiter(mpc, num_threads_working)
              /\ UNCHANGED <<todo, queue, threads_keepalive>>
         \/ /\ queue # <<>>  \* Start
            /\ Cardinality(Running(pc, job)) < Cardinality(Worker)
            /\ Running(pc', job') = Running(pc, job) \cup {Head(queue)}
            /\ queue' = Tail(queue)
            /\ Waiter(mpc', num_threads_working') = Waiter(mpc, num_threads_working)
            /\ UNCHANGED <<todo, threads_keepalive>>
         \/ /\ \/ /\ threads_keepalive  \* CallWait
                  /\ Waiter(mpc, num_threads_working) = "out"
                  /\ Waiter(mpc', num_threads_working') = "in"
               \/ /\ Waiter(mpc, num_threads_working) = "in"  \* SeeIdle
                  /\ queue = <<>> /\ Running(pc, job) = {}
                  /\ Waiter(mpc', num_threads_working') = "idle"
               \/ /\ Waiter(mpc, num_threads_working) = "idle"  \* Return
                  /\ Waiter(mpc', num_threads_working') = "out"
            /\ Running(pc', job') = Running(pc, job)
            /\ UNCHANGED <<todo, queue, threads_keepalive>>
         \/ /\ threads_keepalive /\ threads_keepalive' = FALSE  \* Close
            /\ Waiter(mpc, num_threads_working) = "out"
            /\ Waiter(mpc', num_threads_working') = "out"
            /\ Running(pc', job') = Running(pc, job)
            /\ UNCHANGED <<todo, queue>>
         \/ /\ ~threads_keepalive /\ Running(pc, job) = {}  \* Drop
            /\ queue' = <<>>
            /\ Running(pc', job') = Running(pc, job)
            /\ Waiter(mpc', num_threads_working') = Waiter(mpc, num_threads_working)
            /\ UNCHANGED <<todo, threads_keepalive>>
         \/ /\ Running(pc', job') = Running(pc, job)
            /\ Waiter(mpc', num_threads_working') = Waiter(mpc, num_threads_working)
            /\ UNCHANGED <<todo, queue, threads_keepalive>>
  PROVE  [Jobs!Next]_Jobs!vars
<1> USE DEF Jobs!Next, Jobs!vars, Running, Busy, Waiter
<1>1. CASE \E j \in todo \cap Job :
              /\ threads_keepalive
              /\ todo' = todo \ {j} /\ queue' = Append(queue, j)
              /\ Running(pc', job') = Running(pc, job)
              /\ Waiter(mpc', num_threads_working') = Waiter(mpc, num_threads_working)
              /\ UNCHANGED threads_keepalive
  BY <1>1 DEF Jobs!Add
<1>2. CASE \E j \in Running(pc, job) \cap Job :
              /\ Running(pc', job') = Running(pc, job) \ {j}
              /\ Waiter(mpc', num_threads_working') = Waiter(mpc, num_threads_working)
              /\ UNCHANGED <<todo, queue, threads_keepalive>>
  BY <1>2 DEF Jobs!Finish
<1>3. CASE /\ queue # <<>>
           /\ Cardinality(Running(pc, job)) < Cardinality(Worker)
           /\ Running(pc', job') = Running(pc, job) \cup {Head(queue)}
           /\ queue' = Tail(queue)
           /\ Waiter(mpc', num_threads_working') = Waiter(mpc, num_threads_working)
           /\ UNCHANGED <<todo, threads_keepalive>>
  BY <1>3, SameCardinality DEF Jobs!Start
<1>4. CASE /\ \/ /\ threads_keepalive
                 /\ Waiter(mpc, num_threads_working) = "out"
                 /\ Waiter(mpc', num_threads_working') = "in"
              \/ /\ Waiter(mpc, num_threads_working) = "in"
                 /\ queue = <<>> /\ Running(pc, job) = {}
                 /\ Waiter(mpc', num_threads_working') = "idle"
              \/ /\ Waiter(mpc, num_threads_working) = "idle"
                 /\ Waiter(mpc', num_threads_working') = "out"
           /\ Running(pc', job') = Running(pc, job)
           /\ UNCHANGED <<todo, queue, threads_keepalive>>
  BY <1>4 DEF Jobs!CallWait, Jobs!SeeIdle, Jobs!Return
<1>5. CASE /\ threads_keepalive /\ threads_keepalive' = FALSE
           /\ Waiter(mpc, num_threads_working) = "out"
           /\ Waiter(mpc', num_threads_working') = "out"
           /\ Running(pc', job') = Running(pc, job)
           /\ UNCHANGED <<todo, queue>>
  BY <1>5 DEF Jobs!Close
<1>6. CASE /\ ~threads_keepalive /\ Running(pc, job) = {}
           /\ queue' = <<>>
           /\ Running(pc', job') = Running(pc, job)
           /\ Waiter(mpc', num_threads_working') = Waiter(mpc, num_threads_working)
           /\ UNCHANGED <<todo, threads_keepalive>>
  BY <1>6 DEF Jobs!Drop
<1>7. CASE /\ Running(pc', job') = Running(pc, job)
           /\ Waiter(mpc', num_threads_working') = Waiter(mpc, num_threads_working)
           /\ UNCHANGED <<todo, queue, threads_keepalive>>
  BY <1>7
<1> QED
  BY <1>1, <1>2, <1>3, <1>4, <1>5, <1>6, <1>7

(* A step that leaves main at its place, or moves it within thpool_wait,   *)
(* leaves what its caller sees of it. *)
LEMMA WaiterStays ==
  ASSUME \/ mpc' = mpc
         \/ mpc = "cond" /\ mpc' = "wait",
         mpc = "second" => num_threads_working' = num_threads_working
  PROVE  Waiter(mpc', num_threads_working') = Waiter(mpc, num_threads_working)
  BY DEF Waiter

LEMMA RunningStays ==
  ASSUME Busy(pc') = Busy(pc), UNCHANGED job
  PROVE  Running(pc', job') = Running(pc, job)
  BY DEF Running

(* A thread that is not busy leaves room for its job. *)
LEMMA RoomToStart ==
  ASSUME NEW w \in Worker, w \notin Busy(pc)
  PROVE  Cardinality(Running(pc, job)) < Cardinality(Worker)
<1>1. Busy(pc) \subseteq Worker \ {w}
  BY DEF Busy
<1>2. /\ IsFiniteSet(Worker \ {w})
      /\ Cardinality(Worker \ {w}) = Cardinality(Worker) - 1
      /\ Cardinality(Worker) \in Nat
  BY ThPoolAssumption, FS_RemoveElement, FS_CardinalityType
<1>3. /\ IsFiniteSet(Busy(pc)) /\ Cardinality(Busy(pc)) \in Nat
      /\ Cardinality(Busy(pc)) <= Cardinality(Worker \ {w})
  BY <1>1, <1>2, FS_Subset, FS_CardinalityType
<1> DEFINE f == [u \in Busy(pc) |-> job[u]]
<1>4. f \in Surjection(Busy(pc), Running(pc, job))
  BY DEF Running, Surjection
<1>5. /\ IsFiniteSet(Running(pc, job))
      /\ Cardinality(Running(pc, job)) <= Cardinality(Busy(pc))
  <2> HIDE DEF f
  <2> QED
    BY <1>3, <1>4, FS_Surjection
<1>6. Cardinality(Running(pc, job)) \in Nat
  BY <1>5, FS_CardinalityType
<1> QED
  BY <1>2, <1>3, <1>5, <1>6

(* No counted thread is busy when the counters are zero. *)
LEMMA NoneRunning ==
  ASSUME Inv, num_threads_working = 0 \/ num_threads_alive = 0
  PROVE  Running(pc, job) = {}
<1>1. Busy(pc) \subseteq AtWork(pc) /\ Busy(pc) \subseteq Alive(pc)
  BY DEF Busy, AtWork, Alive
<1>2. AtWork(pc) = {} \/ Alive(pc) = {}
  BY CountersBounded, FS_EmptySet DEF Inv, Counted
<1> QED
  BY <1>1, <1>2 DEF Running

LEMMA WorkerRefines ==
  ASSUME Inv, JobInv, NEW w \in Worker, thread_do(w)
  PROVE  [Jobs!Next]_Jobs!vars
<1>1. /\ UNCHANGED <<todo, threads_keepalive>>
      /\ mpc' = mpc \/ (mpc = "cond" /\ mpc' = "wait")
      /\ mpc = "second" => num_threads_working' = num_threads_working
  BY DEF thread_do, Born, WhileKeepalive, bsem_wait, IfKeepalive, Count,
         jobqueue_pull, PullPost, Run, Uncount, Leave, Unlock, poolVars,
         CountLockFree
<1>2. Waiter(mpc', num_threads_working') = Waiter(mpc, num_threads_working)
  BY <1>1, WaiterStays
<1>3. CASE jobqueue_pull(w)
  <2>1. CASE queue = <<>>
    <3>1. /\ pc' = [pc EXCEPT ![w] = "uncount"] /\ pc[w] = "pull"
          /\ UNCHANGED <<queue, job>>
      BY <1>3, <2>1 DEF jobqueue_pull, Goes
    <3>2. Busy(pc') = Busy(pc)
      BY <3>1, BusyStays DEF Busy, Inv, Typed
    <3> QED
      BY <1>1, <1>2, <3>1, <3>2, RunningStays, JobStepMaps
  <2>2. CASE queue # <<>>
    <3>1. /\ w \notin Busy(pc) /\ Busy(pc') = Busy(pc) \cup {w}
          /\ job' = [job EXCEPT ![w] = Head(queue)]
          /\ queue' = Tail(queue)
      BY <1>3, <2>2, PullMovesJob
    <3>2. job'[w] = Head(queue) /\ \A u \in Busy(pc) : job'[u] = job[u]
      BY <3>1 DEF Busy, Inv, Typed
    <3>3. Running(pc', job') = Running(pc, job) \cup {Head(queue)}
      BY <3>1, <3>2 DEF Running
    <3>4. Cardinality(Running(pc, job)) < Cardinality(Worker)
      BY <3>1, RoomToStart
    <3> QED
      BY <1>1, <1>2, <2>2, <3>1, <3>3, <3>4, JobStepMaps
  <2> QED
    BY <2>1, <2>2
<1>4. CASE Run(w)
  <2>1. /\ w \in Busy(pc) /\ Busy(pc') = Busy(pc) \ {w}
        /\ \A u \in Busy(pc') : job'[u] = job[u]
        /\ UNCHANGED queue
    BY <1>4, RunEndsJob
  <2>2. /\ job[w] \in Job
        /\ \A u \in Busy(pc) : job[u] = job[w] => u = w
    BY <2>1 DEF JobInv, OnePlace
  <2>3. Running(pc', job') = Running(pc, job) \ {job[w]}
    BY <2>1, <2>2 DEF Running
  <2>4. job[w] \in Running(pc, job) \cap Job
    BY <2>1, <2>2 DEF Running
  <2> QED
    BY <1>1, <1>2, <2>1, <2>3, <2>4, JobStepMaps
<1>5. CASE ~jobqueue_pull(w) /\ ~Run(w)
  <2>1. Busy(pc') = Busy(pc) /\ UNCHANGED <<queue, job>>
    BY <1>5, WorkerJobsStay DEF thread_do
  <2> QED
    BY <1>1, <1>2, <2>1, RunningStays, JobStepMaps
<1> QED
  BY <1>3, <1>4, <1>5

LEMMA MainRefines ==
  ASSUME Inv, JobInv, main \/ CallWait \/ thpool_destroy
  PROVE  [Jobs!Next]_Jobs!vars
<1>1. CASE thpool_init
  <2>1. /\ UNCHANGED <<pc, job, queue, todo, threads_keepalive>>
        /\ mpc = "init" /\ mpc' = "use"
    BY <1>1 DEF thpool_init, poolVars
  <2>2. Waiter(mpc', num_threads_working') = Waiter(mpc, num_threads_working)
    BY <2>1 DEF Waiter
  <2> QED
    BY <2>1, <2>2, RunningStays, JobStepMaps
<1>2. CASE CallWait
  <2>1. /\ UNCHANGED <<pc, job, queue, todo, threads_keepalive>>
        /\ mpc = "use" /\ mpc' = "wait" /\ threads_keepalive
    BY <1>2 DEF CallWait, poolVars
  <2>2. /\ Waiter(mpc, num_threads_working) = "out"
        /\ Waiter(mpc', num_threads_working') = "in"
    BY <2>1 DEF Waiter
  <2> QED
    BY <2>1, <2>2, RunningStays, JobStepMaps
<1>3. CASE TestLength
  <2>1. /\ UNCHANGED <<pc, job, queue, todo, threads_keepalive, num_threads_working>>
        /\ mpc = "wait" /\ mpc' = IF queue = <<>> THEN "second" ELSE "cond"
    BY <1>3 DEF TestLength, poolVars
  <2>2. Waiter(mpc, num_threads_working) = "in" /\ Running(pc', job') = Running(pc, job)
    BY <2>1, RunningStays DEF Waiter
  <2>3. CASE queue = <<>> /\ num_threads_working = 0
    <3>1. Waiter(mpc', num_threads_working') = "idle"
      BY <2>1, <2>3 DEF Waiter
    <3>2. Running(pc, job) = {}
      BY <2>3, NoneRunning
    <3> QED
      BY <2>1, <2>2, <2>3, <3>1, <3>2, JobStepMaps
  <2>4. CASE ~(queue = <<>> /\ num_threads_working = 0)
    <3>1. Waiter(mpc', num_threads_working') = "in"
      BY <2>1, <2>4 DEF Waiter
    <3> QED
      BY <2>1, <2>2, <3>1, JobStepMaps
  <2> QED
    BY <2>3, <2>4
<1>4. CASE TestWorking
  <2>1. /\ UNCHANGED <<pc, job, queue, todo, threads_keepalive, num_threads_working>>
        /\ mpc = "second"
        /\ mpc' = IF num_threads_working = 0 THEN "use" ELSE "cond"
    BY <1>4 DEF TestWorking, poolVars
  <2>2. Running(pc', job') = Running(pc, job)
    BY <2>1, RunningStays
  <2>3. CASE num_threads_working = 0
    <3>1. /\ Waiter(mpc, num_threads_working) = "idle"
          /\ Waiter(mpc', num_threads_working') = "out"
      BY <2>1, <2>3 DEF Waiter
    <3> QED
      BY <2>1, <2>2, <3>1, JobStepMaps
  <2>4. CASE num_threads_working # 0
    <3>1. Waiter(mpc', num_threads_working') = Waiter(mpc, num_threads_working)
      BY <2>1, <2>4 DEF Waiter
    <3> QED
      BY <2>1, <2>2, <3>1, JobStepMaps
  <2> QED
    BY <2>3, <2>4
<1>5. CASE WakeAll
  <2>1. /\ UNCHANGED <<job, queue, todo, threads_keepalive, mpc, num_threads_working>>
        /\ Busy(pc') = Busy(pc)
    BY <1>5 DEF WakeAll, BsemPostAll, poolVars, Busy, Inv, Typed
  <2> QED
    BY <2>1, WaiterStays, RunningStays, JobStepMaps
<1>6. CASE Free
  <2>1. /\ UNCHANGED <<pc, job, todo, threads_keepalive, num_threads_working>>
        /\ mpc = "destroy" /\ mpc' = "freed" /\ queue' = <<>>
        /\ num_threads_alive = 0
    BY <1>6 DEF Free, poolVars
  <2>2. ~threads_keepalive /\ Running(pc, job) = {}
    BY <2>1, NoneRunning DEF JobInv, ClosedBeforeDestroy
  <2>3. Waiter(mpc', num_threads_working') = Waiter(mpc, num_threads_working)
    BY <2>1 DEF Waiter
  <2> QED
    BY <2>1, <2>2, <2>3, RunningStays, JobStepMaps
<1>7. CASE thpool_destroy
  <2>1. /\ UNCHANGED <<pc, job, queue, todo>>
        /\ mpc = "use" /\ mpc' \in {"use", "destroy"} /\ threads_keepalive' = FALSE
    BY <1>7 DEF thpool_destroy
  <2>2. /\ Waiter(mpc, num_threads_working) = "out"
        /\ Waiter(mpc', num_threads_working') = "out"
    BY <2>1 DEF Waiter
  <2>3. Running(pc', job') = Running(pc, job)
    BY <2>1, RunningStays
  <2>4. CASE threads_keepalive
    BY <2>1, <2>2, <2>3, <2>4, JobStepMaps
  <2>5. CASE ~threads_keepalive
    <3>1. threads_keepalive' = threads_keepalive
      BY <2>1, <2>5 DEF Inv, Typed
    <3> QED
      BY <2>1, <2>2, <2>3, <3>1, JobStepMaps
  <2> QED
    BY <2>4, <2>5
<1> QED
  BY <1>1, <1>2, <1>3, <1>4, <1>5, <1>6, <1>7 DEF main

LEMMA NextRefines == Inv /\ JobInv /\ [Next]_vars => [Jobs!Next]_Jobs!vars
<1> SUFFICES ASSUME Inv, JobInv, [Next]_vars PROVE [Jobs!Next]_Jobs!vars
  OBVIOUS
<1>0. pc \in [Worker -> WorkerPC]
  BY DEF Inv, Typed
<1>1. ASSUME NEW a \in Adder, jobqueue_push(a) PROVE [Jobs!Next]_Jobs!vars
  <2>1. PICK j \in todo : todo' = todo \ {j} /\ queue' = Append(queue, j)
    BY <1>1 DEF jobqueue_push
  <2>2. /\ UNCHANGED <<pc, job, mpc, num_threads_working, threads_keepalive>>
        /\ threads_keepalive
    BY <1>1 DEF jobqueue_push, poolVars
  <2>3. j \in todo \cap Job
    BY <2>1 DEF Inv, Typed
  <2> QED
    BY <2>1, <2>2, <2>3, RunningStays, WaiterStays, JobStepMaps
<1>2. ASSUME NEW a \in Adder, PushPost(a) PROVE [Jobs!Next]_Jobs!vars
  <2>1. /\ Busy(pc') = Busy(pc)
        /\ UNCHANGED <<queue, job, todo, mpc, num_threads_working, threads_keepalive>>
    BY <1>0, <1>2, PostBusy DEF PushPost, poolVars
  <2> QED
    BY <2>1, RunningStays, WaiterStays, JobStepMaps
<1>3. CASE Spurious
  <2>1. /\ Busy(pc') = Busy(pc)
        /\ UNCHANGED <<queue, job, todo, num_threads_working, threads_keepalive>>
    BY <1>0, <1>3, BusyStays DEF Spurious, Woken, Busy, poolVars
  <2>2. mpc' = mpc \/ (mpc = "cond" /\ mpc' = "wait")
    BY <1>3 DEF Spurious
  <2> QED
    BY <2>1, <2>2, RunningStays, WaiterStays, JobStepMaps
<1>4. CASE UNCHANGED vars
  <2>1. UNCHANGED <<pc, queue, job, todo, mpc, num_threads_working, threads_keepalive>>
    BY <1>4 DEF vars, poolVars
  <2> QED
    BY <2>1, RunningStays, WaiterStays, JobStepMaps
<1> QED
  BY <1>1, <1>2, <1>3, <1>4, WorkerRefines, MainRefines DEF Next

(* A pool is a pool of jobs, for any number of threads and jobs: jobs      *)
(* start in the order they were added and each once, thpool_wait returns   *)
(* only after a moment at which none was queued or running, and            *)
(* thpool_destroy drops queued jobs only when no job runs.                 *)
THEOREM JobPoolCorrect == Spec => Jobs!SafeSpec
<1>1. Init => Jobs!Init
  BY DEF Init, Jobs!Init
<1> QED
  BY <1>1, InvAlways, InitJobInv, NextJobInv, NextRefines, PTL
  DEF Spec, Jobs!SafeSpec
=============================================================================
