------------------------------- MODULE ThPool -------------------------------
(***************************************************************************)
(* A pool of thpool.cpp: its threads, its job queue with the binary        *)
(* semaphore has_jobs, the threads that add jobs, and the one (main) that  *)
(* makes the pool, waits for it and destroys it.                           *)
(*                                                                         *)
(* A step is a critical section of thcount_lock, rwmutex or the            *)
(* semaphore's mutex, or an access outside of them.  Where the code does   *)
(* something between two of these with a lock held, the place in the       *)
(* program of its holder stands for the lock.                              *)
(***************************************************************************)
EXTENDS Naturals, Sequences, FiniteSets

CONSTANTS
  Worker,  \* the threads of the pool
  Adder,   \* the threads that call thpool_add_work
  Job,     \* the jobs they add, each once
  NoJob

ASSUME ThPoolAssumption ==
  /\ IsFiniteSet(Worker)
  /\ Worker # {}
  /\ NoJob \notin Job

VARIABLES
  threads_keepalive,    \* the flag all pools share
  num_threads_alive,
  num_threads_working,
  queue,                \* th_jobqueue, front first
  v,                    \* has_jobs->v
  pc,                   \* pc[w]: where pool thread w is in thread_do
  job,                  \* job[w]: its job_p
  apc,                  \* apc[a]: where thread a is in thpool_add_work
  mpc,                  \* where main is
  todo                  \* the jobs still to be added

poolVars == <<threads_keepalive, num_threads_alive, num_threads_working>>
vars == <<poolVars, queue, v, pc, job, apc, mpc, todo>>

WorkerPC == {"born", "top", "wait", "sleep", "test", "count", "pull", "post",
             "run", "uncount", "leave", "unlock", "gone"}

MainPC == {"init", "use", "wait", "second", "cond", "destroy", "freed"}

TypeOK ==
  /\ threads_keepalive \in BOOLEAN
  /\ num_threads_alive \in 0 .. Cardinality(Worker)
  /\ num_threads_working \in 0 .. Cardinality(Worker)
  /\ queue \in Seq(Job)
  /\ v \in {0, 1}
  /\ pc \in [Worker -> WorkerPC]
  /\ job \in [Worker -> Job \cup {NoJob}]
  /\ apc \in [Adder -> {"out", "post"}]
  /\ mpc \in MainPC
  /\ todo \subseteq Job

(* thpool_init has made the queue and created the threads. *)
Init ==
  /\ threads_keepalive = TRUE
  /\ num_threads_alive = 0
  /\ num_threads_working = 0
  /\ queue = <<>>
  /\ v = 0
  /\ pc = [w \in Worker |-> "born"]
  /\ job = [w \in Worker |-> NoJob]
  /\ apc = [a \in Adder |-> "out"]
  /\ mpc = "init"
  /\ todo = Job

(* Who holds thcount_lock between two steps: thpool_wait between its two   *)
(* tests, a thread about to unlock for the last time.                      *)
CountLockFree == mpc # "second" /\ \A w \in Worker : pc[w] # "unlock"

(* Who holds rwmutex: a thread about to post the semaphore. *)
QueueLockFree ==
  /\ \A w \in Worker : pc[w] # "post"
  /\ \A a \in Adder : apc[a] # "post"

Goes(w, to) == pc' = [pc EXCEPT ![w] = to]
-----------------------------------------------------------------------------
(* The binary semaphore.  A post wakes one sleeping thread, if any: it     *)
(* goes back to test v.                                                    *)
Woken(p, w) == [p EXCEPT ![w] = "wait"]

BsemPost(p) ==
  /\ v' = 1
  /\ IF \E w \in Worker : p[w] = "sleep"
     THEN \E w \in Worker : p[w] = "sleep" /\ pc' = Woken(p, w)
     ELSE pc' = p

BsemPostAll_NoBroadcast == v' = 1 /\ UNCHANGED pc  \* fault: no broadcast

BsemPostAll ==
  /\ v' = 1
  /\ pc' = [w \in Worker |-> IF pc[w] = "sleep" THEN "wait" ELSE pc[w]]

bsem_wait(w) ==
  /\ pc[w] = "wait"
  /\ IF v = 1
     THEN v' = 0 /\ Goes(w, "test")
     ELSE Goes(w, "sleep") /\ UNCHANGED v
  /\ UNCHANGED <<poolVars, queue, job, apc, mpc, todo>>
-----------------------------------------------------------------------------
(* thread_do. *)

Born(w) ==
  /\ pc[w] = "born"
  /\ CountLockFree
  /\ num_threads_alive' = num_threads_alive + 1
  /\ Goes(w, "top")
  /\ UNCHANGED <<threads_keepalive, num_threads_working, queue, v, job, apc,
                 mpc, todo>>

WhileKeepalive(w) ==
  /\ pc[w] = "top"
  /\ Goes(w, IF threads_keepalive THEN "wait" ELSE "leave")
  /\ UNCHANGED <<poolVars, queue, v, job, apc, mpc, todo>>

IfKeepalive_NoCount(w) ==  \* fault: the thread is not counted as working
  /\ pc[w] = "test"
  /\ Goes(w, IF threads_keepalive THEN "pull" ELSE "top")
  /\ UNCHANGED <<poolVars, queue, v, job, apc, mpc, todo>>

IfKeepalive(w) ==
  /\ pc[w] = "test"
  /\ Goes(w, IF threads_keepalive THEN "count" ELSE "top")
  /\ UNCHANGED <<poolVars, queue, v, job, apc, mpc, todo>>

Count(w) ==
  /\ pc[w] = "count"
  /\ CountLockFree
  /\ num_threads_working' = num_threads_working + 1
  /\ Goes(w, "pull")
  /\ UNCHANGED <<threads_keepalive, num_threads_alive, queue, v, job, apc,
                 mpc, todo>>

jobqueue_pull_NoPost(w) ==  \* fault: no post for the jobs that remain
  /\ pc[w] = "pull"
  /\ QueueLockFree
  /\ IF queue = <<>>
     THEN /\ Goes(w, "uncount")
          /\ UNCHANGED <<queue, job>>
     ELSE /\ job' = [job EXCEPT ![w] = Head(queue)]
          /\ queue' = Tail(queue)
          /\ Goes(w, "run")
  /\ UNCHANGED <<poolVars, v, apc, mpc, todo>>

(* The first job leaves the queue.  If others remain, the semaphore is     *)
(* posted before rwmutex is released.                                      *)
jobqueue_pull(w) ==
  /\ pc[w] = "pull"
  /\ QueueLockFree
  /\ IF queue = <<>>
     THEN /\ Goes(w, "uncount")
          /\ UNCHANGED <<queue, job>>
     ELSE /\ job' = [job EXCEPT ![w] = Head(queue)]
          /\ queue' = Tail(queue)
          /\ Goes(w, IF Len(queue) > 1 THEN "post" ELSE "run")
  /\ UNCHANGED <<poolVars, v, apc, mpc, todo>>

PullPost(w) ==
  /\ pc[w] = "post"
  /\ BsemPost([pc EXCEPT ![w] = "run"])
  /\ UNCHANGED <<poolVars, queue, job, apc, mpc, todo>>

Run(w) ==
  /\ pc[w] = "run"
  /\ job' = [job EXCEPT ![w] = NoJob]
  /\ Goes(w, "uncount")
  /\ UNCHANGED <<poolVars, queue, v, apc, mpc, todo>>

Uncount_SignalFirst(w) ==  \* fault: tested before the thread is subtracted
  /\ pc[w] = "uncount"
  /\ CountLockFree
  /\ num_threads_working' = num_threads_working - 1
  /\ mpc' = IF num_threads_working = 0 /\ mpc = "cond" THEN "wait" ELSE mpc
  /\ Goes(w, "top")
  /\ UNCHANGED <<threads_keepalive, num_threads_alive, queue, v, job, apc, todo>>

(* The last thread at work signals threads_all_idle to thpool_wait. *)
Uncount(w) ==
  /\ pc[w] = "uncount"
  /\ CountLockFree
  /\ num_threads_working' = num_threads_working - 1
  /\ mpc' = IF num_threads_working' = 0 /\ mpc = "cond" THEN "wait" ELSE mpc
  /\ Goes(w, "top")
  /\ UNCHANGED <<threads_keepalive, num_threads_alive, queue, v, job, apc, todo>>

Leave(w) ==
  /\ pc[w] = "leave"
  /\ CountLockFree
  /\ num_threads_alive' = num_threads_alive - 1
  /\ Goes(w, "unlock")
  /\ UNCHANGED <<threads_keepalive, num_threads_working, queue, v, job, apc,
                 mpc, todo>>

Unlock(w) ==
  /\ pc[w] = "unlock"
  /\ Goes(w, "gone")
  /\ UNCHANGED <<poolVars, queue, v, job, apc, mpc, todo>>

thread_do(w) ==
  \/ Born(w) \/ WhileKeepalive(w) \/ bsem_wait(w) \/ IfKeepalive(w)
  \/ Count(w) \/ jobqueue_pull(w) \/ PullPost(w) \/ Run(w) \/ Uncount(w)
  \/ Leave(w) \/ Unlock(w)
-----------------------------------------------------------------------------
(* thpool_add_work: jobqueue_push in two steps, under rwmutex.  The        *)
(* program adds no job before thpool_init returns, nor after the first     *)
(* thpool_destroy.                                                         *)
jobqueue_push(a) ==
  /\ mpc # "init"
  /\ threads_keepalive
  /\ apc[a] = "out"
  /\ QueueLockFree
  /\ \E j \in todo :
       /\ todo' = todo \ {j}
       /\ queue' = Append(queue, j)
  /\ apc' = [apc EXCEPT ![a] = "post"]
  /\ UNCHANGED <<poolVars, v, pc, job, mpc>>

PushPost(a) ==
  /\ apc[a] = "post"
  /\ BsemPost(pc)
  /\ apc' = [apc EXCEPT ![a] = "out"]
  /\ UNCHANGED <<poolVars, queue, job, mpc, todo>>
-----------------------------------------------------------------------------
(* main. *)

thpool_init ==
  /\ mpc = "init"
  /\ num_threads_alive = Cardinality(Worker)
  /\ mpc' = "use"
  /\ UNCHANGED <<poolVars, queue, v, pc, job, apc, todo>>

CallWait ==
  /\ mpc = "use"
  /\ threads_keepalive
  /\ mpc' = "wait"
  /\ UNCHANGED <<poolVars, queue, v, pc, job, apc, todo>>

TestLength_Skipped ==  \* fault: only the working threads are looked at
  /\ mpc = "wait"
  /\ CountLockFree
  /\ mpc' = "second"
  /\ UNCHANGED <<poolVars, queue, v, pc, job, apc, todo>>

(* thpool_wait, with thcount_lock: the queue's length is read first and    *)
(* without rwmutex, the working threads are read second.                   *)
TestLength ==
  /\ mpc = "wait"
  /\ CountLockFree
  /\ mpc' = IF queue = <<>> THEN "second" ELSE "cond"
  /\ UNCHANGED <<poolVars, queue, v, pc, job, apc, todo>>

TestWorking ==
  /\ mpc = "second"
  /\ mpc' = IF num_threads_working = 0 THEN "use" ELSE "cond"
  /\ UNCHANGED <<poolVars, queue, v, pc, job, apc, todo>>

(* main destroys this pool, or one it destroys before this one: both clear *)
(* the flag all pools share.                                               *)
thpool_destroy ==
  /\ mpc = "use"
  /\ \A a \in Adder : apc[a] = "out"
  /\ threads_keepalive' = FALSE
  /\ mpc' \in {"use", "destroy"}
  /\ UNCHANGED <<num_threads_alive, num_threads_working, queue, v, pc, job,
                 apc, todo>>

WakeAll ==
  /\ mpc = "destroy"
  /\ num_threads_alive # 0
  /\ BsemPostAll
  /\ UNCHANGED <<poolVars, queue, job, apc, mpc, todo>>

(* jobqueue_destroy and the frees, once num_threads_alive is seen zero. *)
Free ==
  /\ mpc = "destroy"
  /\ num_threads_alive = 0
  /\ mpc' = "freed"
  /\ queue' = <<>>
  /\ v' = 0
  /\ UNCHANGED <<poolVars, pc, job, apc, todo>>

main == thpool_init \/ TestLength \/ TestWorking \/ WakeAll \/ Free

(* A condition variable may wake a thread for no reason. *)
Spurious ==
  \/ /\ \E w \in Worker : pc[w] = "sleep" /\ pc' = Woken(pc, w)
     /\ UNCHANGED mpc
     /\ UNCHANGED <<poolVars, queue, v, job, apc, todo>>
  \/ /\ mpc = "cond"
     /\ mpc' = "wait"
     /\ UNCHANGED <<poolVars, queue, v, pc, job, apc, todo>>

Next ==
  \/ \E w \in Worker : thread_do(w)
  \/ \E a \in Adder : jobqueue_push(a) \/ PushPost(a)
  \/ main \/ CallWait \/ thpool_destroy
  \/ Spurious

Spec == Init /\ [][Next]_vars

(* Threads inside the library go on and jobs end; a thread that waits for  *)
(* thcount_lock gets it although main may take it again and again.         *)
(* Nothing makes the program add jobs, wait or destroy.                    *)
FairSpec ==
  /\ Spec
  /\ \A w \in Worker : SF_vars(thread_do(w))
  /\ \A a \in Adder : WF_vars(PushPost(a))
  /\ SF_vars(main)
-----------------------------------------------------------------------------
(* No job is stranded by the binary semaphore, which forgets all posts but *)
(* one: while the pool is open and jobs are queued, a post is under way,   *)
(* a thread is on its way to pull, or the semaphore is up and a thread is  *)
(* awake that will look at it.                                             *)
NoJobStranded ==
  threads_keepalive /\ queue # <<>> =>
    \/ ~QueueLockFree
    \/ \E w \in Worker : pc[w] \in {"test", "count", "pull"}
    \/ /\ v = 1
       /\ \E w \in Worker : pc[w] \notin {"sleep", "leave", "unlock", "gone"}

(* thpool_wait never sleeps through the signal it waits for: it sleeps     *)
(* only while a thread is at work, which will signal, or a job is queued.  *)
WaiterWillBeWoken ==
  mpc = "cond" => num_threads_working # 0 \/ queue # <<>>

(* A pool is a pool of jobs, also through the spurious starts of threads   *)
(* that find no job and through thpool_destroy.                            *)
Jobs ==
  INSTANCE JobPool WITH
    queued <- queue,
    running <- {job[w] : w \in {u \in Worker : pc[u] \in {"post", "run"}}},
    waiter <- CASE mpc \in {"wait", "cond"} -> "in"
                [] mpc = "second" ->
                     IF num_threads_working = 0 THEN "idle" ELSE "in"
                [] OTHER -> "out",
    open <- threads_keepalive

ActsAsJobPool == Jobs!Spec

(* thpool_destroy comes to an end. *)
DestroyEnds == mpc = "destroy" ~> mpc = "freed"

(* thpool.h: thpool_destroy waits "for the currently active threads to     *)
(* finish" before it frees the pool they use.                              *)
FreedAfterThreads == mpc = "freed" => \A w \in Worker : pc[w] = "gone"
=============================================================================
