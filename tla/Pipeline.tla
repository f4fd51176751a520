------------------------------ MODULE Pipeline ------------------------------
(***************************************************************************)
(* The three-stage transfer of main(queue).cpp.                            *)
(*                                                                         *)
(* Stage 1 reads files, stage 2 compresses, stage 3 posts to the server.   *)
(* A stage has one feeder thread, which cuts its input into jobs, pays for *)
(* each job with credit granted by the monitor, and submits it to one of   *)
(* the stage's thread pools; the pool threads run the jobs.  Jobs of       *)
(* stages 1 and 2 hand their block to the next feeder through a bounded    *)
(* queue (TSQ).  End of input travels as a flag plus an END element.       *)
(*                                                                         *)
(* The three stages repeat one protocol over stage-indexed globals         *)
(* (block1_cnt, block2_cnt, block3_cnt, ...), so a variable here is a      *)
(* function of the stage.  A step is one critical section of the code; a   *)
(* job that a pool thread pulls stays "queued" until its own first one.    *)
(* Locks appear only where a thread can block while it holds them:         *)
(*   block_mutex and add_mutex of a stage, held by a job that pushes END   *)
(*   control_mutex of a stage, held by the monitor waiting for add_mutex   *)
(***************************************************************************)
EXTENDS Integers, Sequences, FiniteSets

Sets == INSTANCE FiniteSetsExt

CONSTANTS
  Traversal,       \* what trave_dir meets: file sizes, and DirEnd when a
                   \* directory has been read to its end (the root is last)
  DirEnd,
  MaxJobs,         \* bound: no stage cuts more jobs than this
  FILE_MAX_NUM,    \* capacity of fileStorage
  StorageCap,      \* BLOCK1_MAX_NUM, BLOCK2_MAX_NUM, BLOCK3_MAX_NUM
  BlockSize,       \* block1Size, block2Size, block3Size
  Block1Bytes,     \* sizeof(block1), what a read block adds to its queue
  FrameHeader,     \* sizeof(frameHeader)
  FrameBytes,      \* what get_header adds to a compressed size
  Block2Bytes,     \* sizeof(block2)
  CompressedSizes, \* the sizes a codec may produce for a block
  QueueCapacity,   \* mCapacity of a ThreadSafeQueue
  Method,          \* Method[p][s]: pool and credit of stage s in period p
  CreditCap,       \* bound: a balance never grows beyond this
  PostOutcomes     \* what a POST may come to: accepted (TRUE) or not

Stages == 1 .. 3

Periods == 0 .. 2

(* The jobs of a stage are numbered in the order in which they are cut. *)
JobIds == 1 .. MaxJobs

(* Pool k of a stage has k threads: thpool_init(i + 1) at index i. *)
Pools == 1 .. 4

(* Where a feeder is.  "crashed" stands for the whole program: an access   *)
(* outside a block storage has undefined behaviour.                        *)
FeederPC == {"scan", "check", "pop", "store", "cut", "credit", "endCredit",
             "endFlag", "count", "submit", "done", "crashed"}

(* Where a job is: cut, counted in block_cnt, in a pool's queue, waiting   *)
(* to push its block, waiting to leave block_cnt, pushing END with         *)
(* block_mutex and add_mutex held, finished.                               *)
JobPC == {"none", "made", "counted", "queued", "push", "leave", "pushEnd",
          "done"}

(* "null": the block's storage was full, its job carries no data. *)
JobKind == {"data", "null", "end"}

Running == {"push", "leave", "pushEnd"}

(* The element -1 of a TSQ.  Other elements name a block by its job. *)
END == 0

MonitorPC == {"put", "check", "lock", "finish", "quit"}

ASSUME SizesAssumption ==
  /\ MaxJobs \in Nat
  /\ FILE_MAX_NUM \in Nat
  /\ StorageCap \in [Stages -> Nat]
  /\ BlockSize \in [Stages -> Nat \ {0}]
  /\ Block1Bytes \in Nat \ {0}
  /\ FrameHeader \in Nat
  /\ FrameBytes \in Nat
  /\ Block2Bytes \in Nat
  /\ CompressedSizes \subseteq Nat
  /\ QueueCapacity \in Nat \ {0}
  /\ CreditCap \in Nat
  /\ PostOutcomes \subseteq BOOLEAN

ASSUME TraversalAssumption ==
  /\ DirEnd \notin Nat
  /\ Traversal \in Seq(Nat \cup {DirEnd})
  /\ Traversal # <<>>
  /\ Traversal[Len(Traversal)] = DirEnd

ASSUME MethodAssumption ==
  Method \in [Periods -> [Stages -> [pool : {0} \cup Pools, credit : Int]]]

VARIABLES
  pc,         \* pc[s]: where the feeder of stage s is
  item,       \* position of trave_dir in Traversal
  offset,     \* position of addFile in the current file
  draining,   \* draining[s]: the feeder has left its pop loop
  held,       \* held[s]: the element the feeder has popped (nowBlock)
  size,       \* size[s]: bytes ever pushed to compressQueue1, transferQueue1
  popSize,    \* popSize[s]: bytes popped from it
  made,       \* made[s]: number of jobs cut so far
  kind,       \* kind[s][n]: what the n-th job of stage s carries
  bytes,      \* bytes[s][n]: size of its block
  pool,       \* pool[s][n]: the pool it is submitted to (nowThpool)
  at,         \* at[s][n]: where it is
  out,        \* out[n]: compressed size of block n, block2Storage[n].blockSize
  block_cnt,  \* block1_cnt, block2_cnt, block3_cnt
  add_end,    \* add1_end, add2_end, add3_end
  end_flag,   \* read_end, compress_end, transfer_end
  TSQ,        \* compressTSQ and transferTSQ, by the stage that fills them
  TSQ_cnt,    \* compressTSQ_cnt and transferTSQ_cnt
  control,    \* control1[0], control2[0], control3[0]: the pool, 0 to pause
  credit,     \* control1[1], control2[2], control3[1]: bytes left to spend
  monPC,      \* where the monitor is,
  monStage,   \* at which stage,
  monPeriod,  \* in which period of the method (flag)
  posted,     \* the jobs of stage 3 whose block the server accepted
  main        \* number of thpool_wait phases main has passed

feedVars == <<item, offset, draining, held, size, popSize>>
jobVars  == <<made, kind, bytes, pool>>
endVars  == <<add_end, end_flag>>
tsqVars  == <<TSQ, TSQ_cnt>>
payVars  == <<control, credit>>
monVars  == <<monPC, monStage, monPeriod>>
vars == <<pc, feedVars, jobVars, at, out, block_cnt, endVars, tsqVars,
          payVars, monVars, posted, main>>
-----------------------------------------------------------------------------
Min2(a, b) == IF a <= b THEN a ELSE b

(* Some job of stage s is inside compressTSQ.push(-1) / transferTSQ.push(-1) *)
(* and so holds block_mutex and add_mutex of its stage.                      *)
AddMutexFree(s) == \A n \in JobIds : at[s][n] # "pushEnd"

(* finish() takes add_mutex with control_mutex held. *)
ControlMutexFree(s) == ~(monPC = "finish" /\ monStage = s)

(* A pool pulls its jobs in order with as many threads as its index.  What *)
(* a thread pulls may wait before its first step while later jobs run.     *)
CanStart(s, n) ==
  LET p == pool[s][n]
      pulled == {m \in JobIds : /\ pool[s][m] = p
                                /\ \/ at[s][m] \in Running
                                   \/ at[s][m] = "queued" /\ m <= n}
  IN  at[s][n] = "queued" /\ Cardinality(pulled) <= p

(* The size of block1Storage, block2Storage or block3Storage. *)
Stored(s) == Cardinality({n \in JobIds : kind[s][n] = "data"
                                         /\ at[s][n] # "none"})

(* Bytes of compressQueue1 or transferQueue1 not yet popped. *)
Unpopped(s) == size[s] - popSize[s]

Go(s, to) == pc' = [pc EXCEPT ![s] = to]

Move(s, n, to) == at' = [at EXCEPT ![s][n] = to]

(* The feeder of stage s cuts its next job. *)
Make(s, k, b, p) ==
  LET n == made[s] + 1
  IN  /\ n \in JobIds
      /\ made' = [made EXCEPT ![s] = n]
      /\ kind' = [kind EXCEPT ![s][n] = k]
      /\ bytes' = [bytes EXCEPT ![s][n] = b]
      /\ pool' = [pool EXCEPT ![s][n] = p]
      /\ Move(s, n, "made")
-----------------------------------------------------------------------------
(* What the three feeders have in common. *)

(* What a feeder spins for: its stage is enabled and has credit. *)
MayAdd_AtZero(s) == control[s] # 0 /\ credit[s] >= 0  \* fault

MayAdd(s) == control[s] # 0 /\ credit[s] > 0

(* The loop that spins on control_mutex, then pays for the block: the      *)
(* balance may go below zero.                                              *)
TakeCredit(s) ==
  /\ pc[s] = "credit"
  /\ ControlMutexFree(s)
  /\ MayAdd(s)
  /\ credit' = [credit EXCEPT ![s] = @ - bytes[s][made[s]]]
  /\ pool' = [pool EXCEPT ![s][made[s]] = control[s]]
  /\ Go(s, "count")
  /\ UNCHANGED <<feedVars, made, kind, bytes, at, out, block_cnt, endVars,
                 tsqVars, control, monVars, posted, main>>

(* The same loop before the end job, which pays nothing. *)
EndCredit(s) ==
  /\ pc[s] = "endCredit"
  /\ ControlMutexFree(s)
  /\ MayAdd(s)
  /\ Make(s, "end", 0, control[s])
  /\ Go(s, "endFlag")
  /\ UNCHANGED <<feedVars, out, block_cnt, endVars, tsqVars, payVars,
                 monVars, posted, main>>

SetAddEnd(s) ==
  /\ pc[s] = "endFlag"
  /\ AddMutexFree(s)
  /\ add_end' = [add_end EXCEPT ![s] = TRUE]
  /\ Go(s, "count")
  /\ UNCHANGED <<feedVars, jobVars, at, out, block_cnt, end_flag, tsqVars,
                 payVars, monVars, posted, main>>

Count_DataOnly(s) ==  \* fault: the end job is not counted
  /\ pc[s] = "count"
  /\ AddMutexFree(s)
  /\ block_cnt' = IF kind[s][made[s]] = "end" THEN block_cnt
                  ELSE [block_cnt EXCEPT ![s] = @ + 1]
  /\ Move(s, made[s], "counted")
  /\ Go(s, "submit")
  /\ UNCHANGED <<feedVars, jobVars, out, endVars, tsqVars, payVars, monVars,
                 posted, main>>

Count(s) ==
  /\ pc[s] = "count"
  /\ AddMutexFree(s)
  /\ block_cnt' = [block_cnt EXCEPT ![s] = @ + 1]
  /\ Move(s, made[s], "counted")
  /\ Go(s, "submit")
  /\ UNCHANGED <<feedVars, jobVars, out, endVars, tsqVars, payVars, monVars,
                 posted, main>>

(* Feeders 2 and 3 return after their end job; trave_dir returns to the    *)
(* directory above, if any.                                                *)
AfterSubmit(s) ==
  IF s = 1 /\ item <= Len(Traversal) THEN "scan"
  ELSE IF kind[s][made[s]] = "end" THEN "done" ELSE "cut"

(* thpool_add_work, then on to the next block. *)
Submit(s) ==
  /\ pc[s] = "submit"
  /\ Move(s, made[s], "queued")
  /\ Go(s, AfterSubmit(s))
  /\ UNCHANGED <<feedVars, jobVars, out, block_cnt, endVars, tsqVars,
                 payVars, monVars, posted, main>>
-----------------------------------------------------------------------------
(* Stage 1: trave_dir and addFile. *)

FilesBefore(i) == Cardinality({k \in 1 .. i - 1 : Traversal[k] # DirEnd})

(* fileStorage.push returns NULL once the storage is full. *)
FileStored(i) == Traversal[i] # DirEnd /\ FilesBefore(i) < FILE_MAX_NUM

(* One turn of addFile's loop: a block of the file, without storage if     *)
(* block1Storage is full.                                                  *)
AddBlock ==
  /\ pc[1] = "scan"
  /\ FileStored(item)
  /\ offset < Traversal[item]
  /\ Make(1, IF Stored(1) < StorageCap[1] THEN "data" ELSE "null",
          Min2(Traversal[item] - offset, BlockSize[1]), 0)
  /\ offset' = offset + BlockSize[1]
  /\ Go(1, "credit")
  /\ UNCHANGED <<item, draining, held, size, popSize, out, block_cnt,
                 endVars, tsqVars, payVars, monVars, posted, main>>

scanVars == <<draining, held, size, popSize, jobVars, at, out, block_cnt,
              endVars, tsqVars, payVars, monVars, posted, main>>

(* addFile returns: the file is read out, or could not be stored. *)
NextFile ==
  /\ pc[1] = "scan"
  /\ Traversal[item] # DirEnd
  /\ FileStored(item) => offset >= Traversal[item]
  /\ item' = item + 1
  /\ offset' = 0
  /\ UNCHANGED <<pc, scanVars>>

(* readdir has reached the end of a directory: every call of trave_dir,    *)
(* also one for a subdirectory, announces the end of input.                *)
EndDir ==
  /\ pc[1] = "scan"
  /\ Traversal[item] = DirEnd
  /\ item' = item + 1
  /\ Go(1, "endCredit")
  /\ UNCHANGED <<offset, scanVars>>

trave_dir ==
  \/ AddBlock \/ NextFile \/ EndDir
  \/ TakeCredit(1) \/ EndCredit(1) \/ SetAddEnd(1) \/ Count(1) \/ Submit(1)
-----------------------------------------------------------------------------
(* Stages 2 and 3: run_compressQueue1 and run_transferQueue1. *)

InputOver_FlagOnly(s) == end_flag[s - 1]  \* fault

InputOver(s) == end_flag[s - 1] /\ TSQ_cnt[s - 1] = 0

CheckEnd(s) ==
  /\ pc[s] = "check"
  /\ draining' = [draining EXCEPT ![s] = InputOver(s)]
  /\ Go(s, IF InputOver(s) THEN "cut" ELSE "pop")
  /\ UNCHANGED <<item, offset, held, size, popSize, jobVars, at, out,
                 block_cnt, endVars, tsqVars, payVars, monVars, posted, main>>

Pop(s) ==
  /\ pc[s] = "pop"
  /\ TSQ[s - 1] # <<>>
  /\ TSQ' = [TSQ EXCEPT ![s - 1] = Tail(@)]
  /\ held' = [held EXCEPT ![s] = Head(TSQ[s - 1])]
  /\ Go(s, IF Head(TSQ[s - 1]) = END THEN "check" ELSE "store")
  /\ UNCHANGED <<item, offset, draining, size, popSize, jobVars, at, out,
                 block_cnt, endVars, TSQ_cnt, payVars, monVars, posted, main>>

(* compressQueue::push and transferQueue::push: what does not leave room   *)
(* to spare is dropped.                                                    *)
QueueBytes(s) == IF s = 2 THEN StorageCap[1] * Block1Bytes
                          ELSE StorageCap[2] * Block2Bytes

PushBytes(s, old, b) == IF old + b >= QueueBytes(s) THEN old ELSE old + b

StoredSize(s) ==
  IF s = 2 THEN PushBytes(2, size[2], Block1Bytes)
           ELSE PushBytes(3, PushBytes(3, size[3], FrameHeader),
                          FrameBytes + out[held[3]])

Store(s) ==
  /\ pc[s] = "store"
  /\ TSQ_cnt' = [TSQ_cnt EXCEPT ![s - 1] = @ - 1]
  /\ size' = [size EXCEPT ![s] = StoredSize(s)]
  /\ Go(s, "cut")
  /\ UNCHANGED <<item, offset, draining, held, popSize, jobVars, at, out,
                 block_cnt, endVars, TSQ, payVars, monVars, posted, main>>

Available_WholeBlocks(s) == Unpopped(s) >= BlockSize[s]  \* fault

(* In the pop loop only whole blocks are cut, afterwards also the rest. *)
Available(s) == IF draining[s] THEN Unpopped(s) > 0
                               ELSE Unpopped(s) >= BlockSize[s]

CutSize(s) == Min2(BlockSize[s], Unpopped(s))

Cut(s) ==
  /\ pc[s] = "cut"
  /\ Available(s)
  /\ Stored(s) < StorageCap[s]
  /\ Make(s, "data", CutSize(s), 0)
  /\ popSize' = [popSize EXCEPT ![s] = @ + CutSize(s)]
  /\ Go(s, "credit")
  /\ UNCHANGED <<item, offset, draining, held, size, out, block_cnt,
                 endVars, tsqVars, payVars, monVars, posted, main>>

(* The storage full, the block's index is outside block2Storage and        *)
(* block3Storage.push returns the NULL that memcpy then writes to.         *)
Overrun(s) ==
  /\ pc[s] = "cut"
  /\ Available(s)
  /\ Stored(s) >= StorageCap[s]
  /\ Go(s, "crashed")
  /\ UNCHANGED <<feedVars, jobVars, at, out, block_cnt, endVars, tsqVars,
                 payVars, monVars, posted, main>>

CutDone(s) ==
  /\ pc[s] = "cut"
  /\ ~Available(s)
  /\ Go(s, IF draining[s] THEN "endCredit" ELSE "check")
  /\ UNCHANGED <<feedVars, jobVars, at, out, block_cnt, endVars, tsqVars,
                 payVars, monVars, posted, main>>

RunQueue(s) ==
  \/ CheckEnd(s) \/ Pop(s) \/ Store(s) \/ Cut(s) \/ Overrun(s)
  \/ CutDone(s)
  \/ TakeCredit(s) \/ EndCredit(s) \/ SetAddEnd(s) \/ Count(s) \/ Submit(s)

run_compressQueue1 == RunQueue(2)

run_transferQueue1 == RunQueue(3)
-----------------------------------------------------------------------------
(* The jobs. *)

workVars == <<pc, feedVars, jobVars, payVars, monVars, main>>

(* readFile, the block in its storage: the queue's counter goes up. *)
ReadBlock(n) ==
  /\ CanStart(1, n)
  /\ kind[1][n] = "data"
  /\ TSQ_cnt' = [TSQ_cnt EXCEPT ![1] = @ + 1]
  /\ Move(1, n, "push")
  /\ UNCHANGED <<workVars, out, block_cnt, endVars, TSQ, posted>>

(* compress_func: the codec is reduced to the size of what it produces. *)
CompressBlock(n) ==
  /\ CanStart(2, n)
  /\ kind[2][n] = "data"
  /\ TSQ_cnt' = [TSQ_cnt EXCEPT ![2] = @ + 1]
  /\ \E z \in CompressedSizes : out' = [out EXCEPT ![n] = z]
  /\ Move(2, n, "push")
  /\ UNCHANGED <<workVars, block_cnt, endVars, TSQ, posted>>

PushBlock(s, n) ==
  /\ at[s][n] = "push"
  /\ Len(TSQ[s]) < QueueCapacity
  /\ TSQ' = [TSQ EXCEPT ![s] = Append(@, n)]
  /\ Move(s, n, "leave")
  /\ UNCHANGED <<workVars, out, block_cnt, endVars, TSQ_cnt, posted>>

(* transfer: a POST that fails is reported at most, never repeated. *)
PostBlock(n) ==
  /\ CanStart(3, n)
  /\ kind[3][n] = "data"
  /\ \E ok \in PostOutcomes :
       posted' = IF ok THEN posted \cup {n} ELSE posted
  /\ Move(3, n, "leave")
  /\ UNCHANGED <<workVars, out, block_cnt, endVars, tsqVars>>

LastOut_NotCounted(s) == add_end[s]  \* fault

(* The test of a job that leaves: the stage's input has ended, and no      *)
(* other job of the stage is active.                                       *)
LastOut(s) == add_end[s] /\ block_cnt[s] = 1

(* The last part of readFile, compress_func and transfer, which is all     *)
(* that a job without data does.                                           *)
Leave(s, n) ==
  /\ \/ at[s][n] = "leave"
     \/ CanStart(s, n) /\ kind[s][n] # "data"
  /\ AddMutexFree(s)
  /\ block_cnt' = [block_cnt EXCEPT ![s] = @ - 1]
  /\ end_flag' = [end_flag EXCEPT ![s] = @ \/ LastOut(s)]
  /\ Move(s, n, IF LastOut(s) /\ s # 3 THEN "pushEnd" ELSE "done")
  /\ UNCHANGED <<workVars, out, add_end, tsqVars, posted>>

PushEnd_Counted(s, n) ==  \* fault: END counts as a block
  /\ at[s][n] = "pushEnd"
  /\ Len(TSQ[s]) < QueueCapacity
  /\ TSQ' = [TSQ EXCEPT ![s] = Append(@, END)]
  /\ TSQ_cnt' = [TSQ_cnt EXCEPT ![s] = @ + 1]
  /\ Move(s, n, "done")
  /\ UNCHANGED <<workVars, out, block_cnt, endVars, posted>>

PushEnd(s, n) ==
  /\ at[s][n] = "pushEnd"
  /\ Len(TSQ[s]) < QueueCapacity
  /\ TSQ' = [TSQ EXCEPT ![s] = Append(@, END)]
  /\ Move(s, n, "done")
  /\ UNCHANGED <<workVars, out, block_cnt, endVars, TSQ_cnt, posted>>

readFile(n) == ReadBlock(n) \/ PushBlock(1, n) \/ Leave(1, n) \/ PushEnd(1, n)

compress_func(n) ==
  CompressBlock(n) \/ PushBlock(2, n) \/ Leave(2, n) \/ PushEnd(2, n)

transfer(n) == PostBlock(n) \/ Leave(3, n)
-----------------------------------------------------------------------------
(* The monitor: method.init(0), then every TIMESPAN a look at add3_end and *)
(* at finish(), and the next period's grant once finish() says so.         *)

restVars == <<pc, feedVars, jobVars, at, out, block_cnt, endVars, tsqVars,
              posted, main>>

(* setControl1, setControl2, setControl3 in the order of controlMethod::   *)
(* init.  A grant is added to what is left, unless it is negative; the     *)
(* balance stops at the bound CreditCap.                                   *)
SetControl(s) ==
  /\ monPC = "put"
  /\ monStage = s
  /\ LET grant == Method[monPeriod][s]
     IN  IF grant.credit >= 0
         THEN /\ control' = [control EXCEPT ![s] = grant.pool]
              /\ credit' = [credit EXCEPT ![s] = Min2(@ + grant.credit,
                                                      CreditCap)]
         ELSE UNCHANGED payVars
  /\ monPC' = IF s = 3 THEN "check" ELSE "put"
  /\ monStage' = (s % 3) + 1
  /\ UNCHANGED <<restVars, monPeriod>>

AllAdded_Stage2 == add_end[2]  \* fault

AllAdded == add_end[3]

CheckQuit ==
  /\ monPC = "check"
  /\ monPC' = IF AllAdded THEN "quit" ELSE "lock"
  /\ UNCHANGED <<restVars, payVars, monStage, monPeriod>>

(* finish() locks control_mutex of a stage and then its add_mutex. *)
FinishLock(s) ==
  /\ monPC = "lock"
  /\ monStage = s
  /\ monPC' = "finish"
  /\ UNCHANGED <<restVars, payVars, monStage, monPeriod>>

UsedUp(s) == credit[s] <= 0 \/ (control[s] # 0 /\ add_end[s])

NextPeriod_Unbounded(p) == p + 1  \* fault

NextPeriod(p) == (p + 1) % 3

FinishTest(s) ==
  /\ monPC = "finish"
  /\ monStage = s
  /\ AddMutexFree(s)
  /\ monPC' = IF UsedUp(s) THEN "put" ELSE IF s = 3 THEN "check" ELSE "lock"
  /\ monStage' = IF UsedUp(s) THEN 1 ELSE (s % 3) + 1
  /\ monPeriod' = IF UsedUp(s) THEN NextPeriod(monPeriod) ELSE monPeriod
  /\ UNCHANGED <<restVars, payVars>>

finish == \E s \in Stages : FinishLock(s) \/ FinishTest(s)

monitor == CheckQuit \/ finish \/ \E s \in Stages : SetControl(s)
-----------------------------------------------------------------------------
(* main waits for the pools in turn: the monitor's, the three feeders',    *)
(* then the pools of each stage.  These it sees idle one after another,    *)
(* here all at once: with the feeders done, an idle pool gets no more job. *)
PoolsIdle_QueueOnly(s) == \A n \in JobIds : at[s][n] # "queued"  \* fault

PoolsIdle(s) == \A n \in JobIds : at[s][n] \in {"none", "made", "counted",
                                                    "done"}

WaitOver(phase) ==
  \/ phase = 1 /\ monPC = "quit"
  \/ phase \in 2 .. 4 /\ pc[phase - 1] = "done"
  \/ phase \in 5 .. 7 /\ PoolsIdle(phase - 4)

MainWait ==
  /\ main < 7
  /\ WaitOver(main + 1)
  /\ main' = main + 1
  /\ UNCHANGED <<pc, feedVars, jobVars, at, out, block_cnt, endVars, tsqVars,
                 payVars, monVars, posted>>

Crashed == \E s \in Stages : pc[s] = "crashed"

(* Nothing is left to do: the program has ended, by returning or by crash. *)
(* What other threads still do after a crash is left open.                 *)
Ended ==
  /\ main = 7 \/ Crashed
  /\ UNCHANGED vars

Init ==
  /\ pc = [s \in Stages |-> IF s = 1 THEN "scan" ELSE "check"]
  /\ item = 1
  /\ offset = 0
  /\ draining = [s \in Stages |-> FALSE]
  /\ held = [s \in Stages |-> END]
  /\ size = [s \in Stages |-> 0]
  /\ popSize = [s \in Stages |-> 0]
  /\ made = [s \in Stages |-> 0]
  /\ kind = [s \in Stages |-> [n \in JobIds |-> "null"]]
  /\ bytes = [s \in Stages |-> [n \in JobIds |-> 0]]
  /\ pool = [s \in Stages |-> [n \in JobIds |-> 0]]
  /\ at = [s \in Stages |-> [n \in JobIds |-> "none"]]
  /\ out = [n \in JobIds |-> 0]
  /\ block_cnt = [s \in Stages |-> 0]
  /\ add_end = [s \in Stages |-> FALSE]
  /\ end_flag = [s \in Stages |-> FALSE]
  /\ TSQ = [s \in Stages |-> <<>>]
  /\ TSQ_cnt = [s \in Stages |-> 0]
  /\ control = [s \in Stages |-> 1]
  /\ credit = [s \in Stages |-> 0]
  /\ monPC = "put"
  /\ monStage = 1
  /\ monPeriod = 0
  /\ posted = {}
  /\ main = 0

Next ==
  \/ trave_dir
  \/ run_compressQueue1
  \/ run_transferQueue1
  \/ \E n \in JobIds : readFile(n) \/ compress_func(n) \/ transfer(n)
  \/ monitor
  \/ MainWait
  \/ Ended

Spec == Init /\ [][Next]_vars

(* The program keeps running as a whole: which of its threads moves is     *)
(* left to the scheduler.  The monitor has a thread of its own.  The spin  *)
(* loops on control_mutex need strong fairness: the monitor holds that     *)
(* mutex only between two sleeps of TIMESPAN, so a spinning feeder gets it.*)
FeederStep(s) ==
  \/ s = 1 /\ (AddBlock \/ NextFile \/ EndDir)
  \/ s # 1 /\ (CheckEnd(s) \/ Pop(s) \/ Store(s) \/ Cut(s)
                \/ Overrun(s) \/ CutDone(s))
  \/ SetAddEnd(s) \/ Count(s) \/ Submit(s)

Work ==
  \/ \E s \in Stages : FeederStep(s)
  \/ \E n \in JobIds : readFile(n) \/ compress_func(n) \/ transfer(n)
  \/ MainWait

Fairness ==
  /\ WF_vars(Work)
  /\ SF_vars(\E s \in Stages : TakeCredit(s) \/ EndCredit(s))
  /\ WF_vars(monitor)

FairSpec == Spec /\ Fairness
-----------------------------------------------------------------------------
(* The type invariant. *)
TypeOK ==
  /\ pc \in [Stages -> FeederPC]
  /\ item \in Nat \ {0}
  /\ offset \in Nat
  /\ draining \in [Stages -> BOOLEAN]
  /\ held \in [Stages -> JobIds \cup {END}]
  /\ size \in [Stages -> Nat]
  /\ popSize \in [Stages -> Nat]
  /\ made \in [Stages -> JobIds \cup {0}]
  /\ kind \in [Stages -> [JobIds -> JobKind]]
  /\ bytes \in [Stages -> [JobIds -> Nat]]
  /\ pool \in [Stages -> [JobIds -> {0} \cup Pools]]
  /\ at \in [Stages -> [JobIds -> JobPC]]
  /\ out \in [JobIds -> Nat]
  /\ block_cnt \in [Stages -> Int]
  /\ add_end \in [Stages -> BOOLEAN]
  /\ end_flag \in [Stages -> BOOLEAN]
  /\ TSQ \in [Stages -> Seq(JobIds \cup {END})]
  /\ TSQ_cnt \in [Stages -> Int]
  /\ control \in [Stages -> {0} \cup Pools]
  /\ credit \in [Stages -> Int]
  /\ monPC \in MonitorPC
  /\ monStage \in Stages
  /\ monPeriod \in Periods
  /\ posted \subseteq JobIds
  /\ main \in 0 .. 7
-----------------------------------------------------------------------------
(* The jobs of stage s that block_cnt counts. *)
Active(s) == {n \in JobIds : at[s][n] \in {"counted", "queued", "push",
                                                "leave"}}

(* Places of TSQ[s] that hold a block. *)
Waiting(s) == {i \in 1 .. Len(TSQ[s]) : TSQ[s][i] # END}

Pushing(s) == {n \in JobIds : at[s][n] = "push"}

(* block_cnt of a stage is the number of its jobs between the feeder's     *)
(* increment and the job's own decrement, whatever the interleaving.       *)
CountsActiveJobs == \A s \in Stages : block_cnt[s] = Cardinality(Active(s))

(* TSQ_cnt runs ahead of the queue by the pushes under way and lags by the *)
(* block the next feeder has popped and not yet accounted for, so a zero   *)
(* means that no block is on its way to the feeder.                        *)
CountsBlocksOnTheWay ==
  \A s \in {1, 2} :
    TSQ_cnt[s] = Cardinality(Waiting(s)) + Cardinality(Pushing(s))
                 + (IF pc[s + 1] = "store" THEN 1 ELSE 0)

(* The end flag of a stage (read_end, compress_end, transfer_end) goes up  *)
(* only after its last block has been handed on: no job is active except   *)
(* the end job, still to be submitted or to finish.                        *)
EndFlagIsFinal ==
  \A s \in Stages : end_flag[s] =>
    /\ add_end[s]
    /\ \A n \in JobIds : kind[s][n] # "end"
                         => at[s][n] \in {"none", "pushEnd", "done"}

(* When run_compressQueue1 or run_transferQueue1 leaves its pop loop, each *)
(* block of the stage before has gone through the queue: none is left in   *)
(* TSQ, none is being pushed, and the feeder before has no more to cut.    *)
DrainedBeforeExit ==
  \A s \in {2, 3} : draining[s] =>
    /\ Waiting(s - 1) = {}
    /\ Pushing(s - 1) = {}
    /\ pc[s - 1] \in {"count", "submit", "done"}
    /\ \A n \in JobIds :
         at[s - 1][n] \in {"made", "counted", "queued", "leave"}
           => kind[s - 1][n] = "end"

(* What the properties above rest on.  A feeder that scans has something   *)
(* left to scan, one that adds a job has cut it, and one that accounts for *)
(* a block has popped a block.                                             *)
WellPlaced ==
  /\ pc[1] = "scan" => item <= Len(Traversal)
  /\ \A s \in Stages :
       pc[s] \in {"credit", "endFlag", "count", "submit"} => made[s] \in JobIds
  /\ \A s \in {2, 3} : pc[s] = "store" => held[s] \in JobIds

(* Only the job cut last is not yet in a pool. *)
JobsInOrder ==
  \A s \in Stages :
    /\ \A n \in JobIds :
         /\ at[s][n] = "none" <=> n > made[s]
         /\ at[s][n] = "made" =>
              n = made[s] /\ pc[s] \in {"credit", "endFlag", "count"}
         /\ at[s][n] = "counted" => n = made[s] /\ pc[s] = "submit"
    /\ pc[s] \in {"credit", "endFlag", "count"} => at[s][made[s]] = "made"
    /\ pc[s] = "submit" => at[s][made[s]] = "counted"

EndCut(s) == made[s] \in JobIds /\ kind[s][made[s]] = "end"

(* The end job is the last one of its stage: nothing is cut after it, and  *)
(* it is cut only when the input of the stage is over.                     *)
EndIsLast ==
  \A s \in Stages :
    /\ pc[s] = "credit" => ~EndCut(s)
    /\ EndCut(s) => pc[s] \in {"endFlag", "count", "submit", "done"}
    /\ add_end[s] => EndCut(s) /\ pc[s] \in {"count", "submit", "done"}
    /\ pc[s] = "endFlag" => EndCut(s)
    /\ pc[s] = "endCredit" \/ EndCut(s) =>
         IF s = 1 THEN item > Len(Traversal) ELSE draining[s]
    /\ draining[s] => /\ s # 1
                      /\ end_flag[s - 1]
                      /\ pc[s] \notin {"check", "pop", "store"}

(* Inductive for a directory without subdirectories. *)
HandOffInv ==
  /\ TypeOK
  /\ WellPlaced
  /\ JobsInOrder
  /\ EndIsLast
  /\ CountsActiveJobs
  /\ CountsBlocksOnTheWay
  /\ EndFlagIsFinal
  /\ DrainedBeforeExit

Flat == \A i \in 1 .. Len(Traversal) - 1 : Traversal[i] # DirEnd
-----------------------------------------------------------------------------
(* The monitor stops granting credit ("Add all task over !") only when no  *)
(* feeder will ask for credit again, or it would spin forever.             *)
MonitorOutlivesFeeders ==
  monPC = "quit" =>
    \A s \in Stages : pc[s] \in {"count", "submit", "done", "crashed"}

(* A stage overspends its credit by less than one block: the balance that  *)
(* finish() sees as used up is never more than one block below zero.       *)
OverdraftBelowOneBlock ==
  \A s \in Stages : credit[s] > -BlockSize[s]

(* After the seven waits nothing of the pipeline runs any more, so main    *)
(* may destroy the pools and free the storages.                            *)
OverMeansIdle ==
  main = 7 => /\ \A s \in Stages : pc[s] = "done"
              /\ \A s \in Stages, n \in JobIds :
                   at[s][n] \in {"none", "done"}
              /\ monPC = "quit"

(* Bytes of the traversed files, and of the blocks of a stage. *)
FileBytes ==
  Sets!MapThenSumSet(LAMBDA i : Traversal[i],
                     {i \in 1 .. Len(Traversal) : Traversal[i] # DirEnd})

Blocks(s) == {n \in JobIds : at[s][n] # "none" /\ kind[s][n] = "data"}

BytesOf(s, S) == Sets!MapThenSumSet(LAMBDA n : bytes[s][n], S)

(* When main has passed its seven waits, the transfer is complete: blocks  *)
(* of every file were read to the last byte, the byte streams that lead    *)
(* from one stage to the next hold all of them and are used up, and each   *)
(* block of stage 3 was accepted by the server.                            *)
EverythingSent ==
  main = 7 =>
    /\ BytesOf(1, Blocks(1)) = FileBytes
    /\ BytesOf(2, Blocks(2)) = Cardinality(Blocks(1)) * Block1Bytes
    /\ BytesOf(3, posted) =
         Sets!MapThenSumSet(LAMBDA n : FrameHeader + FrameBytes + out[n],
                            Blocks(2))

(* The transfer comes to its end: no stage waits for ever on its queue, on *)
(* its credit or on a mutex, and no end marker gets lost.                  *)
Termination == <>(main = 7)

(* Blocks of stage s that the next feeder has popped and accounted for. *)
Handed(s) ==
  {n \in Blocks(s) :
     /\ at[s][n] \in {"leave", "pushEnd", "done"}
     /\ \A i \in Waiting(s) : TSQ[s][i] # n
     /\ ~(pc[s + 1] = "store" /\ held[s + 1] = n)}

Closed(s) == \E n \in JobIds : kind[s][n] = "end" /\ at[s][n] # "none"

ReadToCompress ==
  INSTANCE HandOff WITH
    Block <- JobIds, given <- Blocks(1), taken <- Handed(1),
    closed <- Closed(1), over <- draining[2]

CompressToSend ==
  INSTANCE HandOff WITH
    Block <- JobIds, given <- Blocks(2), taken <- Handed(2),
    closed <- Closed(2), over <- draining[3]

(* Between reading and compressing, and between compressing and sending,   *)
(* the counters, flags and queue do what HandOff promises: every block is  *)
(* taken once and the consumer never gives up too early.                   *)
ReadHandsOn == ReadToCompress!Spec

CompressHandsOn == CompressToSend!Spec
=============================================================================
