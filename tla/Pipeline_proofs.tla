-------------------------- MODULE Pipeline_proofs --------------------------
(***************************************************************************)
(* Theorems about Pipeline, for every traversal, block size, method and    *)
(* number of jobs: types, credit and the end of main, then the counters    *)
(* and flags by which one stage tells the next that its input is over, and *)
(* in the end that nothing gets lost on the way.                           *)
(*                                                                         *)
(* Blocks: the pipeline implements HandOff, between stages 1 and 2 and     *)
(* between stages 2 and 3.  The invariant QueueInv says where a block is   *)
(* that has left its job, and with it each step gives, closes, takes,      *)
(* finishes or leaves the hand-over alone.                                 *)
(*                                                                         *)
(* Bytes: what a feeder cuts adds up to what it has read, and what it      *)
(* reads to what the stage before has made (BytesInv).                     *)
(***************************************************************************)
EXTENDS Pipeline, FiniteSetTheorems, SequenceTheorems, FunctionTheorems,
        WellFoundedInduction, TLAPS

(* TypeOK is not inductive by itself: a feeder must have cut the job it     *)
(* works on, popped the block it stores, and have an item left to scan.     *)
TypeInv == TypeOK /\ WellPlaced

LEMMA StageNumbers ==
  /\ 1 \in Stages /\ 2 \in Stages /\ 3 \in Stages
  /\ \A s \in {2, 3} : s \in Stages /\ s - 1 \in Stages /\ s # 1
  BY DEF Stages

(* A job that is cut has the parts of a job, and its number is one. *)
LEMMA MakeType ==
  ASSUME TypeInv, NEW s \in Stages, NEW k \in JobKind, NEW b \in Nat,
         NEW p \in {0} \cup Pools, Make(s, k, b, p)
  PROVE  /\ made' \in [Stages -> JobIds \cup {0}]
         /\ kind' \in [Stages -> [JobIds -> JobKind]]
         /\ bytes' \in [Stages -> [JobIds -> Nat]]
         /\ pool' \in [Stages -> [JobIds -> {0} \cup Pools]]
         /\ at' \in [Stages -> [JobIds -> JobPC]]
         /\ made' = [made EXCEPT ![s] = @ + 1]
         /\ made'[s] \in JobIds
  BY DEF TypeInv, TypeOK, Make, Move, JobPC

LEMMA InitTypeInv == Init => TypeInv
  BY SizesAssumption, TraversalAssumption
  DEF Init, TypeInv, TypeOK, WellPlaced, FeederPC, MonitorPC, Periods, END,
      Stages, Pools, JobPC, JobKind

-----------------------------------------------------------------------------
(* What the feeders have in common. *)

LEMMA TakeCreditType ==
  ASSUME TypeInv, NEW s \in Stages, TakeCredit(s)
  PROVE  TypeInv'
<1>1. TypeOK'
  <2>1. made[s] \in JobIds
    BY DEF TypeInv, WellPlaced, TakeCredit
  <2>2. credit' \in [Stages -> Int]
    BY <2>1 DEF TypeInv, TypeOK, TakeCredit
  <2>3. pool' \in [Stages -> [JobIds -> {0} \cup Pools]]
    BY <2>1 DEF TypeInv, TypeOK, TakeCredit
  <2>4. pc' \in [Stages -> FeederPC]
    BY DEF TypeInv, TypeOK, TakeCredit, Go, FeederPC
  <2> QED
    BY <2>2, <2>3, <2>4
    DEF TypeInv, TypeOK, TakeCredit, feedVars, endVars, tsqVars, monVars
<1>2. WellPlaced'
  BY StageNumbers DEF TypeInv, TypeOK, WellPlaced, TakeCredit, Go, feedVars
<1> QED
  BY <1>1, <1>2 DEF TypeInv

LEMMA EndCreditType ==
  ASSUME TypeInv, NEW s \in Stages, EndCredit(s)
  PROVE  TypeInv'
<1>1. /\ made' \in [Stages -> JobIds \cup {0}]
      /\ kind' \in [Stages -> [JobIds -> JobKind]]
      /\ bytes' \in [Stages -> [JobIds -> Nat]]
      /\ pool' \in [Stages -> [JobIds -> {0} \cup Pools]]
      /\ at' \in [Stages -> [JobIds -> JobPC]]
      /\ made' = [made EXCEPT ![s] = @ + 1]
      /\ made'[s] \in JobIds
  BY MakeType DEF EndCredit, JobKind, TypeInv, TypeOK
<1>2. TypeOK'
  BY <1>1 DEF TypeInv, TypeOK, EndCredit, Go, FeederPC, feedVars, endVars,
              tsqVars, payVars, monVars
<1>3. WellPlaced'
  BY <1>1, StageNumbers DEF TypeInv, TypeOK, WellPlaced, EndCredit, Go, feedVars
<1> QED
  BY <1>2, <1>3 DEF TypeInv

LEMMA SetAddEndType ==
  ASSUME TypeInv, NEW s \in Stages, SetAddEnd(s)
  PROVE  TypeInv'
<1>1. TypeOK'
  BY DEF TypeInv, TypeOK, SetAddEnd, Go, FeederPC, feedVars, jobVars,
         endVars, tsqVars, payVars, monVars
<1>2. WellPlaced'
  BY StageNumbers DEF TypeInv, TypeOK, WellPlaced, SetAddEnd, Go, feedVars, jobVars
<1> QED
  BY <1>1, <1>2 DEF TypeInv

LEMMA CountType ==
  ASSUME TypeInv, NEW s \in Stages, Count(s)
  PROVE  TypeInv'
<1>1. made[s] \in JobIds
  BY DEF TypeInv, WellPlaced, Count
<1>2. TypeOK'
  BY <1>1, SMTT(40) DEF TypeInv, TypeOK, Count, Move, Go, FeederPC, JobPC,
              feedVars, jobVars, endVars, tsqVars, payVars, monVars
<1>3. WellPlaced'
  BY StageNumbers DEF TypeInv, TypeOK, WellPlaced, Count, Go, feedVars, jobVars
<1> QED
  BY <1>2, <1>3 DEF TypeInv

LEMMA SubmitType ==
  ASSUME TypeInv, NEW s \in Stages, Submit(s)
  PROVE  TypeInv'
<1>1. made[s] \in JobIds
  BY DEF TypeInv, WellPlaced, Submit
<1>2. TypeOK'
  BY <1>1 DEF TypeInv, TypeOK, Submit, AfterSubmit, Move, Go, FeederPC, JobPC,
              feedVars, jobVars, endVars, tsqVars, payVars, monVars
<1>3. WellPlaced'
  BY TraversalAssumption, StageNumbers DEF TypeInv, TypeOK, WellPlaced, Submit, AfterSubmit, Go, feedVars, jobVars
<1> QED
  BY <1>2, <1>3 DEF TypeInv

-----------------------------------------------------------------------------
(* Reading the directory. *)

(* Short of its end, trave_dir meets sizes and directory ends. *)
LEMMA TraversalItem ==
  ASSUME NEW i \in Nat \ {0}, i <= Len(Traversal), Traversal[i] # DirEnd
  PROVE  Traversal[i] \in Nat /\ i + 1 <= Len(Traversal)
  BY TraversalAssumption

LEMMA AddBlockType ==
  ASSUME TypeInv, AddBlock
  PROVE  TypeInv'
<1>1. Traversal[item] \in Nat
  BY TraversalItem DEF TypeInv, TypeOK, WellPlaced, AddBlock, FileStored
<1>2. BlockSize[1] \in Nat \ {0} /\ 1 \in Stages
  BY SizesAssumption DEF Stages
<1>3. Min2(Traversal[item] - offset, BlockSize[1]) \in Nat
  BY <1>1, <1>2, SMTT(40) DEF Min2, AddBlock, TypeInv, TypeOK
<1>4. /\ made' \in [Stages -> JobIds \cup {0}]
      /\ kind' \in [Stages -> [JobIds -> JobKind]]
      /\ bytes' \in [Stages -> [JobIds -> Nat]]
      /\ pool' \in [Stages -> [JobIds -> {0} \cup Pools]]
      /\ at' \in [Stages -> [JobIds -> JobPC]]
      /\ made' = [made EXCEPT ![1] = @ + 1]
      /\ made'[1] \in JobIds
  BY <1>2, <1>3, MakeType DEF AddBlock, JobKind
<1>5. TypeOK'
  <2>1. offset' \in Nat
    BY <1>2 DEF AddBlock, TypeInv, TypeOK
  <2>2. pc' \in [Stages -> FeederPC]
    BY DEF AddBlock, Go, FeederPC, TypeInv, TypeOK
  <2>3. UNCHANGED <<item, draining, held, size, popSize, out, block_cnt,
                    add_end, end_flag, TSQ, TSQ_cnt, control, credit, monPC,
                    monStage, monPeriod, posted, main>>
    BY DEF AddBlock, endVars, tsqVars, payVars, monVars
  <2> QED
    BY <1>4, <2>1, <2>2, <2>3 DEF TypeInv, TypeOK
<1>6. WellPlaced'
  BY <1>4, <1>2, StageNumbers DEF TypeInv, TypeOK, WellPlaced, AddBlock, Go
<1> QED
  BY <1>5, <1>6 DEF TypeInv

LEMMA NextFileType ==
  ASSUME TypeInv, NextFile
  PROVE  TypeInv'
<1>1. TypeOK'
  <2>1. item' \in Nat \ {0} /\ offset' \in Nat
    BY DEF NextFile, TypeInv, TypeOK
  <2>2. UNCHANGED <<pc, draining, held, size, popSize, made, kind, bytes,
                    pool, at, out, block_cnt, add_end, end_flag, TSQ, TSQ_cnt,
                    control, credit, monPC, monStage, monPeriod, posted, main>>
    BY DEF NextFile, scanVars, jobVars, endVars, tsqVars, payVars, monVars
  <2> QED
    BY <2>1, <2>2 DEF TypeInv, TypeOK
<1>2. WellPlaced'
  BY TraversalItem
  DEF TypeInv, TypeOK, WellPlaced, NextFile, scanVars, jobVars
<1> QED
  BY <1>1, <1>2 DEF TypeInv

LEMMA EndDirType ==
  ASSUME TypeInv, EndDir
  PROVE  TypeInv'
<1>1. TypeOK'
  <2>1. item' \in Nat \ {0}
    BY DEF EndDir, TypeInv, TypeOK
  <2>3. pc' \in [Stages -> FeederPC]
    BY DEF EndDir, Go, FeederPC, TypeInv, TypeOK
  <2>2. UNCHANGED <<offset, draining, held, size, popSize, made, kind, bytes,
                    pool, at, out, block_cnt, add_end, end_flag, TSQ, TSQ_cnt,
                    control, credit, monPC, monStage, monPeriod, posted, main>>
    BY DEF EndDir, scanVars, jobVars, endVars, tsqVars, payVars, monVars
  <2> QED
    BY <2>1, <2>2, <2>3 DEF TypeInv, TypeOK
<1>2. WellPlaced'
  BY StageNumbers DEF TypeInv, TypeOK, WellPlaced, EndDir, Go, scanVars, jobVars, Stages
<1> QED
  BY <1>1, <1>2 DEF TypeInv

-----------------------------------------------------------------------------
(* The feeders of the compression and transfer stages. *)

LEMMA CheckEndType ==
  ASSUME TypeInv, NEW s \in {2, 3}, CheckEnd(s)
  PROVE  TypeInv'
<1>1. InputOver(s) \in BOOLEAN /\ s \in Stages
  BY DEF InputOver, TypeInv, TypeOK, Stages
<1>2. TypeOK'
  BY <1>1 DEF TypeInv, TypeOK, CheckEnd, Go, FeederPC, jobVars, endVars,
              tsqVars, payVars, monVars
<1>3. WellPlaced'
  BY <1>1, StageNumbers DEF TypeInv, TypeOK, WellPlaced, CheckEnd, Go, jobVars
<1> QED
  BY <1>2, <1>3 DEF TypeInv

LEMMA PopType ==
  ASSUME TypeInv, NEW s \in {2, 3}, Pop(s)
  PROVE  TypeInv'
<1>1. s \in Stages /\ s - 1 \in Stages
  BY DEF Stages
<1>2. /\ Head(TSQ[s - 1]) \in JobIds \cup {END}
      /\ Tail(TSQ[s - 1]) \in Seq(JobIds \cup {END})
  <2>1. TSQ[s - 1] \in Seq(JobIds \cup {END}) /\ TSQ[s - 1] # <<>>
    BY <1>1 DEF Pop, TypeInv, TypeOK
  <2> QED
    BY <2>1, HeadTailProperties
<1>3. TypeOK'
  BY <1>1, <1>2 DEF TypeInv, TypeOK, Pop, Go, FeederPC, jobVars, endVars,
                    payVars, monVars
<1>4. WellPlaced'
  BY <1>1, <1>2, StageNumbers DEF TypeInv, TypeOK, WellPlaced, Pop, Go, jobVars
<1> QED
  BY <1>3, <1>4 DEF TypeInv

LEMMA StoreType ==
  ASSUME TypeInv, NEW s \in {2, 3}, Store(s)
  PROVE  TypeInv'
<1>1. s \in Stages /\ s - 1 \in Stages /\ 2 \in Stages /\ 3 \in Stages
  BY DEF Stages
<1>2. StoredSize(s) \in Nat
  <2>1. held[s] \in JobIds
    BY DEF TypeInv, WellPlaced, Store
  <2>2. \A t \in Stages, old \in Nat, b \in Nat : PushBytes(t, old, b) \in Nat
    BY DEF PushBytes
  <2>3. size[2] \in Nat /\ size[3] \in Nat /\ out[held[s]] \in Nat
    BY <1>1, <2>1 DEF TypeInv, TypeOK
  <2>4. Block1Bytes \in Nat /\ FrameHeader \in Nat
        /\ FrameBytes + out[held[s]] \in Nat
    BY <2>3, SizesAssumption
  <2>5. PushBytes(2, size[2], Block1Bytes) \in Nat
        /\ PushBytes(3, size[3], FrameHeader) \in Nat
    BY <1>1, <2>2, <2>3, <2>4
  <2>6. PushBytes(3, PushBytes(3, size[3], FrameHeader),
                  FrameBytes + out[held[s]]) \in Nat
    BY <1>1, <2>2, <2>4, <2>5
  <2> QED
    BY <2>5, <2>6 DEF StoredSize
<1>3. TypeOK'
  <2>1. TSQ_cnt' \in [Stages -> Int]
    <3> DEFINE t == s - 1
    <3>1. TSQ_cnt \in [Stages -> Int] /\ t \in Stages
      BY <1>1 DEF TypeInv, TypeOK
    <3>2. TSQ_cnt' = [TSQ_cnt EXCEPT ![t] = @ - 1]
      BY DEF Store
    <3> HIDE DEF t
    <3> QED
      BY <3>1, <3>2
  <2>2. size' \in [Stages -> Nat] /\ pc' \in [Stages -> FeederPC]
    BY <1>1, <1>2 DEF Store, Go, FeederPC, TypeInv, TypeOK
  <2> QED
    BY <2>1, <2>2 DEF TypeInv, TypeOK, Store, jobVars, endVars, payVars, monVars
<1>4. WellPlaced'
  BY <1>1, StageNumbers DEF TypeInv, TypeOK, WellPlaced, Store, Go, jobVars
<1> QED
  BY <1>3, <1>4 DEF TypeInv

LEMMA CutType ==
  ASSUME TypeInv, NEW s \in {2, 3}, Cut(s)
  PROVE  TypeInv'
<1>1. s \in Stages /\ BlockSize[s] \in Nat \ {0}
  BY SizesAssumption DEF Stages
<1>2. CutSize(s) \in Nat
  BY <1>1 DEF CutSize, Min2, Cut, Available, Unpopped, TypeInv, TypeOK
<1>3. /\ made' \in [Stages -> JobIds \cup {0}]
      /\ kind' \in [Stages -> [JobIds -> JobKind]]
      /\ bytes' \in [Stages -> [JobIds -> Nat]]
      /\ pool' \in [Stages -> [JobIds -> {0} \cup Pools]]
      /\ at' \in [Stages -> [JobIds -> JobPC]]
      /\ made' = [made EXCEPT ![s] = @ + 1]
      /\ made'[s] \in JobIds
  BY <1>1, <1>2, MakeType DEF Cut, JobKind
<1>4. popSize' \in [Stages -> Nat]
  BY <1>1, <1>2, SMTT(40) DEF Cut, TypeInv, TypeOK
<1>5. TypeOK'
  BY <1>1, <1>3, <1>4
  DEF TypeInv, TypeOK, Cut, Go, FeederPC, endVars, tsqVars, payVars, monVars
<1>6. WellPlaced'
  BY <1>1, <1>3, StageNumbers DEF TypeInv, TypeOK, WellPlaced, Cut, Go
<1> QED
  BY <1>5, <1>6 DEF TypeInv

LEMMA OverrunType ==
  ASSUME TypeInv, NEW s \in {2, 3}, Overrun(s)
  PROVE  TypeInv'
<1>1. s \in Stages
  BY DEF Stages
<1>2. TypeOK'
  BY <1>1 DEF TypeInv, TypeOK, Overrun, Go, FeederPC, feedVars, jobVars,
              endVars, tsqVars, payVars, monVars
<1>3. WellPlaced'
  BY <1>1, StageNumbers DEF TypeInv, TypeOK, WellPlaced, Overrun, Go, feedVars, jobVars
<1> QED
  BY <1>2, <1>3 DEF TypeInv

LEMMA CutDoneType ==
  ASSUME TypeInv, NEW s \in {2, 3}, CutDone(s)
  PROVE  TypeInv'
<1>1. s \in Stages
  BY DEF Stages
<1>2. TypeOK'
  BY <1>1 DEF TypeInv, TypeOK, CutDone, Go, FeederPC, feedVars, jobVars,
              endVars, tsqVars, payVars, monVars
<1>3. WellPlaced'
  BY <1>1, StageNumbers DEF TypeInv, TypeOK, WellPlaced, CutDone, Go, feedVars, jobVars
<1> QED
  BY <1>2, <1>3 DEF TypeInv

-----------------------------------------------------------------------------
(* The jobs. *)

LEMMA ReadBlockType ==
  ASSUME TypeInv, NEW n \in JobIds, ReadBlock(n)
  PROVE  TypeInv'
<1>1. TSQ_cnt' \in [Stages -> Int] /\ at' \in [Stages -> [JobIds -> JobPC]]
  <2>1. TSQ_cnt' \in [Stages -> Int]
    <3>1. TSQ_cnt \in [Stages -> Int]
      BY DEF TypeInv, TypeOK
    <3>2. TSQ_cnt' = [TSQ_cnt EXCEPT ![1] = @ + 1]
      BY DEF ReadBlock
    <3> QED
      BY <3>1, <3>2, StageNumbers
  <2>2. at' \in [Stages -> [JobIds -> JobPC]]
    BY StageNumbers DEF TypeInv, TypeOK, ReadBlock, Move, JobPC
  <2> QED
    BY <2>1, <2>2
<1>2. TypeOK'
  BY <1>1 DEF TypeInv, TypeOK, ReadBlock, workVars, feedVars, jobVars,
              endVars, payVars, monVars
<1>3. WellPlaced'
  BY DEF TypeInv, WellPlaced, ReadBlock, workVars, feedVars, jobVars
<1> QED
  BY <1>2, <1>3 DEF TypeInv

LEMMA CompressBlockType ==
  ASSUME TypeInv, NEW n \in JobIds, CompressBlock(n)
  PROVE  TypeInv'
<1>1. TSQ_cnt' \in [Stages -> Int] /\ at' \in [Stages -> [JobIds -> JobPC]]
  <2>1. TSQ_cnt' \in [Stages -> Int]
    <3>1. TSQ_cnt \in [Stages -> Int]
      BY DEF TypeInv, TypeOK
    <3>2. TSQ_cnt' = [TSQ_cnt EXCEPT ![2] = @ + 1]
      BY DEF CompressBlock
    <3> QED
      BY <3>1, <3>2, StageNumbers
  <2>2. at' \in [Stages -> [JobIds -> JobPC]]
    BY StageNumbers DEF TypeInv, TypeOK, CompressBlock, Move, JobPC
  <2> QED
    BY <2>1, <2>2
<1>2. out' \in [JobIds -> Nat]
  BY SizesAssumption DEF TypeInv, TypeOK, CompressBlock
<1>3. TypeOK'
  BY <1>1, <1>2 DEF TypeInv, TypeOK, CompressBlock, workVars, feedVars,
                    jobVars, endVars, payVars, monVars
<1>4. WellPlaced'
  BY DEF TypeInv, WellPlaced, CompressBlock, workVars, feedVars, jobVars
<1> QED
  BY <1>3, <1>4 DEF TypeInv

LEMMA PushBlockType ==
  ASSUME TypeInv, NEW s \in Stages, NEW n \in JobIds, PushBlock(s, n)
  PROVE  TypeInv'
<1>1. TSQ' \in [Stages -> Seq(JobIds \cup {END})]
  <2>1. TSQ \in [Stages -> Seq(JobIds \cup {END})]
    BY DEF TypeInv, TypeOK
  <2>2. Append(TSQ[s], n) \in Seq(JobIds \cup {END})
    BY <2>1, AppendProperties
  <2> QED
    BY <2>1, <2>2 DEF PushBlock
<1>2. at' \in [Stages -> [JobIds -> JobPC]]
  BY DEF TypeInv, TypeOK, PushBlock, Move, JobPC
<1>3. TypeOK'
  BY <1>1, <1>2 DEF TypeInv, TypeOK, PushBlock, workVars, feedVars, jobVars,
                    endVars, payVars, monVars
<1>4. WellPlaced'
  BY DEF TypeInv, WellPlaced, PushBlock, workVars, feedVars, jobVars
<1> QED
  BY <1>3, <1>4 DEF TypeInv

LEMMA PostBlockType ==
  ASSUME TypeInv, NEW n \in JobIds, PostBlock(n)
  PROVE  TypeInv'
<1>1. at' \in [Stages -> [JobIds -> JobPC]] /\ posted' \subseteq JobIds
  BY StageNumbers DEF TypeInv, TypeOK, PostBlock, Move, JobPC
<1>2. TypeOK'
  BY <1>1 DEF TypeInv, TypeOK, PostBlock, workVars, feedVars, jobVars,
              endVars, tsqVars, payVars, monVars
<1>3. WellPlaced'
  BY DEF TypeInv, WellPlaced, PostBlock, workVars, feedVars, jobVars
<1> QED
  BY <1>2, <1>3 DEF TypeInv

LEMMA LeaveType ==
  ASSUME TypeInv, NEW s \in Stages, NEW n \in JobIds, Leave(s, n)
  PROVE  TypeInv'
<1>1. LastOut(s) \in BOOLEAN
  BY DEF LastOut, TypeInv, TypeOK
<1>2. block_cnt' \in [Stages -> Int]
  BY DEF TypeInv, TypeOK, Leave
<1>3. at' \in [Stages -> [JobIds -> JobPC]]
  BY DEF TypeInv, TypeOK, Leave, Move, JobPC
<1>4. end_flag' \in [Stages -> BOOLEAN]
  <2>1. end_flag \in [Stages -> BOOLEAN] /\ (end_flag[s] \/ LastOut(s)) \in BOOLEAN
    BY <1>1 DEF TypeInv, TypeOK
  <2> QED
    BY <2>1 DEF Leave
<1>5. TypeOK'
  BY <1>2, <1>3, <1>4 DEF TypeInv, TypeOK, Leave, workVars, feedVars,
                          jobVars, tsqVars, payVars, monVars
<1>6. WellPlaced'
  BY DEF TypeInv, WellPlaced, Leave, workVars, feedVars, jobVars
<1> QED
  BY <1>5, <1>6 DEF TypeInv

LEMMA PushEndType ==
  ASSUME TypeInv, NEW s \in Stages, NEW n \in JobIds, PushEnd(s, n)
  PROVE  TypeInv'
<1>1. TSQ' \in [Stages -> Seq(JobIds \cup {END})]
  <2>1. TSQ \in [Stages -> Seq(JobIds \cup {END})]
    BY DEF TypeInv, TypeOK
  <2>2. Append(TSQ[s], END) \in Seq(JobIds \cup {END})
    BY <2>1, AppendProperties
  <2> QED
    BY <2>1, <2>2 DEF PushEnd
<1>2. at' \in [Stages -> [JobIds -> JobPC]]
  BY DEF TypeInv, TypeOK, PushEnd, Move, JobPC
<1>3. TypeOK'
  BY <1>1, <1>2 DEF TypeInv, TypeOK, PushEnd, workVars, feedVars, jobVars,
                    endVars, payVars, monVars
<1>4. WellPlaced'
  BY DEF TypeInv, WellPlaced, PushEnd, workVars, feedVars, jobVars
<1> QED
  BY <1>3, <1>4 DEF TypeInv

-----------------------------------------------------------------------------
(* The monitor and main. *)

LEMMA SetControlType ==
  ASSUME TypeInv, NEW s \in Stages, SetControl(s)
  PROVE  TypeInv'
<1> DEFINE grant == Method[monPeriod][s]
<1>1. grant.pool \in {0} \cup Pools /\ grant.credit \in Int
  BY MethodAssumption DEF TypeInv, TypeOK
<1>2. control' \in [Stages -> {0} \cup Pools]
  BY <1>1 DEF TypeInv, TypeOK, SetControl, payVars
<1>3. credit' \in [Stages -> Int]
  <2>1. \A a, b \in Int : Min2(a, b) \in Int
    BY DEF Min2
  <2>2. credit \in [Stages -> Int] /\ CreditCap \in Int
        /\ credit[s] + grant.credit \in Int
    BY <1>1, SizesAssumption, SMTT(40) DEF TypeInv, TypeOK
  <2>3. Min2(credit[s] + grant.credit, CreditCap) \in Int
    BY <2>1, <2>2
  <2> QED
    BY <2>2, <2>3 DEF SetControl, payVars
<1>4. monPC' \in MonitorPC /\ monStage' \in Stages
  BY DEF SetControl, MonitorPC, Stages
<1>5. TypeOK'
  BY <1>2, <1>3, <1>4 DEF TypeInv, TypeOK, SetControl, restVars, feedVars,
                          jobVars, endVars, tsqVars
<1>6. WellPlaced'
  BY DEF TypeInv, WellPlaced, SetControl, restVars, feedVars, jobVars
<1> QED
  BY <1>5, <1>6 DEF TypeInv

LEMMA CheckQuitType ==
  ASSUME TypeInv, CheckQuit
  PROVE  TypeInv'
<1>1. monPC' \in MonitorPC
  BY DEF CheckQuit, MonitorPC
<1>2. TypeOK'
  BY <1>1 DEF TypeInv, TypeOK, CheckQuit, restVars, feedVars, jobVars,
              endVars, tsqVars, payVars
<1>3. WellPlaced'
  BY DEF TypeInv, WellPlaced, CheckQuit, restVars, feedVars, jobVars
<1> QED
  BY <1>2, <1>3 DEF TypeInv

LEMMA FinishLockType ==
  ASSUME TypeInv, NEW s \in Stages, FinishLock(s)
  PROVE  TypeInv'
<1>1. monPC' \in MonitorPC
  BY DEF FinishLock, MonitorPC
<1>2. TypeOK'
  BY <1>1 DEF TypeInv, TypeOK, FinishLock, restVars, feedVars, jobVars,
              endVars, tsqVars, payVars
<1>3. WellPlaced'
  BY DEF TypeInv, WellPlaced, FinishLock, restVars, feedVars, jobVars
<1> QED
  BY <1>2, <1>3 DEF TypeInv

LEMMA FinishTestType ==
  ASSUME TypeInv, NEW s \in Stages, FinishTest(s)
  PROVE  TypeInv'
<1>1. monPC' \in MonitorPC /\ monStage' \in Stages
  BY DEF FinishTest, MonitorPC, Stages
<1>2. monPeriod' \in Periods
  BY DEF FinishTest, NextPeriod, Periods, TypeInv, TypeOK
<1>3. TypeOK'
  BY <1>1, <1>2 DEF TypeInv, TypeOK, FinishTest, restVars, feedVars, jobVars,
                    endVars, tsqVars, payVars
<1>4. WellPlaced'
  BY DEF TypeInv, WellPlaced, FinishTest, restVars, feedVars, jobVars
<1> QED
  BY <1>3, <1>4 DEF TypeInv

LEMMA MainWaitType ==
  ASSUME TypeInv, MainWait
  PROVE  TypeInv'
<1>1. main' \in 0 .. 7
  BY DEF MainWait, TypeInv, TypeOK
<1>2. TypeOK'
  BY <1>1 DEF TypeInv, TypeOK, MainWait, feedVars, jobVars, endVars, tsqVars,
              payVars, monVars
<1>3. WellPlaced'
  BY DEF TypeInv, WellPlaced, MainWait, feedVars, jobVars
<1> QED
  BY <1>2, <1>3 DEF TypeInv

LEMMA StutterType ==
  ASSUME TypeInv, UNCHANGED vars
  PROVE  TypeInv'
<1>1. TypeOK'
  BY DEF TypeInv, TypeOK, vars, feedVars, jobVars, endVars, tsqVars, payVars,
         monVars
<1>2. WellPlaced'
  BY DEF TypeInv, WellPlaced, vars, feedVars, jobVars
<1> QED
  BY <1>1, <1>2 DEF TypeInv

-----------------------------------------------------------------------------
(* Every step preserves the types. *)
LEMMA FeederType ==
  ASSUME TypeInv, trave_dir \/ run_compressQueue1 \/ run_transferQueue1
  PROVE  TypeInv'
<1>1. \A s \in Stages :
        TakeCredit(s) \/ EndCredit(s) \/ SetAddEnd(s) \/ Count(s) \/ Submit(s)
          => TypeInv'
  BY TakeCreditType, EndCreditType, SetAddEndType, CountType, SubmitType
<1>2. \A s \in {2, 3} :
        CheckEnd(s) \/ Pop(s) \/ Store(s) \/ Cut(s) \/ Overrun(s) \/ CutDone(s)
          => TypeInv'
  BY CheckEndType, PopType, StoreType, CutType, OverrunType, CutDoneType
<1>3. CASE trave_dir
  BY <1>1, <1>3, StageNumbers, AddBlockType, NextFileType, EndDirType
  DEF trave_dir
<1>4. CASE run_compressQueue1
  BY <1>1, <1>2, <1>4, StageNumbers DEF run_compressQueue1, RunQueue
<1>5. CASE run_transferQueue1
  BY <1>1, <1>2, <1>5, StageNumbers DEF run_transferQueue1, RunQueue
<1> QED
  BY <1>3, <1>4, <1>5

LEMMA JobType ==
  ASSUME TypeInv, NEW n \in JobIds,
         readFile(n) \/ compress_func(n) \/ transfer(n)
  PROVE  TypeInv'
<1>1. \A s \in Stages :
        PushBlock(s, n) \/ Leave(s, n) \/ PushEnd(s, n) => TypeInv'
  BY PushBlockType, LeaveType, PushEndType
<1>2. ReadBlock(n) \/ CompressBlock(n) \/ PostBlock(n) => TypeInv'
  BY ReadBlockType, CompressBlockType, PostBlockType
<1> QED
  BY <1>1, <1>2, StageNumbers DEF readFile, compress_func, transfer

LEMMA MonitorType ==
  ASSUME TypeInv, monitor
  PROVE  TypeInv'
  BY CheckQuitType, FinishLockType, FinishTestType, SetControlType
  DEF monitor, finish

LEMMA NextType == TypeInv /\ [Next]_vars => TypeInv'
<1> SUFFICES ASSUME TypeInv, [Next]_vars PROVE TypeInv'
  OBVIOUS
<1>1. CASE trave_dir \/ run_compressQueue1 \/ run_transferQueue1
  BY <1>1, FeederType
<1>2. CASE \E n \in JobIds : readFile(n) \/ compress_func(n) \/ transfer(n)
  BY <1>2, JobType
<1>3. CASE monitor
  BY <1>3, MonitorType
<1>4. CASE MainWait
  BY <1>4, MainWaitType
<1>5. CASE Ended \/ UNCHANGED vars
  BY <1>5, StutterType DEF Ended
<1> QED
  BY <1>1, <1>2, <1>3, <1>4, <1>5 DEF Next

LEMMA TypeInvariant == Spec => []TypeInv
  BY InitTypeInv, NextType, PTL DEF Spec

(* Every variable keeps its type: no feeder reads a job it has not cut, a  *)
(* block it has not popped, or an entry beyond the traversal.              *)
THEOREM TypeCorrect == Spec => []TypeOK
<1>1. TypeInv => TypeOK
  BY DEF TypeInv
<1> QED
  BY <1>1, TypeInvariant, PTL

-----------------------------------------------------------------------------
(* What kinds of steps there are. *)

(* What a job's move does to at. *)
LEMMA MoveFacts ==
  ASSUME TypeInv, NEW s \in Stages, NEW n \in JobIds, NEW to \in JobPC,
         Move(s, n, to)
  PROVE  /\ at[s] \in [JobIds -> JobPC]
         /\ at'[s] \in [JobIds -> JobPC]
         /\ at'[s] = [at[s] EXCEPT ![n] = to]
         /\ \A t \in Stages \ {s} : at'[t] = at[t]
  BY DEF TypeInv, TypeOK, Move

(* The steps of a feeder that neither cut a job, move one, nor pop.        *)
AdvanceStep(s) ==
  \/ TakeCredit(s) \/ SetAddEnd(s)
  \/ s = 1 /\ (NextFile \/ EndDir)
  \/ s # 1 /\ (CheckEnd(s) \/ Store(s) \/ Overrun(s) \/ CutDone(s))

LEMMA AdvanceFacts ==
  ASSUME TypeInv, NEW s \in Stages, AdvanceStep(s)
  PROVE  /\ UNCHANGED <<made, kind, at, TSQ, held>>
         /\ \A t \in Stages : pc'[t] = "store" => pc[t] = "store"
         /\ \A t \in Stages : t # s => pc'[t] = pc[t]
<1>1. UNCHANGED <<made, kind, at, TSQ, held>>
  BY DEF AdvanceStep, TakeCredit, SetAddEnd, NextFile, EndDir, CheckEnd, Store,
         Overrun, CutDone, feedVars, jobVars, tsqVars, scanVars
<1>2. PICK to : to # "store" /\ (Go(s, to) \/ pc' = pc)
  <2>1. CASE TakeCredit(s) \/ SetAddEnd(s)
    BY <2>1 DEF TakeCredit, SetAddEnd
  <2>2. CASE s = 1 /\ (NextFile \/ EndDir)
    BY <2>2 DEF NextFile, EndDir
  <2>3. CASE CheckEnd(s)
    BY <2>3 DEF CheckEnd
  <2>4. CASE Store(s) \/ Overrun(s) \/ CutDone(s)
    BY <2>4 DEF Store, Overrun, CutDone
  <2> QED
    BY <2>1, <2>2, <2>3, <2>4 DEF AdvanceStep
<1>3. pc \in [Stages -> FeederPC]
  BY DEF TypeInv, TypeOK
<1> QED
  BY <1>1, <1>2, <1>3 DEF Go

(* The steps that cut a job. *)
LEMMA CutFacts ==
  ASSUME TypeInv, NEW s \in Stages,
         EndCredit(s) \/ (s = 1 /\ AddBlock) \/ (s # 1 /\ Cut(s))
  PROVE  /\ \E k \in JobKind : \E b, p : Make(s, k, b, p)
         /\ pc[s] \in {"scan", "cut", "endCredit"}
         /\ UNCHANGED <<TSQ, held, draining>>
         /\ \A t \in Stages : pc'[t] = "store" <=> pc[t] = "store"
<1>1. pc \in [Stages -> FeederPC]
  BY DEF TypeInv, TypeOK
<1>2. /\ \E k \in JobKind : \E b, p : Make(s, k, b, p)
      /\ pc[s] \in {"scan", "cut", "endCredit"}
      /\ UNCHANGED <<TSQ, held, draining>>
      /\ pc' = [pc EXCEPT ![s] = "endFlag"] \/ pc' = [pc EXCEPT ![s] = "credit"]
  <2>1. CASE EndCredit(s)
    BY <2>1 DEF EndCredit, Go, feedVars, tsqVars, JobKind
  <2>2. CASE s = 1 /\ AddBlock
    BY <2>2 DEF AddBlock, Go, tsqVars, JobKind
  <2>3. CASE s # 1 /\ Cut(s)
    BY <2>3 DEF Cut, Go, tsqVars, JobKind
  <2> QED
    BY <2>1, <2>2, <2>3
<1> QED
  BY <1>1, <1>2

LEMMA OthersFacts ==
  ASSUME monitor \/ MainWait \/ Ended \/ UNCHANGED vars
  PROVE  UNCHANGED <<pc, made, kind, at, TSQ, held, draining>>
<1>1. CASE monitor
  BY <1>1 DEF monitor, finish, CheckQuit, FinishLock, FinishTest, SetControl,
              restVars, feedVars, jobVars, tsqVars
<1>2. CASE MainWait
  BY <1>2 DEF MainWait, feedVars, jobVars, tsqVars
<1>3. CASE Ended \/ UNCHANGED vars
  BY <1>3 DEF Ended, vars, feedVars, jobVars, tsqVars
<1> QED
  BY <1>1, <1>2, <1>3

(* The steps of the feeders, sorted by what they do to the hand-over.      *)
LEMMA FeederCases ==
  ASSUME trave_dir \/ run_compressQueue1 \/ run_transferQueue1
  PROVE  \/ \E s \in Stages : AdvanceStep(s) \/ Count(s) \/ Submit(s)
         \/ \E s \in Stages : EndCredit(s) \/ (s = 1 /\ AddBlock) \/ (s # 1 /\ Cut(s))
         \/ \E s \in {2, 3} : Pop(s)
<1>1. CASE trave_dir
  BY <1>1, StageNumbers DEF trave_dir, AdvanceStep
<1>2. CASE run_compressQueue1
  BY <1>2, StageNumbers DEF run_compressQueue1, RunQueue, AdvanceStep
<1>3. CASE run_transferQueue1
  BY <1>3, StageNumbers DEF run_transferQueue1, RunQueue, AdvanceStep
<1> QED
  BY <1>1, <1>2, <1>3

-----------------------------------------------------------------------------
(* No block is larger than the stage's block size, so paying for one block *)
(* out of a positive balance leaves more than minus that size.             *)
BlocksFit == \A s \in Stages, n \in JobIds : bytes[s][n] <= BlockSize[s]

CreditInv == BlocksFit /\ OverdraftBelowOneBlock

LEMMA InitCredit == Init => CreditInv
<1> SUFFICES ASSUME Init PROVE CreditInv
  OBVIOUS
<1>1. \A s \in Stages : BlockSize[s] \in Nat \ {0}
  BY SizesAssumption
<1> QED
  BY <1>1 DEF Init, CreditInv, BlocksFit, OverdraftBelowOneBlock

(* The steps that neither cut a job nor change a balance. *)
LEMMA CreditFrame ==
  ASSUME CreditInv, UNCHANGED <<bytes, credit>>
  PROVE  CreditInv'
  BY DEF CreditInv, BlocksFit, OverdraftBelowOneBlock

LEMMA MakeCredit ==
  ASSUME TypeInv, CreditInv, NEW s \in Stages, NEW k, NEW b \in Nat, NEW p,
         Make(s, k, b, p), b <= BlockSize[s], UNCHANGED credit
  PROVE  CreditInv'
<1>1. PICK n \in JobIds : n = made[s] + 1
  BY DEF Make
<1>2. /\ bytes' = [bytes EXCEPT ![s][n] = b]
      /\ bytes \in [Stages -> [JobIds -> Nat]]
  BY <1>1 DEF Make, TypeInv, TypeOK
<1>3. \A t \in Stages, m \in JobIds :
        bytes'[t][m] = IF t = s /\ m = n THEN b ELSE bytes[t][m]
  BY <1>2
<1> QED
  BY <1>3 DEF CreditInv, BlocksFit, OverdraftBelowOneBlock

LEMMA MinFacts ==
  ASSUME NEW a \in Int, NEW b \in Int
  PROVE  /\ Min2(a, b) \in {a, b}
         /\ Min2(a, b) <= a
         /\ Min2(a, b) <= b
  BY DEF Min2

LEMMA CutCredit ==
  ASSUME TypeInv, CreditInv, NEW s \in Stages,
         EndCredit(s) \/ (s = 1 /\ AddBlock) \/ (s # 1 /\ Cut(s))
  PROVE  CreditInv'
<1>1. BlockSize[s] \in Nat \ {0}
  BY SizesAssumption
<1>2. CASE EndCredit(s)
  BY <1>1, <1>2, MakeCredit DEF EndCredit, payVars
<1>3. CASE s = 1 /\ AddBlock
  <2> DEFINE rest == Traversal[item] - offset
  <2>1. /\ Traversal[item] \in Nat /\ offset \in Nat /\ offset < Traversal[item]
        /\ UNCHANGED credit
        /\ \E k : Make(1, k, Min2(rest, BlockSize[1]), 0)
    <3>1. Traversal[item] \in Nat
      BY <1>3, TraversalItem
      DEF AddBlock, FileStored, TypeInv, TypeOK, WellPlaced
    <3> QED
      BY <1>3, <3>1 DEF AddBlock, payVars, TypeInv, TypeOK
  <2>2. rest \in Nat
    BY <2>1
  <2> HIDE DEF rest
  <2>3. Min2(rest, BlockSize[1]) \in Nat /\ Min2(rest, BlockSize[1]) <= BlockSize[1]
    BY <1>1, <1>3, <2>2, MinFacts
  <2> QED
    BY <1>3, <2>1, <2>3, MakeCredit
<1>4. CASE s # 1 /\ Cut(s)
  <2>1. /\ Unpopped(s) \in Int /\ (Unpopped(s) > 0 \/ Unpopped(s) >= BlockSize[s])
        /\ UNCHANGED credit
        /\ Make(s, "data", CutSize(s), 0)
    BY <1>4 DEF Cut, Available, Unpopped, payVars, TypeInv, TypeOK
  <2>2. CutSize(s) \in Nat /\ CutSize(s) <= BlockSize[s]
    BY <1>1, <2>1, MinFacts DEF CutSize
  <2> QED
    BY <2>1, <2>2, MakeCredit
<1> QED
  BY <1>2, <1>3, <1>4

LEMMA TakeCreditCredit ==
  ASSUME TypeInv, CreditInv, NEW s \in Stages, TakeCredit(s)
  PROVE  CreditInv'
<1>1. made[s] \in JobIds
  BY DEF TakeCredit, TypeInv, WellPlaced
<1>2. /\ credit' = [credit EXCEPT ![s] = @ - bytes[s][made[s]]]
      /\ credit[s] > 0
      /\ UNCHANGED bytes
      /\ credit \in [Stages -> Int]
      /\ BlockSize \in [Stages -> Nat \ {0}]
  BY SizesAssumption DEF TakeCredit, MayAdd, TypeInv, TypeOK, jobVars
<1>3. bytes[s][made[s]] \in Nat /\ bytes[s][made[s]] <= BlockSize[s]
  BY <1>1 DEF TypeInv, TypeOK, CreditInv, BlocksFit
<1>4. \A t \in Stages : credit'[t] > -BlockSize[t]
  BY <1>2, <1>3 DEF CreditInv, OverdraftBelowOneBlock
<1> QED
  BY <1>2, <1>4 DEF CreditInv, BlocksFit, OverdraftBelowOneBlock

LEMMA SetControlCredit ==
  ASSUME TypeInv, CreditInv, NEW s \in Stages, SetControl(s)
  PROVE  CreditInv'
<1> DEFINE grant == Method[monPeriod][s]
<1>1. /\ UNCHANGED bytes
      /\ credit \in [Stages -> Int]
      /\ BlockSize \in [Stages -> Nat \ {0}]
      /\ CreditCap \in Nat
      /\ grant.credit \in Int
  BY SizesAssumption, MethodAssumption
  DEF SetControl, TypeInv, TypeOK, restVars, jobVars
<1>2. \/ credit' = credit
      \/ /\ grant.credit >= 0
         /\ credit' = [credit EXCEPT ![s] = Min2(@ + grant.credit, CreditCap)]
  BY DEF SetControl, payVars
<1> HIDE DEF grant
<1>3. \A t \in Stages : credit'[t] > -BlockSize[t]
  <2>1. CASE credit' = credit
    BY <2>1 DEF CreditInv, OverdraftBelowOneBlock
  <2>2. CASE /\ grant.credit >= 0
             /\ credit' = [credit EXCEPT ![s] = Min2(@ + grant.credit, CreditCap)]
    <3>1. /\ credit[s] > -BlockSize[s] /\ credit[s] \in Int
          /\ BlockSize[s] \in Nat \ {0}
      BY <1>1 DEF CreditInv, OverdraftBelowOneBlock
    <3>2. Min2(credit[s] + grant.credit, CreditCap) > -BlockSize[s]
      BY <1>1, <2>2, <3>1, MinFacts
    <3> QED
      BY <1>1, <2>2, <3>2 DEF CreditInv, OverdraftBelowOneBlock
  <2> QED
    BY <1>2, <2>1, <2>2
<1> QED
  BY <1>1, <1>3 DEF CreditInv, BlocksFit, OverdraftBelowOneBlock

LEMMA NextCredit == TypeInv /\ CreditInv /\ [Next]_vars => CreditInv'
<1> SUFFICES ASSUME TypeInv, CreditInv, [Next]_vars PROVE CreditInv'
  OBVIOUS
<1>1. CASE trave_dir \/ run_compressQueue1 \/ run_transferQueue1
  <2>1. ASSUME NEW s \in Stages, AdvanceStep(s) \/ Count(s) \/ Submit(s),
               ~TakeCredit(s)
        PROVE  CreditInv'
    <3>1. UNCHANGED <<bytes, credit>>
      BY <2>1
      DEF AdvanceStep, SetAddEnd, NextFile, EndDir, CheckEnd, Store, Overrun,
          CutDone, Count, Submit, jobVars, payVars, scanVars
    <3> QED
      BY <3>1, CreditFrame
  <2>2. ASSUME NEW s \in Stages, Pop(s) PROVE CreditInv'
    BY <2>2, CreditFrame DEF Pop, jobVars, payVars
  <2> QED
    BY <1>1, <2>1, <2>2, FeederCases, CutCredit, TakeCreditCredit, StageNumbers
<1>2. CASE \E n \in JobIds : readFile(n) \/ compress_func(n) \/ transfer(n)
  <2>1. UNCHANGED <<bytes, credit>>
    BY <1>2
    DEF readFile, compress_func, transfer, ReadBlock, CompressBlock, PushBlock,
        PostBlock, Leave, PushEnd, workVars, jobVars, payVars
  <2> QED
    BY <2>1, CreditFrame
<1>3. CASE monitor
  <2>1. CASE CheckQuit \/ finish
    BY <2>1, CreditFrame
    DEF CheckQuit, finish, FinishLock, FinishTest, restVars, jobVars, payVars
  <2> QED
    BY <1>3, <2>1, SetControlCredit DEF monitor
<1>4. CASE MainWait \/ Ended \/ UNCHANGED vars
  BY <1>4, CreditFrame DEF MainWait, Ended, vars, jobVars, payVars
<1> QED
  BY <1>1, <1>2, <1>3, <1>4 DEF Next

(* A stage overspends its credit by less than one block, whatever the      *)
(* method grants and however the feeders and the monitor interleave.       *)
THEOREM OverdraftCorrect == Spec => []OverdraftBelowOneBlock
<1>1. CreditInv => OverdraftBelowOneBlock
  BY DEF CreditInv
<1> QED
  BY <1>1, InitCredit, NextCredit, TypeInvariant, PTL DEF Spec

-----------------------------------------------------------------------------
(* A job that is not yet in a pool is the one its feeder works on, so a    *)
(* feeder that is done has none.                                           *)
Fresh ==
  \A s \in Stages, n \in JobIds :
    /\ at[s][n] = "made" =>
         n = made[s] /\ pc[s] \in {"credit", "endFlag", "count"}
    /\ at[s][n] = "counted" => n = made[s] /\ pc[s] = "submit"

(* What main has waited for stays over. *)
WaitedFor ==
  /\ main >= 1 => monPC = "quit"
  /\ \A s \in Stages :
       /\ main >= s + 1 => pc[s] = "done"
       /\ main >= s + 4 => \A n \in JobIds : at[s][n] \in {"none", "done"}

IdleInv == Fresh /\ WaitedFor

LEMMA InitIdle == Init => IdleInv
  BY DEF Init, IdleInv, Fresh, WaitedFor, Stages

LEMMA IdleFrame ==
  ASSUME IdleInv, UNCHANGED <<made, at, pc, main>>,
         monPC = "quit" => monPC' = "quit"
  PROVE  IdleInv'
  BY DEF IdleInv, Fresh, WaitedFor

(* A feeder moves on, perhaps with one of its jobs: it was not done, so    *)
(* main does not yet wait for it.                                          *)
LEMMA FeederIdle ==
  ASSUME TypeInv, IdleInv, NEW s \in Stages, pc[s] # "done",
         \A t \in Stages \ {s} : /\ pc'[t] = pc[t] /\ at'[t] = at[t]
                                 /\ made'[t] = made[t],
         \A n \in JobIds :
           /\ at'[s][n] = "made" =>
                n = made'[s] /\ pc'[s] \in {"credit", "endFlag", "count"}
           /\ at'[s][n] = "counted" => n = made'[s] /\ pc'[s] = "submit",
         UNCHANGED <<main, monPC>>
  PROVE  IdleInv'
<1>1. main \in 0 .. 7 /\ s \in 1 .. 3 /\ main < s + 1
  <2>1. ~(main >= s + 1)
    BY DEF IdleInv, WaitedFor
  <2>2. main \in 0 .. 7 /\ s \in 1 .. 3
    BY DEF TypeInv, TypeOK, Stages
  <2> QED
    BY <2>1, <2>2
<1>2. Fresh'
  BY DEF IdleInv, Fresh
<1>3. WaitedFor'
  BY <1>1 DEF IdleInv, WaitedFor, Stages
<1> QED
  BY <1>2, <1>3 DEF IdleInv

(* A job moves while main does not yet wait for its stage's pools. *)
LEMMA JobIdle ==
  ASSUME TypeInv, IdleInv, NEW s \in Stages, NEW n \in JobIds,
         NEW to \in {"push", "leave", "pushEnd", "done"}, Move(s, n, to),
         at[s][n] \notin {"none", "done"},
         UNCHANGED <<made, pc, main, monPC>>
  PROVE  IdleInv'
<1>1. /\ at[s] \in [JobIds -> JobPC]
      /\ at'[s] = [at[s] EXCEPT ![n] = to]
      /\ \A t \in Stages \ {s} : at'[t] = at[t]
  <2>1. to \in JobPC
    BY DEF JobPC
  <2> QED
    BY <2>1, MoveFacts
<1>2. main \in 0 .. 7 /\ s \in 1 .. 3 /\ main < s + 4
  <2>1. ~(main >= s + 4)
    BY DEF IdleInv, WaitedFor
  <2>2. main \in 0 .. 7 /\ s \in 1 .. 3
    BY DEF TypeInv, TypeOK, Stages
  <2> QED
    BY <2>1, <2>2
<1>3. Fresh'
  BY <1>1 DEF IdleInv, Fresh
<1>4. WaitedFor'
  BY <1>1, <1>2 DEF IdleInv, WaitedFor, Stages
<1> QED
  BY <1>3, <1>4 DEF IdleInv

(* Steps of a feeder: onward, from popping, submitting and cutting. *)
LEMMA AdvanceIdle ==
  ASSUME TypeInv, IdleInv, NEW s \in Stages, AdvanceStep(s) \/ Pop(s)
  PROVE  IdleInv'
<1>1. UNCHANGED <<made, at, main, monPC>>
  BY DEF AdvanceStep, TakeCredit, SetAddEnd, NextFile, EndDir, CheckEnd, Store,
         Overrun, CutDone, Pop, jobVars, scanVars, monVars
<1>2. /\ pc[s] \notin {"count", "submit", "done"}
      /\ pc[s] \in {"credit", "endFlag"} => pc'[s] = "count"
      /\ \A t \in Stages \ {s} : pc'[t] = pc[t]
  <2>1. pc \in [Stages -> FeederPC]
    BY DEF TypeInv, TypeOK
  <2>2. CASE TakeCredit(s) \/ SetAddEnd(s)
    BY <2>1, <2>2 DEF TakeCredit, SetAddEnd, Go
  <2>3. CASE s = 1 /\ (NextFile \/ EndDir)
    BY <2>1, <2>3 DEF NextFile, EndDir, Go
  <2>4. CASE CheckEnd(s) \/ Store(s) \/ Pop(s)
    BY <2>1, <2>4 DEF CheckEnd, Store, Pop, Go
  <2>5. CASE Overrun(s) \/ CutDone(s)
    BY <2>1, <2>5 DEF Overrun, CutDone, Go
  <2> QED
    BY <2>2, <2>3, <2>4, <2>5 DEF AdvanceStep
<1>3. \A n \in JobIds :
        /\ at[s][n] = "made" => n = made[s] /\ pc[s] \in {"credit", "endFlag"}
        /\ at[s][n] # "counted"
  BY <1>2 DEF IdleInv, Fresh
<1> QED
  BY <1>1, <1>2, <1>3, FeederIdle

LEMMA SubmitIdle ==
  ASSUME TypeInv, IdleInv, NEW s \in Stages, Count(s) \/ Submit(s)
  PROVE  IdleInv'
<1>1. PICK to \in {"counted", "queued"} :
        /\ Move(s, made[s], to) /\ made[s] \in JobIds
        /\ pc[s] = IF to = "counted" THEN "count" ELSE "submit"
        /\ pc'[s] = "submit" \/ to = "queued"
        /\ \A t \in Stages \ {s} : pc'[t] = pc[t]
        /\ UNCHANGED <<made, main, monPC>>
  <2>1. pc \in [Stages -> FeederPC]
    BY DEF TypeInv, TypeOK
  <2>2. CASE Count(s)
    BY <2>1, <2>2 DEF Count, Go, jobVars, monVars, TypeInv, WellPlaced
  <2>3. CASE Submit(s)
    BY <2>1, <2>3 DEF Submit, Go, jobVars, monVars, TypeInv, WellPlaced
  <2> QED
    BY <2>2, <2>3
<1>2. /\ at[s] \in [JobIds -> JobPC]
      /\ at'[s] = [at[s] EXCEPT ![made[s]] = to]
      /\ \A t \in Stages \ {s} : at'[t] = at[t]
  <2>1. to \in JobPC
    BY DEF JobPC
  <2> QED
    BY <1>1, <2>1, MoveFacts
<1>3. \A n \in JobIds \ {made[s]} : at[s][n] \notin {"made", "counted"}
  BY DEF IdleInv, Fresh
<1> QED
  BY <1>1, <1>2, <1>3, FeederIdle

LEMMA CutIdle ==
  ASSUME TypeInv, IdleInv, NEW s \in Stages,
         EndCredit(s) \/ (s = 1 /\ AddBlock) \/ (s # 1 /\ Cut(s))
  PROVE  IdleInv'
<1>1. /\ \E k, b, p : Make(s, k, b, p)
      /\ pc[s] \in {"scan", "cut", "endCredit"}
      /\ pc'[s] \in {"credit", "endFlag"}
      /\ \A t \in Stages \ {s} : pc'[t] = pc[t]
      /\ UNCHANGED <<main, monPC>>
  <2>1. pc \in [Stages -> FeederPC]
    BY DEF TypeInv, TypeOK
  <2>2. CASE EndCredit(s)
    BY <2>1, <2>2 DEF EndCredit, Go, monVars
  <2>3. CASE s = 1 /\ AddBlock
    BY <2>1, <2>3 DEF AddBlock, Go, monVars
  <2>4. CASE s # 1 /\ Cut(s)
    BY <2>1, <2>4 DEF Cut, Go, monVars
  <2> QED
    BY <2>2, <2>3, <2>4
<1>2. PICK n \in JobIds : /\ n = made[s] + 1
                          /\ made' = [made EXCEPT ![s] = n]
                          /\ Move(s, n, "made")
  BY <1>1 DEF Make
<1>3. /\ at[s] \in [JobIds -> JobPC]
      /\ at'[s] = [at[s] EXCEPT ![n] = "made"]
      /\ \A t \in Stages \ {s} : at'[t] = at[t]
  <2>1. "made" \in JobPC
    BY DEF JobPC
  <2> QED
    BY <1>2, <2>1, MoveFacts
<1>4. /\ made'[s] = n
      /\ \A t \in Stages \ {s} : made'[t] = made[t]
  BY <1>2 DEF TypeInv, TypeOK
<1>5. \A m \in JobIds : at[s][m] \notin {"made", "counted"}
  BY <1>1 DEF IdleInv, Fresh
<1> QED
  BY <1>1, <1>3, <1>4, <1>5, FeederIdle

LEMMA WorkIdle ==
  ASSUME TypeInv, IdleInv, NEW n \in JobIds,
         readFile(n) \/ compress_func(n) \/ transfer(n)
  PROVE  IdleInv'
<1>1. PICK s \in Stages, to \in {"push", "leave", "pushEnd", "done"} :
        /\ Move(s, n, to)
        /\ at[s][n] \in {"queued", "push", "leave", "pushEnd"}
        /\ UNCHANGED <<made, pc, main, monPC>>
  <2>1. CASE ReadBlock(n)
    BY <2>1, StageNumbers DEF ReadBlock, CanStart, workVars, jobVars, monVars
  <2>2. CASE CompressBlock(n)
    BY <2>2, StageNumbers DEF CompressBlock, CanStart, workVars, jobVars, monVars
  <2>3. CASE PostBlock(n)
    BY <2>3, StageNumbers DEF PostBlock, CanStart, workVars, jobVars, monVars
  <2>4. ASSUME NEW s \in {1, 2}, PushBlock(s, n) \/ PushEnd(s, n)
        PROVE  \E to \in {"push", "leave", "pushEnd", "done"} :
                 /\ Move(s, n, to)
                 /\ at[s][n] \in {"queued", "push", "leave", "pushEnd"}
                 /\ UNCHANGED <<made, pc, main, monPC>>
    BY <2>4 DEF PushBlock, PushEnd, workVars, jobVars, monVars
  <2>5. ASSUME NEW s \in Stages, Leave(s, n)
        PROVE  \E to \in {"push", "leave", "pushEnd", "done"} :
                 /\ Move(s, n, to)
                 /\ at[s][n] \in {"queued", "push", "leave", "pushEnd"}
                 /\ UNCHANGED <<made, pc, main, monPC>>
    BY <2>5 DEF Leave, CanStart, workVars, jobVars, monVars
  <2> QED
    BY <2>1, <2>2, <2>3, <2>4, <2>5, StageNumbers
    DEF readFile, compress_func, transfer
<1> QED
  BY <1>1, JobIdle

(* main has waited for one more: the monitor, a feeder, or the pools of a  *)
(* stage, whose feeder is done and has no job left to submit.              *)
LEMMA MainWaitIdle ==
  ASSUME TypeInv, IdleInv, MainWait
  PROVE  IdleInv'
<1>1. /\ main' = main + 1 /\ main \in 0 .. 6
      /\ UNCHANGED <<made, at, pc, monPC>>
      /\ WaitOver(main + 1)
  BY DEF MainWait, TypeInv, TypeOK, jobVars, monVars
<1>2. main' >= 1 => monPC' = "quit"
  BY <1>1 DEF WaitOver, IdleInv, WaitedFor
<1>3. ASSUME NEW s \in Stages, main' >= s + 1 PROVE pc'[s] = "done"
  <2>1. CASE main >= s + 1
    BY <1>1, <2>1 DEF IdleInv, WaitedFor
  <2>2. CASE main = s
    BY <1>1, <2>2 DEF WaitOver, Stages
  <2> QED
    BY <1>1, <1>3, <2>1, <2>2 DEF Stages
<1>4. ASSUME NEW s \in Stages, NEW n \in JobIds, main' >= s + 4
      PROVE  at'[s][n] \in {"none", "done"}
  <2>1. CASE main >= s + 4
    BY <1>1, <2>1 DEF IdleInv, WaitedFor
  <2>2. CASE main = s + 3
    <3>1. PoolsIdle(s)
      BY <1>1, <2>2 DEF WaitOver, Stages
    <3>2. pc[s] = "done"
      BY <1>1, <1>3, <2>2 DEF Stages
    <3> QED
      BY <1>1, <3>1, <3>2 DEF PoolsIdle, IdleInv, Fresh
  <2> QED
    BY <1>1, <1>4, <2>1, <2>2 DEF Stages
<1>5. Fresh'
  BY <1>1 DEF IdleInv, Fresh
<1> QED
  BY <1>2, <1>3, <1>4, <1>5 DEF IdleInv, WaitedFor

LEMMA NextIdle == TypeInv /\ IdleInv /\ [Next]_vars => IdleInv'
<1> SUFFICES ASSUME TypeInv, IdleInv, [Next]_vars PROVE IdleInv'
  OBVIOUS
<1>1. CASE trave_dir \/ run_compressQueue1 \/ run_transferQueue1
  BY <1>1, FeederCases, AdvanceIdle, SubmitIdle, CutIdle, StageNumbers
<1>2. CASE \E n \in JobIds : readFile(n) \/ compress_func(n) \/ transfer(n)
  BY <1>2, WorkIdle
<1>3. CASE monitor \/ Ended \/ UNCHANGED vars
  <2>1. UNCHANGED <<made, at, pc, main>>
    BY <1>3
    DEF monitor, finish, CheckQuit, FinishLock, FinishTest, SetControl, Ended,
        restVars, jobVars, vars
  <2>2. monPC = "quit" => monPC' = "quit"
    BY <1>3
    DEF monitor, finish, CheckQuit, FinishLock, FinishTest, SetControl, Ended,
        vars, monVars
  <2> QED
    BY <2>1, <2>2, IdleFrame
<1> QED
  BY <1>1, <1>2, <1>3, MainWaitIdle DEF Next

(* After the seven waits every thread is idle for good, also when a        *)
(* subdirectory has ended the input early: main may destroy the pools.     *)
THEOREM OverMeansIdleCorrect == Spec => []OverMeansIdle
<1>1. TypeInv /\ IdleInv => OverMeansIdle
  <2> SUFFICES ASSUME TypeInv, IdleInv, main = 7 PROVE OverMeansIdle
    BY DEF OverMeansIdle
  <2>1. \A s \in Stages : main >= s + 1 /\ main >= s + 4
    BY DEF Stages
  <2> QED
    BY <2>1 DEF IdleInv, WaitedFor, OverMeansIdle
<1> QED
  BY <1>1, InitIdle, NextIdle, TypeInvariant, PTL DEF Spec

-----------------------------------------------------------------------------
(* The hand-over: HandOffInv is inductive for a directory without          *)
(* subdirectories.                                                         *)

ActivePC == {"counted", "queued", "push", "leave"}

LEMMA JobIdsFinite ==
  ASSUME NEW S \in SUBSET JobIds
  PROVE  IsFiniteSet(S) /\ Cardinality(S) \in Nat
<1>1. IsFiniteSet(JobIds)
  BY SizesAssumption, FS_Interval DEF JobIds
<1> QED
  BY <1>1, FS_Subset, FS_CardinalityType

-----------------------------------------------------------------------------
(* How a set of jobs picked by their place grows and shrinks. *)

Placed(f, P) == {n \in JobIds : f[n] \in P}

LEMMA PlacedSame ==
  ASSUME NEW f \in [JobIds -> JobPC], NEW g \in [JobIds -> JobPC], NEW P,
         NEW n \in JobIds, NEW to, g = [f EXCEPT ![n] = to],
         f[n] \in P <=> to \in P
  PROVE  Placed(g, P) = Placed(f, P)
  BY DEF Placed

LEMMA PlacedMore ==
  ASSUME NEW f \in [JobIds -> JobPC], NEW g \in [JobIds -> JobPC], NEW P,
         NEW n \in JobIds, NEW to, g = [f EXCEPT ![n] = to],
         f[n] \notin P, to \in P
  PROVE  Cardinality(Placed(g, P)) = Cardinality(Placed(f, P)) + 1
<1>1. Placed(g, P) = Placed(f, P) \cup {n} /\ n \notin Placed(f, P)
  BY DEF Placed
<1>2. Placed(f, P) \in SUBSET JobIds
  BY DEF Placed
<1> QED
  BY <1>1, <1>2, JobIdsFinite, FS_AddElement

LEMMA PlacedLess ==
  ASSUME NEW f \in [JobIds -> JobPC], NEW g \in [JobIds -> JobPC], NEW P,
         NEW n \in JobIds, NEW to, g = [f EXCEPT ![n] = to],
         f[n] \in P, to \notin P
  PROVE  Cardinality(Placed(g, P)) = Cardinality(Placed(f, P)) - 1
<1>1. Placed(g, P) = Placed(f, P) \ {n} /\ n \in Placed(f, P)
  BY DEF Placed
<1>2. IsFiniteSet(Placed(f, P))
  BY JobIdsFinite DEF Placed
<1> QED
  BY <1>1, <1>2, FS_RemoveElement

-----------------------------------------------------------------------------
(* How the blocks of a queue are counted. *)

BlockPlaces(q) == {i \in 1 .. Len(q) : q[i] # END}

LEMMA BlockPlacesFinite ==
  ASSUME NEW q \in Seq(JobIds \cup {END})
  PROVE  IsFiniteSet(BlockPlaces(q)) /\ Cardinality(BlockPlaces(q)) \in Nat
<1>1. IsFiniteSet(1 .. Len(q)) /\ BlockPlaces(q) \in SUBSET (1 .. Len(q))
  BY FS_Interval DEF BlockPlaces
<1> QED
  BY <1>1, FS_Subset, FS_CardinalityType

LEMMA AppendEnd ==
  ASSUME NEW q \in Seq(JobIds \cup {END})
  PROVE  BlockPlaces(Append(q, END)) = BlockPlaces(q)
  BY AppendProperties DEF BlockPlaces

LEMMA AppendBlock ==
  ASSUME NEW q \in Seq(JobIds \cup {END}), NEW n \in JobIds
  PROVE  Cardinality(BlockPlaces(Append(q, n))) = Cardinality(BlockPlaces(q)) + 1
<1>1. n # END
  BY DEF JobIds, END
<1>2. /\ BlockPlaces(Append(q, n)) = BlockPlaces(q) \cup {Len(q) + 1}
      /\ Len(q) + 1 \notin BlockPlaces(q)
  BY <1>1, AppendProperties DEF BlockPlaces
<1> QED
  BY <1>2, BlockPlacesFinite, FS_AddElement

LEMMA TailBlocks ==
  ASSUME NEW q \in Seq(JobIds \cup {END}), q # <<>>
  PROVE  Cardinality(BlockPlaces(Tail(q))) =
           IF Head(q) = END THEN Cardinality(BlockPlaces(q))
                            ELSE Cardinality(BlockPlaces(q)) - 1
<1> DEFINE B == BlockPlaces(q) \ {1}
           T == BlockPlaces(Tail(q))
           f == [i \in T |-> i + 1]
<1>1. Tail(q) \in Seq(JobIds \cup {END})
  BY HeadTailProperties
<1>2. f \in Bijection(T, B)
  <2>1. \A i \in T : i + 1 \in B
    BY HeadTailProperties DEF BlockPlaces
  <2>2. \A b \in B : b - 1 \in T
    BY HeadTailProperties DEF BlockPlaces
  <2>3. \A b \in B : f[b - 1] = b
    BY <2>2 DEF BlockPlaces
  <2>4. \A i, j \in T : f[i] = f[j] => i = j
    BY DEF BlockPlaces
  <2> QED
    BY <2>1, <2>2, <2>3, <2>4, Fun_IsBij
<1>3. Cardinality(T) = Cardinality(B)
  BY <1>1, <1>2, BlockPlacesFinite, FS_Bijection, Fun_ExistsBij
<1>4. 1 \in BlockPlaces(q) <=> Head(q) # END
  BY DEF BlockPlaces
<1> QED
  BY <1>3, <1>4, BlockPlacesFinite, FS_RemoveElement

-----------------------------------------------------------------------------
(* block_cnt against the active jobs. *)

LEMMA ActiveIsPlaced == \A s \in Stages : Active(s) = Placed(at[s], ActivePC)
  BY DEF Active, Placed, ActivePC

LEMMA ActiveIsPlacedNext ==
  \A s \in Stages : Active(s)' = Placed(at'[s], ActivePC)
  BY DEF Active, Placed, ActivePC

LEMMA MoveSame ==
  ASSUME TypeInv, NEW s \in Stages, NEW n \in JobIds, NEW to \in JobPC,
         Move(s, n, to), NEW P, at[s][n] \in P <=> to \in P
  PROVE  Placed(at'[s], P) = Placed(at[s], P)
<1>1. /\ at[s] \in [JobIds -> JobPC]
      /\ at'[s] \in [JobIds -> JobPC]
      /\ at'[s] = [at[s] EXCEPT ![n] = to]
  BY MoveFacts
<1> QED
  BY <1>1, PlacedSame

LEMMA MoveMore ==
  ASSUME TypeInv, NEW s \in Stages, NEW n \in JobIds, NEW to \in JobPC,
         Move(s, n, to), NEW P, at[s][n] \notin P, to \in P
  PROVE  Cardinality(Placed(at'[s], P)) = Cardinality(Placed(at[s], P)) + 1
<1>1. /\ at[s] \in [JobIds -> JobPC]
      /\ at'[s] \in [JobIds -> JobPC]
      /\ at'[s] = [at[s] EXCEPT ![n] = to]
  BY MoveFacts
<1> QED
  BY <1>1, PlacedMore

LEMMA MoveLess ==
  ASSUME TypeInv, NEW s \in Stages, NEW n \in JobIds, NEW to \in JobPC,
         Move(s, n, to), NEW P, at[s][n] \in P, to \notin P
  PROVE  Cardinality(Placed(at'[s], P)) = Cardinality(Placed(at[s], P)) - 1
<1>1. /\ at[s] \in [JobIds -> JobPC]
      /\ at'[s] \in [JobIds -> JobPC]
      /\ at'[s] = [at[s] EXCEPT ![n] = to]
  BY MoveFacts
<1> QED
  BY <1>1, PlacedLess

LEMMA ActiveElsewhere ==
  ASSUME TypeInv, NEW s \in Stages, NEW n \in JobIds, NEW to \in JobPC,
         Move(s, n, to)
  PROVE  \A t \in Stages \ {s} : Active(t)' = Active(t)
<1>1. \A t \in Stages \ {s} : at'[t] = at[t]
  BY MoveFacts
<1> QED
  BY <1>1 DEF Active

LEMMA ActiveSame ==
  ASSUME TypeInv, CountsActiveJobs, NEW s \in Stages, NEW n \in JobIds,
         NEW to \in JobPC, Move(s, n, to), block_cnt' = block_cnt,
         at[s][n] \in ActivePC <=> to \in ActivePC
  PROVE  CountsActiveJobs'
<1>1. Placed(at'[s], ActivePC) = Placed(at[s], ActivePC)
  BY MoveSame
<1>2. Active(s)' = Active(s)
  BY <1>1, ActiveIsPlaced, ActiveIsPlacedNext
<1>3. \A t \in Stages \ {s} : Active(t)' = Active(t)
  BY ActiveElsewhere
<1> QED
  BY <1>2, <1>3 DEF CountsActiveJobs

LEMMA ActiveMore ==
  ASSUME TypeInv, CountsActiveJobs, NEW s \in Stages, NEW n \in JobIds,
         NEW to \in JobPC, Move(s, n, to),
         block_cnt' = [block_cnt EXCEPT ![s] = @ + 1],
         at[s][n] \notin ActivePC, to \in ActivePC
  PROVE  CountsActiveJobs'
<1>1. Cardinality(Placed(at'[s], ActivePC)) =
        Cardinality(Placed(at[s], ActivePC)) + 1
  BY MoveMore
<1>2. Cardinality(Active(s)') = Cardinality(Active(s)) + 1
  BY <1>1, ActiveIsPlaced, ActiveIsPlacedNext
<1>3. \A t \in Stages \ {s} : Active(t)' = Active(t)
  BY ActiveElsewhere
<1>4. block_cnt \in [Stages -> Int]
  BY DEF TypeInv, TypeOK
<1> QED
  BY <1>2, <1>3, <1>4 DEF CountsActiveJobs

LEMMA ActiveLess ==
  ASSUME TypeInv, CountsActiveJobs, NEW s \in Stages, NEW n \in JobIds,
         NEW to \in JobPC, Move(s, n, to),
         block_cnt' = [block_cnt EXCEPT ![s] = @ - 1],
         at[s][n] \in ActivePC, to \notin ActivePC
  PROVE  CountsActiveJobs'
<1>1. Cardinality(Placed(at'[s], ActivePC)) =
        Cardinality(Placed(at[s], ActivePC)) - 1
  BY MoveLess
<1>2. Cardinality(Active(s)') = Cardinality(Active(s)) - 1
  BY <1>1, ActiveIsPlaced, ActiveIsPlacedNext
<1>3. \A t \in Stages \ {s} : Active(t)' = Active(t)
  BY ActiveElsewhere
<1>4. block_cnt \in [Stages -> Int]
  BY DEF TypeInv, TypeOK
<1> QED
  BY <1>2, <1>3, <1>4 DEF CountsActiveJobs

-----------------------------------------------------------------------------
(* TSQ_cnt against the blocks on their way. *)

LEMMA WaitingIsPlaces ==
  \A s \in Stages : /\ Waiting(s) = BlockPlaces(TSQ[s])
                    /\ Waiting(s)' = BlockPlaces(TSQ'[s])
                    /\ Pushing(s) = Placed(at[s], {"push"})
                    /\ Pushing(s)' = Placed(at'[s], {"push"})
  BY DEF Waiting, BlockPlaces, Pushing, Placed

LEMMA PushingElsewhere ==
  ASSUME TypeInv, NEW s \in Stages, NEW n \in JobIds, NEW to \in JobPC,
         Move(s, n, to)
  PROVE  \A t \in Stages \ {s} : Pushing(t)' = Pushing(t)
<1>1. \A t \in Stages \ {s} : at'[t] = at[t]
  BY MoveFacts
<1> QED
  BY <1>1 DEF Pushing

(* No block enters or leaves the queues. *)
LEMMA OnTheWaySame ==
  ASSUME CountsBlocksOnTheWay, TSQ_cnt' = TSQ_cnt,
         \A t \in {1, 2} : /\ Waiting(t)' = Waiting(t)
                           /\ Pushing(t)' = Pushing(t)
                           /\ pc'[t + 1] = "store" <=> pc[t + 1] = "store"
  PROVE  CountsBlocksOnTheWay'
  BY DEF CountsBlocksOnTheWay

(* A job moves, neither to nor from its push. *)
LEMMA OnTheWayMove ==
  ASSUME TypeInv, CountsBlocksOnTheWay, NEW s \in Stages, NEW n \in JobIds,
         NEW to \in JobPC, Move(s, n, to), at[s][n] # "push", to # "push",
         UNCHANGED tsqVars,
         \A t \in {2, 3} : pc'[t] = "store" <=> pc[t] = "store"
  PROVE  CountsBlocksOnTheWay'
<1>1. Placed(at'[s], {"push"}) = Placed(at[s], {"push"})
  BY MoveSame
<1>2. Pushing(s)' = Pushing(s)
  BY <1>1, WaitingIsPlaces
<1>3. \A t \in Stages \ {s} : Pushing(t)' = Pushing(t)
  BY PushingElsewhere
<1>4. TSQ' = TSQ /\ TSQ_cnt' = TSQ_cnt
  BY DEF tsqVars
<1>5. \A t \in {1, 2} : Waiting(t)' = Waiting(t)
  BY <1>4 DEF Waiting
<1>6. \A t \in {1, 2} : Pushing(t)' = Pushing(t)
  BY <1>2, <1>3, StageNumbers
<1>7. \A t \in {1, 2} : pc'[t + 1] = "store" <=> pc[t + 1] = "store"
  OBVIOUS
<1> QED
  BY <1>4, <1>5, <1>6, <1>7, OnTheWaySame

-----------------------------------------------------------------------------
(* The steps of a feeder. *)

HandOffParts ==
  /\ JobsInOrder
  /\ EndIsLast
  /\ CountsActiveJobs
  /\ CountsBlocksOnTheWay
  /\ EndFlagIsFinal
  /\ DrainedBeforeExit

(* A step that leaves the jobs alone. *)
LEMMA CountsFrame ==
  ASSUME HandOffParts, UNCHANGED <<at, block_cnt, tsqVars>>,
         \A t \in {2, 3} : pc'[t] = "store" <=> pc[t] = "store"
  PROVE  CountsActiveJobs' /\ CountsBlocksOnTheWay'
<1>1. CountsActiveJobs'
  BY DEF HandOffParts, CountsActiveJobs, Active
<1>2. CountsBlocksOnTheWay'
  <2>1. \A t \in {1, 2} : Waiting(t)' = Waiting(t) /\ Pushing(t)' = Pushing(t)
    BY DEF Waiting, Pushing, tsqVars
  <2>2. \A t \in {1, 2} : pc'[t + 1] = "store" <=> pc[t + 1] = "store"
    OBVIOUS
  <2> QED
    BY <2>1, <2>2, OnTheWaySame DEF HandOffParts, tsqVars
<1> QED
  BY <1>1, <1>2

(* A step that touches nothing the hand-off rests on. *)
LEMMA HandOffFrame ==
  ASSUME HandOffParts, UNCHANGED <<pc, item, draining, made, kind, at,
                                   block_cnt, endVars, tsqVars>>
  PROVE  HandOffParts'
<1>1. JobsInOrder'
  BY DEF HandOffParts, JobsInOrder
<1>2. EndIsLast'
  BY DEF HandOffParts, EndIsLast, EndCut, endVars
<1>3. CountsActiveJobs' /\ CountsBlocksOnTheWay'
  BY CountsFrame
<1>4. EndFlagIsFinal'
  BY DEF HandOffParts, EndFlagIsFinal, endVars
<1>5. DrainedBeforeExit'
  BY DEF HandOffParts, DrainedBeforeExit, Waiting, Pushing, tsqVars
<1> QED
  BY <1>1, <1>2, <1>3, <1>4, <1>5 DEF HandOffParts

LEMMA TakeCreditHandOff ==
  ASSUME TypeInv, HandOffParts, NEW s \in Stages, TakeCredit(s)
  PROVE  HandOffParts'
<1>1. /\ pc' = [pc EXCEPT ![s] = "count"]
      /\ pc[s] = "credit"
      /\ pc \in [Stages -> FeederPC]
      /\ UNCHANGED <<item, draining, made, kind, at, block_cnt, endVars,
                     tsqVars>>
  BY DEF TakeCredit, Go, feedVars, TypeInv, TypeOK
<1>2. JobsInOrder'
  BY <1>1 DEF HandOffParts, JobsInOrder
<1>3. EndIsLast'
  BY <1>1 DEF HandOffParts, EndIsLast, EndCut, endVars
<1>4. CountsActiveJobs' /\ CountsBlocksOnTheWay'
  BY <1>1, CountsFrame, StageNumbers
<1>5. EndFlagIsFinal'
  BY <1>1 DEF HandOffParts, EndFlagIsFinal, endVars
<1>6. DrainedBeforeExit'
  BY <1>1, StageNumbers
  DEF HandOffParts, DrainedBeforeExit, Waiting, Pushing, tsqVars
<1> QED
  BY <1>2, <1>3, <1>4, <1>5, <1>6 DEF HandOffParts

LEMMA SetAddEndHandOff ==
  ASSUME TypeInv, HandOffParts, NEW s \in Stages, SetAddEnd(s)
  PROVE  HandOffParts'
<1>1. /\ pc' = [pc EXCEPT ![s] = "count"]
      /\ pc[s] = "endFlag"
      /\ pc \in [Stages -> FeederPC]
      /\ add_end' = [add_end EXCEPT ![s] = TRUE]
      /\ add_end \in [Stages -> BOOLEAN]
      /\ UNCHANGED <<item, draining, made, kind, at, block_cnt, end_flag,
                     tsqVars>>
  BY DEF SetAddEnd, Go, feedVars, jobVars, TypeInv, TypeOK
<1>2. JobsInOrder'
  BY <1>1 DEF HandOffParts, JobsInOrder
<1>3. EndIsLast'
  BY <1>1 DEF HandOffParts, EndIsLast, EndCut
<1>4. CountsActiveJobs' /\ CountsBlocksOnTheWay'
  BY <1>1, CountsFrame, StageNumbers
<1>5. EndFlagIsFinal'
  BY <1>1 DEF HandOffParts, EndFlagIsFinal
<1>6. DrainedBeforeExit'
  BY <1>1, StageNumbers
  DEF HandOffParts, DrainedBeforeExit, Waiting, Pushing, tsqVars
<1> QED
  BY <1>2, <1>3, <1>4, <1>5, <1>6 DEF HandOffParts

LEMMA CountHandOff ==
  ASSUME TypeInv, HandOffParts, NEW s \in Stages, Count(s)
  PROVE  HandOffParts'
<1> DEFINE n == made[s]
<1>1. /\ pc' = [pc EXCEPT ![s] = "submit"]
      /\ pc[s] = "count"
      /\ pc \in [Stages -> FeederPC]
      /\ block_cnt' = [block_cnt EXCEPT ![s] = @ + 1]
      /\ Move(s, n, "counted")
      /\ UNCHANGED <<item, draining, made, kind, endVars, tsqVars>>
  BY DEF Count, Go, feedVars, jobVars, TypeInv, TypeOK
<1>2. n \in JobIds /\ at[s][n] = "made" /\ "counted" \in JobPC
  BY DEF TypeInv, WellPlaced, HandOffParts, JobsInOrder, Count, JobPC
<1>3. /\ at[s] \in [JobIds -> JobPC]
      /\ at'[s] = [at[s] EXCEPT ![n] = "counted"]
      /\ \A t \in Stages \ {s} : at'[t] = at[t]
  BY <1>1, <1>2, MoveFacts
<1>4. JobsInOrder'
  BY <1>1, <1>2, <1>3 DEF HandOffParts, JobsInOrder
<1>5. EndIsLast'
  BY <1>1 DEF HandOffParts, EndIsLast, EndCut, endVars
<1>6. CountsActiveJobs'
  <2>1. at[s][n] \notin ActivePC /\ "counted" \in ActivePC
    BY <1>2 DEF ActivePC
  <2> QED
    BY <1>1, <1>2, <2>1, ActiveMore DEF HandOffParts
<1>7. CountsBlocksOnTheWay'
  BY <1>1, <1>2, OnTheWayMove, StageNumbers DEF HandOffParts
<1>8. end_flag[s] => kind[s][n] = "end"
  BY <1>2 DEF HandOffParts, EndFlagIsFinal
<1>9. EndFlagIsFinal'
  BY <1>1, <1>2, <1>3, <1>8 DEF HandOffParts, EndFlagIsFinal, endVars
<1>10. DrainedBeforeExit'
  BY <1>1, <1>2, <1>3, StageNumbers
  DEF HandOffParts, DrainedBeforeExit, Waiting, Pushing, tsqVars
<1> QED
  BY <1>4, <1>5, <1>6, <1>7, <1>9, <1>10 DEF HandOffParts

LEMMA SubmitHandOff ==
  ASSUME TypeInv, HandOffParts, NEW s \in Stages, Submit(s)
  PROVE  HandOffParts'
<1> DEFINE n == made[s]
           to == AfterSubmit(s)
<1>1. /\ pc' = [pc EXCEPT ![s] = to]
      /\ pc[s] = "submit"
      /\ pc \in [Stages -> FeederPC]
      /\ block_cnt' = block_cnt
      /\ Move(s, n, "queued")
      /\ UNCHANGED <<item, draining, made, kind, endVars, tsqVars>>
  BY DEF Submit, Go, feedVars, jobVars, TypeInv, TypeOK
<1>2. n \in JobIds /\ at[s][n] = "counted" /\ "queued" \in JobPC
  BY DEF TypeInv, WellPlaced, HandOffParts, JobsInOrder, Submit, JobPC
<1>3. /\ at[s] \in [JobIds -> JobPC]
      /\ at'[s] = [at[s] EXCEPT ![n] = "queued"]
      /\ \A t \in Stages \ {s} : at'[t] = at[t]
  BY <1>1, <1>2, MoveFacts
<1>4. /\ to \in {"scan", "cut", "done"}
      /\ EndCut(s) => to = "done"
  <2>1. EndCut(s) => kind[s][n] = "end" /\ (s = 1 => item > Len(Traversal))
    BY DEF HandOffParts, EndIsLast, EndCut
  <2> QED
    BY <2>1, TraversalAssumption DEF AfterSubmit, TypeInv, TypeOK
<1> HIDE DEF to
<1>5. JobsInOrder'
  BY <1>1, <1>2, <1>3, <1>4 DEF HandOffParts, JobsInOrder
<1>6. EndIsLast'
  BY <1>1, <1>4 DEF HandOffParts, EndIsLast, EndCut, endVars
<1>7. CountsActiveJobs'
  <2>1. at[s][n] \in ActivePC /\ "queued" \in ActivePC
    BY <1>2 DEF ActivePC
  <2> QED
    BY <1>1, <1>2, <2>1, ActiveSame DEF HandOffParts
<1>8. CountsBlocksOnTheWay'
  BY <1>1, <1>2, <1>4, OnTheWayMove, StageNumbers DEF HandOffParts
<1>9. EndFlagIsFinal'
  <2>1. end_flag[s] => kind[s][n] = "end"
    BY <1>2 DEF HandOffParts, EndFlagIsFinal
  <2> QED
    BY <1>1, <1>2, <1>3, <2>1 DEF HandOffParts, EndFlagIsFinal, endVars
<1>10. DrainedBeforeExit'
  <2>1. ASSUME NEW t \in {2, 3}, draining[t], t - 1 = s
        PROVE  kind[s][n] = "end" /\ to = "done"
    BY <1>2, <1>4, <2>1 DEF HandOffParts, DrainedBeforeExit, EndCut
  <2> QED
    BY <1>1, <1>2, <1>3, <2>1, StageNumbers
    DEF HandOffParts, DrainedBeforeExit, Waiting, Pushing, tsqVars
<1> QED
  BY <1>5, <1>6, <1>7, <1>8, <1>9, <1>10 DEF HandOffParts

(* A feeder cuts a job, with data or to mark the end. *)
LEMMA MakeHandOff ==
  ASSUME TypeInv, HandOffParts, NEW s \in Stages, NEW k \in JobKind,
         NEW b \in Nat, NEW p \in {0} \cup Pools, Make(s, k, b, p),
         NEW to, Go(s, to), pc[s] \in {"scan", "cut", "endCredit"},
         \/ k # "end" /\ to = "credit" /\ pc[s] # "endCredit"
         \/ k = "end" /\ to = "endFlag" /\ pc[s] = "endCredit",
         UNCHANGED <<item, draining, block_cnt, endVars, tsqVars>>
  PROVE  HandOffParts'
<1> DEFINE n == made[s] + 1
<1>1. /\ n \in JobIds
      /\ made' = [made EXCEPT ![s] = n]
      /\ kind' = [kind EXCEPT ![s][n] = k]
      /\ Move(s, n, "made")
      /\ "made" \in JobPC
      /\ pc' = [pc EXCEPT ![s] = to]
      /\ made \in [Stages -> JobIds \cup {0}]
      /\ kind \in [Stages -> [JobIds -> JobKind]]
      /\ pc \in [Stages -> FeederPC]
  BY DEF Make, Go, TypeInv, TypeOK, JobPC
<1>2. at[s][n] = "none"
  <2>1. n > made[s]
    BY <1>1 DEF JobIds
  <2> QED
    BY <1>1, <2>1 DEF HandOffParts, JobsInOrder
<1>3. /\ at[s] \in [JobIds -> JobPC]
      /\ at'[s] = [at[s] EXCEPT ![n] = "made"]
      /\ \A t \in Stages \ {s} : at'[t] = at[t]
  BY <1>1, MoveFacts
<1>4. /\ made'[s] = n
      /\ \A t \in Stages \ {s} : made'[t] = made[t] /\ pc'[t] = pc[t]
      /\ pc'[s] = to
      /\ \A t \in Stages \ {s} : kind'[t] = kind[t]
      /\ kind'[s][n] = k
      /\ \A m \in JobIds \ {n} : kind'[s][m] = kind[s][m]
  BY <1>1
<1>5. /\ ~EndCut(s) /\ ~add_end[s] /\ ~end_flag[s]
      /\ \A t \in {2, 3} : t - 1 = s => ~draining[t]
  <2>1. ~EndCut(s) /\ ~add_end[s]
    BY DEF HandOffParts, EndIsLast
  <2>2. ~end_flag[s]
    BY <2>1 DEF HandOffParts, EndFlagIsFinal
  <2>3. \A t \in {2, 3} : t - 1 = s => ~draining[t]
    BY DEF HandOffParts, DrainedBeforeExit
  <2> QED
    BY <2>1, <2>2, <2>3
<1>6. JobsInOrder'
  <2>0. at'[s][n] = "made" /\ ~(n > n)
    <3>1. n \in JobIds /\ n \in Int
      BY <1>1 DEF JobIds
    <3>2. ~(n > n)
      BY <3>1
    <3> HIDE DEF n
    <3>3. at'[s][n] = "made"
      BY <1>3, <3>1
    <3> QED
      BY <3>2, <3>3
  <2>1. ASSUME NEW m \in JobIds
        PROVE  /\ at'[s][m] = "none" <=> m > n
               /\ at'[s][m] = "made" => m = n
               /\ at'[s][m] # "counted"
    <3>1. CASE m = n
      <4> HIDE DEF n
      <4> QED
        BY <2>0, <3>1
    <3>2. CASE m # n
      <4>1. at'[s][m] = at[s][m]
        BY <1>3, <3>2
      <4>2. m > n <=> m > made[s]
        BY <1>1, <3>2 DEF JobIds
      <4>3. at[s][m] # "made" /\ at[s][m] # "counted"
        BY DEF HandOffParts, JobsInOrder
      <4> QED
        BY <4>1, <4>2, <4>3 DEF HandOffParts, JobsInOrder
    <3> QED
      BY <3>1, <3>2
  <2> HIDE DEF n
  <2> QED
    BY <1>3, <1>4, <2>0, <2>1 DEF HandOffParts, JobsInOrder
<1>7. EndIsLast'
  <2>1. \A t \in Stages \ {s} : EndCut(t)' <=> EndCut(t)
    BY <1>4 DEF EndCut
  <2>2. EndCut(s)' <=> k = "end"
    BY <1>1, <1>4 DEF EndCut
  <2> HIDE DEF n
  <2>3. pc[s] = "endCredit" => IF s = 1 THEN item > Len(Traversal) ELSE draining[s]
    BY DEF HandOffParts, EndIsLast
  <2>4. draining[s] => s # 1 /\ end_flag[s - 1]
    BY DEF HandOffParts, EndIsLast
  <2>5. /\ item' = item /\ draining' = draining
        /\ add_end' = add_end /\ end_flag' = end_flag
    BY DEF endVars
  <2>6. ASSUME NEW t \in Stages, t # s
        PROVE  /\ EndCut(t)' <=> EndCut(t)
               /\ pc'[t] = pc[t]
    BY <1>4, <2>1, <2>6
  <2> QED
    BY <1>4, <1>5, <2>2, <2>3, <2>4, <2>5, <2>6 DEF HandOffParts, EndIsLast
<1>8. CountsActiveJobs'
  <2>1. at[s][n] \notin ActivePC /\ "made" \notin ActivePC
    BY <1>2 DEF ActivePC
  <2> QED
    BY <1>1, <2>1, ActiveSame DEF HandOffParts
<1>9. CountsBlocksOnTheWay'
  <2>1. \A t \in {2, 3} : pc'[t] = "store" <=> pc[t] = "store"
    BY <1>4, StageNumbers
  <2> QED
    BY <1>1, <1>2, <2>1, OnTheWayMove DEF HandOffParts
<1>10. EndFlagIsFinal'
  BY <1>3, <1>4, <1>5 DEF HandOffParts, EndFlagIsFinal, endVars
<1>11. DrainedBeforeExit'
  BY <1>3, <1>4, <1>5, StageNumbers
  DEF HandOffParts, DrainedBeforeExit, Waiting, Pushing, tsqVars
<1> QED
  BY <1>6, <1>7, <1>8, <1>9, <1>10, <1>11 DEF HandOffParts

LEMMA EndCreditHandOff ==
  ASSUME TypeInv, HandOffParts, NEW s \in Stages, EndCredit(s)
  PROVE  HandOffParts'
<1>1. control[s] \in {0} \cup Pools /\ "end" \in JobKind /\ 0 \in Nat
  BY DEF TypeInv, TypeOK, JobKind
<1>2. /\ Make(s, "end", 0, control[s])
      /\ Go(s, "endFlag")
      /\ pc[s] = "endCredit"
      /\ UNCHANGED <<item, draining, block_cnt, endVars, tsqVars>>
  BY DEF EndCredit, feedVars
<1> QED
  BY <1>1, <1>2, MakeHandOff

LEMMA AddBlockHandOff ==
  ASSUME TypeInv, HandOffParts, AddBlock
  PROVE  HandOffParts'
<1>1. Traversal[item] \in Nat
  BY TraversalItem DEF TypeInv, TypeOK, WellPlaced, AddBlock, FileStored
<1>2. BlockSize[1] \in Nat \ {0}
  BY SizesAssumption, StageNumbers
<1>3. Min2(Traversal[item] - offset, BlockSize[1]) \in Nat
  <2>1. offset \in Nat /\ offset < Traversal[item]
    BY DEF AddBlock, TypeInv, TypeOK
  <2> QED
    BY <1>1, <1>2, <2>1 DEF Min2
<1>4. PICK k \in {"data", "null"} :
        Make(1, k, Min2(Traversal[item] - offset, BlockSize[1]), 0)
  BY DEF AddBlock
<1>5. /\ Go(1, "credit")
      /\ pc[1] = "scan"
      /\ UNCHANGED <<item, draining, block_cnt, endVars, tsqVars>>
  BY DEF AddBlock
<1>6. k \in JobKind /\ k # "end"
  BY <1>4 DEF JobKind
<1> QED
  BY <1>3, <1>4, <1>5, <1>6, StageNumbers, MakeHandOff

LEMMA CutHandOff ==
  ASSUME TypeInv, HandOffParts, NEW s \in {2, 3}, Cut(s)
  PROVE  HandOffParts'
<1>1. CutSize(s) \in Nat
  <2>1. s \in Stages /\ BlockSize[s] \in Nat \ {0}
    BY SizesAssumption DEF Stages
  <2> QED
    BY <2>1 DEF CutSize, Min2, Cut, Available, Unpopped, TypeInv, TypeOK
<1>2. /\ Make(s, "data", CutSize(s), 0)
      /\ Go(s, "credit")
      /\ pc[s] = "cut"
      /\ UNCHANGED <<item, draining, block_cnt, endVars, tsqVars>>
  BY DEF Cut
<1>3. "data" \in JobKind /\ "data" # "end"
  BY DEF JobKind
<1> QED
  BY <1>1, <1>2, <1>3, StageNumbers, MakeHandOff

(* A feeder goes on, short of its end job and outside its pop loop. *)
LEMMA GoHandOff ==
  ASSUME TypeInv, HandOffParts, NEW s \in Stages, NEW to, Go(s, to),
         pc[s] \in {"scan", "check", "cut"},
         to \in {"check", "pop", "cut", "crashed", "endCredit"},
         to \in {"check", "pop"} => ~draining'[s],
         to = "endCredit" => IF s = 1 THEN item' > Len(Traversal)
                                      ELSE draining'[s],
         draining'[s] => s # 1 /\ end_flag[s - 1],
         \A t \in Stages \ {s} : draining'[t] = draining[t],
         s = 1 \/ item' = item,
         UNCHANGED <<made, kind, at, block_cnt, endVars, tsqVars>>,
         s \in {2, 3} /\ draining'[s] =>
           /\ Waiting(s - 1) = {}
           /\ Pushing(s - 1) = {}
           /\ pc[s - 1] \in {"count", "submit", "done"}
           /\ \A n \in JobIds :
                at[s - 1][n] \in {"made", "counted", "queued", "leave"}
                  => kind[s - 1][n] = "end"
  PROVE  HandOffParts'
<1>1. /\ pc'[s] = to
      /\ \A t \in Stages \ {s} : pc'[t] = pc[t]
  BY DEF Go, TypeInv, TypeOK
<1>2. /\ ~EndCut(s) /\ ~add_end[s]
      /\ \A t \in {2, 3} : t - 1 = s => ~draining[t]
  <2>1. ~EndCut(s) /\ ~add_end[s]
    BY DEF HandOffParts, EndIsLast
  <2>2. \A t \in {2, 3} : t - 1 = s => ~draining[t]
    BY DEF HandOffParts, DrainedBeforeExit
  <2> QED
    BY <2>1, <2>2
<1>3. JobsInOrder'
  BY <1>1 DEF HandOffParts, JobsInOrder
<1>4. EndIsLast'
  <2>1. \A t \in Stages : EndCut(t)' <=> EndCut(t)
    BY DEF EndCut
  <2>2. \A t \in Stages \ {s} : t = 1 => item' = item
    OBVIOUS
  <2>3. add_end' = add_end /\ end_flag' = end_flag
    BY DEF endVars
  <2> QED
    BY <1>1, <1>2, <2>1, <2>2, <2>3 DEF HandOffParts, EndIsLast
<1>5. CountsActiveJobs' /\ CountsBlocksOnTheWay'
  <2>1. \A t \in {2, 3} : pc'[t] = "store" <=> pc[t] = "store"
    BY <1>1, StageNumbers
  <2> QED
    BY <2>1, CountsFrame
<1>6. EndFlagIsFinal'
  BY DEF HandOffParts, EndFlagIsFinal, endVars
<1>7. DrainedBeforeExit'
  <2>1. \A t \in {2, 3} : /\ Waiting(t - 1)' = Waiting(t - 1)
                          /\ Pushing(t - 1)' = Pushing(t - 1)
    BY DEF Waiting, Pushing, tsqVars
  <2>2. ASSUME NEW t \in {2, 3}, draining'[t]
        PROVE  /\ Waiting(t - 1) = {}
               /\ Pushing(t - 1) = {}
               /\ pc'[t - 1] \in {"count", "submit", "done"}
               /\ \A n \in JobIds :
                    at[t - 1][n] \in {"made", "counted", "queued", "leave"}
                      => kind[t - 1][n] = "end"
    <3>1. CASE t = s
      BY <1>1, <2>2, <3>1, StageNumbers
    <3>2. CASE t # s
      <4>1. draining[t] /\ t - 1 # s
        BY <1>2, <2>2, <3>2, StageNumbers
      <4>2. pc'[t - 1] = pc[t - 1]
        BY <1>1, <4>1, StageNumbers
      <4> QED
        BY <4>1, <4>2 DEF HandOffParts, DrainedBeforeExit
    <3> QED
      BY <3>1, <3>2
  <2> QED
    BY <2>1, <2>2 DEF DrainedBeforeExit
<1> QED
  BY <1>3, <1>4, <1>5, <1>6, <1>7 DEF HandOffParts

LEMMA NextFileHandOff ==
  ASSUME TypeInv, HandOffParts, NextFile
  PROVE  HandOffParts'
<1>1. /\ pc[1] = "scan"
      /\ UNCHANGED <<pc, draining, made, kind, at, block_cnt, endVars,
                     tsqVars>>
  BY DEF NextFile, scanVars, jobVars
<1>2. JobsInOrder'
  BY <1>1 DEF HandOffParts, JobsInOrder
<1>3. EndIsLast'
  <2>1. /\ \A t \in Stages : EndCut(t)' <=> EndCut(t)
        /\ ~EndCut(1)
    BY <1>1, StageNumbers DEF EndCut, HandOffParts, EndIsLast
  <2> QED
    BY <1>1, <2>1, StageNumbers DEF HandOffParts, EndIsLast, endVars
<1>4. CountsActiveJobs' /\ CountsBlocksOnTheWay'
  BY <1>1, CountsFrame
<1>5. EndFlagIsFinal'
  BY <1>1 DEF HandOffParts, EndFlagIsFinal, endVars
<1>6. DrainedBeforeExit'
  BY <1>1 DEF HandOffParts, DrainedBeforeExit, Waiting, Pushing, tsqVars
<1> QED
  BY <1>2, <1>3, <1>4, <1>5, <1>6 DEF HandOffParts

(* The only directory end is the last item. *)
LEMMA EndDirHandOff ==
  ASSUME TypeInv, HandOffParts, Flat, EndDir
  PROVE  HandOffParts'
<1>1. /\ pc[1] = "scan"
      /\ Go(1, "endCredit")
      /\ UNCHANGED <<draining, made, kind, at, block_cnt, endVars, tsqVars>>
  BY DEF EndDir, scanVars, jobVars
<1>2. item' > Len(Traversal)
  <2>1. item \in Nat \ {0} /\ item <= Len(Traversal)
    BY StageNumbers DEF EndDir, TypeInv, TypeOK, WellPlaced
  <2>2. Len(Traversal) \in Nat
    BY TraversalAssumption
  <2>3. ~(item \in 1 .. Len(Traversal) - 1)
    BY DEF EndDir, Flat
  <2>4. item' = item + 1
    BY DEF EndDir
  <2> QED
    BY <2>1, <2>2, <2>3, <2>4
<1>3. ~draining[1]
  BY StageNumbers DEF HandOffParts, EndIsLast
<1> QED
  BY <1>1, <1>2, <1>3, StageNumbers, GoHandOff

LEMMA OverrunHandOff ==
  ASSUME TypeInv, HandOffParts, NEW s \in {2, 3}, Overrun(s)
  PROVE  HandOffParts'
<1>1. /\ pc[s] = "cut"
      /\ Go(s, "crashed")
      /\ UNCHANGED <<item, draining, made, kind, at, block_cnt, endVars,
                     tsqVars>>
  BY DEF Overrun, feedVars, jobVars
<1>2. draining[s] => s # 1 /\ end_flag[s - 1]
  BY StageNumbers DEF HandOffParts, EndIsLast
<1>3. draining[s] =>
        /\ Waiting(s - 1) = {}
        /\ Pushing(s - 1) = {}
        /\ pc[s - 1] \in {"count", "submit", "done"}
        /\ \A n \in JobIds :
             at[s - 1][n] \in {"made", "counted", "queued", "leave"}
               => kind[s - 1][n] = "end"
  BY DEF HandOffParts, DrainedBeforeExit
<1> QED
  BY <1>1, <1>2, <1>3, StageNumbers, GoHandOff

LEMMA CutDoneHandOff ==
  ASSUME TypeInv, HandOffParts, NEW s \in {2, 3}, CutDone(s)
  PROVE  HandOffParts'
<1> DEFINE to == IF draining[s] THEN "endCredit" ELSE "check"
<1>1. /\ pc[s] = "cut"
      /\ Go(s, to)
      /\ UNCHANGED <<item, draining, made, kind, at, block_cnt, endVars,
                     tsqVars>>
  BY DEF CutDone, feedVars, jobVars
<1>2. draining[s] => s # 1 /\ end_flag[s - 1]
  BY StageNumbers DEF HandOffParts, EndIsLast
<1>3. draining[s] =>
        /\ Waiting(s - 1) = {}
        /\ Pushing(s - 1) = {}
        /\ pc[s - 1] \in {"count", "submit", "done"}
        /\ \A n \in JobIds :
             at[s - 1][n] \in {"made", "counted", "queued", "leave"}
               => kind[s - 1][n] = "end"
  BY DEF HandOffParts, DrainedBeforeExit
<1>4. /\ to \in {"check", "endCredit"}
      /\ to = "check" => ~draining[s]
      /\ to = "endCredit" => draining[s]
  OBVIOUS
<1> HIDE DEF to
<1> QED
  BY <1>1, <1>2, <1>3, <1>4, StageNumbers, GoHandOff

(* A zero counter means that no block is on its way. *)
LEMMA NothingOnTheWay ==
  ASSUME TypeInv, HandOffParts, NEW s \in {1, 2}, TSQ_cnt[s] = 0
  PROVE  Waiting(s) = {} /\ Pushing(s) = {} /\ pc[s + 1] # "store"
<1>1. IsFiniteSet(Waiting(s)) /\ Cardinality(Waiting(s)) \in Nat
  <2>1. TSQ[s] \in Seq(JobIds \cup {END}) /\ s \in Stages
    BY StageNumbers DEF TypeInv, TypeOK
  <2>2. Waiting(s) = BlockPlaces(TSQ[s])
    BY <2>1, WaitingIsPlaces
  <2> QED
    BY <2>1, <2>2, BlockPlacesFinite
<1>2. IsFiniteSet(Pushing(s)) /\ Cardinality(Pushing(s)) \in Nat
  <2>1. Pushing(s) \in SUBSET JobIds
    BY DEF Pushing
  <2> QED
    BY <2>1, JobIdsFinite
<1>3. 0 = Cardinality(Waiting(s)) + Cardinality(Pushing(s))
          + (IF pc[s + 1] = "store" THEN 1 ELSE 0)
  BY DEF HandOffParts, CountsBlocksOnTheWay
<1>4. Cardinality(Waiting(s)) = 0 /\ Cardinality(Pushing(s)) = 0
      /\ pc[s + 1] # "store"
  BY <1>1, <1>2, <1>3
<1> QED
  BY <1>1, <1>2, <1>4, FS_EmptySet

LEMMA CheckEndHandOff ==
  ASSUME TypeInv, HandOffParts, NEW s \in {2, 3}, CheckEnd(s)
  PROVE  HandOffParts'
<1> DEFINE to == IF InputOver(s) THEN "cut" ELSE "pop"
<1>1. /\ pc[s] = "check"
      /\ Go(s, to)
      /\ draining' = [draining EXCEPT ![s] = InputOver(s)]
      /\ draining \in [Stages -> BOOLEAN]
      /\ UNCHANGED <<item, made, kind, at, block_cnt, endVars, tsqVars>>
  BY DEF CheckEnd, jobVars, TypeInv, TypeOK
<1>2. /\ draining'[s] = InputOver(s)
      /\ \A t \in Stages \ {s} : draining'[t] = draining[t]
  BY <1>1, StageNumbers
<1>3. InputOver(s) => end_flag[s - 1] /\ TSQ_cnt[s - 1] = 0
  BY DEF InputOver
<1>4. ASSUME InputOver(s)
      PROVE  /\ Waiting(s - 1) = {}
             /\ Pushing(s - 1) = {}
             /\ pc[s - 1] \in {"count", "submit", "done"}
             /\ \A n \in JobIds :
                  at[s - 1][n] \in {"made", "counted", "queued", "leave"}
                    => kind[s - 1][n] = "end"
  <2>1. s - 1 \in {1, 2} /\ s - 1 \in Stages
    BY StageNumbers
  <2>2. Waiting(s - 1) = {} /\ Pushing(s - 1) = {}
    BY <1>3, <1>4, <2>1, NothingOnTheWay
  <2>3. /\ add_end[s - 1]
        /\ \A n \in JobIds : kind[s - 1][n] # "end"
                             => at[s - 1][n] \in {"none", "pushEnd", "done"}
    BY <1>3, <1>4, <2>1 DEF HandOffParts, EndFlagIsFinal
  <2>4. pc[s - 1] \in {"count", "submit", "done"}
    BY <2>1, <2>3 DEF HandOffParts, EndIsLast
  <2>5. \A n \in JobIds :
          at[s - 1][n] \in {"made", "counted", "queued", "leave"}
            => kind[s - 1][n] = "end"
    BY <2>3
  <2> QED
    BY <2>2, <2>4, <2>5
<1>5. /\ to \in {"cut", "pop"}
      /\ to = "pop" => ~InputOver(s)
  OBVIOUS
<1> HIDE DEF to
<1>6. s \in Stages /\ s # 1
  BY StageNumbers
<1>7. /\ to \in {"check", "pop"} => ~draining'[s]
      /\ draining'[s] => s # 1 /\ end_flag[s - 1]
      /\ to # "endCredit"
  BY <1>2, <1>3, <1>5, <1>6
<1>8. s \in {2, 3} /\ draining'[s] =>
        /\ Waiting(s - 1) = {}
        /\ Pushing(s - 1) = {}
        /\ pc[s - 1] \in {"count", "submit", "done"}
        /\ \A n \in JobIds :
             at[s - 1][n] \in {"made", "counted", "queued", "leave"}
               => kind[s - 1][n] = "end"
  BY <1>2, <1>4
<1> HIDE DEF InputOver
<1> QED
  BY <1>1, <1>2, <1>5, <1>6, <1>7, <1>8, GoHandOff

(* Pop and Store: a block passes from the queue to the feeder.  Neither    *)
(* the jobs nor the end of the input are concerned.                        *)
LEMMA PopFrame ==
  ASSUME TypeInv, HandOffParts, NEW s \in {2, 3}, NEW to, Go(s, to),
         pc[s] \in {"pop", "store"}, to \in {"check", "store", "cut"},
         UNCHANGED <<item, draining, made, kind, at, block_cnt, endVars>>,
         \A t \in {1, 2} \ {s - 1} : TSQ'[t] = TSQ[t]
  PROVE  /\ JobsInOrder' /\ EndIsLast' /\ CountsActiveJobs'
         /\ EndFlagIsFinal' /\ DrainedBeforeExit'
<1>1. /\ pc'[s] = to
      /\ \A t \in Stages \ {s} : pc'[t] = pc[t]
      /\ s \in Stages /\ s # 1
  BY StageNumbers DEF Go, TypeInv, TypeOK
<1>2. ~EndCut(s) /\ ~add_end[s] /\ ~draining[s]
  BY <1>1 DEF HandOffParts, EndIsLast
<1>3. JobsInOrder'
  BY <1>1 DEF HandOffParts, JobsInOrder
<1>4. EndIsLast'
  <2>1. \A t \in Stages : EndCut(t)' <=> EndCut(t)
    BY DEF EndCut
  <2> QED
    BY <1>1, <1>2, <2>1 DEF HandOffParts, EndIsLast, endVars
<1>5. CountsActiveJobs'
  BY DEF HandOffParts, CountsActiveJobs, Active
<1>6. EndFlagIsFinal'
  BY DEF HandOffParts, EndFlagIsFinal, endVars
<1>7. DrainedBeforeExit'
  <2>1. ASSUME NEW t \in {2, 3}, draining[t]
        PROVE  /\ Waiting(t - 1)' = Waiting(t - 1)
               /\ Pushing(t - 1)' = Pushing(t - 1)
               /\ pc'[t - 1] = pc[t - 1]
    <3>1. t # s /\ t - 1 \in {1, 2} \ {s - 1} /\ t - 1 \in Stages
      BY <1>2, <2>1, StageNumbers
    <3>2. pc[t - 1] \in {"count", "submit", "done"}
      BY <2>1 DEF HandOffParts, DrainedBeforeExit
    <3>3. TSQ'[t - 1] = TSQ[t - 1]
      BY <3>1
    <3> QED
      BY <1>1, <3>1, <3>2, <3>3 DEF Waiting, Pushing
  <2> QED
    BY <2>1 DEF HandOffParts, DrainedBeforeExit
<1> QED
  BY <1>3, <1>4, <1>5, <1>6, <1>7

LEMMA PopHandOff ==
  ASSUME TypeInv, HandOffParts, NEW s \in {2, 3}, Pop(s)
  PROVE  HandOffParts'
<1> DEFINE r == s - 1
           q == TSQ[r]
           to == IF Head(q) = END THEN "check" ELSE "store"
<1>1. r \in {1, 2} /\ r \in Stages /\ s = r + 1
  BY StageNumbers
<1>2. /\ pc[s] = "pop"
      /\ Go(s, to)
      /\ q # <<>>
      /\ TSQ' = [TSQ EXCEPT ![r] = Tail(@)]
      /\ UNCHANGED <<item, draining, made, kind, at, block_cnt, endVars,
                     TSQ_cnt>>
  BY DEF Pop, jobVars
<1>3. /\ q \in Seq(JobIds \cup {END})
      /\ TSQ'[r] = Tail(q)
      /\ \A t \in Stages \ {r} : TSQ'[t] = TSQ[t]
  BY <1>1, <1>2 DEF TypeInv, TypeOK
<1>4. to \in {"check", "store"} /\ (to = "store" <=> Head(q) # END)
  OBVIOUS
<1>5. Cardinality(BlockPlaces(Tail(q))) =
        IF Head(q) = END THEN Cardinality(BlockPlaces(q))
                         ELSE Cardinality(BlockPlaces(q)) - 1
  BY <1>2, <1>3, TailBlocks
<1> HIDE DEF r, to
<1>6. Waiting(r) = BlockPlaces(q) /\ Waiting(r)' = BlockPlaces(Tail(q))
  BY <1>1, <1>3, WaitingIsPlaces DEF q
<1>7. Cardinality(BlockPlaces(q)) \in Nat
  BY <1>3, BlockPlacesFinite
<1> HIDE DEF q
<1>8. CountsBlocksOnTheWay'
  <2>1. /\ pc'[r + 1] = to
        /\ \A t \in {1, 2} \ {r} : pc'[t + 1] = pc[t + 1]
    <3>1. /\ pc'[s] = to
          /\ \A t \in Stages \ {s} : pc'[t] = pc[t]
      BY <1>2, StageNumbers DEF Go, TypeInv, TypeOK
    <3>2. \A t \in {1, 2} \ {r} : t + 1 \in Stages \ {s}
      BY <1>1 DEF Stages
    <3> QED
      BY <1>1, <3>1, <3>2
  <2>2. \A t \in {1, 2} \ {r} : Waiting(t)' = Waiting(t)
    BY <1>1, <1>3, StageNumbers DEF Waiting
  <2>3. \A t \in {1, 2} : Pushing(t)' = Pushing(t) /\ TSQ_cnt'[t] = TSQ_cnt[t]
    BY <1>2 DEF Pushing
  <2>4. TSQ_cnt[r] = Cardinality(Waiting(r)) + Cardinality(Pushing(r)) + 0
    BY <1>1, <1>2 DEF HandOffParts, CountsBlocksOnTheWay
  <2>5. Cardinality(Pushing(r)) \in Nat
    BY JobIdsFinite DEF Pushing
  <2>6. TSQ_cnt'[r] = Cardinality(Waiting(r)') + Cardinality(Pushing(r)')
                      + (IF pc'[r + 1] = "store" THEN 1 ELSE 0)
    BY <1>1, <1>4, <1>5, <1>6, <1>7, <2>1, <2>3, <2>4, <2>5
  <2> QED
    BY <2>1, <2>2, <2>3, <2>6 DEF HandOffParts, CountsBlocksOnTheWay
<1>9. \A t \in {1, 2} \ {s - 1} : TSQ'[t] = TSQ[t]
  BY <1>1, <1>3, StageNumbers
<1>10. to \in {"check", "store", "cut"}
  BY <1>4
<1> QED
  BY <1>2, <1>8, <1>9, <1>10, PopFrame DEF HandOffParts

LEMMA StoreHandOff ==
  ASSUME TypeInv, HandOffParts, NEW s \in {2, 3}, Store(s)
  PROVE  HandOffParts'
<1> DEFINE r == s - 1
<1>1. r \in {1, 2} /\ r \in Stages /\ s = r + 1
  BY StageNumbers
<1>2. /\ pc[s] = "store"
      /\ Go(s, "cut")
      /\ TSQ_cnt' = [TSQ_cnt EXCEPT ![r] = @ - 1]
      /\ TSQ_cnt \in [Stages -> Int]
      /\ UNCHANGED <<item, draining, made, kind, at, block_cnt, endVars, TSQ>>
  BY DEF Store, jobVars, TypeInv, TypeOK
<1> HIDE DEF r
<1>3. CountsBlocksOnTheWay'
  <2>1. /\ pc'[r + 1] = "cut"
        /\ \A t \in {1, 2} \ {r} : pc'[t + 1] = pc[t + 1]
    <3>1. /\ pc'[s] = "cut"
          /\ \A t \in Stages \ {s} : pc'[t] = pc[t]
      BY <1>2, StageNumbers DEF Go, TypeInv, TypeOK
    <3>2. \A t \in {1, 2} \ {r} : t + 1 \in Stages \ {s}
      BY <1>1 DEF Stages
    <3> QED
      BY <1>1, <3>1, <3>2
  <2>2. \A t \in {1, 2} : Waiting(t)' = Waiting(t) /\ Pushing(t)' = Pushing(t)
    BY <1>2 DEF Waiting, Pushing
  <2>3. /\ TSQ_cnt'[r] = TSQ_cnt[r] - 1
        /\ \A t \in {1, 2} \ {r} : TSQ_cnt'[t] = TSQ_cnt[t]
    BY <1>1, <1>2, StageNumbers
  <2>4. TSQ_cnt[r] = Cardinality(Waiting(r)) + Cardinality(Pushing(r)) + 1
    BY <1>1, <1>2 DEF HandOffParts, CountsBlocksOnTheWay
  <2>5. Cardinality(Pushing(r)) \in Nat
    BY JobIdsFinite DEF Pushing
  <2>6. Cardinality(Waiting(r)) \in Nat
    BY <1>1, WaitingIsPlaces, BlockPlacesFinite DEF TypeInv, TypeOK
  <2>7. TSQ_cnt'[r] = Cardinality(Waiting(r)') + Cardinality(Pushing(r)')
    BY <1>1, <2>2, <2>3, <2>4, <2>5, <2>6
  <2>8. Cardinality(Waiting(r)') \in Nat /\ Cardinality(Pushing(r)') \in Nat
    BY <1>1, <2>2, <2>5, <2>6
  <2>9. TSQ_cnt'[r] = Cardinality(Waiting(r)') + Cardinality(Pushing(r)')
                      + (IF pc'[r + 1] = "store" THEN 1 ELSE 0)
    BY <2>1, <2>7, <2>8
  <2> QED
    BY <2>1, <2>2, <2>3, <2>9 DEF HandOffParts, CountsBlocksOnTheWay
<1>4. \A t \in {1, 2} \ {s - 1} : TSQ'[t] = TSQ[t]
  BY <1>2
<1> QED
  BY <1>2, <1>3, <1>4, PopFrame DEF HandOffParts

-----------------------------------------------------------------------------
(* The steps of a job. *)

(* What every one of them leaves in place.  While blocks are on their way  *)
(* the next feeder has not left its pop loop.                              *)
LEMMA JobFrame ==
  ASSUME TypeInv, HandOffParts, NEW s \in Stages, NEW n \in JobIds,
         NEW to \in {"push", "leave", "pushEnd", "done"}, Move(s, n, to),
         at[s][n] \in {"queued", "push", "leave", "pushEnd"},
         UNCHANGED <<workVars, add_end>>,
         \A t \in Stages : end_flag[t] => end_flag'[t],
         \A t \in Stages \ {s} : TSQ'[t] = TSQ[t],
         s \in {1, 2} /\ draining[s + 1] =>
           Waiting(s)' = Waiting(s) /\ to \in {"pushEnd", "done"}
  PROVE  JobsInOrder' /\ EndIsLast' /\ DrainedBeforeExit'
<1>1. /\ pc' = pc /\ item' = item /\ draining' = draining
      /\ made' = made /\ kind' = kind
  BY DEF workVars, feedVars, jobVars
<1>2. to \in JobPC
  BY DEF JobPC
<1>3. /\ at[s] \in [JobIds -> JobPC]
      /\ at'[s] = [at[s] EXCEPT ![n] = to]
      /\ \A t \in Stages \ {s} : at'[t] = at[t]
  BY <1>2, MoveFacts
<1>4. JobsInOrder'
  <2>1. ASSUME NEW t \in Stages, NEW m \in JobIds
        PROVE  /\ at'[t][m] = "none" <=> at[t][m] = "none"
               /\ at'[t][m] = "made" <=> at[t][m] = "made"
               /\ at'[t][m] = "counted" <=> at[t][m] = "counted"
    BY <1>3
  <2>2. \A t \in Stages : pc[t] \in {"credit", "endFlag", "count", "submit"}
                          => made[t] \in JobIds
    BY DEF TypeInv, WellPlaced
  <2> QED
    BY <1>1, <2>1, <2>2 DEF HandOffParts, JobsInOrder
<1>5. EndIsLast'
  <2>1. \A t \in Stages : EndCut(t)' <=> EndCut(t)
    BY <1>1 DEF EndCut
  <2>2. \A t \in Stages : draining[t] /\ t # 1 => t - 1 \in Stages
    BY DEF Stages
  <2> QED
    BY <1>1, <2>1, <2>2 DEF HandOffParts, EndIsLast
<1>6. DrainedBeforeExit'
  <2>1. ASSUME NEW t \in {2, 3}, draining[t], NEW r, r = t - 1
        PROVE  /\ Waiting(r)' = {}
               /\ Pushing(r)' = {}
               /\ pc[r] \in {"count", "submit", "done"}
               /\ \A m \in JobIds :
                    at'[r][m] \in {"made", "counted", "queued", "leave"}
                      => kind[r][m] = "end"
    <3>1. /\ Waiting(r) = {}
          /\ Pushing(r) = {}
          /\ pc[r] \in {"count", "submit", "done"}
          /\ \A m \in JobIds :
               at[r][m] \in {"made", "counted", "queued", "leave"}
                 => kind[r][m] = "end"
          /\ r \in {1, 2} /\ r \in Stages /\ t = r + 1
      BY <2>1, StageNumbers DEF HandOffParts, DrainedBeforeExit
    <3>2. Waiting(r)' = Waiting(r)
      <4>1. CASE r = s
        BY <2>1, <3>1, <4>1
      <4>2. CASE r # s
        BY <3>1, <4>2 DEF Waiting
      <4> QED
        BY <4>1, <4>2
    <3>3. \A m \in JobIds : \/ at'[r][m] = at[r][m]
                            \/ at'[r][m] \in {"pushEnd", "done"}
      <4>1. CASE r = s
        BY <1>3, <2>1, <3>1, <4>1
      <4>2. CASE r # s
        BY <1>3, <3>1, <4>2
      <4> QED
        BY <4>1, <4>2
    <3>4. Pushing(r)' = {}
      BY <3>1, <3>3 DEF Pushing
    <3> QED
      BY <3>1, <3>2, <3>3, <3>4
  <2> QED
    BY <1>1, <2>1 DEF DrainedBeforeExit
<1> QED
  BY <1>4, <1>5, <1>6

(* A flag that is up already stays right. *)
LEMMA FlagFrame ==
  ASSUME TypeInv, HandOffParts, NEW s \in Stages, NEW n \in JobIds,
         NEW to \in {"push", "leave", "pushEnd", "done"}, Move(s, n, to),
         at[s][n] \in {"queued", "push", "leave", "pushEnd"},
         at[s][n] = "pushEnd" => to = "done",
         UNCHANGED <<workVars, endVars>>
  PROVE  EndFlagIsFinal'
<1>1. /\ kind' = kind /\ end_flag' = end_flag /\ add_end' = add_end
  BY DEF workVars, jobVars, endVars
<1>2. to \in JobPC
  BY DEF JobPC
<1>3. /\ at[s] \in [JobIds -> JobPC]
      /\ at'[s] = [at[s] EXCEPT ![n] = to]
      /\ \A t \in Stages \ {s} : at'[t] = at[t]
  BY <1>2, MoveFacts
<1>4. end_flag[s] /\ kind[s][n] # "end" => to = "done"
  BY DEF HandOffParts, EndFlagIsFinal
<1> QED
  BY <1>1, <1>3, <1>4 DEF HandOffParts, EndFlagIsFinal

(* A block on its way keeps the next feeder in its pop loop. *)
LEMMA StillPopping ==
  ASSUME HandOffParts, NEW s \in {1, 2}, NEW n \in JobIds,
         \/ at[s][n] = "push"
         \/ at[s][n] = "queued" /\ kind[s][n] # "end"
  PROVE  ~draining[s + 1]
<1>1. s + 1 \in {2, 3} /\ (s + 1) - 1 = s
  OBVIOUS
<1> QED
  BY <1>1 DEF HandOffParts, DrainedBeforeExit, Pushing

(* readFile and compress_func, the block in its storage. *)
LEMMA HandOnHandOff ==
  ASSUME TypeInv, HandOffParts, NEW s \in {1, 2}, NEW n \in JobIds,
         at[s][n] = "queued", kind[s][n] = "data", Move(s, n, "push"),
         TSQ_cnt' = [TSQ_cnt EXCEPT ![s] = @ + 1],
         UNCHANGED <<workVars, block_cnt, endVars, TSQ>>
  PROVE  HandOffParts'
<1>1. s \in Stages /\ "push" \in JobPC
  BY StageNumbers DEF JobPC
<1>2. ~draining[s + 1]
  BY StillPopping
<1>3. /\ UNCHANGED <<workVars, add_end>>
      /\ \A t \in Stages : end_flag[t] => end_flag'[t]
      /\ \A t \in Stages \ {s} : TSQ'[t] = TSQ[t]
  BY DEF endVars
<1>4. JobsInOrder' /\ EndIsLast' /\ DrainedBeforeExit'
  BY <1>1, <1>2, <1>3, JobFrame
<1>5. EndFlagIsFinal'
  BY <1>1, FlagFrame
<1>6. CountsActiveJobs'
  <2>1. at[s][n] \in ActivePC /\ "push" \in ActivePC
    BY DEF ActivePC
  <2> QED
    BY <1>1, <2>1, ActiveSame DEF HandOffParts
<1>7. CountsBlocksOnTheWay'
  <2>1. Cardinality(Placed(at'[s], {"push"})) =
          Cardinality(Placed(at[s], {"push"})) + 1
    BY <1>1, MoveMore
  <2>2. Cardinality(Pushing(s)') = Cardinality(Pushing(s)) + 1
    BY <1>1, <2>1, WaitingIsPlaces
  <2>3. \A t \in {1, 2} \ {s} : Pushing(t)' = Pushing(t)
    BY <1>1, PushingElsewhere, StageNumbers
  <2>4. \A t \in {1, 2} : Waiting(t)' = Waiting(t)
    BY DEF Waiting
  <2>5. pc' = pc
    BY DEF workVars
  <2>6. /\ TSQ_cnt'[s] = TSQ_cnt[s] + 1
        /\ \A t \in {1, 2} \ {s} : TSQ_cnt'[t] = TSQ_cnt[t]
    BY <1>1, StageNumbers DEF TypeInv, TypeOK
  <2>7. Cardinality(Pushing(s)) \in Nat
    BY JobIdsFinite DEF Pushing
  <2>8. Cardinality(Waiting(s)) \in Nat
    BY <1>1, WaitingIsPlaces, BlockPlacesFinite DEF TypeInv, TypeOK
  <2>9. TSQ_cnt[s] = Cardinality(Waiting(s)) + Cardinality(Pushing(s))
                     + (IF pc[s + 1] = "store" THEN 1 ELSE 0)
    BY DEF HandOffParts, CountsBlocksOnTheWay
  <2>10. TSQ_cnt'[s] = Cardinality(Waiting(s)') + Cardinality(Pushing(s)')
                       + (IF pc'[s + 1] = "store" THEN 1 ELSE 0)
    BY <2>2, <2>4, <2>5, <2>6, <2>7, <2>8, <2>9
  <2> QED
    BY <2>3, <2>4, <2>5, <2>6, <2>10 DEF HandOffParts, CountsBlocksOnTheWay
<1> QED
  BY <1>4, <1>5, <1>6, <1>7 DEF HandOffParts

LEMMA ReadBlockHandOff ==
  ASSUME TypeInv, HandOffParts, NEW n \in JobIds, ReadBlock(n)
  PROVE  HandOffParts'
  BY HandOnHandOff DEF ReadBlock, CanStart

LEMMA CompressBlockHandOff ==
  ASSUME TypeInv, HandOffParts, NEW n \in JobIds, CompressBlock(n)
  PROVE  HandOffParts'
  BY HandOnHandOff DEF CompressBlock, CanStart

LEMMA PushBlockHandOff ==
  ASSUME TypeInv, HandOffParts, NEW s \in {1, 2}, NEW n \in JobIds,
         PushBlock(s, n)
  PROVE  HandOffParts'
<1>1. /\ at[s][n] = "push"
      /\ Move(s, n, "leave")
      /\ TSQ' = [TSQ EXCEPT ![s] = Append(@, n)]
      /\ TSQ \in [Stages -> Seq(JobIds \cup {END})]
      /\ UNCHANGED <<workVars, block_cnt, endVars, TSQ_cnt>>
      /\ s \in Stages /\ "leave" \in JobPC
  BY StageNumbers DEF PushBlock, JobPC, TypeInv, TypeOK
<1>2. /\ TSQ'[s] = Append(TSQ[s], n)
      /\ \A t \in Stages \ {s} : TSQ'[t] = TSQ[t]
  BY <1>1
<1>3. ~draining[s + 1]
  BY <1>1, StillPopping
<1>4. add_end' = add_end /\ \A t \in Stages : end_flag[t] => end_flag'[t]
  BY <1>1 DEF endVars
<1>5. JobsInOrder' /\ EndIsLast' /\ DrainedBeforeExit'
  BY <1>1, <1>2, <1>3, <1>4, JobFrame
<1>6. EndFlagIsFinal'
  BY <1>1, FlagFrame
<1>7. CountsActiveJobs'
  <2>1. at[s][n] \in ActivePC /\ "leave" \in ActivePC
    BY <1>1 DEF ActivePC
  <2> QED
    BY <1>1, <2>1, ActiveSame DEF HandOffParts
<1>8. CountsBlocksOnTheWay'
  <2>1. Cardinality(Placed(at'[s], {"push"})) =
          Cardinality(Placed(at[s], {"push"})) - 1
    BY <1>1, MoveLess, ZenonT(60)
  <2>2. Cardinality(Pushing(s)') = Cardinality(Pushing(s)) - 1
    BY <1>1, <2>1, WaitingIsPlaces
  <2>3. Cardinality(BlockPlaces(Append(TSQ[s], n))) =
          Cardinality(BlockPlaces(TSQ[s])) + 1
    BY <1>1, AppendBlock
  <2>4. Cardinality(Waiting(s)') = Cardinality(Waiting(s)) + 1
    BY <1>1, <1>2, <2>3, WaitingIsPlaces
  <2>5. \A t \in {1, 2} \ {s} : /\ Pushing(t)' = Pushing(t)
                               /\ Waiting(t)' = Waiting(t)
    BY <1>1, <1>2, PushingElsewhere, StageNumbers DEF Waiting
  <2>6. pc' = pc /\ TSQ_cnt' = TSQ_cnt
    BY <1>1 DEF workVars
  <2>7. Cardinality(Pushing(s)) \in Nat
    BY JobIdsFinite DEF Pushing
  <2>8. Cardinality(Waiting(s)) \in Nat
    BY <1>1, WaitingIsPlaces, BlockPlacesFinite
  <2>9. TSQ_cnt[s] = Cardinality(Waiting(s)) + Cardinality(Pushing(s))
                     + (IF pc[s + 1] = "store" THEN 1 ELSE 0)
    BY DEF HandOffParts, CountsBlocksOnTheWay
  <2>10. TSQ_cnt'[s] = Cardinality(Waiting(s)') + Cardinality(Pushing(s)')
                       + (IF pc'[s + 1] = "store" THEN 1 ELSE 0)
    BY <2>2, <2>4, <2>6, <2>7, <2>8, <2>9
  <2> QED
    BY <2>5, <2>6, <2>10 DEF HandOffParts, CountsBlocksOnTheWay
<1> QED
  BY <1>5, <1>6, <1>7, <1>8 DEF HandOffParts

LEMMA PostBlockHandOff ==
  ASSUME TypeInv, HandOffParts, NEW n \in JobIds, PostBlock(n)
  PROVE  HandOffParts'
<1>1. /\ at[3][n] = "queued"
      /\ Move(3, n, "leave")
      /\ UNCHANGED <<workVars, block_cnt, endVars, tsqVars>>
      /\ 3 \in Stages /\ ~(3 \in {1, 2}) /\ "leave" \in JobPC
  BY StageNumbers DEF PostBlock, CanStart, JobPC
<1>2. /\ add_end' = add_end /\ end_flag' = end_flag
      /\ TSQ' = TSQ /\ pc' = pc
  BY <1>1 DEF endVars, tsqVars, workVars
<1>3. JobsInOrder' /\ EndIsLast' /\ DrainedBeforeExit'
  BY <1>1, <1>2, JobFrame
<1>4. EndFlagIsFinal'
  BY <1>1, FlagFrame
<1>5. CountsActiveJobs'
  <2>1. at[3][n] \in ActivePC /\ "leave" \in ActivePC
    BY <1>1 DEF ActivePC
  <2> QED
    BY <1>1, <2>1, ActiveSame DEF HandOffParts
<1>6. CountsBlocksOnTheWay'
  BY <1>1, <1>2, OnTheWayMove DEF HandOffParts
<1> QED
  BY <1>3, <1>4, <1>5, <1>6 DEF HandOffParts

(* With the input over, the job that finds the counter at one is the only  *)
(* active job of its stage, and the job cut last is the end job.           *)
LEMMA LastOutIsAlone ==
  ASSUME TypeInv, HandOffParts, NEW s \in Stages, NEW n \in JobIds,
         at[s][n] \in ActivePC, LastOut(s)
  PROVE  \A m \in JobIds \ {n} :
           kind[s][m] # "end" => at[s][m] \in {"none", "pushEnd", "done"}
<1>1. Cardinality(Active(s)) = 1 /\ add_end[s]
  BY DEF LastOut, HandOffParts, CountsActiveJobs
<1>2. IsFiniteSet(Active(s)) /\ n \in Active(s)
  BY JobIdsFinite DEF Active, ActivePC
<1>3. Cardinality(Active(s) \ {n}) = 0 /\ IsFiniteSet(Active(s) \ {n})
  BY <1>1, <1>2, FS_RemoveElement
<1>4. Active(s) \ {n} = {}
  BY <1>3, FS_EmptySet
<1>5. kind[s][made[s]] = "end"
  BY <1>1 DEF HandOffParts, EndIsLast, EndCut
<1>6. ASSUME NEW m \in JobIds \ {n}, kind[s][m] # "end"
      PROVE  at[s][m] \in {"none", "pushEnd", "done"}
  <2>1. at[s][m] \in JobPC
    BY DEF TypeInv, TypeOK
  <2>2. at[s][m] \notin ActivePC
    BY <1>4 DEF Active, ActivePC
  <2>3. at[s][m] # "made"
    BY <1>5, <1>6 DEF HandOffParts, JobsInOrder
  <2> QED
    BY <2>1, <2>2, <2>3 DEF JobPC, ActivePC
<1> QED
  BY <1>6

LEMMA LeaveHandOff ==
  ASSUME TypeInv, HandOffParts, NEW s \in Stages, NEW n \in JobIds,
         Leave(s, n)
  PROVE  HandOffParts'
<1> DEFINE to == IF LastOut(s) /\ s # 3 THEN "pushEnd" ELSE "done"
<1>1. /\ at[s][n] \in {"queued", "leave"}
      /\ Move(s, n, to)
      /\ block_cnt' = [block_cnt EXCEPT ![s] = @ - 1]
      /\ end_flag' = [end_flag EXCEPT ![s] = @ \/ LastOut(s)]
      /\ end_flag \in [Stages -> BOOLEAN]
      /\ UNCHANGED <<workVars, add_end, tsqVars>>
  BY DEF Leave, CanStart, TypeInv, TypeOK
<1>2. to \in {"pushEnd", "done"} /\ to \in JobPC
  BY DEF JobPC
<1> HIDE DEF to
<1>3. /\ end_flag'[s] <=> end_flag[s] \/ LastOut(s)
      /\ \A t \in Stages \ {s} : end_flag'[t] = end_flag[t]
      /\ TSQ' = TSQ /\ pc' = pc /\ kind' = kind
  BY <1>1 DEF tsqVars, workVars, jobVars
<1>4. JobsInOrder' /\ EndIsLast' /\ DrainedBeforeExit'
  <2>1. \A t \in Stages : end_flag[t] => end_flag'[t]
    BY <1>3
  <2>2. Waiting(s)' = Waiting(s) /\ \A t \in Stages \ {s} : TSQ'[t] = TSQ[t]
    BY <1>3 DEF Waiting
  <2> QED
    BY <1>1, <1>2, <2>1, <2>2, JobFrame
<1>5. at[s][n] \in ActivePC /\ to \notin ActivePC
  BY <1>1, <1>2 DEF ActivePC
<1>6. EndFlagIsFinal'
  <2>1. /\ at[s] \in [JobIds -> JobPC]
        /\ at'[s] = [at[s] EXCEPT ![n] = to]
        /\ \A t \in Stages \ {s} : at'[t] = at[t]
    BY <1>1, <1>2, MoveFacts
  <2>2. LastOut(s) =>
          /\ add_end[s]
          /\ \A m \in JobIds \ {n} :
               kind[s][m] # "end" => at[s][m] \in {"none", "pushEnd", "done"}
    BY <1>5, LastOutIsAlone DEF LastOut
  <2> HIDE DEF LastOut
  <2>3. add_end' = add_end
    BY <1>1
  <2> QED
    BY <1>2, <1>3, <2>1, <2>2, <2>3 DEF HandOffParts, EndFlagIsFinal
<1>7. CountsActiveJobs'
  BY <1>1, <1>2, <1>5, ActiveLess DEF HandOffParts
<1>8. CountsBlocksOnTheWay'
  BY <1>1, <1>2, <1>3, OnTheWayMove DEF HandOffParts
<1> QED
  BY <1>4, <1>6, <1>7, <1>8 DEF HandOffParts

LEMMA PushEndHandOff ==
  ASSUME TypeInv, HandOffParts, NEW s \in {1, 2}, NEW n \in JobIds,
         PushEnd(s, n)
  PROVE  HandOffParts'
<1>1. /\ at[s][n] = "pushEnd"
      /\ Move(s, n, "done")
      /\ TSQ' = [TSQ EXCEPT ![s] = Append(@, END)]
      /\ TSQ \in [Stages -> Seq(JobIds \cup {END})]
      /\ UNCHANGED <<workVars, block_cnt, endVars, TSQ_cnt>>
      /\ s \in Stages /\ "done" \in JobPC
  BY StageNumbers DEF PushEnd, JobPC, TypeInv, TypeOK
<1>2. /\ TSQ'[s] = Append(TSQ[s], END)
      /\ \A t \in Stages \ {s} : TSQ'[t] = TSQ[t]
  BY <1>1
<1>3. Waiting(s)' = Waiting(s)
  <2>1. BlockPlaces(Append(TSQ[s], END)) = BlockPlaces(TSQ[s])
    BY <1>1, AppendEnd
  <2> QED
    BY <1>1, <1>2, <2>1, WaitingIsPlaces
<1>4. add_end' = add_end /\ \A t \in Stages : end_flag[t] => end_flag'[t]
  BY <1>1 DEF endVars
<1>5. JobsInOrder' /\ EndIsLast' /\ DrainedBeforeExit'
  BY <1>1, <1>2, <1>3, <1>4, JobFrame
<1>6. EndFlagIsFinal'
  BY <1>1, FlagFrame
<1>7. CountsActiveJobs'
  <2>1. at[s][n] \notin ActivePC /\ "done" \notin ActivePC
    BY <1>1 DEF ActivePC
  <2> QED
    BY <1>1, <2>1, ActiveSame DEF HandOffParts
<1>8. CountsBlocksOnTheWay'
  <2>1. Placed(at'[s], {"push"}) = Placed(at[s], {"push"})
    BY <1>1, MoveSame
  <2>2. Pushing(s)' = Pushing(s)
    BY <1>1, <2>1, WaitingIsPlaces
  <2>3. \A t \in {1, 2} : Waiting(t)' = Waiting(t) /\ Pushing(t)' = Pushing(t)
    BY <1>1, <1>2, <1>3, <2>2, PushingElsewhere, StageNumbers DEF Waiting
  <2>4. pc' = pc /\ TSQ_cnt' = TSQ_cnt
    BY <1>1 DEF workVars
  <2> QED
    BY <2>3, <2>4, OnTheWaySame DEF HandOffParts
<1> QED
  BY <1>5, <1>6, <1>7, <1>8 DEF HandOffParts

-----------------------------------------------------------------------------
(* Every step of the program. *)

LEMMA InitHandOff == Init => HandOffParts
<1> SUFFICES ASSUME Init PROVE HandOffParts
  OBVIOUS
<1>1. JobsInOrder
  BY StageNumbers DEF Init, JobsInOrder, JobIds
<1>2. EndIsLast
  BY StageNumbers DEF Init, EndIsLast, EndCut, JobIds
<1>3. CountsActiveJobs
  BY FS_EmptySet DEF Init, CountsActiveJobs, Active
<1>4. CountsBlocksOnTheWay
  <2>1. \A s \in {1, 2} : Waiting(s) = {} /\ Pushing(s) = {}
    BY StageNumbers DEF Init, Waiting, Pushing
  <2>2. Cardinality({}) = 0
    BY FS_EmptySet
  <2>3. \A s \in {1, 2} : TSQ_cnt[s] = 0 /\ pc[s + 1] # "store"
    BY DEF Init, Stages
  <2> QED
    BY <2>1, <2>2, <2>3 DEF CountsBlocksOnTheWay
<1>5. EndFlagIsFinal /\ DrainedBeforeExit
  BY StageNumbers DEF Init, EndFlagIsFinal, DrainedBeforeExit
<1> QED
  BY <1>1, <1>2, <1>3, <1>4, <1>5 DEF HandOffParts

LEMMA FeederHandOff ==
  ASSUME TypeInv, HandOffParts, Flat,
         trave_dir \/ run_compressQueue1 \/ run_transferQueue1
  PROVE  HandOffParts'
<1>1. ASSUME NEW s \in Stages,
             \/ TakeCredit(s) \/ EndCredit(s) \/ SetAddEnd(s) \/ Count(s)
             \/ Submit(s)
      PROVE  HandOffParts'
  BY <1>1, TakeCreditHandOff, EndCreditHandOff, SetAddEndHandOff,
     CountHandOff, SubmitHandOff
<1>2. CASE AddBlock \/ NextFile \/ EndDir
  BY <1>2, AddBlockHandOff, NextFileHandOff, EndDirHandOff
<1>3. ASSUME NEW s \in {2, 3},
             \/ CheckEnd(s) \/ Pop(s) \/ Store(s) \/ Cut(s) \/ Overrun(s)
             \/ CutDone(s)
      PROVE  HandOffParts'
  BY <1>3, CheckEndHandOff, PopHandOff, StoreHandOff, CutHandOff,
     OverrunHandOff, CutDoneHandOff
<1> QED
  BY <1>1, <1>2, <1>3, StageNumbers
  DEF trave_dir, run_compressQueue1, run_transferQueue1, RunQueue

LEMMA JobHandOff ==
  ASSUME TypeInv, HandOffParts, NEW n \in JobIds,
         readFile(n) \/ compress_func(n) \/ transfer(n)
  PROVE  HandOffParts'
<1>1. CASE readFile(n)
  BY <1>1, StageNumbers, ReadBlockHandOff, PushBlockHandOff, LeaveHandOff,
     PushEndHandOff DEF readFile
<1>2. CASE compress_func(n)
  BY <1>2, StageNumbers, CompressBlockHandOff, PushBlockHandOff, LeaveHandOff,
     PushEndHandOff DEF compress_func
<1>3. CASE transfer(n)
  BY <1>3, StageNumbers, PostBlockHandOff, LeaveHandOff DEF transfer
<1> QED
  BY <1>1, <1>2, <1>3

LEMMA OthersHandOff ==
  ASSUME TypeInv, HandOffParts,
         monitor \/ MainWait \/ Ended \/ UNCHANGED vars
  PROVE  HandOffParts'
<1>1. UNCHANGED <<pc, item, draining, made, kind, at, block_cnt, endVars,
                  tsqVars>>
  <2>1. CASE monitor
    BY <2>1 DEF monitor, finish, CheckQuit, FinishLock, FinishTest, SetControl,
                restVars, feedVars, jobVars
  <2>2. CASE MainWait
    BY <2>2 DEF MainWait, feedVars, jobVars
  <2>3. CASE Ended \/ UNCHANGED vars
    BY <2>3 DEF Ended, vars, feedVars, jobVars
  <2> QED
    BY <2>1, <2>2, <2>3
<1> QED
  BY <1>1, HandOffFrame

LEMMA NextHandOff ==
  ASSUME Flat
  PROVE  TypeInv /\ HandOffParts /\ [Next]_vars => HandOffParts'
<1> SUFFICES ASSUME TypeInv, HandOffParts, [Next]_vars PROVE HandOffParts'
  OBVIOUS
<1>1. CASE trave_dir \/ run_compressQueue1 \/ run_transferQueue1
  BY <1>1, FeederHandOff
<1>2. CASE \E n \in JobIds : readFile(n) \/ compress_func(n) \/ transfer(n)
  BY <1>2, JobHandOff
<1>3. CASE monitor \/ MainWait \/ Ended \/ UNCHANGED vars
  BY <1>3, OthersHandOff
<1> QED
  BY <1>1, <1>2, <1>3 DEF Next

(* The invariant of the hand-off: of all the states of the three stages    *)
(* that a traversal without subdirectories can reach.                      *)
THEOREM HandOffInvariant ==
  ASSUME Flat
  PROVE  Spec => []HandOffInv
<1>1. TypeInv /\ HandOffParts => HandOffInv
  BY DEF TypeInv, HandOffParts, HandOffInv
<1>2. TypeInv /\ HandOffParts /\ [Next]_vars => HandOffParts'
  BY NextHandOff
<1> QED
  BY <1>1, <1>2, InitHandOff, TypeInvariant, PTL DEF Spec

(* block1_cnt, block2_cnt and block3_cnt count the active jobs. *)
THEOREM CountsActiveJobsCorrect ==
  ASSUME Flat
  PROVE  Spec => []CountsActiveJobs
<1>1. HandOffInv => CountsActiveJobs
  BY DEF HandOffInv
<1> QED
  BY <1>1, HandOffInvariant, PTL

(* compressTSQ_cnt and transferTSQ_cnt count the blocks on their way. *)
THEOREM CountsBlocksOnTheWayCorrect ==
  ASSUME Flat
  PROVE  Spec => []CountsBlocksOnTheWay
<1>1. HandOffInv => CountsBlocksOnTheWay
  BY DEF HandOffInv
<1> QED
  BY <1>1, HandOffInvariant, PTL

(* read_end, compress_end and transfer_end go up after the last block. *)
THEOREM EndFlagIsFinalCorrect ==
  ASSUME Flat
  PROVE  Spec => []EndFlagIsFinal
<1>1. HandOffInv => EndFlagIsFinal
  BY DEF HandOffInv
<1> QED
  BY <1>1, HandOffInvariant, PTL

(* A feeder leaves its pop loop with every block of the stage before it.   *)
THEOREM DrainedBeforeExitCorrect ==
  ASSUME Flat
  PROVE  Spec => []DrainedBeforeExit
<1>1. HandOffInv => DrainedBeforeExit
  BY DEF HandOffInv
<1> QED
  BY <1>1, HandOffInvariant, PTL

-----------------------------------------------------------------------------
(* When the monitor quits, the third feeder has announced its end: by the  *)
(* invariant of the hand-off the other two have done so before it.         *)
QuitAfterEnd == monPC = "quit" => add_end[3]

LEMMA NextQuitAfterEnd ==
  TypeInv /\ QuitAfterEnd /\ [Next]_vars => QuitAfterEnd'
<1> SUFFICES ASSUME TypeInv, QuitAfterEnd, [Next]_vars PROVE QuitAfterEnd'
  OBVIOUS
<1>1. add_end[3] => add_end'[3]
  <2>1. UNCHANGED add_end \/ \E s \in Stages : SetAddEnd(s)
    BY StageNumbers
    DEF Next, trave_dir, run_compressQueue1, run_transferQueue1, RunQueue,
        readFile, compress_func, transfer, monitor, finish, vars,
        AddBlock, NextFile, EndDir, TakeCredit, EndCredit, Count, Submit,
        CheckEnd, Pop, Store, Cut, Overrun, CutDone, ReadBlock, CompressBlock,
        PushBlock, PostBlock, Leave, PushEnd, SetControl, CheckQuit,
        FinishLock, FinishTest, MainWait, Ended, scanVars, restVars, endVars
  <2> QED
    BY <2>1, StageNumbers, ZenonT(60) DEF SetAddEnd, TypeInv, TypeOK
<1>2. CASE monitor
  BY <1>1, <1>2
  DEF QuitAfterEnd, monitor, finish, CheckQuit, AllAdded, FinishLock,
      FinishTest, SetControl, restVars, endVars
<1>3. CASE ~monitor
  <2>1. monPC' = monPC
    BY <1>3
    DEF Next, trave_dir, run_compressQueue1, run_transferQueue1, RunQueue,
        readFile, compress_func, transfer, vars,
        AddBlock, NextFile, EndDir, TakeCredit, EndCredit, SetAddEnd, Count,
        Submit, CheckEnd, Pop, Store, Cut, Overrun, CutDone, ReadBlock,
        CompressBlock, PushBlock, PostBlock, Leave, PushEnd, MainWait, Ended,
        scanVars, workVars, monVars
  <2> QED
    BY <1>1, <2>1 DEF QuitAfterEnd
<1> QED
  BY <1>2, <1>3

LEMMA QuitAfterEndAlways == Spec => []QuitAfterEnd
<1>1. Init => QuitAfterEnd
  BY DEF Init, QuitAfterEnd
<1> QED
  BY <1>1, NextQuitAfterEnd, TypeInvariant, PTL DEF Spec

(* Without subdirectories the monitor grants credit as long as a feeder    *)
(* may ask for it.                                                         *)
THEOREM MonitorOutlivesFeedersCorrect ==
  ASSUME Flat
  PROVE  Spec => []MonitorOutlivesFeeders
<1>1. HandOffInv /\ QuitAfterEnd => MonitorOutlivesFeeders
  <2> SUFFICES ASSUME HandOffInv, monPC = "quit", add_end[3]
               PROVE  \A s \in Stages :
                        pc[s] \in {"count", "submit", "done", "crashed"}
    BY DEF QuitAfterEnd, MonitorOutlivesFeeders
  <2>1. pc[3] \in {"count", "submit", "done"} /\ draining[3]
    BY StageNumbers DEF HandOffInv, EndIsLast
  <2>2. pc[2] \in {"count", "submit", "done"} /\ add_end[2]
    BY <2>1, StageNumbers
    DEF HandOffInv, DrainedBeforeExit, EndIsLast, EndFlagIsFinal
  <2>3. draining[2]
    BY <2>2, StageNumbers DEF HandOffInv, EndIsLast
  <2>4. pc[1] \in {"count", "submit", "done"}
    BY <2>3 DEF HandOffInv, DrainedBeforeExit
  <2> QED
    BY <2>1, <2>2, <2>4 DEF Stages
<1> QED
  BY <1>1, QuitAfterEndAlways, HandOffInvariant, PTL
-----------------------------------------------------------------------------
(* Sums over finite sets, as MapThenSumSet of FiniteSetsExt computes them: *)
(* it picks an element, adds what belongs to it and goes on with the rest. *)
(* The lemmas are proved from a smallest set, or a least number, for which *)
(* they would fail: strict inclusion among the subsets of a finite set is  *)
(* well founded.                                                           *)
LEMMA SmallestSet ==
  ASSUME NEW S, IsFiniteSet(S), NEW C \in SUBSET SUBSET S, C # {}
  PROVE  \E U \in C : \A V \in C : V \subseteq U => V = U
<1>1. IsWellFoundedOn(StrictSubsetOrdering(S), FiniteSubsetsOf(S))
  BY FS_StrictSubsetOrderingWellFounded
<1>2. C \subseteq FiniteSubsetsOf(S)
  BY FS_Subset DEF FiniteSubsetsOf
<1>3. \E U \in C : \A V \in C : ~(<<V, U>> \in StrictSubsetOrdering(S))
  BY <1>1, <1>2, WFMin, Zenon
<1> QED
  BY <1>3 DEF StrictSubsetOrdering

LEMMA LeastNumber ==
  ASSUME NEW T \in SUBSET Nat, T # {}
  PROVE  \E m \in T : \A k \in T : m <= k
<1>1. PICK n \in T : TRUE
  OBVIOUS
<1> DEFINE B == {0 .. k : k \in T \cap 0 .. n}
<1>2. IsFiniteSet(0 .. n)
  BY FS_Interval
<1>3. B \in SUBSET SUBSET (0 .. n) /\ B # {}
  <2>1. 0 .. n \in B
    OBVIOUS
  <2>2. \A k \in 0 .. n : 0 .. k \subseteq 0 .. n
    OBVIOUS
  <2> QED
    BY <2>1, <2>2
<1>4. PICK U \in B : \A V \in B : V \subseteq U => V = U
  <2> DEFINE S == 0 .. n
  <2>1. IsFiniteSet(S) /\ B \in SUBSET SUBSET S /\ B # {}
    BY <1>2, <1>3
  <2> HIDE DEF B, S
  <2> QED
    BY <2>1, SmallestSet
<1>5. PICK m \in T \cap 0 .. n : U = 0 .. m
  BY <1>4
<1>6. ASSUME NEW k \in T, k < m
      PROVE  FALSE
  <2>1. 0 .. k \in B
    BY <1>6
  <2>2. 0 .. k \subseteq 0 .. m /\ m \in 0 .. m /\ m \notin 0 .. k
    BY <1>6
  <2> QED
    BY <1>4, <1>5, <2>1, <2>2
<1> QED
  BY <1>6

-----------------------------------------------------------------------------
Pick(s) == CHOOSE x \in s : TRUE

(* What MapThenFoldSet does at set s, h being its own value on smaller sets. *)
FoldStep(h, g, s) == IF s = {} THEN 0 ELSE g[Pick(s)] + h[s \ {Pick(s)}]

IsFold(h, g, S) == h = [s \in SUBSET S |-> FoldStep(h, g, s)]

Sum(g, S) == (CHOOSE h : IsFold(h, g, S))[S]

LEMMA PickIn == \A s : s # {} => Pick(s) \in s
  BY DEF Pick

(* Such a function exists: one that is right up to m - 1 elements can be   *)
(* made right up to m.                                                     *)
LEMMA FoldExists ==
  ASSUME NEW g, NEW S, IsFiniteSet(S)
  PROVE  \E h : IsFold(h, g, S)
<1> DEFINE Upto(h, n) ==
             \A s \in SUBSET S : Cardinality(s) <= n => h[s] = FoldStep(h, g, s)
           Bad == {n \in Nat : ~\E h : Upto(h, n)}
<1>1. \A s \in SUBSET S : IsFiniteSet(s) /\ Cardinality(s) \in Nat
  BY FS_Subset, FS_CardinalityType
<1>2. \A s \in SUBSET S : s # {} =>
        /\ s \ {Pick(s)} \in SUBSET S
        /\ Cardinality(s \ {Pick(s)}) = Cardinality(s) - 1
  BY <1>1, PickIn, FS_RemoveElement
<1>3. ASSUME Bad # {}
      PROVE  FALSE
  <2>1. PICK m \in Bad : \A k \in Bad : m <= k
    <3> HIDE DEF Bad
    <3>1. Bad \in SUBSET Nat
      BY DEF Bad
    <3> QED
      BY <1>3, <3>1, LeastNumber
  <2>2. CASE m = 0
    <3> DEFINE h == [s \in SUBSET S |-> 0]
    <3>1. \A s \in SUBSET S : Cardinality(s) <= 0 => s = {}
      BY <1>1, FS_EmptySet
    <3>2. Upto(h, 0)
      BY <3>1 DEF FoldStep
    <3> HIDE DEF h
    <3> QED
      BY <2>2, <3>2
  <2>3. CASE m # 0
    <3>1. m - 1 \in Nat /\ m - 1 \notin Bad
      BY <2>1, <2>3
    <3>2. PICK h : Upto(h, m - 1)
      BY <3>1
    <3> DEFINE k == [s \in SUBSET S |->
                       IF Cardinality(s) <= m - 1 THEN h[s] ELSE FoldStep(h, g, s)]
    <3>3. \A s \in SUBSET S : Cardinality(s) <= m - 1 => k[s] = h[s]
      OBVIOUS
    <3>4. \A s \in SUBSET S : k[s] = FoldStep(h, g, s)
      BY <3>2
    <3>5. ASSUME NEW s \in SUBSET S, Cardinality(s) <= m
          PROVE  k[s] = FoldStep(k, g, s)
      <4> HIDE DEF k
      <4>1. CASE s = {}
        BY <3>4, <4>1 DEF FoldStep
      <4>2. CASE s # {}
        <5>1. Cardinality(s \ {Pick(s)}) <= m - 1 /\ s \ {Pick(s)} \in SUBSET S
          BY <1>1, <1>2, <3>5, <4>2
        <5> QED
          BY <3>3, <3>4, <4>2, <5>1 DEF FoldStep
      <4> QED
        BY <4>1, <4>2
    <3> HIDE DEF k
    <3>6. Upto(k, m)
      BY <3>5
    <3> QED
      BY <3>6
  <2> QED
    BY <2>2, <2>3
<1>4. PICK h : Upto(h, Cardinality(S))
  BY <1>1, <1>3
<1>5. \A s \in SUBSET S : h[s] = FoldStep(h, g, s)
  BY <1>1, <1>4, FS_Subset
<1> DEFINE k == [s \in SUBSET S |-> h[s]]
<1>6. ASSUME NEW s \in SUBSET S
      PROVE  FoldStep(k, g, s) = h[s]
  BY <1>5, <1>6 DEF FoldStep
<1>7. k = [s \in SUBSET S |-> FoldStep(k, g, s)]
  <2>1. \A s \in SUBSET S : FoldStep(k, g, s) = h[s]
    BY <1>6
  <2> QED
    BY <2>1
<1> HIDE DEF k
<1> QED
  BY <1>7 DEF IsFold

(* Functions on two sets agree on what they share. *)
LEMMA FoldUnique ==
  ASSUME NEW g, NEW S, IsFiniteSet(S), NEW T \in SUBSET S,
         NEW h, IsFold(h, g, S), NEW k, IsFold(k, g, T)
  PROVE  \A s \in SUBSET T : h[s] = k[s]
<1> DEFINE C == {s \in SUBSET T : h[s] # k[s]}
<1>1. ASSUME C # {}
      PROVE  FALSE
  <2>1. IsFiniteSet(T) /\ C \in SUBSET SUBSET T
    BY FS_Subset
  <2>2. PICK U \in C : \A V \in C : V \subseteq U => V = U
    <3> HIDE DEF C
    <3> QED
      BY <1>1, <2>1, SmallestSet
  <2>3. h[U] = FoldStep(h, g, U) /\ k[U] = FoldStep(k, g, U)
    BY DEF IsFold
  <2>4. U # {}
    BY <2>2, <2>3 DEF FoldStep
  <2>5. U \ {Pick(U)} \notin C
    BY <2>2, <2>4, PickIn
  <2> QED
    BY <2>2, <2>3, <2>4, <2>5 DEF FoldStep
<1> QED
  BY <1>1

(* Sum computes what its definition says. *)
LEMMA SumIs ==
  ASSUME NEW g, NEW S, IsFiniteSet(S)
  PROVE  Sum(g, S) = IF S = {} THEN 0 ELSE g[Pick(S)] + Sum(g, S \ {Pick(S)})
<1> DEFINE h == CHOOSE h : IsFold(h, g, S)
           T == S \ {Pick(S)}
           k == CHOOSE k : IsFold(k, g, T)
<1>1. IsFold(h, g, S)
  BY FoldExists, Zenon
<1>2. IsFiniteSet(T)
  BY FS_Subset
<1>3. IsFold(k, g, T)
  BY <1>2, FoldExists, Zenon
<1>4. Sum(g, S) = h[S] /\ Sum(g, T) = k[T]
  BY Zenon DEF Sum
<1> HIDE DEF h, k
<1>5. h[S] = FoldStep(h, g, S)
  BY <1>1 DEF IsFold
<1>6. h[T] = k[T]
  BY <1>1, <1>3, FoldUnique
<1> QED
  BY <1>4, <1>5, <1>6 DEF FoldStep

LEMMA SumType ==
  ASSUME NEW S, IsFiniteSet(S), NEW g, \A x \in S : g[x] \in Nat
  PROVE  Sum(g, S) \in Nat
<1> DEFINE C == {U \in SUBSET S : Sum(g, U) \notin Nat}
<1>1. ASSUME C # {}
      PROVE  FALSE
  <2>1. PICK U \in C : \A V \in C : V \subseteq U => V = U
    <3>1. C \in SUBSET SUBSET S
      OBVIOUS
    <3> HIDE DEF C
    <3> QED
      BY <1>1, <3>1, SmallestSet
  <2>2. Sum(g, U) = IF U = {} THEN 0 ELSE g[Pick(U)] + Sum(g, U \ {Pick(U)})
    BY SumIs, FS_Subset
  <2>3. U # {} => U \ {Pick(U)} \notin C /\ g[Pick(U)] \in Nat
    BY <2>1, PickIn
  <2> QED
    BY <2>1, <2>2, <2>3
<1> QED
  BY <1>1

LEMMA SumSame ==
  ASSUME NEW S, IsFiniteSet(S), NEW f, NEW g, \A x \in S : f[x] = g[x]
  PROVE  Sum(f, S) = Sum(g, S)
<1> DEFINE C == {U \in SUBSET S : Sum(f, U) # Sum(g, U)}
<1>1. ASSUME C # {}
      PROVE  FALSE
  <2>1. PICK U \in C : \A V \in C : V \subseteq U => V = U
    <3>1. C \in SUBSET SUBSET S
      OBVIOUS
    <3> HIDE DEF C
    <3> QED
      BY <1>1, <3>1, SmallestSet
  <2>2. /\ Sum(f, U) = IF U = {} THEN 0 ELSE f[Pick(U)] + Sum(f, U \ {Pick(U)})
        /\ Sum(g, U) = IF U = {} THEN 0 ELSE g[Pick(U)] + Sum(g, U \ {Pick(U)})
    BY SumIs, FS_Subset
  <2>3. U # {} => U \ {Pick(U)} \notin C /\ g[Pick(U)] = f[Pick(U)]
    BY <2>1, PickIn
  <2> QED
    BY <2>1, <2>2, <2>3
<1> QED
  BY <1>1

(* The order in which a sum is taken does not matter. *)
-----------------------------------------------------------------------------
(* The sum does not depend on the order in which elements are picked. *)
LEMMA SumRemove ==
  ASSUME NEW S, IsFiniteSet(S), NEW g, \A x \in S : g[x] \in Nat, NEW x \in S
  PROVE  Sum(g, S) = Sum(g, S \ {x}) + g[x]
<1> DEFINE C == {U \in SUBSET S : \E y \in U : Sum(g, U) # Sum(g, U \ {y}) + g[y]}
<1>1. \A U \in SUBSET S : IsFiniteSet(U) /\ Sum(g, U) \in Nat
  BY FS_Subset, SumType
<1>2. ASSUME C # {}
      PROVE  FALSE
  <2>1. PICK U \in C : \A V \in C : V \subseteq U => V = U
    <3>1. C \in SUBSET SUBSET S
      OBVIOUS
    <3> HIDE DEF C
    <3> QED
      BY <1>2, <3>1, SmallestSet
  <2>2. PICK y \in U : Sum(g, U) # Sum(g, U \ {y}) + g[y]
    OBVIOUS
  <2> DEFINE p == Pick(U)
  <2>3. p \in U /\ Sum(g, U) = g[p] + Sum(g, U \ {p})
    BY <1>1, SumIs, PickIn
  <2> HIDE DEF p
  <2>4. p # y
    BY <1>1, <2>2, <2>3
  <2>5. U \ {p} \notin C /\ U \ {y} \notin C
    BY <2>1, <2>3
  <2>6. Sum(g, U \ {p}) = Sum(g, (U \ {p}) \ {y}) + g[y]
    BY <2>2, <2>4, <2>5
  <2>7. Sum(g, U \ {y}) = Sum(g, (U \ {y}) \ {p}) + g[p]
    BY <2>3, <2>4, <2>5
  <2>8. (U \ {p}) \ {y} = (U \ {y}) \ {p}
    OBVIOUS
  <2> DEFINE r == Sum(g, (U \ {y}) \ {p})
  <2>9. r \in Nat /\ g[p] \in Nat /\ g[y] \in Nat
    BY <1>1, <2>2, <2>3
  <2>10. Sum(g, U \ {p}) = r + g[y] /\ Sum(g, U \ {y}) = r + g[p]
    BY <2>6, <2>7, <2>8, Zenon
  <2> HIDE DEF r
  <2> QED
    BY <2>2, <2>3, <2>9, <2>10
<1> QED
  BY <1>2

LEMMA SumAdd ==
  ASSUME NEW S, IsFiniteSet(S), NEW x, x \notin S, NEW g, \A y \in S \cup {x} : g[y] \in Nat
  PROVE  Sum(g, S \cup {x}) = Sum(g, S) + g[x]
<1>1. IsFiniteSet(S \cup {x}) /\ (S \cup {x}) \ {x} = S
  BY FS_AddElement
<1> QED
  BY <1>1, SumRemove

LEMMA SumChange ==
  ASSUME NEW S, IsFiniteSet(S), NEW x \in S,
         NEW f, \A y \in S : f[y] \in Nat, NEW g, g[x] \in Nat,
         \A y \in S \ {x} : g[y] = f[y]
  PROVE  Sum(g, S) + f[x] = Sum(f, S) + g[x]
<1>1. IsFiniteSet(S \ {x})
  BY FS_Subset
<1>2. Sum(f, S \ {x}) = Sum(g, S \ {x})
  BY <1>1, SumSame
<1>3. Sum(f, S) = Sum(f, S \ {x}) + f[x]
  BY SumRemove
<1>4. Sum(g, S) = Sum(g, S \ {x}) + g[x]
  BY SumRemove
<1>5. Sum(f, S \ {x}) \in Nat
  BY <1>1, SumType
<1> QED
  BY <1>2, <1>3, <1>4, <1>5

LEMMA SumPart ==
  ASSUME NEW S, IsFiniteSet(S), NEW T \in SUBSET S,
         NEW g, \A x \in S : g[x] \in Nat, \A x \in S \ T : g[x] = 0
  PROVE  Sum(g, T) = Sum(g, S)
<1> DEFINE C == {U \in SUBSET S : T \subseteq U /\ Sum(g, U) # Sum(g, T)}
<1>1. ASSUME C # {}
      PROVE  FALSE
  <2>1. PICK U \in C : \A V \in C : V \subseteq U => V = U
    <3>1. C \in SUBSET SUBSET S
      OBVIOUS
    <3> HIDE DEF C
    <3> QED
      BY <1>1, <3>1, SmallestSet
  <2>2. PICK x \in U : x \notin T
    <3>1. U # T /\ T \subseteq U
      BY <2>1
    <3> QED
      BY <3>1
  <2>3. Sum(g, U) = Sum(g, U \ {x}) + g[x]
    BY <2>2, SumRemove, FS_Subset
  <2>4. U \ {x} \notin C
    BY <2>1, <2>2
  <2>5. g[x] = 0 /\ Sum(g, U \ {x}) \in Nat
    BY <2>2, SumType, FS_Subset
  <2> QED
    BY <2>1, <2>2, <2>3, <2>4, <2>5
<1> QED
  BY <1>1
-----------------------------------------------------------------------------
(* Where a job is that has put its block into the queue. *)
HandedOn == {"leave", "pushEnd", "done"}

Arrived(s, n) == kind[s][n] = "data" /\ at[s][n] \in HandedOn

(* The blocks in a queue, and that none of them is there twice. *)
Elements(q) == {q[i] : i \in BlockPlaces(q)}

Once(q) == \A i, j \in BlockPlaces(q) : q[i] = q[j] => i = j

(* A block is in the queue once, or with the next feeder, never both. *)
QueueInv ==
  \A s \in {1, 2} :
    /\ Once(TSQ[s])
    /\ \A n \in Elements(TSQ[s]) : Arrived(s, n)
    /\ pc[s + 1] = "store" => /\ Arrived(s, held[s + 1])
                              /\ held[s + 1] \notin Elements(TSQ[s])

(* Only a job with a block gets as far as pushing it. *)
DataJobs ==
  \A s \in Stages, n \in JobIds :
    at[s][n] \in {"push", "leave"} => kind[s][n] = "data"

(* A stage has one end job, the last one it cuts. *)
EndOnce ==
  \A s \in Stages, n \in JobIds :
    kind[s][n] = "end" /\ at[s][n] # "none" => n = made[s]

RefinementParts == QueueInv /\ DataJobs /\ EndOnce

LEMMA InitRefinement == Init => RefinementParts
<1> SUFFICES ASSUME Init PROVE RefinementParts
  OBVIOUS
<1>1. QueueInv
  <2>1. \A s \in {1, 2} : TSQ[s] = <<>> /\ pc[s + 1] # "store"
    BY DEF Init, Stages
  <2>2. BlockPlaces(<<>>) = {}
    BY DEF BlockPlaces
  <2> QED
    BY <2>1, <2>2 DEF QueueInv, Once, Elements
<1>2. DataJobs /\ EndOnce
  BY DEF Init, DataJobs, EndOnce
<1> QED
  BY <1>1, <1>2 DEF RefinementParts

-----------------------------------------------------------------------------
(* What the queue operations do to the blocks in a queue. *)

LEMMA ElementsType ==
  ASSUME NEW q \in Seq(JobIds \cup {END})
  PROVE  Elements(q) \subseteq JobIds
  BY DEF Elements, BlockPlaces

LEMMA TailElements ==
  ASSUME NEW q \in Seq(JobIds \cup {END}), q # <<>>, Once(q)
  PROVE  Once(Tail(q)) /\ Elements(Tail(q)) = Elements(q) \ {Head(q)}
<1>1. \A i \in BlockPlaces(Tail(q)) :
        i \in Nat \ {0} /\ i + 1 \in BlockPlaces(q) /\ Tail(q)[i] = q[i + 1]
  BY HeadTailProperties DEF BlockPlaces
<1>2. \A i \in BlockPlaces(q) : i # 1 => i - 1 \in BlockPlaces(Tail(q))
  BY HeadTailProperties DEF BlockPlaces
<1>3. /\ \A i \in BlockPlaces(q) : i \in Nat
      /\ Head(q) = q[1]
      /\ Head(q) # END => 1 \in BlockPlaces(q)
      /\ END \notin Elements(q)
  BY DEF BlockPlaces, Elements
<1>4. Once(Tail(q))
  <2> SUFFICES ASSUME NEW i \in BlockPlaces(Tail(q)),
                      NEW j \in BlockPlaces(Tail(q)), Tail(q)[i] = Tail(q)[j]
               PROVE  i = j
    BY DEF Once
  <2>1. i + 1 = j + 1
    BY <1>1 DEF Once
  <2> QED
    BY <1>1, <2>1
<1>5. ASSUME NEW e \in Elements(Tail(q))
      PROVE  e \in Elements(q) /\ e # Head(q)
  <2>1. PICK i \in BlockPlaces(Tail(q)) : e = Tail(q)[i]
    BY DEF Elements
  <2>2. i + 1 \in BlockPlaces(q) /\ e = q[i + 1]
    BY <1>1, <2>1
  <2>4. i + 1 # 1
    BY <1>1
  <2>3. e \in Elements(q)
    BY <2>2 DEF Elements
  <2> QED
    BY <1>3, <2>2, <2>3, <2>4 DEF Once
<1>6. ASSUME NEW e \in Elements(q), e # Head(q)
      PROVE  e \in Elements(Tail(q))
  <2>1. PICK i \in BlockPlaces(q) : e = q[i]
    BY DEF Elements
  <2>2. i - 1 \in BlockPlaces(Tail(q)) /\ (i - 1) + 1 = i
    BY <1>2, <1>3, <1>6, <2>1
  <2>3. e = Tail(q)[i - 1]
    BY <1>1, <2>1, <2>2
  <2> QED
    BY <2>2, <2>3 DEF Elements
<1> QED
  BY <1>4, <1>5, <1>6

LEMMA AppendElements ==
  ASSUME NEW q \in Seq(JobIds \cup {END}), Once(q),
         NEW n \in JobIds, n \notin Elements(q)
  PROVE  Once(Append(q, n)) /\ Elements(Append(q, n)) = Elements(q) \cup {n}
<1> DEFINE r == Append(q, n)
<1>1. n # END
  BY DEF JobIds, END
<1>2. /\ BlockPlaces(r) = BlockPlaces(q) \cup {Len(q) + 1}
      /\ r[Len(q) + 1] = n
      /\ \A i \in BlockPlaces(q) : r[i] = q[i]
  BY <1>1, AppendProperties DEF BlockPlaces
<1>3. \A i \in BlockPlaces(q) : q[i] # n
  BY DEF Elements
<1> HIDE DEF r
<1>4. Once(r)
  BY <1>2, <1>3 DEF Once
<1>5. Elements(r) = Elements(q) \cup {n}
  BY <1>2 DEF Elements
<1> QED
  BY <1>4, <1>5 DEF r

LEMMA AppendEndElements ==
  ASSUME NEW q \in Seq(JobIds \cup {END}), Once(q)
  PROVE  Once(Append(q, END)) /\ Elements(Append(q, END)) = Elements(q)
<1> DEFINE r == Append(q, END)
<1>1. /\ BlockPlaces(r) = BlockPlaces(q)
      /\ \A i \in BlockPlaces(q) : r[i] = q[i]
  BY AppendProperties DEF BlockPlaces
<1> HIDE DEF r
<1>2. Once(r)
  BY <1>1 DEF Once
<1>3. Elements(r) = Elements(q)
  BY <1>1 DEF Elements
<1> QED
  BY <1>2, <1>3 DEF r

-----------------------------------------------------------------------------
(* Steps that leave the queues and what has arrived alone. *)

LEMMA QueueTypes ==
  ASSUME TypeInv, NEW s \in {1, 2}
  PROVE  /\ TSQ[s] \in Seq(JobIds \cup {END})
         /\ Elements(TSQ[s]) \subseteq JobIds
         /\ pc[s + 1] = "store" => held[s + 1] \in JobIds
<1>1. TSQ[s] \in Seq(JobIds \cup {END})
  BY StageNumbers DEF TypeInv, TypeOK
<1>2. pc[s + 1] = "store" => held[s + 1] \in JobIds
  BY StageNumbers DEF TypeInv, WellPlaced
<1> QED
  BY <1>1, <1>2, ElementsType

(* Nothing enters or leaves a queue. *)
LEMMA QueueFrame ==
  ASSUME TypeInv, QueueInv,
         \A s \in {1, 2} : /\ Once(TSQ'[s])
                           /\ Elements(TSQ'[s]) = Elements(TSQ[s]),
         \A s \in {1, 2}, n \in JobIds : Arrived(s, n) => Arrived(s, n)',
         \A s \in {1, 2} : pc'[s + 1] = "store" =>
                             pc[s + 1] = "store" /\ held'[s + 1] = held[s + 1]
  PROVE  QueueInv'
<1> SUFFICES ASSUME NEW s \in {1, 2}
             PROVE  /\ Once(TSQ'[s])
                    /\ \A n \in Elements(TSQ'[s]) : Arrived(s, n)'
                    /\ pc'[s + 1] = "store" =>
                         /\ Arrived(s, held[s + 1])'
                         /\ held'[s + 1] \notin Elements(TSQ'[s])
  BY DEF QueueInv
<1>1. \A n \in Elements(TSQ'[s]) : Arrived(s, n)'
  BY QueueTypes DEF QueueInv
<1>2. ASSUME pc'[s + 1] = "store"
      PROVE  /\ Arrived(s, held[s + 1])'
             /\ held'[s + 1] \notin Elements(TSQ'[s])
  <2>1. /\ held'[s + 1] = held[s + 1]
        /\ held[s + 1] \in JobIds
        /\ Arrived(s, held[s + 1])
        /\ held[s + 1] \notin Elements(TSQ[s])
    BY <1>2, QueueTypes DEF QueueInv
  <2> QED
    BY <2>1 DEF Arrived
<1> QED
  BY <1>1, <1>2

(* A step that leaves the jobs alone. *)
LEMMA JobsFrame ==
  ASSUME TypeInv, RefinementParts, UNCHANGED <<made, kind, at, TSQ>>,
         \A s \in {1, 2} : pc'[s + 1] = "store" =>
                             pc[s + 1] = "store" /\ held'[s + 1] = held[s + 1]
  PROVE  RefinementParts'
<1>1. QueueInv'
  BY QueueFrame DEF RefinementParts, QueueInv, Arrived
<1>2. DataJobs' /\ EndOnce'
  BY DEF RefinementParts, DataJobs, EndOnce
<1> QED
  BY <1>1, <1>2 DEF RefinementParts

(* A job moves, neither out of a queue's reach nor to its push. *)
LEMMA MoveFrame ==
  ASSUME TypeInv, RefinementParts, NEW s \in Stages, NEW n \in JobIds,
         NEW to \in JobPC, Move(s, n, to), at[s][n] # "none",
         at[s][n] \in HandedOn => to \in HandedOn,
         to \in {"push", "leave"} => kind[s][n] = "data",
         UNCHANGED <<made, kind, TSQ, held>>,
         \A t \in {2, 3} : pc'[t] = "store" => pc[t] = "store"
  PROVE  RefinementParts'
<1>1. /\ at'[s] = [at[s] EXCEPT ![n] = to]
      /\ at[s] \in [JobIds -> JobPC]
      /\ \A t \in Stages \ {s} : at'[t] = at[t]
  BY MoveFacts
<1>2. \A t \in Stages, m \in JobIds :
        at'[t][m] = IF t = s /\ m = n THEN to ELSE at[t][m]
  BY <1>1
<1>3. \A t \in {1, 2}, m \in JobIds : Arrived(t, m) => Arrived(t, m)'
  BY <1>2, StageNumbers DEF Arrived
<1>4. QueueInv'
  BY <1>3, QueueFrame, StageNumbers DEF RefinementParts, QueueInv
<1>5. DataJobs'
  BY <1>2 DEF RefinementParts, DataJobs
<1>6. EndOnce'
  BY <1>2 DEF RefinementParts, EndOnce
<1> QED
  BY <1>4, <1>5, <1>6 DEF RefinementParts

-----------------------------------------------------------------------------
(* The steps of a feeder. *)

LEMMA MakeRefinement ==
  ASSUME TypeInv, HandOffParts, RefinementParts, NEW s \in Stages,
         NEW k \in JobKind, NEW b, NEW p, Make(s, k, b, p),
         pc[s] \in {"scan", "cut", "endCredit"}, UNCHANGED <<TSQ, held>>,
         \A t \in {2, 3} : pc'[t] = "store" => pc[t] = "store"
  PROVE  RefinementParts'
<1> DEFINE n == made[s] + 1
<1>1. /\ n \in JobIds
      /\ made' = [made EXCEPT ![s] = n]
      /\ kind' = [kind EXCEPT ![s][n] = k]
      /\ Move(s, n, "made")
      /\ "made" \in JobPC
      /\ made \in [Stages -> JobIds \cup {0}]
      /\ kind \in [Stages -> [JobIds -> JobKind]]
  BY DEF Make, TypeInv, TypeOK, JobPC
<1>2. at[s][n] = "none"
  <2>1. n > made[s]
    BY <1>1 DEF JobIds
  <2> QED
    BY <1>1, <2>1 DEF HandOffParts, JobsInOrder
<1>3. /\ at[s] \in [JobIds -> JobPC]
      /\ at'[s] = [at[s] EXCEPT ![n] = "made"]
      /\ \A t \in Stages \ {s} : at'[t] = at[t]
  BY <1>1, MoveFacts
<1>4. \A m \in JobIds : kind[s][m] = "end" => at[s][m] = "none"
  <2>1. ~EndCut(s)
    BY DEF HandOffParts, EndIsLast
  <2> QED
    BY <2>1 DEF RefinementParts, EndOnce, EndCut
<1> HIDE DEF n
<1>5. \A t \in Stages, m \in JobIds :
        /\ at'[t][m] = IF t = s /\ m = n THEN "made" ELSE at[t][m]
        /\ kind'[t][m] = IF t = s /\ m = n THEN k ELSE kind[t][m]
  BY <1>1, <1>3
<1>6. \A t \in {1, 2}, m \in JobIds : Arrived(t, m) => Arrived(t, m)'
  BY <1>2, <1>5, StageNumbers DEF Arrived, HandedOn
<1>7. QueueInv'
  BY <1>6, QueueFrame, StageNumbers DEF RefinementParts, QueueInv
<1>8. DataJobs'
  BY <1>5 DEF RefinementParts, DataJobs
<1>9. EndOnce'
  BY <1>1, <1>4, <1>5 DEF RefinementParts, EndOnce
<1> QED
  BY <1>7, <1>8, <1>9 DEF RefinementParts

LEMMA PopRefinement ==
  ASSUME TypeInv, RefinementParts, NEW s \in {2, 3}, Pop(s)
  PROVE  RefinementParts'
<1>1. PICK r \in {1, 2} : s = r + 1
  BY StageNumbers
<1>2. /\ TSQ[r] # <<>> /\ TSQ[r] \in Seq(JobIds \cup {END})
      /\ TSQ'[r] = Tail(TSQ[r])
      /\ held'[s] = Head(TSQ[r])
      /\ pc'[s] = "store" => Head(TSQ[r]) # END
      /\ UNCHANGED <<made, kind, at>>
  <2>1. s - 1 = r /\ r \in Stages /\ s \in Stages
    BY <1>1, StageNumbers
  <2>2. TSQ[r] # <<>> /\ TSQ' = [TSQ EXCEPT ![r] = Tail(@)]
    BY <2>1 DEF Pop
  <2>3. /\ held' = [held EXCEPT ![s] = Head(TSQ[r])]
        /\ pc' = [pc EXCEPT ![s] = IF Head(TSQ[r]) = END THEN "check" ELSE "store"]
    BY <2>1 DEF Pop, Go
  <2>4. /\ pc \in [Stages -> FeederPC]
        /\ TSQ \in [Stages -> Seq(JobIds \cup {END})]
        /\ held \in [Stages -> JobIds \cup {END}]
    BY DEF TypeInv, TypeOK
  <2>5. UNCHANGED <<made, kind, at>>
    BY DEF Pop, jobVars
  <2> QED
    BY <2>1, <2>2, <2>3, <2>4, <2>5
<1>3. \A t \in {1, 2} : t # r =>
        TSQ'[t] = TSQ[t] /\ held'[t + 1] = held[t + 1] /\ pc'[t + 1] = pc[t + 1]
  BY <1>1, StageNumbers DEF Pop, Go, TypeInv, TypeOK
<1>4. Once(TSQ'[r]) /\ Elements(TSQ'[r]) = Elements(TSQ[r]) \ {Head(TSQ[r])}
  BY <1>2, TailElements DEF RefinementParts, QueueInv
<1>5. Head(TSQ[r]) # END => Head(TSQ[r]) \in Elements(TSQ[r])
  <2>1. Head(TSQ[r]) = TSQ[r][1] /\ 1 \in 1 .. Len(TSQ[r])
    BY <1>2
  <2> QED
    BY <2>1 DEF Elements, BlockPlaces
<1>6. \A t \in {1, 2} : \A n : Arrived(t, n)' <=> Arrived(t, n)
  BY <1>2 DEF Arrived
<1>7. QueueInv'
  <2> SUFFICES ASSUME NEW t \in {1, 2}
               PROVE  /\ Once(TSQ'[t])
                      /\ \A n \in Elements(TSQ'[t]) : Arrived(t, n)'
                      /\ pc'[t + 1] = "store" =>
                           /\ Arrived(t, held'[t + 1])
                           /\ held'[t + 1] \notin Elements(TSQ'[t])
    BY <1>2 DEF QueueInv, Arrived
  <2>1. CASE t = r
    BY <1>1, <1>2, <1>4, <1>5, <1>6, <2>1 DEF RefinementParts, QueueInv
  <2>2. CASE t # r
    BY <1>3, <1>6, <2>2 DEF RefinementParts, QueueInv
  <2> QED
    BY <2>1, <2>2
<1>8. DataJobs' /\ EndOnce'
  BY <1>2 DEF RefinementParts, DataJobs, EndOnce
<1> QED
  BY <1>7, <1>8 DEF RefinementParts

-----------------------------------------------------------------------------
(* The steps of a job. *)

LEMMA PushBlockRefinement ==
  ASSUME TypeInv, RefinementParts, NEW s \in {1, 2}, NEW n \in JobIds,
         PushBlock(s, n)
  PROVE  RefinementParts'
<1>1. /\ TSQ[s] \in Seq(JobIds \cup {END})
      /\ TSQ'[s] = Append(TSQ[s], n)
      /\ \A t \in {1, 2} : t # s => TSQ'[t] = TSQ[t]
      /\ Move(s, n, "leave") /\ "leave" \in JobPC
      /\ at[s][n] = "push"
      /\ UNCHANGED <<made, kind, pc, held>>
  BY StageNumbers
  DEF PushBlock, TypeInv, TypeOK, workVars, jobVars, feedVars, JobPC
<1>2. /\ at'[s] = [at[s] EXCEPT ![n] = "leave"]
      /\ at[s] \in [JobIds -> JobPC]
      /\ \A t \in Stages \ {s} : at'[t] = at[t]
  BY <1>1, StageNumbers, MoveFacts
<1>3. \A t \in Stages, m \in JobIds :
        at'[t][m] = IF t = s /\ m = n THEN "leave" ELSE at[t][m]
  BY <1>2, StageNumbers
<1>4. /\ \A t \in {1, 2}, m \in JobIds : Arrived(t, m) => Arrived(t, m)'
      /\ Arrived(s, n)' /\ ~Arrived(s, n)
  BY <1>1, <1>3, StageNumbers
  DEF Arrived, HandedOn, RefinementParts, DataJobs
<1>5. Once(TSQ'[s]) /\ Elements(TSQ'[s]) = Elements(TSQ[s]) \cup {n}
  BY <1>1, <1>4, AppendElements DEF RefinementParts, QueueInv
<1>6. QueueInv'
  <2> SUFFICES ASSUME NEW t \in {1, 2}
               PROVE  /\ Once(TSQ'[t])
                      /\ \A m \in Elements(TSQ'[t]) : Arrived(t, m)'
                      /\ pc'[t + 1] = "store" =>
                           /\ Arrived(t, held[t + 1])'
                           /\ held'[t + 1] \notin Elements(TSQ'[t])
    BY DEF QueueInv
  <2>1. /\ Once(TSQ[t])
        /\ \A m \in Elements(TSQ[t]) : m \in JobIds /\ Arrived(t, m)
        /\ pc[t + 1] = "store" => /\ held[t + 1] \in JobIds
                                  /\ Arrived(t, held[t + 1])
                                  /\ held[t + 1] \notin Elements(TSQ[t])
    BY QueueTypes DEF RefinementParts, QueueInv
  <2>2. pc'[t + 1] = "store" => Arrived(t, held[t + 1])'
    BY <1>1, <1>4, <2>1 DEF Arrived
  <2>3. CASE t = s
    BY <1>1, <1>4, <1>5, <2>1, <2>2, <2>3
  <2>4. CASE t # s
    BY <1>1, <1>4, <2>1, <2>2, <2>4
  <2> QED
    BY <2>3, <2>4
<1>7. DataJobs' /\ EndOnce'
  BY <1>1, <1>3, StageNumbers DEF RefinementParts, DataJobs, EndOnce
<1> QED
  BY <1>6, <1>7 DEF RefinementParts

LEMMA PushEndRefinement ==
  ASSUME TypeInv, RefinementParts, NEW s \in {1, 2}, NEW n \in JobIds,
         PushEnd(s, n)
  PROVE  RefinementParts'
<1>1. /\ TSQ[s] \in Seq(JobIds \cup {END})
      /\ TSQ'[s] = Append(TSQ[s], END)
      /\ \A t \in {1, 2} : t # s => TSQ'[t] = TSQ[t]
      /\ Move(s, n, "done") /\ "done" \in JobPC
      /\ at[s][n] = "pushEnd"
      /\ UNCHANGED <<made, kind, pc, held>>
  BY StageNumbers
  DEF PushEnd, TypeInv, TypeOK, workVars, jobVars, feedVars, JobPC
<1>2. /\ at'[s] = [at[s] EXCEPT ![n] = "done"]
      /\ at[s] \in [JobIds -> JobPC]
      /\ \A t \in Stages \ {s} : at'[t] = at[t]
  BY <1>1, StageNumbers, MoveFacts
<1>3. \A t \in Stages, m \in JobIds :
        at'[t][m] = IF t = s /\ m = n THEN "done" ELSE at[t][m]
  BY <1>2, StageNumbers
<1>4. \A t \in {1, 2}, m \in JobIds : Arrived(t, m) => Arrived(t, m)'
  BY <1>1, <1>3, StageNumbers DEF Arrived, HandedOn
<1>5. \A t \in {1, 2} : Once(TSQ'[t]) /\ Elements(TSQ'[t]) = Elements(TSQ[t])
  BY <1>1, AppendEndElements DEF RefinementParts, QueueInv
<1>6. QueueInv'
  BY <1>1, <1>4, <1>5, QueueFrame DEF RefinementParts
<1>7. DataJobs' /\ EndOnce'
  BY <1>1, <1>3, StageNumbers DEF RefinementParts, DataJobs, EndOnce
<1> QED
  BY <1>6, <1>7 DEF RefinementParts

LEMMA LeaveRefinement ==
  ASSUME TypeInv, RefinementParts, NEW s \in Stages, NEW n \in JobIds,
         Leave(s, n)
  PROVE  RefinementParts'
<1> DEFINE to == IF LastOut(s) /\ s # 3 THEN "pushEnd" ELSE "done"
<1>1. /\ Move(s, n, to)
      /\ at[s][n] \in {"leave", "queued"}
      /\ UNCHANGED <<pc, held, made, kind, TSQ>>
  BY DEF Leave, CanStart, workVars, feedVars, jobVars, tsqVars
<1>2. to \in JobPC /\ to \in HandedOn /\ to \notin {"push", "leave"}
  BY DEF JobPC, HandedOn
<1> HIDE DEF to
<1> QED
  BY <1>1, <1>2, MoveFrame

LEMMA WorkRefinement ==
  ASSUME TypeInv, RefinementParts, NEW n \in JobIds,
         ReadBlock(n) \/ CompressBlock(n) \/ PostBlock(n)
  PROVE  RefinementParts'
<1>1. CASE ReadBlock(n)
  <2>1. /\ Move(1, n, "push") /\ at[1][n] = "queued" /\ kind[1][n] = "data"
        /\ UNCHANGED <<pc, held, made, kind, TSQ>>
    BY <1>1 DEF ReadBlock, CanStart, workVars, feedVars, jobVars
  <2> QED
    BY <2>1, StageNumbers, MoveFrame DEF JobPC, HandedOn
<1>2. CASE CompressBlock(n)
  <2>1. /\ Move(2, n, "push") /\ at[2][n] = "queued" /\ kind[2][n] = "data"
        /\ UNCHANGED <<pc, held, made, kind, TSQ>>
    BY <1>2 DEF CompressBlock, CanStart, workVars, feedVars, jobVars
  <2> QED
    BY <2>1, StageNumbers, MoveFrame DEF JobPC, HandedOn
<1>3. CASE PostBlock(n)
  <2>1. /\ Move(3, n, "leave") /\ at[3][n] = "queued" /\ kind[3][n] = "data"
        /\ UNCHANGED <<pc, held, made, kind, TSQ>>
    BY <1>3 DEF PostBlock, CanStart, workVars, feedVars, jobVars, tsqVars
  <2> QED
    BY <2>1, StageNumbers, MoveFrame DEF JobPC, HandedOn
<1> QED
  BY <1>1, <1>2, <1>3

LEMMA JobRefinement ==
  ASSUME TypeInv, RefinementParts, NEW n \in JobIds,
         readFile(n) \/ compress_func(n) \/ transfer(n)
  PROVE  RefinementParts'
<1>1. CASE ReadBlock(n) \/ CompressBlock(n) \/ PostBlock(n)
  BY <1>1, WorkRefinement
<1>2. CASE \E s \in {1, 2} : PushBlock(s, n) \/ PushEnd(s, n)
  BY <1>2, PushBlockRefinement, PushEndRefinement
<1>3. CASE \E s \in Stages : Leave(s, n)
  BY <1>3, LeaveRefinement
<1> QED
  BY <1>1, <1>2, <1>3, StageNumbers DEF readFile, compress_func, transfer

-----------------------------------------------------------------------------
(* The feeders, and the rest. *)

(* The steps that submit a job. *)
LEMMA SubmitFacts ==
  ASSUME TypeInv, HandOffParts, NEW s \in Stages, Count(s) \/ Submit(s)
  PROVE  \E to \in {"counted", "queued"} :
           /\ made[s] \in JobIds
           /\ Move(s, made[s], to)
           /\ at[s][made[s]] \in {"made", "counted"}
           /\ UNCHANGED <<made, kind, TSQ, held, draining>>
           /\ \A t \in Stages : pc'[t] = "store" <=> pc[t] = "store"
<1>1. pc \in [Stages -> FeederPC]
  BY DEF TypeInv, TypeOK
<1>2. CASE Count(s)
  <2>1. /\ made[s] \in JobIds /\ at[s][made[s]] = "made"
    BY <1>2 DEF Count, TypeInv, WellPlaced, HandOffParts, JobsInOrder
  <2>2. /\ Move(s, made[s], "counted")
        /\ pc' = [pc EXCEPT ![s] = "submit"] /\ pc[s] = "count"
        /\ UNCHANGED <<made, kind, TSQ, held, draining>>
    BY <1>2 DEF Count, Go, feedVars, jobVars, tsqVars
  <2> QED
    BY <1>1, <2>1, <2>2
<1>3. CASE Submit(s)
  <2>1. /\ made[s] \in JobIds /\ at[s][made[s]] = "counted"
    BY <1>3 DEF Submit, TypeInv, WellPlaced, HandOffParts, JobsInOrder
  <2>2. /\ Move(s, made[s], "queued")
        /\ pc' = [pc EXCEPT ![s] = AfterSubmit(s)] /\ pc[s] = "submit"
        /\ UNCHANGED <<made, kind, TSQ, held, draining>>
    BY <1>3 DEF Submit, Go, feedVars, jobVars, tsqVars
  <2>3. AfterSubmit(s) # "store"
    BY DEF AfterSubmit
  <2> QED
    BY <1>1, <2>1, <2>2, <2>3
<1> QED
  BY <1>2, <1>3

LEMMA FeederRefinement ==
  ASSUME TypeInv, HandOffParts, RefinementParts,
         trave_dir \/ run_compressQueue1 \/ run_transferQueue1
  PROVE  RefinementParts'
<1>1. ASSUME NEW s \in Stages, AdvanceStep(s)
      PROVE  RefinementParts'
  <2>1. /\ UNCHANGED <<made, kind, at, TSQ, held>>
        /\ \A t \in Stages : pc'[t] = "store" => pc[t] = "store"
    BY <1>1, AdvanceFacts
  <2> QED
    BY <2>1, JobsFrame, StageNumbers
<1>2. ASSUME NEW s \in Stages, Count(s) \/ Submit(s)
      PROVE  RefinementParts'
  <2>1. PICK to \in {"counted", "queued"} :
           /\ made[s] \in JobIds
           /\ Move(s, made[s], to)
           /\ at[s][made[s]] \in {"made", "counted"}
           /\ UNCHANGED <<made, kind, TSQ, held, draining>>
           /\ \A t \in Stages : pc'[t] = "store" <=> pc[t] = "store"
    BY <1>2, SubmitFacts
  <2>2. to \in JobPC
    BY DEF JobPC
  <2> QED
    BY <2>1, <2>2, StageNumbers, MoveFrame DEF HandedOn
<1>3. ASSUME NEW s \in Stages,
             EndCredit(s) \/ (s = 1 /\ AddBlock) \/ (s # 1 /\ Cut(s))
      PROVE  RefinementParts'
  BY <1>3, CutFacts, MakeRefinement, StageNumbers
<1> QED
  BY <1>1, <1>2, <1>3, FeederCases, PopRefinement

LEMMA NextRefinement ==
  ASSUME TypeInv, HandOffParts, RefinementParts, [Next]_vars
  PROVE  RefinementParts'
<1>1. CASE trave_dir \/ run_compressQueue1 \/ run_transferQueue1
  BY <1>1, FeederRefinement
<1>2. CASE \E n \in JobIds : readFile(n) \/ compress_func(n) \/ transfer(n)
  BY <1>2, JobRefinement
<1>3. CASE monitor \/ MainWait \/ Ended \/ UNCHANGED vars
  BY <1>3, OthersFacts, JobsFrame
<1> QED
  BY <1>1, <1>2, <1>3 DEF Next

-----------------------------------------------------------------------------
(* HandOff between stage s and the next: ReadToCompress is Stage(1) and    *)
(* CompressToSend is Stage(2).                                             *)
Stage(s) ==
  INSTANCE HandOff WITH
    Block <- JobIds, given <- Blocks(s), taken <- Handed(s),
    closed <- Closed(s), over <- draining[s + 1]

(* A step of HandOff, or none; it is Store that takes, the block held. *)
StageStep(s) ==
  \/ UNCHANGED Stage(s)!vars
  \/ Stage(s)!Close \/ Stage(s)!Finish
  \/ \E b \in JobIds : Stage(s)!Give(b)
  \/ \E b \in JobIds : Stage(s)!Take(b) /\ Store(s + 1) /\ held[s + 1] = b

(* A block that has left its job and that the next feeder has yet to take. *)
OnTheWay(s, n) ==
  \/ n \in Elements(TSQ[s])
  \/ pc[s + 1] = "store" /\ held[s + 1] = n

(* The next feeder has taken the block. *)
Over(s, n) == at[s][n] \in HandedOn /\ ~OnTheWay(s, n)

LEMMA HandedIsOver ==
  ASSUME NEW s \in {1, 2}
  PROVE  /\ Handed(s) = {n \in Blocks(s) : Over(s, n)}
         /\ Handed(s)' = {n \in Blocks(s)' : Over(s, n)'}
<1>1. /\ Waiting(s) = BlockPlaces(TSQ[s])
      /\ Waiting(s)' = BlockPlaces(TSQ'[s])
  BY StageNumbers, WaitingIsPlaces
<1>2. \A n : (\A i \in Waiting(s) : TSQ[s][i] # n) <=> n \notin Elements(TSQ[s])
  BY <1>1 DEF Elements
<1>3. \A n : (\A i \in Waiting(s)' : TSQ'[s][i] # n)
              <=> n \notin Elements(TSQ'[s])
  BY <1>1 DEF Elements
<1>4. Handed(s) = {n \in Blocks(s) : Over(s, n)}
  BY <1>2 DEF Handed, Over, OnTheWay, HandedOn
<1>5. Handed(s)' = {n \in Blocks(s)' : Over(s, n)'}
  BY <1>3 DEF Handed, Over, OnTheWay, HandedOn
<1> QED
  BY <1>4, <1>5

(* A step that changes neither what has been given nor what is taken. *)
LEMMA StageFrame ==
  ASSUME NEW s \in {1, 2},
         \A n \in JobIds : /\ n \in Blocks(s)' <=> n \in Blocks(s)
                           /\ n \in Blocks(s) => (Over(s, n)' <=> Over(s, n)),
         Closed(s)' <=> Closed(s),
         draining'[s + 1] = draining[s + 1]
  PROVE  StageStep(s)
<1>1. Blocks(s)' = Blocks(s)
  BY DEF Blocks
<1>2. Handed(s)' = Handed(s)
  BY <1>1, HandedIsOver DEF Blocks
<1>3. Closed(s)' = Closed(s)
  BY DEF Closed
<1> QED
  BY <1>1, <1>2, <1>3 DEF StageStep, Stage!vars

(* A step that leaves the jobs of the stage alone. *)
LEMMA StageAtRest ==
  ASSUME NEW s \in {1, 2},
         kind'[s] = kind[s], at'[s] = at[s],
         draining'[s + 1] = draining[s + 1],
         \A n \in JobIds : OnTheWay(s, n)' <=> OnTheWay(s, n)
  PROVE  StageStep(s)
<1>1. \A n \in JobIds : n \in Blocks(s)' <=> n \in Blocks(s)
  BY DEF Blocks
<1>2. \A n \in JobIds : n \in Blocks(s) => (Over(s, n)' <=> Over(s, n))
  BY DEF Over
<1>3. Closed(s)' <=> Closed(s)
  BY DEF Closed
<1> QED
  BY <1>1, <1>2, <1>3, StageFrame

(* The queue and the next feeder as they were. *)
LEMMA OnTheWayFrame ==
  ASSUME NEW s \in {1, 2},
         Elements(TSQ'[s]) = Elements(TSQ[s]),
         held'[s + 1] = held[s + 1],
         pc'[s + 1] = "store" <=> pc[s + 1] = "store"
  PROVE  \A n : OnTheWay(s, n)' <=> OnTheWay(s, n)
  BY DEF OnTheWay

(* A job moves without handing a block on. *)
LEMMA StageMove ==
  ASSUME TypeInv, NEW s \in {1, 2}, NEW t \in Stages, NEW n \in JobIds,
         NEW to \in JobPC, Move(t, n, to), at[t][n] # "none", to # "none",
         kind[t][n] = "data" => (at[t][n] \in HandedOn <=> to \in HandedOn),
         UNCHANGED <<kind, held, draining>>,
         Elements(TSQ'[s]) = Elements(TSQ[s]),
         pc'[s + 1] = "store" <=> pc[s + 1] = "store"
  PROVE  StageStep(s)
<1>1. \A m \in JobIds :
        at'[s][m] = IF t = s /\ m = n THEN to ELSE at[s][m]
  <2>1. /\ at'[t] = [at[t] EXCEPT ![n] = to]
        /\ at[t] \in [JobIds -> JobPC]
        /\ \A r \in Stages \ {t} : at'[r] = at[r]
    BY MoveFacts
  <2> QED
    BY <2>1, StageNumbers
<1>2. \A m \in JobIds : OnTheWay(s, m)' <=> OnTheWay(s, m)
  BY OnTheWayFrame
<1>3. \A m \in JobIds : m \in Blocks(s)' <=> m \in Blocks(s)
  BY <1>1 DEF Blocks
<1>4. \A m \in JobIds : m \in Blocks(s) => (Over(s, m)' <=> Over(s, m))
  BY <1>1, <1>2 DEF Blocks, Over
<1>5. Closed(s)' <=> Closed(s)
  BY <1>1 DEF Closed
<1> QED
  BY <1>3, <1>4, <1>5, StageFrame

(* A job is cut: with a block it gives, as the end job it closes, and      *)
(* without storage it does neither.                                        *)
LEMMA StageMake ==
  ASSUME TypeInv, HandOffParts, RefinementParts, NEW s \in {1, 2},
         NEW t \in Stages, NEW k \in JobKind, NEW b, NEW p, Make(t, k, b, p),
         pc[t] \in {"scan", "cut", "endCredit"},
         UNCHANGED <<TSQ, held, draining>>,
         pc'[s + 1] = "store" <=> pc[s + 1] = "store"
  PROVE  StageStep(s)
<1>0. PICK n \in JobIds : n = made[t] + 1
  BY DEF Make
<1>1. /\ n \in JobIds
      /\ made' = [made EXCEPT ![t] = n]
      /\ kind' = [kind EXCEPT ![t][n] = k]
      /\ Move(t, n, "made")
      /\ "made" \in JobPC
      /\ made \in [Stages -> JobIds \cup {0}]
      /\ kind \in [Stages -> [JobIds -> JobKind]]
  BY <1>0 DEF Make, TypeInv, TypeOK, JobPC
<1>2. at[t][n] = "none"
  <2>1. n > made[t]
    BY <1>0, <1>1 DEF JobIds
  <2> QED
    BY <1>1, <2>1 DEF HandOffParts, JobsInOrder
<1>3. /\ at[t] \in [JobIds -> JobPC]
      /\ at'[t] = [at[t] EXCEPT ![n] = "made"]
      /\ \A r \in Stages \ {t} : at'[r] = at[r]
  BY <1>1, MoveFacts
<1>4. \A m \in JobIds : kind[t][m] = "end" => at[t][m] = "none"
  <2>1. ~EndCut(t)
    BY DEF HandOffParts, EndIsLast
  <2> QED
    BY <2>1 DEF RefinementParts, EndOnce, EndCut
<1>5. \A m \in JobIds : OnTheWay(s, m)' <=> OnTheWay(s, m)
  BY OnTheWayFrame
<1>6. CASE t # s
  <2>1. kind'[s] = kind[s] /\ at'[s] = at[s]
    BY <1>1, <1>3, <1>6, StageNumbers
  <2> QED
    BY <1>5, <2>1, StageAtRest
<1>7. CASE t = s
  <2>1. \A m \in JobIds :
          /\ at'[s][m] = IF m = n THEN "made" ELSE at[s][m]
          /\ kind'[s][m] = IF m = n THEN k ELSE kind[s][m]
    BY <1>1, <1>3, <1>7
  <2>2. at[s][n] = "none" /\ n \notin Blocks(s)
    BY <1>2, <1>7 DEF Blocks
  <2>3. ~Closed(s)
    BY <1>4, <1>7 DEF Closed
  <2>4. \A m \in JobIds : m \in Blocks(s) => (Over(s, m)' <=> Over(s, m))
    BY <1>5, <2>1, <2>2 DEF Over
  <2>5. ~Over(s, n)'
    BY <1>1, <2>1 DEF Over, HandedOn
  <2>6. CASE k = "data"
    <3>1. Blocks(s)' = Blocks(s) \cup {n}
      BY <1>1, <2>1, <2>6 DEF Blocks
    <3>2. Closed(s)' = Closed(s)
      BY <2>1, <2>3, <2>6 DEF Closed
    <3>3. Handed(s)' = Handed(s)
      <4>1. Handed(s)' = {m \in Blocks(s) \cup {n} : Over(s, m)'}
        BY <3>1, HandedIsOver
      <4>2. Handed(s) = {m \in Blocks(s) : Over(s, m)}
        BY HandedIsOver
      <4>3. \A m \in Blocks(s) : m \in JobIds
        BY DEF Blocks
      <4> QED
        BY <2>4, <2>5, <4>1, <4>2, <4>3
    <3>4. Stage(s)!Give(n)
      BY <2>2, <2>3, <3>1, <3>2, <3>3 DEF Stage!Give
    <3> QED
      BY <1>1, <3>4 DEF StageStep
  <2>7. ASSUME k # "data"
        PROVE  Blocks(s)' = Blocks(s) /\ Handed(s)' = Handed(s)
    <3>1. Blocks(s)' = Blocks(s)
      BY <2>1, <2>2, <2>7 DEF Blocks
    <3> QED
      BY <2>4, <3>1, HandedIsOver DEF Blocks
  <2>8. CASE k = "end"
    <3>1. Closed(s)' = TRUE
      BY <1>1, <2>1, <2>8 DEF Closed
    <3>2. Stage(s)!Close
      BY <2>7, <2>8, <3>1 DEF Stage!Close
    <3> QED
      BY <3>2 DEF StageStep
  <2>9. CASE k = "null"
    <3>1. Closed(s)' = Closed(s)
      BY <2>1, <2>3, <2>9 DEF Closed
    <3> QED
      BY <2>7, <2>9, <3>1 DEF StageStep, Stage!vars
  <2> QED
    BY <2>6, <2>8, <2>9 DEF JobKind
<1> QED
  BY <1>6, <1>7

(* A job puts its block into the queue: it is handed on but not yet taken. *)
LEMMA StagePushBlock ==
  ASSUME TypeInv, RefinementParts, NEW s \in {1, 2}, NEW t \in {1, 2},
         NEW n \in JobIds, PushBlock(t, n)
  PROVE  StageStep(s)
<1>1. /\ TSQ[t] \in Seq(JobIds \cup {END})
      /\ TSQ'[t] = Append(TSQ[t], n)
      /\ \A r \in {1, 2} : r # t => TSQ'[r] = TSQ[r]
      /\ Move(t, n, "leave") /\ "leave" \in JobPC
      /\ at[t][n] = "push"
      /\ UNCHANGED <<made, kind, pc, held, draining>>
  BY StageNumbers
  DEF PushBlock, TypeInv, TypeOK, workVars, jobVars, feedVars, JobPC
<1>2. CASE t # s
  <2>1. at'[s] = at[s]
    <3>1. \A r \in Stages \ {t} : at'[r] = at[r]
      BY <1>1, MoveFacts, StageNumbers
    <3> QED
      BY <1>2, <3>1, StageNumbers
  <2> QED
    BY <1>1, <1>2, <2>1, OnTheWayFrame, StageAtRest
<1>3. CASE t = s
  <2>1. \A m \in JobIds :
          at'[s][m] = IF m = n THEN "leave" ELSE at[s][m]
    <3>1. at'[s] = [at[s] EXCEPT ![n] = "leave"] /\ at[s] \in [JobIds -> JobPC]
      BY <1>1, <1>3, MoveFacts, StageNumbers
    <3> QED
      BY <3>1
  <2>2. n \notin Elements(TSQ[s]) /\ at[s][n] \notin HandedOn
    BY <1>1, <1>3 DEF RefinementParts, QueueInv, Arrived, HandedOn
  <2>3. Elements(TSQ'[s]) = Elements(TSQ[s]) \cup {n}
    BY <1>1, <1>3, <2>2, AppendElements DEF RefinementParts, QueueInv
  <2>4. \A m \in JobIds : m \in Blocks(s)' <=> m \in Blocks(s)
    BY <1>1, <1>3, <2>1 DEF Blocks
  <2>5. \A m \in JobIds : m \in Blocks(s) => (Over(s, m)' <=> Over(s, m))
    BY <1>1, <2>1, <2>2, <2>3 DEF Over, OnTheWay
  <2>6. Closed(s)' <=> Closed(s)
    BY <1>1, <1>3, <2>1 DEF Closed
  <2> QED
    BY <1>1, <2>4, <2>5, <2>6, StageFrame
<1> QED
  BY <1>2, <1>3

(* A feeder pops: the block goes from the queue into its hands. *)
LEMMA StagePop ==
  ASSUME TypeInv, RefinementParts, NEW s \in {1, 2}, NEW t \in {2, 3}, Pop(t)
  PROVE  StageStep(s)
<1>1. PICK r \in {1, 2} : t = r + 1
  BY StageNumbers
<1>2. /\ TSQ[r] # <<>> /\ TSQ[r] \in Seq(JobIds \cup {END})
      /\ TSQ'[r] = Tail(TSQ[r])
      /\ pc[t] = "pop"
      /\ held'[t] = Head(TSQ[r])
      /\ pc'[t] = "store" <=> Head(TSQ[r]) # END
      /\ \A q \in {1, 2} : q # r => /\ TSQ'[q] = TSQ[q]
                                  /\ held'[q + 1] = held[q + 1]
                                  /\ pc'[q + 1] = pc[q + 1]
      /\ UNCHANGED <<kind, at, draining>>
  <2>1. t - 1 = r /\ r \in Stages /\ t \in Stages
    BY <1>1, StageNumbers
  <2>2. TSQ[r] # <<>> /\ TSQ' = [TSQ EXCEPT ![r] = Tail(@)] /\ pc[t] = "pop"
    BY <2>1 DEF Pop
  <2>3. /\ held' = [held EXCEPT ![t] = Head(TSQ[r])]
        /\ pc' = [pc EXCEPT ![t] = IF Head(TSQ[r]) = END THEN "check" ELSE "store"]
    BY <2>1 DEF Pop, Go
  <2>4. /\ pc \in [Stages -> FeederPC]
        /\ TSQ \in [Stages -> Seq(JobIds \cup {END})]
        /\ held \in [Stages -> JobIds \cup {END}]
    BY DEF TypeInv, TypeOK
  <2>5. UNCHANGED <<kind, at, draining>>
    BY DEF Pop, jobVars
  <2> QED
    BY <1>1, <2>1, <2>2, <2>3, <2>4, <2>5, StageNumbers
<1>3. \A n \in JobIds : OnTheWay(s, n)' <=> OnTheWay(s, n)
  <2>1. CASE s = r
    <3>1. Elements(TSQ'[s]) = Elements(TSQ[s]) \ {Head(TSQ[s])}
      BY <1>2, <2>1, TailElements DEF RefinementParts, QueueInv
    <3>2. \A n \in JobIds : n # END
      BY DEF JobIds, END
    <3>3. Head(TSQ[s]) # END => Head(TSQ[s]) \in Elements(TSQ[s])
      <4>1. Head(TSQ[s]) = TSQ[s][1] /\ 1 \in 1 .. Len(TSQ[s])
        BY <1>2, <2>1
      <4> QED
        BY <4>1 DEF Elements, BlockPlaces
    <3> QED
      BY <1>1, <1>2, <2>1, <3>1, <3>2, <3>3 DEF OnTheWay
  <2>2. CASE s # r
    BY <1>2, <2>2, OnTheWayFrame
  <2> QED
    BY <2>1, <2>2
<1> QED
  BY <1>2, <1>3, StageAtRest, StageNumbers

(* A feeder accounts for the block it has popped: it takes it. *)
LEMMA StoreTakes ==
  ASSUME TypeInv, HandOffParts, RefinementParts, NEW s \in {1, 2}, Store(s + 1)
  PROVE  /\ held[s + 1] \in Blocks(s) \ Handed(s)
         /\ Handed(s)' = Handed(s) \cup {held[s + 1]}
         /\ Blocks(s)' = Blocks(s)
         /\ UNCHANGED <<kind, at, held, draining>>
<1>1. PICK b \in JobIds : held[s + 1] = b
  BY QueueTypes DEF Store
<1>2. /\ pc[s + 1] = "store"
      /\ pc'[s + 1] = "cut"
      /\ UNCHANGED <<kind, at, TSQ, held, draining>>
  <2>1. s + 1 \in Stages /\ pc \in [Stages -> FeederPC]
    BY DEF Stages, TypeInv, TypeOK
  <2> QED
    BY <2>1 DEF Store, Go, jobVars
<1>3. b \in Blocks(s) /\ at[s][b] \in HandedOn /\ b \notin Elements(TSQ[s])
  BY <1>1, <1>2 DEF RefinementParts, QueueInv, Arrived, HandedOn, Blocks
<1>4. Blocks(s)' = Blocks(s)
  BY <1>2 DEF Blocks
<1>5. /\ \A n \in JobIds \ {b} : Over(s, n)' <=> Over(s, n)
      /\ ~Over(s, b)
      /\ Over(s, b)'
  BY <1>1, <1>2, <1>3 DEF Over, OnTheWay
<1>6. Handed(s)' = Handed(s) \cup {b} /\ b \notin Handed(s)
  BY <1>3, <1>4, <1>5, HandedIsOver DEF Blocks
<1> QED
  BY <1>1, <1>2, <1>3, <1>4, <1>6

LEMMA StageStore ==
  ASSUME TypeInv, HandOffParts, RefinementParts, NEW s \in {1, 2}, Store(s + 1)
  PROVE  StageStep(s)
<1> DEFINE b == held[s + 1]
<1>1. /\ b \in Blocks(s) \ Handed(s)
      /\ Handed(s)' = Handed(s) \cup {b}
      /\ Blocks(s)' = Blocks(s)
      /\ UNCHANGED <<kind, at, draining>>
  BY StoreTakes
<1>2. b \in JobIds
  BY <1>1 DEF Blocks
<1>3. ~draining[s + 1]
  <2>1. pc[s + 1] = "store"
    BY DEF Store
  <2> QED
    BY <2>1, StageNumbers DEF HandOffParts, EndIsLast
<1>4. Closed(s)' = Closed(s)
  BY <1>1 DEF Closed
<1>5. Stage(s)!Take(b)
  BY <1>1, <1>3, <1>4 DEF Stage!Take
<1> QED
  BY <1>2, <1>5 DEF StageStep

(* A feeder looks whether its input is over: only when the stage before    *)
(* has closed and every block given has been taken does it finish.         *)
LEMMA StageCheckEnd ==
  ASSUME TypeInv, HandOffParts, RefinementParts, NEW s \in {1, 2},
         CheckEnd(s + 1)
  PROVE  StageStep(s)
<1>1. /\ pc[s + 1] = "check"
      /\ draining'[s + 1] = InputOver(s + 1)
      /\ UNCHANGED <<kind, at, TSQ, held>>
  <2>1. s + 1 \in Stages /\ draining \in [Stages -> BOOLEAN]
    BY DEF Stages, TypeInv, TypeOK
  <2> QED
    BY <2>1 DEF CheckEnd, jobVars, tsqVars
<1>2. ~draining[s + 1]
  BY <1>1, StageNumbers DEF HandOffParts, EndIsLast
<1>3. \A n : ~OnTheWay(s, n)' \/ OnTheWay(s, n)
  <2>1. pc'[s + 1] # "store"
    BY StageNumbers DEF CheckEnd, Go, TypeInv, TypeOK
  <2> QED
    BY <1>1, <2>1 DEF OnTheWay
<1>4. \A n : OnTheWay(s, n) => OnTheWay(s, n)'
  BY <1>1 DEF OnTheWay
<1>5. CASE ~InputOver(s + 1)
  <2>1. draining'[s + 1] = draining[s + 1]
    <3>1. draining[s + 1] \in BOOLEAN
      <4>1. s + 1 \in Stages
        BY DEF Stages
      <4> QED
        BY <4>1 DEF TypeInv, TypeOK
    <3>2. draining'[s + 1] = FALSE
      BY <1>1, <1>5 DEF InputOver
    <3> QED
      BY <1>2, <3>1, <3>2
  <2> QED
    BY <1>1, <1>3, <1>4, <2>1, StageAtRest
<1>6. CASE InputOver(s + 1)
  <2>1. end_flag[s] /\ TSQ_cnt[s] = 0
    BY <1>6 DEF InputOver
  <2>2. Waiting(s) = {} /\ Pushing(s) = {} /\ pc[s + 1] # "store"
    BY <2>1, NothingOnTheWay
  <2>3. Closed(s)
    <3>1. EndCut(s) /\ pc[s] \in {"count", "submit", "done"}
      BY <2>1, StageNumbers DEF HandOffParts, EndFlagIsFinal, EndIsLast
    <3>2. at[s][made[s]] # "none"
      <4>1. made[s] \in JobIds /\ ~(made[s] > made[s])
        BY <3>1 DEF EndCut, JobIds
      <4> QED
        BY <4>1, StageNumbers DEF HandOffParts, JobsInOrder
    <3> QED
      BY <3>1, <3>2 DEF EndCut, Closed
  <2>4. \A n \in Blocks(s) : Over(s, n)
    <3>1. \A n \in Blocks(s) : at[s][n] \in {"pushEnd", "done"}
      BY <2>1, StageNumbers DEF Blocks, HandOffParts, EndFlagIsFinal
    <3>2. Elements(TSQ[s]) = {}
      BY <2>2, WaitingIsPlaces, StageNumbers DEF Elements
    <3> QED
      BY <2>2, <3>1, <3>2 DEF Over, OnTheWay, HandedOn
  <2>5. Blocks(s)' = Blocks(s) /\ Closed(s)' = Closed(s)
    BY <1>1 DEF Blocks, Closed
  <2>6. \A n \in Blocks(s) : Over(s, n)'
    BY <1>1, <1>3, <2>4 DEF Over
  <2>7. Handed(s) = Blocks(s) /\ Handed(s)' = Blocks(s)
    BY <2>4, <2>5, <2>6, HandedIsOver
  <2>8. draining'[s + 1] = TRUE
    BY <1>1, <1>6 DEF InputOver
  <2>9. Stage(s)!Finish
    BY <2>3, <2>5, <2>7, <2>8 DEF Stage!Finish
  <2> QED
    BY <2>9 DEF StageStep
<1> QED
  BY <1>5, <1>6

(* The other steps of the feeders. *)
LEMMA StageAdvance ==
  ASSUME TypeInv, HandOffParts, RefinementParts, NEW s \in {1, 2},
         NEW t \in Stages, AdvanceStep(t)
  PROVE  StageStep(s)
<1>1. CASE t = s + 1 /\ CheckEnd(t)
  BY <1>1, StageCheckEnd
<1>2. CASE t = s + 1 /\ Store(t)
  BY <1>2, StageStore
<1>3. CASE ~(t = s + 1 /\ (CheckEnd(t) \/ Store(t)))
  <2>1. UNCHANGED <<kind, at, TSQ, held>>
    BY AdvanceFacts
  <2>2. /\ pc'[s + 1] = "store" <=> pc[s + 1] = "store"
        /\ draining'[s + 1] = draining[s + 1]
    <3>1. CASE CheckEnd(t) \/ Store(t)
      <4>1. t # s + 1 /\ s + 1 \in Stages /\ pc'[s + 1] = pc[s + 1]
        BY <1>3, <3>1, AdvanceFacts DEF Stages
      <4>2. \/ draining' = [draining EXCEPT ![t] = InputOver(t)]
            \/ draining' = draining
        BY <3>1 DEF CheckEnd, Store
      <4> QED
        BY <4>1, <4>2 DEF TypeInv, TypeOK
    <3>2. CASE ~(CheckEnd(t) \/ Store(t))
      <4>1. draining' = draining /\ pc[t] # "store" /\ pc'[t] # "store"
        <5>1. PICK to : to # "store" /\ (Go(t, to) \/ pc' = pc) /\ pc[t] # "store"
                        /\ draining' = draining
          <6>1. CASE TakeCredit(t) \/ SetAddEnd(t)
            BY <6>1 DEF TakeCredit, SetAddEnd, feedVars
          <6>2. CASE t = 1 /\ (NextFile \/ EndDir)
            BY <6>2 DEF NextFile, EndDir, scanVars
          <6>3. CASE Overrun(t) \/ CutDone(t)
            BY <6>3 DEF Overrun, CutDone, feedVars
          <6> QED
            BY <3>2, <6>1, <6>2, <6>3 DEF AdvanceStep
        <5> QED
          BY <5>1 DEF Go, TypeInv, TypeOK
      <4>2. \A r \in Stages : r # t => pc'[r] = pc[r]
        BY AdvanceFacts
      <4> QED
        BY <4>1, <4>2 DEF Stages
    <3> QED
      BY <3>1, <3>2
  <2> QED
    BY <2>1, <2>2, OnTheWayFrame, StageAtRest
<1> QED
  BY <1>1, <1>2, <1>3

LEMMA StageFeeder ==
  ASSUME TypeInv, HandOffParts, RefinementParts, NEW s \in {1, 2},
         trave_dir \/ run_compressQueue1 \/ run_transferQueue1
  PROVE  StageStep(s)
<1>0. s + 1 \in Stages
  BY DEF Stages
<1>1. ASSUME NEW t \in Stages, Count(t) \/ Submit(t)
      PROVE  StageStep(s)
  <2>1. PICK to \in {"counted", "queued"} :
           /\ made[t] \in JobIds
           /\ Move(t, made[t], to)
           /\ at[t][made[t]] \in {"made", "counted"}
           /\ UNCHANGED <<made, kind, TSQ, held, draining>>
           /\ \A r \in Stages : pc'[r] = "store" <=> pc[r] = "store"
    BY <1>1, SubmitFacts
  <2>2. to \in JobPC /\ to # "none" /\ to \notin HandedOn
    BY DEF JobPC, HandedOn
  <2>3. at[t][made[t]] # "none" /\ at[t][made[t]] \notin HandedOn
    BY <2>1 DEF HandedOn
  <2> QED
    BY <1>0, <2>1, <2>2, <2>3, StageMove
<1>2. ASSUME NEW t \in Stages,
             EndCredit(t) \/ (t = 1 /\ AddBlock) \/ (t # 1 /\ Cut(t))
      PROVE  StageStep(s)
  BY <1>0, <1>2, CutFacts, StageMake
<1> QED
  BY <1>1, <1>2, FeederCases, StageAdvance, StagePop

LEMMA StageJob ==
  ASSUME TypeInv, RefinementParts, NEW s \in {1, 2}, NEW n \in JobIds,
         readFile(n) \/ compress_func(n) \/ transfer(n)
  PROVE  StageStep(s)
<1>1. ASSUME NEW t \in Stages, Leave(t, n)
      PROVE  StageStep(s)
  <2> DEFINE to == IF LastOut(t) /\ t # 3 THEN "pushEnd" ELSE "done"
  <2>1. /\ Move(t, n, to)
        /\ at[t][n] = "leave" \/ (at[t][n] = "queued" /\ kind[t][n] # "data")
        /\ UNCHANGED <<pc, held, draining, kind, TSQ>>
    BY <1>1 DEF Leave, CanStart, workVars, feedVars, jobVars, tsqVars
  <2>2. to \in JobPC /\ to \in HandedOn /\ to # "none"
    BY DEF JobPC, HandedOn
  <2>3. at[t][n] # "none" /\ (kind[t][n] = "data" => at[t][n] \in HandedOn)
    BY <2>1 DEF HandedOn
  <2> HIDE DEF to
  <2> QED
    BY <2>1, <2>2, <2>3, StageMove
<1>2. ASSUME NEW t \in {1, 2}, PushEnd(t, n)
      PROVE  StageStep(s)
  <2>1. /\ TSQ[t] \in Seq(JobIds \cup {END})
        /\ TSQ'[t] = Append(TSQ[t], END)
        /\ \A r \in {1, 2} : r # t => TSQ'[r] = TSQ[r]
        /\ Move(t, n, "done") /\ "done" \in JobPC
        /\ at[t][n] = "pushEnd"
        /\ UNCHANGED <<kind, pc, held, draining>>
    BY <1>2, StageNumbers
    DEF PushEnd, TypeInv, TypeOK, workVars, jobVars, feedVars, JobPC
  <2>2. Elements(TSQ'[s]) = Elements(TSQ[s])
    BY <2>1, AppendEndElements DEF RefinementParts, QueueInv
  <2> QED
    BY <2>1, <2>2, StageMove, StageNumbers DEF HandedOn
<1>3. CASE ReadBlock(n)
  <2>1. /\ Move(1, n, "push") /\ at[1][n] = "queued"
        /\ UNCHANGED <<pc, held, draining, kind, TSQ>>
    BY <1>3 DEF ReadBlock, CanStart, workVars, feedVars, jobVars
  <2> QED
    BY <2>1, StageNumbers, StageMove DEF JobPC, HandedOn
<1>4. CASE CompressBlock(n)
  <2>1. /\ Move(2, n, "push") /\ at[2][n] = "queued"
        /\ UNCHANGED <<pc, held, draining, kind, TSQ>>
    BY <1>4 DEF CompressBlock, CanStart, workVars, feedVars, jobVars
  <2> QED
    BY <2>1, StageNumbers, StageMove DEF JobPC, HandedOn
<1>5. CASE PostBlock(n)
  <2>1. /\ Move(3, n, "leave") /\ at[3][n] = "queued" /\ s # 3
        /\ UNCHANGED <<pc, held, draining, kind, TSQ>>
    BY <1>5 DEF PostBlock, CanStart, workVars, feedVars, jobVars, tsqVars
  <2>2. at'[s] = at[s]
    <3>1. \A r \in Stages \ {3} : at'[r] = at[r]
      BY <2>1, StageNumbers, MoveFacts DEF JobPC
    <3> QED
      BY <2>1, <3>1, StageNumbers
  <2> QED
    BY <2>1, <2>2, OnTheWayFrame, StageAtRest
<1>6. CASE \E t \in {1, 2} : PushBlock(t, n)
  BY <1>6, StagePushBlock
<1> QED
  BY <1>1, <1>2, <1>3, <1>4, <1>5, <1>6, StageNumbers
  DEF readFile, compress_func, transfer

(* Every step is a step of HandOff, or none, at both hand-overs. *)
LEMMA NextStage ==
  ASSUME TypeInv, HandOffParts, RefinementParts, [Next]_vars, NEW s \in {1, 2}
  PROVE  StageStep(s)
<1>1. CASE trave_dir \/ run_compressQueue1 \/ run_transferQueue1
  BY <1>1, StageFeeder
<1>2. CASE \E n \in JobIds : readFile(n) \/ compress_func(n) \/ transfer(n)
  BY <1>2, StageJob
<1>3. CASE monitor \/ MainWait \/ Ended \/ UNCHANGED vars
  <2>1. UNCHANGED <<pc, kind, at, TSQ, held, draining>>
    BY <1>3, OthersFacts
  <2> QED
    BY <2>1, OnTheWayFrame, StageAtRest
<1> QED
  BY <1>1, <1>2, <1>3 DEF Next

LEMMA InitStage ==
  ASSUME Init, NEW s \in {1, 2}
  PROVE  Stage(s)!Init
<1>1. Blocks(s) = {} /\ Closed(s) = FALSE
  BY StageNumbers DEF Init, Blocks, Closed
<1>2. Handed(s) = {}
  BY <1>1 DEF Handed
<1>3. draining[s + 1] = FALSE
  BY DEF Init, Stages
<1> QED
  BY <1>1, <1>2, <1>3 DEF Stage!Init

-----------------------------------------------------------------------------
(* What the initial states and the steps satisfy, put together. *)
LEMMA RefinementInvariant ==
  ASSUME Flat
  PROVE  Spec => [](TypeInv /\ HandOffParts /\ RefinementParts)
<1>1. Init => HandOffParts /\ RefinementParts
  BY InitHandOff, InitRefinement
<1>2. TypeInv /\ HandOffParts /\ [Next]_vars => HandOffParts'
  BY NextHandOff
<1>3. TypeInv /\ HandOffParts /\ RefinementParts /\ [Next]_vars
        => RefinementParts'
  BY NextRefinement
<1> QED
  BY <1>1, <1>2, <1>3, TypeInvariant, PTL DEF Spec

(* Stage 1 hands its blocks to stage 2 as HandOff promises: compressTSQ,   *)
(* compressTSQ_cnt and read_end lose no block, deliver none twice, and let *)
(* run_compressQueue1 stop only when all are delivered.                    *)
THEOREM ReadHandsOnCorrect ==
  ASSUME Flat
  PROVE  Spec => ReadHandsOn
<1>1. Init => ReadToCompress!Init
  <2> SUFFICES ASSUME Init PROVE ReadToCompress!Init
    OBVIOUS
  <2>1. Stage(1)!Init
    BY InitStage
  <2> QED
    BY <2>1 DEF Stage!Init, ReadToCompress!Init
<1>2. TypeInv /\ HandOffParts /\ RefinementParts /\ [Next]_vars
        => [ReadToCompress!Next]_(ReadToCompress!vars)
  <2> SUFFICES ASSUME TypeInv, HandOffParts, RefinementParts, [Next]_vars
               PROVE  [ReadToCompress!Next]_(ReadToCompress!vars)
    OBVIOUS
  <2>1. StageStep(1)
    BY NextStage
  <2> QED
    BY <2>1
    DEF StageStep, Stage!Next, Stage!vars, Stage!Give, Stage!Take, Stage!Close,
        Stage!Finish, ReadToCompress!Next, ReadToCompress!vars,
        ReadToCompress!Give, ReadToCompress!Take, ReadToCompress!Close,
        ReadToCompress!Finish
<1> QED
  BY <1>1, <1>2, RefinementInvariant, PTL
  DEF Spec, ReadHandsOn, ReadToCompress!Spec

(* Stage 2 hands its blocks to stage 3 in the same way, by transferTSQ,    *)
(* transferTSQ_cnt and compress_end.                                       *)
THEOREM CompressHandsOnCorrect ==
  ASSUME Flat
  PROVE  Spec => CompressHandsOn
<1>1. Init => CompressToSend!Init
  <2> SUFFICES ASSUME Init PROVE CompressToSend!Init
    OBVIOUS
  <2>1. Stage(2)!Init
    BY InitStage
  <2> QED
    BY <2>1 DEF Stage!Init, CompressToSend!Init
<1>2. TypeInv /\ HandOffParts /\ RefinementParts /\ [Next]_vars
        => [CompressToSend!Next]_(CompressToSend!vars)
  <2> SUFFICES ASSUME TypeInv, HandOffParts, RefinementParts, [Next]_vars
               PROVE  [CompressToSend!Next]_(CompressToSend!vars)
    OBVIOUS
  <2>1. StageStep(2)
    BY NextStage
  <2> QED
    BY <2>1
    DEF StageStep, Stage!Next, Stage!vars, Stage!Give, Stage!Take, Stage!Close,
        Stage!Finish, CompressToSend!Next, CompressToSend!vars,
        CompressToSend!Give, CompressToSend!Take, CompressToSend!Close,
        CompressToSend!Finish
<1> QED
  BY <1>1, <1>2, RefinementInvariant, PTL
  DEF Spec, CompressHandsOn, CompressToSend!Spec
-----------------------------------------------------------------------------
(* Nothing is left over: when main has passed its seven waits, each block  *)
(* read was popped for compression and each block compressed was popped    *)
(* for sending.                                                            *)
NothingLeftOver ==
  main = 7 => Handed(1) = Blocks(1) /\ Handed(2) = Blocks(2)

(* The end of the last stage goes back to the end of the first. *)
LEMMA QuitMeansDrained ==
  ASSUME TypeInv, HandOffParts, QuitAfterEnd, monPC = "quit", NEW s \in {2, 3}
  PROVE  draining[s]
<1>1. \A t \in {2, 3} : add_end[t] => draining[t]
  BY StageNumbers DEF HandOffParts, EndIsLast, Stages
<1>2. draining[3]
  BY <1>1 DEF QuitAfterEnd
<1>3. end_flag[2]
  <2>1. end_flag[3 - 1]
    BY <1>2, StageNumbers DEF HandOffParts, EndIsLast
  <2> QED
    BY <2>1
<1>4. add_end[2]
  BY <1>3, StageNumbers DEF HandOffParts, EndFlagIsFinal
<1> QED
  BY <1>1, <1>2, <1>4

LEMMA EndLeavesNothing ==
  ASSUME TypeInv, HandOffParts, QuitAfterEnd, OverMeansIdle,
         main = 7, NEW s \in {1, 2}
  PROVE  Handed(s) = Blocks(s)
<1>1. monPC = "quit" /\ pc[s + 1] = "done"
  BY StageNumbers DEF OverMeansIdle
<1>2. Waiting(s) = {}
  <2>1. draining[s + 1] /\ s + 1 \in {2, 3} /\ (s + 1) - 1 = s
    BY <1>1, QuitMeansDrained
  <2> QED
    BY <2>1 DEF HandOffParts, DrainedBeforeExit
<1>3. \A n \in Blocks(s) : at[s][n] = "done"
  BY StageNumbers DEF OverMeansIdle, Blocks
<1> QED
  BY <1>1, <1>2, <1>3 DEF Handed

(* Whatever the order of jobs, feeders and monitor, the program does not   *)
(* end with a block still between two stages.                              *)
THEOREM NothingLeftOverCorrect ==
  ASSUME Flat
  PROVE  Spec => []NothingLeftOver
<1>1. TypeInv /\ HandOffParts /\ QuitAfterEnd /\ OverMeansIdle => NothingLeftOver
  BY EndLeavesNothing DEF NothingLeftOver
<1> QED
  BY <1>1, RefinementInvariant, QuitAfterEndAlways, OverMeansIdleCorrect, PTL

-----------------------------------------------------------------------------
(* Bytes. *)

(* The size of entry i of the traversal, and what was read of all of them. *)
FileSize ==
  [i \in 1 .. Len(Traversal) |-> IF Traversal[i] = DirEnd THEN 0 ELSE Traversal[i]]

ReadOf(i, off) == IF i <= Len(Traversal) THEN Min2(off, FileSize[i]) ELSE 0

BytesRead == Sum(FileSize, 1 .. item - 1) + ReadOf(item, offset)

(* The bytes the next stage's queue gets for block n of stage 2. *)
FrameSize == [n \in JobIds |-> FrameHeader + FrameBytes + out[n]]

(* Every file has a place in fileStorage. *)
FilesFit == FilesBefore(Len(Traversal)) <= FILE_MAX_NUM

(* Only a job that is cut, and not as the end job, has bytes. *)
NoBytes ==
  \A s \in Stages, n \in JobIds :
    at[s][n] = "none" \/ kind[s][n] = "end" => bytes[s][n] = 0

(* What is cut is what was read. *)
CutFromFiles == Sum(bytes[1], JobIds) = BytesRead

CutFromQueue ==
  \A s \in {2, 3} : Sum(bytes[s], JobIds) = popSize[s] /\ popSize[s] <= size[s]

(* Only a full block1Storage makes a job without storage. *)
NullMeansFull ==
  \A s \in Stages, n \in JobIds :
    at[s][n] # "none" /\ kind[s][n] = "null" =>
      s = 1 /\ Cardinality(Blocks(1)) >= StorageCap[1]

(* A feeder ends with its queue used up. *)
UsedUpAtEnd ==
  \A s \in {2, 3} : EndCut(s) \/ pc[s] = "endCredit" => popSize[s] = size[s]

CutInv == NoBytes /\ CutFromFiles /\ CutFromQueue /\ NullMeansFull /\ UsedUpAtEnd

StoredRecords ==
  Cardinality(Handed(1)) < StorageCap[1] =>
    size[2] = Cardinality(Handed(1)) * Block1Bytes

StoredFrames ==
  Sum(FrameSize, Handed(2)) < QueueBytes(3) => size[3] = Sum(FrameSize, Handed(2))

-----------------------------------------------------------------------------
LEMMA SizeFacts ==
  /\ \A i \in 1 .. Len(Traversal) : FileSize[i] \in Nat
  /\ IsFiniteSet(JobIds)
  /\ Len(Traversal) \in Nat
<1>1. \A i \in 1 .. Len(Traversal) : Traversal[i] \in Nat \cup {DirEnd}
  BY TraversalAssumption
<1> QED
  BY <1>1, TraversalAssumption, JobIdsFinite DEF FileSize

LEMMA EntriesFinite ==
  ASSUME NEW i \in Int
  PROVE  IsFiniteSet(1 .. i)
  BY FS_Interval

LEMMA BytesTypes ==
  ASSUME TypeInv, NEW s \in Stages
  PROVE  /\ bytes[s] \in [JobIds -> Nat]
         /\ kind[s] \in [JobIds -> JobKind]
         /\ at[s] \in [JobIds -> JobPC]
         /\ made[s] \in Nat /\ popSize[s] \in Nat /\ size[s] \in Nat
         /\ Sum(bytes[s], JobIds) \in Nat
<1>1. /\ bytes[s] \in [JobIds -> Nat]
      /\ kind[s] \in [JobIds -> JobKind]
      /\ at[s] \in [JobIds -> JobPC]
      /\ made[s] \in JobIds \cup {0} /\ popSize[s] \in Nat /\ size[s] \in Nat
  BY DEF TypeInv, TypeOK
<1>2. \A n \in JobIds : bytes[s][n] \in Nat
  BY <1>1
<1>3. Sum(bytes[s], JobIds) \in Nat
  BY <1>2, SizeFacts, SumType
<1> QED
  BY <1>1, <1>3 DEF JobIds

(* A step that cuts nothing and reads nothing keeps what was cut. *)
LEMMA CutFrame ==
  ASSUME UNCHANGED <<item, offset, made, kind, bytes, size, popSize>>, CutInv,
         \A s \in Stages, n \in JobIds : at'[s][n] = "none" <=> at[s][n] = "none",
         \A s \in {2, 3} : pc'[s] = "endCredit" => pc[s] = "endCredit"
  PROVE  CutInv'
<1>1. Blocks(1)' = Blocks(1)
  BY StageNumbers DEF Blocks
<1>2. NoBytes' /\ NullMeansFull'
  BY <1>1 DEF CutInv, NoBytes, NullMeansFull
<1>3. CutFromFiles' /\ CutFromQueue'
  BY DEF CutInv, CutFromFiles, CutFromQueue, BytesRead, ReadOf
<1>4. UsedUpAtEnd'
  BY DEF CutInv, UsedUpAtEnd, EndCut
<1> QED
  BY <1>2, <1>3, <1>4 DEF CutInv

(* A job that is cut adds its bytes, and no other job changes. *)
LEMMA MakeCut ==
  ASSUME TypeInv, HandOffParts, CutInv, NEW s \in Stages, NEW k \in JobKind,
         NEW b \in Nat, NEW p, Make(s, k, b, p)
  PROVE  /\ Sum(bytes'[s], JobIds) = Sum(bytes[s], JobIds) + b
         /\ \A t \in Stages \ {s} : /\ bytes'[t] = bytes[t]
                                    /\ EndCut(t)' = EndCut(t)
         /\ (k = "end" => b = 0) => NoBytes'
         /\ EndCut(s)' = (k = "end")
         /\ \A t \in Stages, n \in JobIds :
              at'[t][n] # "none" =>
                \/ at[t][n] # "none" /\ kind'[t][n] = kind[t][n]
                \/ t = s /\ kind'[t][n] = k
         /\ Blocks(1) \subseteq Blocks(1)'
         /\ Blocks(1)' = Blocks(1) \/ (s = 1 /\ k = "data")
<1> DEFINE n == made[s] + 1
<1>1. /\ n \in JobIds
      /\ made' = [made EXCEPT ![s] = n]
      /\ kind' = [kind EXCEPT ![s][n] = k]
      /\ bytes' = [bytes EXCEPT ![s][n] = b]
      /\ at' = [at EXCEPT ![s][n] = "made"]
  BY DEF Make, Move
<1>2. at[s][n] = "none"
  BY <1>1, BytesTypes DEF HandOffParts, JobsInOrder
<1> HIDE DEF n
<1>3. /\ bytes'[s] = [bytes[s] EXCEPT ![n] = b]
      /\ kind'[s] = [kind[s] EXCEPT ![n] = k]
      /\ at'[s] = [at[s] EXCEPT ![n] = "made"]
      /\ made'[s] = n
      /\ \A t \in Stages \ {s} : /\ bytes'[t] = bytes[t] /\ kind'[t] = kind[t]
                                 /\ at'[t] = at[t] /\ made'[t] = made[t]
  BY <1>1 DEF TypeInv, TypeOK
<1>4. \A t \in Stages : /\ bytes[t] \in [JobIds -> Nat]
                        /\ kind[t] \in [JobIds -> JobKind]
                        /\ at[t] \in [JobIds -> JobPC]
  BY BytesTypes
<1>5. bytes[s][n] = 0
  BY <1>1, <1>2 DEF CutInv, NoBytes
<1>6. Sum(bytes'[s], JobIds) = Sum(bytes[s], JobIds) + b
  <2> DEFINE f == bytes[s]
             g == bytes'[s]
  <2>1. /\ \A m \in JobIds : f[m] \in Nat
        /\ g[n] = b /\ f[n] = 0
        /\ \A m \in JobIds \ {n} : g[m] = f[m]
    BY <1>1, <1>3, <1>4, <1>5
  <2>2. Sum(f, JobIds) \in Nat
    BY BytesTypes
  <2> HIDE DEF f, g
  <2>3. Sum(g, JobIds) + f[n] = Sum(f, JobIds) + g[n]
    BY <1>1, <2>1, SizeFacts, SumChange
  <2>4. Sum(g, JobIds) \in Nat
    <3>1. \A m \in JobIds : g[m] \in Nat
      BY <2>1
    <3> QED
      BY <3>1, SizeFacts, SumType
  <2>5. Sum(g, JobIds) = Sum(f, JobIds) + b
    BY <2>1, <2>2, <2>3, <2>4
  <2> QED
    BY <2>5 DEF f, g
<1>7. \A t \in Stages \ {s} : EndCut(t)' = EndCut(t)
  BY <1>3 DEF EndCut
<1>8. EndCut(s)' = (k = "end")
  BY <1>1, <1>3, <1>4 DEF EndCut
<1>9. ASSUME k = "end" => b = 0
      PROVE  NoBytes'
  <2> SUFFICES ASSUME NEW t \in Stages, NEW m \in JobIds,
                      at'[t][m] = "none" \/ kind'[t][m] = "end"
               PROVE  bytes'[t][m] = 0
    BY DEF NoBytes
  <2>1. CASE t = s /\ m = n
    BY <1>3, <1>4, <1>9, <2>1
  <2>2. CASE ~(t = s /\ m = n)
    BY <1>3, <1>4, <2>2 DEF CutInv, NoBytes
  <2> QED
    BY <2>1, <2>2
<1>10. \A t \in Stages, m \in JobIds :
         at'[t][m] # "none" =>
           \/ at[t][m] # "none" /\ kind'[t][m] = kind[t][m]
           \/ t = s /\ kind'[t][m] = k
  BY <1>3, <1>4
<1>11. Blocks(1)' = Blocks(1) \/ (s = 1 /\ k = "data")
  <2>1. CASE s # 1
    BY <1>3, <2>1, StageNumbers DEF Blocks
  <2>2. CASE s = 1 /\ k # "data"
    BY <1>2, <1>3, <1>4, <2>2 DEF Blocks
  <2> QED
    BY <2>1, <2>2
<1>12. Blocks(1) \subseteq Blocks(1)'
  <2>1. CASE s # 1
    BY <1>3, <2>1, StageNumbers DEF Blocks
  <2>2. CASE s = 1
    BY <1>2, <1>3, <1>4, <2>2 DEF Blocks
  <2> QED
    BY <2>1, <2>2
<1> QED
  BY <1>3, <1>6, <1>7, <1>8, <1>9, <1>10, <1>11, <1>12

LEMMA MakeNull ==
  ASSUME TypeInv, HandOffParts, CutInv, NEW s \in Stages, NEW k \in JobKind,
         NEW b \in Nat, NEW p, Make(s, k, b, p),
         k = "null" => s = 1 /\ Cardinality(Blocks(1)) >= StorageCap[1]
  PROVE  NullMeansFull'
<1>1. /\ IsFiniteSet(Blocks(1)) /\ Cardinality(Blocks(1)) \in Nat
      /\ IsFiniteSet(Blocks(1)') /\ Cardinality(Blocks(1)') \in Nat
  BY JobIdsFinite DEF Blocks
<1>2. Cardinality(Blocks(1)) <= Cardinality(Blocks(1)')
  BY <1>1, MakeCut, FS_Subset
<1>3. StorageCap[1] \in Nat
  BY SizesAssumption, StageNumbers
<1> SUFFICES ASSUME NEW t \in Stages, NEW n \in JobIds,
                    at'[t][n] # "none", kind'[t][n] = "null"
             PROVE  t = 1 /\ Cardinality(Blocks(1)') >= StorageCap[1]
  BY DEF NullMeansFull
<1>4. \/ at[t][n] # "none" /\ kind'[t][n] = kind[t][n]
      \/ t = s /\ kind'[t][n] = k
  BY MakeCut
<1> QED
  BY <1>1, <1>2, <1>3, <1>4 DEF CutInv, NullMeansFull

LEMMA ScanItem ==
  ASSUME TypeInv, pc[1] = "scan"
  PROVE  item \in 1 .. Len(Traversal)
<1>1. item \in Nat \ {0} /\ item <= Len(Traversal)
  BY DEF TypeInv, TypeOK, WellPlaced
<1> QED
  BY <1>1, SizeFacts

LEMMA AddBlockCut ==
  ASSUME TypeInv, HandOffParts, CutInv, AddBlock
  PROVE  CutInv'
<1> DEFINE k == IF Stored(1) < StorageCap[1] THEN "data" ELSE "null"
           b == Min2(Traversal[item] - offset, BlockSize[1])
<1>1. /\ Make(1, k, b, 0)
      /\ offset' = offset + BlockSize[1] /\ offset < Traversal[item]
      /\ pc' = [pc EXCEPT ![1] = "credit"]
      /\ UNCHANGED <<item, size, popSize>>
      /\ item \in 1 .. Len(Traversal) /\ Traversal[item] # DirEnd
  BY ScanItem DEF AddBlock, Go, FileStored
<1>2. /\ Traversal[item] \in Nat /\ offset \in Nat /\ BlockSize[1] \in Nat
      /\ FileSize[item] = Traversal[item] /\ pc \in [Stages -> FeederPC]
  <2>1. Traversal[item] \in Nat
    BY <1>1, TraversalAssumption
  <2>2. offset \in Nat /\ pc \in [Stages -> FeederPC]
    BY DEF TypeInv, TypeOK
  <2> QED
    BY <1>1, <2>1, <2>2, SizesAssumption, StageNumbers DEF FileSize
<1>3. b \in Nat /\ Min2(offset', FileSize[item]) = Min2(offset, FileSize[item]) + b
  BY <1>1, <1>2 DEF Min2
<1>4. k \in JobKind /\ k # "end"
  BY DEF JobKind
<1>5. k = "null" => Cardinality(Blocks(1)) >= StorageCap[1]
  <2>1. Stored(1) = Cardinality(Blocks(1))
    <3>1. {n \in JobIds : kind[1][n] = "data" /\ at[1][n] # "none"} = Blocks(1)
      BY DEF Blocks
    <3> QED
      BY <3>1 DEF Stored
  <2>2. Cardinality(Blocks(1)) \in Nat /\ StorageCap[1] \in Nat
    BY JobIdsFinite, SizesAssumption, StageNumbers DEF Blocks
  <2> QED
    BY <2>1, <2>2
<1> HIDE DEF k, b
<1>6. /\ Sum(bytes'[1], JobIds) = Sum(bytes[1], JobIds) + b
      /\ \A t \in {2, 3} : bytes'[t] = bytes[t] /\ EndCut(t)' = EndCut(t)
      /\ NoBytes'
  BY <1>1, <1>3, <1>4, StageNumbers, MakeCut
<1>7. NullMeansFull'
  BY <1>1, <1>3, <1>4, <1>5, StageNumbers, MakeNull
<1>8. CutFromFiles'
  <2>1. Sum(FileSize, 1 .. item - 1) \in Nat
    <3>1. IsFiniteSet(1 .. item - 1) /\ \A i \in 1 .. item - 1 : FileSize[i] \in Nat
      <4>1. item - 1 \in Int /\ 1 .. item - 1 \subseteq 1 .. Len(Traversal)
        BY <1>1, SizeFacts
      <4> QED
        BY <4>1, SizeFacts, EntriesFinite
    <3> QED
      BY <3>1, SumType
  <2>2. Min2(offset, FileSize[item]) \in Nat
    BY <1>2 DEF Min2
  <2>3. Sum(bytes[1], JobIds) = Sum(FileSize, 1 .. item - 1) + Min2(offset, FileSize[item])
    BY <1>1 DEF CutInv, CutFromFiles, BytesRead, ReadOf
  <2>4. BytesRead' = Sum(FileSize, 1 .. item - 1) + (Min2(offset, FileSize[item]) + b)
    BY <1>1, <1>3 DEF BytesRead, ReadOf
  <2> QED
    BY <1>3, <1>6, <2>1, <2>2, <2>3, <2>4 DEF CutFromFiles
<1>9. CutFromQueue' /\ UsedUpAtEnd'
  BY <1>1, <1>2, <1>6, StageNumbers DEF CutInv, CutFromQueue, UsedUpAtEnd
<1> QED
  BY <1>6, <1>7, <1>8, <1>9 DEF CutInv

LEMMA EndCreditCut ==
  ASSUME TypeInv, HandOffParts, CutInv, NEW s \in Stages, EndCredit(s)
  PROVE  CutInv'
<1>1. /\ Make(s, "end", 0, control[s])
      /\ pc[s] = "endCredit" /\ pc' = [pc EXCEPT ![s] = "endFlag"]
      /\ UNCHANGED <<item, offset, size, popSize>>
  BY DEF EndCredit, Go, feedVars
<1>2. "end" \in JobKind /\ "end" # "null" /\ 0 \in Nat
  BY DEF JobKind
<1>3. /\ Sum(bytes'[s], JobIds) = Sum(bytes[s], JobIds) + 0
      /\ \A t \in Stages \ {s} : bytes'[t] = bytes[t] /\ EndCut(t)' = EndCut(t)
      /\ NoBytes'
  BY <1>1, <1>2, MakeCut
<1>4. NullMeansFull'
  BY <1>1, <1>2, MakeNull
<1>5. \A t \in Stages : Sum(bytes'[t], JobIds) = Sum(bytes[t], JobIds)
  BY <1>3, BytesTypes
<1>6. pc \in [Stages -> FeederPC]
  BY DEF TypeInv, TypeOK
<1>7. CutFromFiles' /\ CutFromQueue'
  BY <1>1, <1>5, StageNumbers DEF CutInv, CutFromFiles, CutFromQueue, BytesRead, ReadOf
<1>8. UsedUpAtEnd'
  BY <1>1, <1>3, <1>6, StageNumbers DEF CutInv, UsedUpAtEnd
<1> QED
  BY <1>3, <1>4, <1>7, <1>8 DEF CutInv

LEMMA CutCut ==
  ASSUME TypeInv, HandOffParts, CutInv, NEW s \in {2, 3}, Cut(s)
  PROVE  CutInv'
<1> DEFINE b == CutSize(s)
<1>1. /\ Make(s, "data", b, 0)
      /\ popSize' = [popSize EXCEPT ![s] = @ + b]
      /\ pc' = [pc EXCEPT ![s] = "credit"]
      /\ UNCHANGED <<item, offset, size>>
  BY DEF Cut, Go
<1>2. /\ pc \in [Stages -> FeederPC] /\ popSize \in [Stages -> Nat]
      /\ size \in [Stages -> Nat] /\ BlockSize[s] \in Nat /\ s \in Stages
  BY SizesAssumption, StageNumbers DEF TypeInv, TypeOK
<1>3. b \in Nat /\ popSize[s] + b <= size[s]
  BY <1>2 DEF CutSize, Unpopped, Min2, CutInv, CutFromQueue
<1> HIDE DEF b
<1>4. "data" \in JobKind /\ "data" # "null" /\ "data" # "end"
  BY DEF JobKind
<1>5. /\ Sum(bytes'[s], JobIds) = Sum(bytes[s], JobIds) + b
      /\ \A t \in Stages \ {s} : bytes'[t] = bytes[t] /\ EndCut(t)' = EndCut(t)
      /\ NoBytes'
      /\ ~EndCut(s)'
  <2>1. s \in Stages /\ "data" \in JobKind /\ b \in Nat /\ Make(s, "data", b, 0)
    BY <1>1, <1>2, <1>3, <1>4
  <2>2. EndCut(s)' = ("data" = "end")
    BY <2>1, MakeCut
  <2>3. NoBytes'
    BY <1>4, <2>1, MakeCut
  <2>4. Sum(bytes'[s], JobIds) = Sum(bytes[s], JobIds) + b
    BY <2>1, MakeCut
  <2>5. \A t \in Stages \ {s} : bytes'[t] = bytes[t] /\ EndCut(t)' = EndCut(t)
    BY <2>1, MakeCut
  <2> QED
    BY <1>4, <2>2, <2>3, <2>4, <2>5
<1>6. NullMeansFull'
  BY <1>1, <1>2, <1>3, <1>4, MakeNull
<1>7. CutFromFiles'
  BY <1>1, <1>5, StageNumbers DEF CutInv, CutFromFiles, BytesRead, ReadOf
<1>8. CutFromQueue'
  BY <1>1, <1>2, <1>3, <1>5, StageNumbers DEF CutInv, CutFromQueue
<1>9. UsedUpAtEnd'
  BY <1>1, <1>2, <1>5, StageNumbers DEF CutInv, UsedUpAtEnd
<1> QED
  BY <1>5, <1>6, <1>7, <1>8, <1>9 DEF CutInv

-----------------------------------------------------------------------------
(* Reading on: the next entry of the traversal adds what was read of the   *)
(* one before, which is all of it.                                         *)
LEMMA NextItemCut ==
  ASSUME TypeInv, CutInv, item \in 1 .. Len(Traversal), item' = item + 1,
         Min2(offset, FileSize[item]) = FileSize[item],
         item + 1 <= Len(Traversal) => offset' = 0,
         UNCHANGED <<made, kind, bytes, at, size, popSize>>,
         \A s \in {2, 3} : pc'[s] = pc[s]
  PROVE  CutInv'
<1> DEFINE before == 1 .. item - 1
<1>1. /\ IsFiniteSet(before) /\ item \notin before
      /\ \A i \in before \cup {item} : FileSize[i] \in Nat
      /\ before \cup {item} = 1 .. item
  <2>1. item - 1 \in Int /\ before \cup {item} = 1 .. item /\ item \notin before
    BY SizeFacts
  <2>2. \A i \in before \cup {item} : i \in 1 .. Len(Traversal)
    BY SizeFacts
  <2>3. IsFiniteSet(before)
    BY <2>1, EntriesFinite
  <2> QED
    BY <2>1, <2>2, <2>3, SizeFacts
<1>2. Sum(FileSize, before \cup {item}) = Sum(FileSize, before) + FileSize[item]
  <2> HIDE DEF before
  <2> QED
    BY <1>1, SumAdd
<1>3. Sum(FileSize, 1 .. item' - 1) = Sum(FileSize, 1 .. item - 1) + FileSize[item]
  <2>1. item' - 1 = item
    OBVIOUS
  <2> QED
    BY <1>1, <1>2, <2>1
<1>4. ReadOf(item', offset') = 0
  BY SizeFacts DEF ReadOf, Min2
<1>5. BytesRead' = BytesRead
  <2>1. Sum(FileSize, 1 .. item - 1) \in Nat /\ FileSize[item] \in Nat
    BY <1>1, SumType
  <2>2. BytesRead = Sum(FileSize, 1 .. item - 1) + FileSize[item]
    BY DEF BytesRead, ReadOf
  <2>3. BytesRead' = Sum(FileSize, 1 .. item' - 1) + ReadOf(item', offset')
    BY DEF BytesRead, ReadOf
  <2> QED
    BY <1>3, <1>4, <2>1, <2>2, <2>3
<1>6. Blocks(1)' = Blocks(1)
  BY DEF Blocks
<1>7. NoBytes' /\ NullMeansFull' /\ CutFromFiles' /\ CutFromQueue'
  BY <1>5, <1>6 DEF CutInv, NoBytes, NullMeansFull, CutFromFiles, CutFromQueue
<1>8. UsedUpAtEnd'
  BY DEF CutInv, UsedUpAtEnd, EndCut
<1> QED
  BY <1>7, <1>8 DEF CutInv

(* addFile leaves no file before it has read it out, if all files fit. *)
LEMMA FilesAreStored ==
  ASSUME FilesFit, NEW i \in 1 .. Len(Traversal), Traversal[i] # DirEnd
  PROVE  FileStored(i)
<1> DEFINE F(k) == {j \in 1 .. k - 1 : Traversal[j] # DirEnd}
           n == Len(Traversal)
<1>1. n \in Nat /\ i # n
  BY TraversalAssumption
<1>2. IsFiniteSet(F(n)) /\ IsFiniteSet(F(i))
  <2>1. IsFiniteSet(1 .. n - 1) /\ IsFiniteSet(1 .. i - 1)
    BY <1>1, FS_Interval
  <2> QED
    BY <2>1, FS_Subset
<1>3. F(i) \cup {i} \subseteq F(n) /\ i \notin F(i)
  BY <1>1
<1>4. /\ Cardinality(F(i) \cup {i}) = Cardinality(F(i)) + 1
      /\ Cardinality(F(i) \cup {i}) <= Cardinality(F(n))
      /\ Cardinality(F(i)) \in Nat /\ Cardinality(F(n)) \in Nat
  <2> HIDE DEF F, n
  <2> QED
    BY <1>2, <1>3, FS_AddElement, FS_Subset, FS_CardinalityType
<1>5. Cardinality(F(n)) <= FILE_MAX_NUM /\ FILE_MAX_NUM \in Nat
  BY SizesAssumption DEF FilesFit, FilesBefore
<1>6. Cardinality(F(i)) < FILE_MAX_NUM
  <2> HIDE DEF F
  <2> QED
    BY <1>4, <1>5
<1> QED
  BY <1>6 DEF FileStored, FilesBefore

LEMMA NextFileCut ==
  ASSUME FilesFit, TypeInv, CutInv, NextFile
  PROVE  CutInv'
<1>1. /\ item \in 1 .. Len(Traversal) /\ Traversal[item] # DirEnd
      /\ FileStored(item) => offset >= Traversal[item]
      /\ item' = item + 1 /\ offset' = 0
      /\ UNCHANGED <<pc, made, kind, bytes, at, size, popSize>>
  BY ScanItem DEF NextFile, scanVars, jobVars
<1>2. offset >= Traversal[item] /\ FileSize[item] = Traversal[item]
  BY <1>1, FilesAreStored DEF FileSize
<1>3. Min2(offset, FileSize[item]) = FileSize[item]
  BY <1>1, <1>2, SizeFacts DEF Min2, TypeInv, TypeOK
<1> QED
  BY <1>1, <1>3, NextItemCut

LEMMA EndDirCut ==
  ASSUME Flat, TypeInv, CutInv, EndDir
  PROVE  CutInv'
<1>1. /\ item \in 1 .. Len(Traversal) /\ Traversal[item] = DirEnd
      /\ item' = item + 1 /\ pc' = [pc EXCEPT ![1] = "endCredit"]
      /\ UNCHANGED <<made, kind, bytes, at, size, popSize>>
  BY ScanItem DEF EndDir, scanVars, jobVars, Go
<1>2. ~(item + 1 <= Len(Traversal))
  BY <1>1, SizeFacts DEF Flat
<1>3. Min2(offset, FileSize[item]) = FileSize[item]
  BY <1>1 DEF FileSize, Min2, TypeInv, TypeOK
<1>4. \A s \in {2, 3} : pc'[s] = pc[s]
  BY <1>1, StageNumbers DEF TypeInv, TypeOK
<1> QED
  BY <1>1, <1>2, <1>3, <1>4, NextItemCut

-----------------------------------------------------------------------------
(* Storing makes the queue no shorter, and happens before its end. *)
LEMMA StoreCut ==
  ASSUME TypeInv, HandOffParts, CutInv, NEW s \in {2, 3}, Store(s)
  PROVE  CutInv'
<1>1. /\ pc[s] = "store" /\ pc' = [pc EXCEPT ![s] = "cut"]
      /\ size' = [size EXCEPT ![s] = StoredSize(s)]
      /\ UNCHANGED <<item, offset, made, kind, bytes, at, popSize>>
  BY DEF Store, Go, jobVars
<1>2. /\ pc \in [Stages -> FeederPC] /\ s \in Stages
      /\ size \in [Stages -> Nat] /\ popSize \in [Stages -> Nat]
      /\ out \in [JobIds -> Nat] /\ held[s] \in JobIds
  BY <1>1, StageNumbers DEF TypeInv, TypeOK, WellPlaced
<1>3. \A old, b \in Nat : PushBytes(s, old, b) \in Nat /\ PushBytes(s, old, b) >= old
  BY DEF PushBytes
<1>4. StoredSize(s) \in Nat /\ StoredSize(s) >= size[s]
  <2>1. CASE s = 2
    BY <1>2, <1>3, <2>1, SizesAssumption DEF StoredSize
  <2>2. CASE s = 3
    <3> DEFINE w == PushBytes(3, size[3], FrameHeader)
               b == FrameBytes + out[held[3]]
    <3>1. /\ size[3] \in Nat /\ out[held[3]] \in Nat
          /\ FrameHeader \in Nat /\ FrameBytes \in Nat
      BY <1>2, <2>2, SizesAssumption
    <3>4. \A old, c \in Nat : PushBytes(3, old, c) \in Nat /\ PushBytes(3, old, c) >= old
      BY <1>3, <2>2
    <3>5. w \in Nat /\ w >= size[3]
      BY <3>1, <3>4
    <3>6. b \in Nat
      BY <3>1
    <3>2. StoredSize(s) = PushBytes(3, w, b)
      BY <2>2 DEF StoredSize
    <3> HIDE DEF w, b
    <3>3. PushBytes(3, w, b) \in Nat /\ PushBytes(3, w, b) >= w
      BY <3>4, <3>5, <3>6
    <3> QED
      BY <2>2, <3>1, <3>2, <3>3, <3>5
  <2> QED
    BY <2>1, <2>2
<1>5. ~EndCut(s)
  BY <1>1, <1>2 DEF HandOffParts, EndIsLast
<1>6. NoBytes' /\ CutFromFiles' /\ NullMeansFull'
  BY <1>1 DEF CutInv, NoBytes, CutFromFiles, BytesRead, ReadOf, NullMeansFull, Blocks
<1>7. CutFromQueue'
  BY <1>1, <1>2, <1>4, StageNumbers DEF CutInv, CutFromQueue
<1>8. UsedUpAtEnd'
  BY <1>1, <1>2, <1>5, StageNumbers DEF CutInv, UsedUpAtEnd, EndCut
<1> QED
  BY <1>6, <1>7, <1>8 DEF CutInv

(* The cutting loop ends when nothing is left, once the input is over. *)
LEMMA CutDoneCut ==
  ASSUME TypeInv, CutInv, NEW s \in {2, 3}, CutDone(s)
  PROVE  CutInv'
<1>1. /\ ~Available(s) /\ pc' = [pc EXCEPT ![s] = IF draining[s] THEN "endCredit" ELSE "check"]
      /\ UNCHANGED <<item, offset, made, kind, bytes, at, size, popSize>>
  BY DEF CutDone, Go, feedVars, jobVars
<1>2. /\ pc \in [Stages -> FeederPC] /\ s \in Stages
      /\ size \in [Stages -> Nat] /\ popSize \in [Stages -> Nat]
  BY StageNumbers DEF TypeInv, TypeOK
<1>3. draining[s] => popSize[s] = size[s]
  BY <1>1, <1>2 DEF Available, Unpopped, CutInv, CutFromQueue
<1>4. NoBytes' /\ CutFromFiles' /\ NullMeansFull' /\ CutFromQueue'
  BY <1>1 DEF CutInv, NoBytes, CutFromFiles, BytesRead, ReadOf, NullMeansFull, Blocks,
              CutFromQueue
<1>5. UsedUpAtEnd'
  BY <1>1, <1>2, <1>3, StageNumbers DEF CutInv, UsedUpAtEnd, EndCut
<1> QED
  BY <1>4, <1>5 DEF CutInv

(* A job moves on. *)
LEMMA MoveCut ==
  ASSUME TypeInv, CutInv, NEW s \in Stages, NEW n \in JobIds, NEW to \in JobPC \ {"none"},
         Move(s, n, to), at[s][n] # "none",
         UNCHANGED <<item, offset, made, kind, bytes, size, popSize>>,
         \A t \in {2, 3} : pc'[t] = "endCredit" => pc[t] = "endCredit"
  PROVE  CutInv'
<1>1. /\ at'[s] = [at[s] EXCEPT ![n] = to]
      /\ at[s] \in [JobIds -> JobPC]
      /\ \A t \in Stages \ {s} : at'[t] = at[t]
  BY MoveFacts
<1>2. \A t \in Stages, m \in JobIds : at'[t][m] = "none" <=> at[t][m] = "none"
  BY <1>1
<1> QED
  BY <1>2, CutFrame

LEMMA FeederCut ==
  ASSUME Flat, FilesFit, TypeInv, HandOffParts, CutInv,
         trave_dir \/ run_compressQueue1 \/ run_transferQueue1
  PROVE  CutInv'
<1>1. pc \in [Stages -> FeederPC]
  BY DEF TypeInv, TypeOK
<1>2. ASSUME NEW s \in Stages, TakeCredit(s) \/ SetAddEnd(s)
                               \/ (s # 1 /\ (CheckEnd(s) \/ Overrun(s)))
      PROVE  CutInv'
  <2>1. /\ UNCHANGED <<item, offset, made, kind, bytes, at, size, popSize>>
        /\ \E to : to # "endCredit" /\ pc' = [pc EXCEPT ![s] = to]
    <3>1. CASE TakeCredit(s)
      BY <3>1 DEF TakeCredit, Go, feedVars
    <3>2. CASE SetAddEnd(s)
      BY <3>2 DEF SetAddEnd, Go, feedVars, jobVars
    <3>3. CASE CheckEnd(s)
      BY <3>3 DEF CheckEnd, Go, jobVars
    <3>4. CASE Overrun(s)
      BY <3>4 DEF Overrun, Go, feedVars, jobVars
    <3> QED
      BY <1>2, <3>1, <3>2, <3>3, <3>4
  <2>2. \A t \in {2, 3} : pc'[t] = "endCredit" => pc[t] = "endCredit"
    BY <1>1, <2>1, StageNumbers
  <2> QED
    BY <2>1, <2>2, CutFrame
<1>3. ASSUME NEW s \in Stages, Count(s) \/ Submit(s)
      PROVE  CutInv'
  <2>1. /\ UNCHANGED <<item, offset, made, kind, bytes, size, popSize>>
        /\ \E to \in {"counted", "queued"} : Move(s, made[s], to)
        /\ \E to : to # "endCredit" /\ pc' = [pc EXCEPT ![s] = to]
        /\ pc[s] \in {"count", "submit"}
    <3>1. CASE Count(s)
      BY <3>1 DEF Count, Go, feedVars, jobVars
    <3>2. CASE Submit(s)
      BY <3>2 DEF Submit, Go, feedVars, jobVars, AfterSubmit
    <3> QED
      BY <1>3, <3>1, <3>2
  <2>2. \A t \in {2, 3} : pc'[t] = "endCredit" => pc[t] = "endCredit"
    BY <1>1, <2>1, StageNumbers
  <2>3. made[s] \in JobIds /\ at[s][made[s]] \in {"made", "counted"}
    BY <2>1 DEF TypeInv, WellPlaced, HandOffParts, JobsInOrder
  <2> QED
    BY <2>1, <2>2, <2>3, MoveCut DEF JobPC
<1>4. ASSUME NEW s \in {2, 3}, Pop(s)
      PROVE  CutInv'
  <2>1. /\ UNCHANGED <<item, offset, made, kind, bytes, at, size, popSize>>
        /\ \E to : to # "endCredit" /\ pc' = [pc EXCEPT ![s] = to]
    BY <1>4 DEF Pop, Go, jobVars
  <2>2. \A t \in {2, 3} : pc'[t] = "endCredit" => pc[t] = "endCredit"
    BY <1>1, <2>1, StageNumbers
  <2> QED
    BY <2>1, <2>2, CutFrame
<1>5. ASSUME NEW s \in Stages, EndCredit(s) \/ (s = 1 /\ AddBlock) \/ (s # 1 /\ Cut(s))
      PROVE  CutInv'
  BY <1>5, EndCreditCut, AddBlockCut, CutCut DEF Stages
<1>6. ASSUME NEW s \in Stages,
             (s = 1 /\ (NextFile \/ EndDir)) \/ (s # 1 /\ (Store(s) \/ CutDone(s)))
      PROVE  CutInv'
  BY <1>6, NextFileCut, EndDirCut, StoreCut, CutDoneCut DEF Stages
<1>7. ASSUME NEW s \in Stages, AdvanceStep(s)
      PROVE  CutInv'
  BY <1>2, <1>6, <1>7, Zenon DEF AdvanceStep
<1>8. CASE \E s \in Stages : AdvanceStep(s) \/ Count(s) \/ Submit(s)
  BY <1>3, <1>7, <1>8
<1>9. CASE \E s \in Stages : EndCredit(s) \/ (s = 1 /\ AddBlock) \/ (s # 1 /\ Cut(s))
  BY <1>5, <1>9
<1>10. CASE \E s \in {2, 3} : Pop(s)
  BY <1>4, <1>10
<1> QED
  BY <1>8, <1>9, <1>10, FeederCases

LEMMA JobCut ==
  ASSUME TypeInv, CutInv, NEW n \in JobIds,
         readFile(n) \/ compress_func(n) \/ transfer(n)
  PROVE  CutInv'
<1>1. /\ UNCHANGED workVars
      /\ \E s \in Stages, to \in JobPC \ {"none"} : Move(s, n, to) /\ at[s][n] # "none"
  <2>1. ASSUME NEW s \in Stages, Leave(s, n)
        PROVE  UNCHANGED workVars /\
               \E to \in JobPC \ {"none"} : Move(s, n, to) /\ at[s][n] # "none"
    BY <2>1 DEF Leave, CanStart, JobPC
  <2>2. ASSUME NEW s \in {1, 2}, PushBlock(s, n) \/ PushEnd(s, n)
        PROVE  UNCHANGED workVars /\
               \E to \in JobPC \ {"none"} : Move(s, n, to) /\ at[s][n] # "none"
    BY <2>2 DEF PushBlock, PushEnd, JobPC
  <2>3. CASE ReadBlock(n)
    BY <2>3, StageNumbers DEF ReadBlock, CanStart, JobPC
  <2>4. CASE CompressBlock(n)
    BY <2>4, StageNumbers DEF CompressBlock, CanStart, JobPC
  <2>5. CASE PostBlock(n)
    BY <2>5, StageNumbers DEF PostBlock, CanStart, JobPC
  <2> QED
    BY <2>1, <2>2, <2>3, <2>4, <2>5, StageNumbers DEF readFile, compress_func, transfer
<1>2. UNCHANGED <<pc, item, offset, made, kind, bytes, size, popSize>>
  BY <1>1 DEF workVars, feedVars, jobVars
<1> QED
  BY <1>1, <1>2, MoveCut

LEMMA OthersCut ==
  ASSUME CutInv, monitor \/ MainWait \/ Ended \/ UNCHANGED vars
  PROVE  CutInv'
<1>1. UNCHANGED <<pc, at, item, offset, made, kind, bytes, size, popSize>>
  <2>1. CASE monitor
    BY <2>1 DEF monitor, finish, CheckQuit, FinishLock, FinishTest, SetControl,
                restVars, feedVars, jobVars
  <2>2. CASE MainWait
    BY <2>2 DEF MainWait, feedVars, jobVars
  <2>3. CASE Ended \/ UNCHANGED vars
    BY <2>3 DEF Ended, vars, feedVars, jobVars
  <2> QED
    BY <2>1, <2>2, <2>3
<1> QED
  BY <1>1, CutFrame

LEMMA NextCut ==
  ASSUME Flat, FilesFit, TypeInv, HandOffParts, CutInv, [Next]_vars
  PROVE  CutInv'
<1>1. CASE trave_dir \/ run_compressQueue1 \/ run_transferQueue1
  BY <1>1, FeederCut
<1>2. CASE \E n \in JobIds : readFile(n) \/ compress_func(n) \/ transfer(n)
  BY <1>2, JobCut
<1>3. CASE monitor \/ MainWait \/ Ended \/ UNCHANGED vars
  BY <1>3, OthersCut
<1> QED
  BY <1>1, <1>2, <1>3 DEF Next

LEMMA InitCut == Init => CutInv
<1> SUFFICES ASSUME Init PROVE CutInv
  OBVIOUS
<1>1. \A s \in Stages : Sum(bytes[s], JobIds) = 0
  <2> SUFFICES ASSUME NEW s \in Stages PROVE Sum(bytes[s], JobIds) = 0
    OBVIOUS
  <2> DEFINE g == bytes[s]
  <2>1. \A n \in JobIds : g[n] = 0
    BY DEF Init
  <2> HIDE DEF g
  <2>2. Sum(g, {}) = Sum(g, JobIds)
    BY <2>1, SizeFacts, SumPart
  <2>3. Sum(g, {}) = 0
    BY FS_EmptySet, SumIs
  <2> QED
    BY <2>2, <2>3 DEF g
<1>2. BytesRead = 0
  <2>1. Sum(FileSize, {}) = 0
    BY FS_EmptySet, SumIs
  <2>2. 1 .. item - 1 = {} /\ item = 1 /\ offset = 0
    BY DEF Init
  <2>3. ReadOf(item, offset) = 0
    BY <2>2, SizeFacts DEF ReadOf, Min2
  <2> QED
    BY <2>1, <2>2, <2>3 DEF BytesRead
<1>3. NoBytes /\ NullMeansFull
  BY DEF Init, NoBytes, NullMeansFull
<1>4. CutFromFiles /\ CutFromQueue
  <2>1. CutFromFiles
    BY <1>1, <1>2, StageNumbers DEF CutFromFiles
  <2>2. \A s \in {2, 3} : s \in Stages /\ popSize[s] = 0 /\ size[s] = 0
    BY StageNumbers DEF Init
  <2>3. CutFromQueue
    BY <1>1, <2>2 DEF CutFromQueue
  <2> QED
    BY <2>1, <2>3
<1>5. UsedUpAtEnd
  BY StageNumbers DEF Init, UsedUpAtEnd
<1> QED
  BY <1>3, <1>4, <1>5 DEF CutInv

-----------------------------------------------------------------------------
(* What the queues hold: a record of each block of stage 1 that stage 2    *)
(* has taken, and a frame of each block of stage 2 that stage 3 has taken, *)
(* as long as there is room for them.                                      *)

LEMMA HandedFinite ==
  ASSUME NEW s \in {1, 2}
  PROVE  /\ IsFiniteSet(Handed(s)) /\ Cardinality(Handed(s)) \in Nat
         /\ Handed(s) \in SUBSET JobIds
  BY JobIdsFinite DEF Handed, Blocks

LEMMA FrameSizes ==
  ASSUME TypeInv
  PROVE  \A n \in JobIds : FrameSize[n] = FrameHeader + FrameBytes + out[n]
                          /\ FrameSize[n] \in Nat
<1>1. out \in [JobIds -> Nat] /\ FrameHeader \in Nat /\ FrameBytes \in Nat
  BY SizesAssumption DEF TypeInv, TypeOK
<1> QED
  BY <1>1 DEF FrameSize

(* Only Store lets a queue grow. *)
LEMMA SizeSame ==
  ASSUME [Next]_vars, TypeInv, NEW s \in {2, 3}, ~Store(s)
  PROVE  size'[s] = size[s]
<1>1. CASE trave_dir \/ run_compressQueue1 \/ run_transferQueue1
  <2>1. ASSUME NEW t \in Stages, AdvanceStep(t) \/ Count(t) \/ Submit(t)
        PROVE  size'[s] = size[s]
    <3>1. CASE t # 1 /\ Store(t)
      <4>1. t # s /\ size' = [size EXCEPT ![t] = StoredSize(t)] /\ s \in Stages
        BY <3>1, StageNumbers DEF Store
      <4> QED
        BY <4>1 DEF TypeInv, TypeOK
    <3>2. CASE ~(t # 1 /\ Store(t))
      BY <2>1, <3>2 DEF AdvanceStep, TakeCredit, SetAddEnd, NextFile, EndDir, CheckEnd,
                        Overrun, CutDone, Count, Submit, feedVars, scanVars
    <3> QED
      BY <3>1, <3>2
  <2>2. ASSUME NEW t \in Stages,
               EndCredit(t) \/ (t = 1 /\ AddBlock) \/ (t # 1 /\ Cut(t))
        PROVE  size'[s] = size[s]
    BY <2>2 DEF EndCredit, AddBlock, Cut, feedVars
  <2>3. ASSUME NEW t \in {2, 3}, Pop(t)
        PROVE  size'[s] = size[s]
    BY <2>3 DEF Pop
  <2> QED
    BY <1>1, <2>1, <2>2, <2>3, FeederCases, Zenon
<1>2. CASE \E n \in JobIds : readFile(n) \/ compress_func(n) \/ transfer(n)
  BY <1>2 DEF readFile, compress_func, transfer, ReadBlock, CompressBlock, PostBlock,
              PushBlock, PushEnd, Leave, workVars, feedVars
<1>3. CASE monitor
  BY <1>3 DEF monitor, finish, CheckQuit, FinishLock, FinishTest, SetControl,
              restVars, feedVars
<1>4. CASE MainWait \/ Ended \/ UNCHANGED vars
  BY <1>4 DEF MainWait, Ended, vars, feedVars
<1> QED
  BY <1>1, <1>2, <1>3, <1>4 DEF Next

(* A block that is in the pool's queue no more keeps its compressed size. *)
LEMMA OutSame ==
  ASSUME [Next]_vars, TypeInv, NEW n \in JobIds, at[2][n] # "queued"
  PROVE  out'[n] = out[n]
<1>1. CASE trave_dir \/ run_compressQueue1 \/ run_transferQueue1
  <2>1. ASSUME NEW t \in Stages, AdvanceStep(t) \/ Count(t) \/ Submit(t)
        PROVE  out' = out
    BY <2>1 DEF AdvanceStep, TakeCredit, SetAddEnd, NextFile, EndDir, CheckEnd, Store,
                Overrun, CutDone, Count, Submit, scanVars
  <2>2. ASSUME NEW t \in Stages,
               EndCredit(t) \/ (t = 1 /\ AddBlock) \/ (t # 1 /\ Cut(t))
        PROVE  out' = out
    BY <2>2 DEF EndCredit, AddBlock, Cut
  <2>3. ASSUME NEW t \in {2, 3}, Pop(t)
        PROVE  out' = out
    BY <2>3 DEF Pop
  <2> QED
    BY <1>1, <2>1, <2>2, <2>3, FeederCases, Zenon
<1>2. ASSUME NEW m \in JobIds, readFile(m) \/ compress_func(m) \/ transfer(m)
      PROVE  out'[n] = out[n]
  <2>1. CASE CompressBlock(m)
    <3>1. m # n /\ \E z \in CompressedSizes : out' = [out EXCEPT ![m] = z]
      BY <2>1 DEF CompressBlock, CanStart
    <3> QED
      BY <3>1 DEF TypeInv, TypeOK
  <2>2. CASE ~CompressBlock(m)
    BY <1>2, <2>2 DEF readFile, compress_func, transfer, ReadBlock, PostBlock,
                      PushBlock, PushEnd, Leave
  <2> QED
    BY <2>1, <2>2
<1>3. CASE monitor
  BY <1>3 DEF monitor, finish, CheckQuit, FinishLock, FinishTest, SetControl, restVars
<1>4. CASE MainWait \/ Ended \/ UNCHANGED vars
  BY <1>4 DEF MainWait, Ended, vars
<1> QED
  BY <1>1, <1>2, <1>3, <1>4 DEF Next

(* Without Store nothing is taken: HandOff lets no other step do it. *)
LEMMA HandedSame ==
  ASSUME TypeInv, HandOffParts, RefinementParts, [Next]_vars, NEW s \in {1, 2},
         ~Store(s + 1)
  PROVE  Handed(s)' = Handed(s)
<1>1. StageStep(s)
  BY NextStage
<1> QED
  BY <1>1 DEF StageStep, Stage!vars, Stage!Close, Stage!Finish, Stage!Give

LEMMA ProductLess ==
  ASSUME NEW a \in Nat, NEW b \in Nat, NEW c \in Nat \ {0}
  PROVE  /\ a * c \in Nat /\ (a + 1) * c = a * c + c
         /\ a < b => a * c < b * c
<1>1. a * c \in Nat /\ (a + 1) * c = a * c + c
  OBVIOUS
<1>2. ASSUME a < b
      PROVE  a * c < b * c
  <2> DEFINE d == b - a
  <2>1. d \in Nat \ {0} /\ b = a + d
    BY <1>2
  <2> HIDE DEF d
  <2>2. d * c > 0 /\ d * c \in Nat
    BY <2>1
  <2>3. b * c = a * c + d * c
    BY <2>1
  <2> QED
    BY <1>1, <2>2, <2>3
<1> QED
  BY <1>1, <1>2

LEMMA NextRecords ==
  ASSUME TypeInv, HandOffParts, RefinementParts, StoredRecords, [Next]_vars
  PROVE  StoredRecords'
<1> DEFINE c == Cardinality(Handed(1))
<1>1. c \in Nat /\ IsFiniteSet(Handed(1))
  BY HandedFinite
<1>2. CASE ~Store(2)
  <2>1. size'[2] = size[2]
    BY <1>2, SizeSame
  <2>2. 1 \in {1, 2} /\ ~Store(1 + 1)
    BY <1>2
  <2>3. Handed(1)' = Handed(1)
    BY <2>2, HandedSame
  <2> QED
    BY <2>1, <2>3 DEF StoredRecords
<1>3. CASE Store(2)
  <2>1. 1 \in {1, 2} /\ Store(1 + 1)
    BY <1>3
  <2>2. /\ held[1 + 1] \in Blocks(1) \ Handed(1)
        /\ Handed(1)' = Handed(1) \cup {held[1 + 1]}
    BY <2>1, StoreTakes
  <2>3. Cardinality(Handed(1)') = c + 1
    BY <1>1, <2>2, FS_AddElement
  <2>4. size'[2] = PushBytes(2, size[2], Block1Bytes)
    BY <1>3, StageNumbers DEF Store, StoredSize, TypeInv, TypeOK
  <2>5. StorageCap[1] \in Nat /\ Block1Bytes \in Nat \ {0}
    BY SizesAssumption, StageNumbers
  <2> SUFFICES ASSUME Cardinality(Handed(1)') < StorageCap[1]
               PROVE  size'[2] = Cardinality(Handed(1)') * Block1Bytes
    BY DEF StoredRecords
  <2> HIDE DEF c
  <2>6. c < StorageCap[1] /\ c + 1 < StorageCap[1] /\ c + 1 \in Nat
    BY <1>1, <2>3, <2>5
  <2>7. size[2] = c * Block1Bytes
    BY <2>6 DEF StoredRecords, c
  <2>8. /\ c * Block1Bytes \in Nat
        /\ (c + 1) * Block1Bytes = c * Block1Bytes + Block1Bytes
    BY <1>1, <2>5, ProductLess
  <2>9. (c + 1) * Block1Bytes < StorageCap[1] * Block1Bytes
    BY <2>5, <2>6, ProductLess
  <2>10. StorageCap[1] * Block1Bytes \in Nat
    BY <2>5, ProductLess
  <2>11. PushBytes(2, size[2], Block1Bytes) = c * Block1Bytes + Block1Bytes
    <3> DEFINE x == c * Block1Bytes
               y == StorageCap[1] * Block1Bytes
    <3>1. x \in Nat /\ y \in Nat /\ x + Block1Bytes < y /\ size[2] = x
      BY <2>7, <2>8, <2>9, <2>10
    <3>2. QueueBytes(2) = y
      BY DEF QueueBytes
    <3> HIDE DEF x, y
    <3>3. PushBytes(2, size[2], Block1Bytes) = x + Block1Bytes
      BY <2>5, <3>1, <3>2 DEF PushBytes
    <3> QED
      BY <3>3 DEF x
  <2> QED
    BY <2>3, <2>4, <2>8, <2>11
<1> QED
  BY <1>2, <1>3

LEMMA NextFrames ==
  ASSUME TypeInv, TypeInv', HandOffParts, RefinementParts, StoredFrames, [Next]_vars
  PROVE  StoredFrames'
<1>1. \A n \in Handed(2) : n \in JobIds /\ FrameSize'[n] = FrameSize[n]
  <2> SUFFICES ASSUME NEW n \in Handed(2)
               PROVE  n \in JobIds /\ FrameSize'[n] = FrameSize[n]
    OBVIOUS
  <2>1. n \in JobIds /\ at[2][n] # "queued"
    BY DEF Handed, Blocks
  <2>2. out'[n] = out[n]
    BY <2>1, OutSame
  <2> QED
    BY <2>1, <2>2 DEF FrameSize
<1>2. IsFiniteSet(Handed(2)) /\ Handed(2) \in SUBSET JobIds
  BY HandedFinite
<1>3. /\ \A n \in JobIds : FrameSize[n] \in Nat
      /\ \A n \in JobIds : FrameSize'[n] \in Nat
  <2>1. \A n \in JobIds : FrameSize[n] \in Nat
    BY FrameSizes
  <2>2. out' \in [JobIds -> Nat] /\ FrameHeader \in Nat /\ FrameBytes \in Nat
    BY SizesAssumption DEF TypeInv, TypeOK
  <2>3. \A n \in JobIds : FrameSize'[n] \in Nat
    BY <2>2 DEF FrameSize
  <2> QED
    BY <2>1, <2>3
<1>4. Sum(FrameSize', Handed(2)) = Sum(FrameSize, Handed(2))
  <2> DEFINE f == FrameSize
             g == FrameSize'
             S == Handed(2)
  <2>1. IsFiniteSet(S) /\ \A n \in S : g[n] = f[n]
    BY <1>1, <1>2
  <2> HIDE DEF f, g, S
  <2>2. Sum(g, S) = Sum(f, S)
    BY <2>1, SumSame
  <2> QED
    BY <2>2 DEF f, g, S
<1>5. Sum(FrameSize, Handed(2)) \in Nat
  BY <1>2, <1>3, SumType
<1>6. QueueBytes(3)' = QueueBytes(3) /\ QueueBytes(3) \in Nat
  BY SizesAssumption, StageNumbers DEF QueueBytes
<1>7. CASE ~Store(3)
  <2>1. size'[3] = size[3]
    BY <1>7, SizeSame
  <2>2. 2 \in {1, 2} /\ ~Store(2 + 1)
    BY <1>7
  <2>3. Handed(2)' = Handed(2)
    BY <2>2, HandedSame
  <2> QED
    BY <1>4, <1>6, <2>1, <2>3 DEF StoredFrames
<1>8. CASE Store(3)
  <2> DEFINE h == held[2 + 1]
             x == Sum(FrameSize, Handed(2))
             b == FrameBytes + out[h]
  <2>1. 2 \in {1, 2} /\ Store(2 + 1)
    BY <1>8
  <2>2. /\ h \in Blocks(2) \ Handed(2)
        /\ Handed(2)' = Handed(2) \cup {h}
    BY <2>1, StoreTakes
  <2>3. h \in JobIds /\ h \notin Handed(2) /\ held[3] = h
    BY <2>2 DEF Blocks
  <2>4. out' = out /\ size' = [size EXCEPT ![3] = StoredSize(3)] /\ size[3] \in Nat
        /\ size \in [Stages -> Nat]
    BY <1>8, StageNumbers DEF Store, TypeInv, TypeOK
  <2>5. FrameSize' = FrameSize
    BY <2>4 DEF FrameSize
  <2>6. FrameHeader \in Nat /\ FrameBytes \in Nat /\ out[h] \in Nat
    BY <2>3, SizesAssumption DEF TypeInv, TypeOK
  <2>7. FrameSize[h] = FrameHeader + FrameBytes + out[h]
    BY <2>3, FrameSizes
  <2>8. FrameHeader \in Nat /\ b \in Nat /\ FrameSize[h] = FrameHeader + b
    BY <2>6, <2>7
  <2>9. size'[3] = PushBytes(3, PushBytes(3, size[3], FrameHeader), b)
    BY <2>3, <2>4, StageNumbers DEF StoredSize
  <2> HIDE DEF h, b
  <2>10. Sum(FrameSize, Handed(2) \cup {h}) = x + FrameSize[h]
    <3> DEFINE f == FrameSize
               S == Handed(2)
    <3>1. IsFiniteSet(S) /\ h \notin S /\ \A n \in S \cup {h} : f[n] \in Nat
      BY <1>1, <1>2, <1>3, <2>3
    <3> HIDE DEF f, S
    <3>2. Sum(f, S \cup {h}) = Sum(f, S) + f[h]
      BY <3>1, SumAdd
    <3> QED
      BY <3>2 DEF f, S
  <2>11. Sum(FrameSize', Handed(2)') = x + (FrameHeader + b)
    BY <2>2, <2>5, <2>8, <2>10
  <2> SUFFICES ASSUME Sum(FrameSize', Handed(2)') < QueueBytes(3)
               PROVE  size'[3] = Sum(FrameSize', Handed(2)')
    BY <1>6 DEF StoredFrames
  <2>12. x + (FrameHeader + b) < QueueBytes(3) /\ x \in Nat
    BY <1>5, <2>11
  <2>13. x < QueueBytes(3) => size[3] = x
    BY DEF StoredFrames
  <2> HIDE DEF x
  <2>14. size[3] = x
    BY <1>6, <2>8, <2>12, <2>13
  <2>15. PushBytes(3, x, FrameHeader) = x + FrameHeader
    BY <1>6, <2>8, <2>12 DEF PushBytes
  <2>16. PushBytes(3, x + FrameHeader, b) = x + FrameHeader + b
    BY <1>6, <2>8, <2>12 DEF PushBytes
  <2> QED
    BY <2>8, <2>9, <2>11, <2>12, <2>14, <2>15, <2>16
<1> QED
  BY <1>7, <1>8

-----------------------------------------------------------------------------
(* The end of the transfer. *)

(* trave_dir stops behind the last entry. *)
StaysInside == item <= Len(Traversal) + 1

(* A job of stage 3 is gone only when its block has been accepted. *)
AllAccepted ==
  posted = {n \in Blocks(3) : at[3][n] \in HandedOn}

BytesInv ==
  CutInv /\ StoredRecords /\ StoredFrames /\ StaysInside /\ AllAccepted

LEMMA NextInside ==
  ASSUME TypeInv, StaysInside, [Next]_vars
  PROVE  StaysInside'
<1>1. item' = item \/ (item' = item + 1 /\ item \in 1 .. Len(Traversal))
  <2>1. CASE trave_dir
    <3>1. CASE NextFile \/ EndDir
      BY <3>1, ScanItem DEF NextFile, EndDir
    <3>2. CASE ~(NextFile \/ EndDir)
      BY <2>1, <3>2 DEF trave_dir, AddBlock, TakeCredit, EndCredit, SetAddEnd, Count, Submit,
                        feedVars
    <3> QED
      BY <3>1, <3>2
  <2>2. CASE run_compressQueue1 \/ run_transferQueue1
    BY <2>2 DEF run_compressQueue1, run_transferQueue1, RunQueue, CheckEnd, Pop, Store, Cut,
                Overrun, CutDone, TakeCredit, EndCredit, SetAddEnd, Count, Submit, feedVars
  <2>3. CASE \E n \in JobIds : readFile(n) \/ compress_func(n) \/ transfer(n)
    BY <2>3 DEF readFile, compress_func, transfer, ReadBlock, CompressBlock, PostBlock,
                PushBlock, PushEnd, Leave, workVars, feedVars
  <2>4. CASE monitor
    BY <2>4 DEF monitor, finish, CheckQuit, FinishLock, FinishTest, SetControl,
                restVars, feedVars
  <2>5. CASE MainWait \/ Ended \/ UNCHANGED vars
    BY <2>5 DEF MainWait, Ended, vars, feedVars
  <2> QED
    BY <2>1, <2>2, <2>3, <2>4, <2>5 DEF Next
<1> QED
  BY <1>1, SizeFacts DEF StaysInside, TypeInv, TypeOK

(* If the server accepts every POST, a job of stage 3 that has left is     *)
(* one whose block was accepted.                                           *)
LEMMA AcceptedFrame ==
  ASSUME AllAccepted, posted' = posted,
         \A n \in JobIds :
           (n \in Blocks(3)' /\ at'[3][n] \in HandedOn) <=>
           (n \in Blocks(3) /\ at[3][n] \in HandedOn)
  PROVE  AllAccepted'
<1>1. \A n \in Blocks(3) \cup Blocks(3)' : n \in JobIds
  BY DEF Blocks
<1> QED
  BY <1>1 DEF AllAccepted

LEMMA AcceptedMove ==
  ASSUME TypeInv, AllAccepted, NEW s \in Stages, NEW n \in JobIds, NEW to \in JobPC,
         Move(s, n, to), posted' = posted, kind' = kind, at[s][n] # "none", to # "none",
         s = 3 /\ kind[3][n] = "data" => (at[s][n] \in HandedOn <=> to \in HandedOn)
  PROVE  AllAccepted'
<1>1. /\ at'[s] = [at[s] EXCEPT ![n] = to]
      /\ at[s] \in [JobIds -> JobPC]
      /\ \A t \in Stages \ {s} : at'[t] = at[t]
  BY MoveFacts
<1>2. CASE s = 3
  BY <1>1, <1>2, AcceptedFrame DEF Blocks
<1>3. CASE s # 3
  BY <1>1, <1>3, StageNumbers, AcceptedFrame DEF Blocks
<1> QED
  BY <1>2, <1>3

LEMMA AcceptedMake ==
  ASSUME TypeInv, HandOffParts, AllAccepted, NEW s \in Stages, NEW k \in JobKind,
         NEW b, NEW p, Make(s, k, b, p), posted' = posted
  PROVE  AllAccepted'
<1> DEFINE n == made[s] + 1
<1>1. /\ n \in JobIds
      /\ kind' = [kind EXCEPT ![s][n] = k]
      /\ at' = [at EXCEPT ![s][n] = "made"]
  BY DEF Make, Move
<1>2. at[s][n] = "none"
  BY <1>1, BytesTypes DEF HandOffParts, JobsInOrder
<1> HIDE DEF n
<1>3. /\ kind'[s] = [kind[s] EXCEPT ![n] = k]
      /\ at'[s] = [at[s] EXCEPT ![n] = "made"]
      /\ \A t \in Stages \ {s} : kind'[t] = kind[t] /\ at'[t] = at[t]
      /\ kind[s] \in [JobIds -> JobKind] /\ at[s] \in [JobIds -> JobPC]
  BY <1>1 DEF TypeInv, TypeOK
<1>4. CASE s = 3
  BY <1>1, <1>2, <1>3, <1>4, AcceptedFrame DEF Blocks, HandedOn
<1>5. CASE s # 3
  BY <1>3, <1>5, StageNumbers, AcceptedFrame DEF Blocks
<1> QED
  BY <1>4, <1>5

LEMMA NextAccepted ==
  ASSUME PostOutcomes = {TRUE}, TypeInv, HandOffParts, RefinementParts, AllAccepted,
         [Next]_vars
  PROVE  AllAccepted'
<1>1. CASE trave_dir \/ run_compressQueue1 \/ run_transferQueue1
  <2>1. ASSUME NEW t \in Stages, AdvanceStep(t)
        PROVE  AllAccepted'
    <3>1. kind' = kind /\ at' = at
      BY <2>1, AdvanceFacts
    <3>2. posted' = posted
      BY <2>1 DEF AdvanceStep, TakeCredit, SetAddEnd, NextFile, EndDir, CheckEnd, Store,
                  Overrun, CutDone, scanVars
    <3> QED
      BY <3>1, <3>2, AcceptedFrame DEF Blocks
  <2>2. ASSUME NEW t \in Stages, Count(t) \/ Submit(t)
        PROVE  AllAccepted'
    <3>1. PICK to \in {"counted", "queued"} :
            /\ made[t] \in JobIds
            /\ Move(t, made[t], to)
            /\ at[t][made[t]] \in {"made", "counted"}
            /\ kind' = kind
      BY <2>2, SubmitFacts
    <3>2. posted' = posted
      BY <2>2 DEF Count, Submit
    <3> QED
      BY <3>1, <3>2, AcceptedMove DEF JobPC, HandedOn
  <2>3. ASSUME NEW t \in Stages,
               EndCredit(t) \/ (t = 1 /\ AddBlock) \/ (t # 1 /\ Cut(t))
        PROVE  AllAccepted'
    <3>1. posted' = posted /\ \E k \in JobKind : \E b, p : Make(t, k, b, p)
      BY <2>3 DEF EndCredit, AddBlock, Cut, JobKind
    <3> QED
      BY <3>1, AcceptedMake
  <2>4. ASSUME NEW t \in {2, 3}, Pop(t)
        PROVE  AllAccepted'
    BY <2>4, AcceptedFrame DEF Pop, Blocks, jobVars
  <2> QED
    BY <1>1, <2>1, <2>2, <2>3, <2>4, FeederCases, Zenon
<1>2. ASSUME NEW n \in JobIds, readFile(n) \/ compress_func(n) \/ transfer(n)
      PROVE  AllAccepted'
  <2>1. CASE PostBlock(n)
    <3>1. /\ kind[3][n] = "data" /\ at[3][n] = "queued" /\ kind' = kind
          /\ posted' = posted \cup {n}
          /\ Move(3, n, "leave")
      BY <2>1 DEF PostBlock, CanStart, workVars, jobVars
    <3>2. at'[3] = [at[3] EXCEPT ![n] = "leave"] /\ at[3] \in [JobIds -> JobPC]
      BY <3>1, StageNumbers DEF Move, TypeInv, TypeOK
    <3> QED
      BY <3>1, <3>2 DEF AllAccepted, Blocks, HandedOn
  <2>2. CASE ReadBlock(n) \/ CompressBlock(n)
    <3>1. \E s \in {1, 2} : Move(s, n, "push") /\ at[s][n] = "queued"
      BY <2>2 DEF ReadBlock, CompressBlock, CanStart
    <3>2. posted' = posted /\ kind' = kind
      BY <2>2 DEF ReadBlock, CompressBlock, workVars, jobVars
    <3> QED
      BY <3>1, <3>2, StageNumbers, AcceptedMove DEF JobPC
  <2>3. ASSUME NEW s \in {1, 2}, PushBlock(s, n) \/ PushEnd(s, n)
        PROVE  AllAccepted'
    <3>1. /\ posted' = posted /\ kind' = kind
          /\ at[s][n] # "none" /\ s \in Stages /\ s # 3
          /\ \E to \in {"leave", "done"} : Move(s, n, to)
      BY <2>3, StageNumbers DEF PushBlock, PushEnd, workVars, jobVars
    <3> QED
      BY <3>1, AcceptedMove DEF JobPC
  <2>4. ASSUME NEW s \in Stages, Leave(s, n)
        PROVE  AllAccepted'
    <3>1. /\ posted' = posted /\ kind' = kind
          /\ at[s][n] = "leave" \/ (at[s][n] = "queued" /\ kind[s][n] # "data")
          /\ \E to \in {"pushEnd", "done"} : Move(s, n, to)
      BY <2>4 DEF Leave, CanStart, workVars, jobVars
    <3> QED
      BY <3>1, AcceptedMove DEF JobPC, HandedOn
  <2> QED
    BY <1>2, <2>1, <2>2, <2>3, <2>4, StageNumbers, Zenon DEF readFile, compress_func, transfer
<1>3. CASE monitor \/ MainWait \/ Ended \/ UNCHANGED vars
  <2>1. UNCHANGED <<at, kind, posted>>
    <3>1. CASE monitor
      BY <3>1 DEF monitor, finish, CheckQuit, FinishLock, FinishTest, SetControl,
                  restVars, jobVars
    <3>2. CASE MainWait \/ Ended \/ UNCHANGED vars
      BY <3>2 DEF MainWait, Ended, vars, jobVars
    <3> QED
      BY <1>3, <3>1, <3>2
  <2> QED
    BY <2>1, AcceptedFrame DEF Blocks
<1> QED
  BY <1>1, <1>2, <1>3 DEF Next

LEMMA InitBytes == PostOutcomes = {TRUE} /\ Init => BytesInv
<1> SUFFICES ASSUME Init PROVE BytesInv
  OBVIOUS
<1>1. Handed(1) = {} /\ Handed(2) = {} /\ Blocks(3) = {} /\ size[2] = 0 /\ size[3] = 0
  BY StageNumbers DEF Init, Handed, Blocks
<1>2. StoredRecords
  <2>1. Cardinality({}) = 0 /\ 0 * Block1Bytes = 0
    BY FS_EmptySet, SizesAssumption
  <2> QED
    BY <1>1, <2>1 DEF StoredRecords
<1>3. StoredFrames
  <2>1. Sum(FrameSize, {}) = 0
    BY FS_EmptySet, SumIs
  <2> QED
    BY <1>1, <2>1 DEF StoredFrames
<1>4. StaysInside /\ AllAccepted
  BY <1>1, SizeFacts DEF Init, StaysInside, AllAccepted
<1> QED
  BY <1>2, <1>3, <1>4, InitCut DEF BytesInv

LEMMA BytesInvariant ==
  ASSUME Flat, FilesFit, PostOutcomes = {TRUE}
  PROVE  Spec => []BytesInv
<1>1. /\ TypeInv /\ HandOffParts /\ RefinementParts /\ TypeInv' /\ BytesInv /\ [Next]_vars
      => BytesInv'
  <2> SUFFICES ASSUME TypeInv, HandOffParts, RefinementParts, TypeInv', BytesInv, [Next]_vars
               PROVE  BytesInv'
    OBVIOUS
  <2>1. CutInv'
    BY NextCut DEF BytesInv
  <2>2. StoredRecords' /\ StoredFrames'
    BY NextRecords, NextFrames DEF BytesInv
  <2>3. StaysInside' /\ AllAccepted'
    BY NextInside, NextAccepted DEF BytesInv
  <2> QED
    BY <2>1, <2>2, <2>3 DEF BytesInv
<1>2. Init => BytesInv
  BY InitBytes
<1> QED
  BY <1>1, <1>2, RefinementInvariant, PTL DEF Spec

(* Neither block1Storage nor the queue to stage 3 has come to its limit.   *)
RoomForAll ==
  /\ Cardinality(Blocks(1)) < StorageCap[1]
  /\ Sum(FrameSize, Blocks(2)) < QueueBytes(3)

(* Sums over the blocks, as EverythingSent writes them. *)
LEMMA BlockSums ==
  /\ \A s \in Stages, S \in SUBSET JobIds : BytesOf(s, S) = Sum(bytes[s], S)
  /\ FileBytes = Sum(Traversal, {i \in 1 .. Len(Traversal) : Traversal[i] # DirEnd})
  /\ \A S \in SUBSET JobIds :
       Sets!MapThenSumSet(LAMBDA n : FrameHeader + FrameBytes + out[n], S)
         = Sum([n \in S |-> FrameHeader + FrameBytes + out[n]], S)
<1>1. \A s \in Stages, S \in SUBSET JobIds : BytesOf(s, S) = Sum(bytes[s], S)
  BY DEF BytesOf, Sum, IsFold, FoldStep, Pick, Sets!MapThenSumSet, Sets!MapThenFoldSet
<1>2. FileBytes = Sum(Traversal, {i \in 1 .. Len(Traversal) : Traversal[i] # DirEnd})
  BY DEF FileBytes, Sum, IsFold, FoldStep, Pick, Sets!MapThenSumSet, Sets!MapThenFoldSet
<1>3. \A S \in SUBSET JobIds :
       Sets!MapThenSumSet(LAMBDA n : FrameHeader + FrameBytes + out[n], S)
         = Sum([n \in S |-> FrameHeader + FrameBytes + out[n]], S)
  BY DEF Sum, IsFold, FoldStep, Pick, Sets!MapThenSumSet, Sets!MapThenFoldSet
<1> QED
  BY <1>1, <1>2, <1>3

(* At the end of the program every stage has cut its end job, so its input *)
(* is used up.                                                             *)
LEMMA AllIsCut ==
  ASSUME TypeInv, HandOffParts, QuitAfterEnd, OverMeansIdle, BytesInv, main = 7
  PROVE  /\ item = Len(Traversal) + 1
         /\ \A s \in {2, 3} : Sum(bytes[s], JobIds) = size[s]
<1>1. monPC = "quit"
  BY DEF OverMeansIdle
<1>2. draining[2] /\ draining[3]
  BY <1>1, QuitMeansDrained
<1>3. end_flag[1] /\ end_flag[2]
  <2>1. \A s \in {2, 3} : draining[s] => end_flag[s - 1]
    BY StageNumbers DEF HandOffParts, EndIsLast
  <2>2. end_flag[2 - 1] /\ end_flag[3 - 1]
    BY <1>2, <2>1
  <2> QED
    BY <2>2
<1>4. add_end[1] /\ add_end[2] /\ add_end[3]
  BY <1>1, <1>3, StageNumbers DEF HandOffParts, EndFlagIsFinal, QuitAfterEnd
<1>5. \A s \in Stages : EndCut(s)
  BY <1>4 DEF HandOffParts, EndIsLast, Stages
<1>6. item > Len(Traversal)
  BY <1>5, StageNumbers DEF HandOffParts, EndIsLast
<1>7. \A s \in {2, 3} : popSize[s] = size[s]
  BY <1>5, StageNumbers DEF BytesInv, CutInv, UsedUpAtEnd
<1>8. item = Len(Traversal) + 1
  BY <1>6, SizeFacts DEF BytesInv, StaysInside, TypeInv, TypeOK
<1>9. \A s \in {2, 3} : Sum(bytes[s], JobIds) = size[s]
  BY <1>7 DEF BytesInv, CutInv, CutFromQueue
<1> QED
  BY <1>8, <1>9

(* All bytes that a stage has cut are those of its blocks.                 *)
LEMMA BytesOfBlocks ==
  ASSUME TypeInv, CutInv, NEW s \in Stages,
         s = 1 => Cardinality(Blocks(1)) < StorageCap[1]
  PROVE  Sum(bytes[s], Blocks(s)) = Sum(bytes[s], JobIds)
<1> DEFINE g == bytes[s]
           T == Blocks(s)
<1>1. \A n \in JobIds : g[n] \in Nat
  BY BytesTypes
<1>2. T \in SUBSET JobIds
  BY DEF Blocks
<1>3. Cardinality(Blocks(1)) \in Nat /\ StorageCap[1] \in Nat
  BY JobIdsFinite, SizesAssumption, StageNumbers DEF Blocks
<1>4. \A n \in JobIds \ T : g[n] = 0
  <2> SUFFICES ASSUME NEW n \in JobIds \ T
               PROVE  g[n] = 0
    OBVIOUS
  <2>1. at[s][n] = "none" \/ kind[s][n] # "data"
    BY DEF Blocks
  <2>2. kind[s][n] \in JobKind
    BY BytesTypes
  <2>3. at[s][n] = "none" \/ kind[s][n] # "null"
    BY <1>3 DEF CutInv, NullMeansFull
  <2> QED
    BY <2>1, <2>2, <2>3 DEF CutInv, NoBytes, JobKind
<1> HIDE DEF g, T
<1>5. Sum(g, T) = Sum(g, JobIds)
  BY <1>1, <1>2, <1>4, SizeFacts, SumPart
<1> QED
  BY <1>5 DEF g, T

LEMMA FilesRead ==
  ASSUME TypeInv, BytesInv, item = Len(Traversal) + 1
  PROVE  Sum(bytes[1], JobIds) = FileBytes
<1> DEFINE S == 1 .. Len(Traversal)
           F == {i \in S : Traversal[i] # DirEnd}
           f == FileSize
           g == Traversal
<1>1. IsFiniteSet(S) /\ IsFiniteSet(F) /\ F \in SUBSET S
  <2>1. IsFiniteSet(S)
    <3>1. Len(Traversal) \in Int
      BY SizeFacts
    <3> QED
      BY <3>1, EntriesFinite
  <2> QED
    BY <2>1, FS_Subset
<1>2. /\ \A i \in S : f[i] \in Nat
      /\ \A i \in F : g[i] = f[i]
      /\ \A i \in S \ F : f[i] = 0
  <2>1. \A i \in S : f[i] \in Nat
    BY SizeFacts
  <2>2. (\A i \in F : g[i] = f[i]) /\ (\A i \in S \ F : f[i] = 0)
    BY DEF FileSize
  <2> QED
    BY <2>1, <2>2
<1>3. Sum(bytes[1], JobIds) = Sum(f, 1 .. item - 1) + ReadOf(item, offset)
  BY DEF BytesInv, CutInv, CutFromFiles, BytesRead
<1>4. ReadOf(item, offset) = 0 /\ item - 1 = Len(Traversal)
  BY SizeFacts DEF ReadOf
<1>5. FileBytes = Sum(g, F)
  BY BlockSums
<1> HIDE DEF f, g, F
<1>6. Sum(f, S) \in Nat
  BY <1>1, <1>2, SumType
<1>7. Sum(bytes[1], JobIds) = Sum(f, S)
  BY <1>3, <1>4, <1>6
<1> HIDE DEF S
<1>8. Sum(g, F) = Sum(f, F) /\ Sum(f, F) = Sum(f, S)
  BY <1>1, <1>2, SumSame, SumPart
<1> QED
  BY <1>5, <1>7, <1>8

(* Whatever the interleaving of feeders, jobs and monitor, and whatever    *)
(* the sizes of files, blocks and compressed blocks: if every file has its *)
(* place in fileStorage, the server accepts what is posted and neither     *)
(* block1Storage nor the queue to stage 3 has come to its limit, then no   *)
(* byte is lost or sent twice.                                             *)
THEOREM EverythingSentCorrect ==
  ASSUME Flat, FilesFit, PostOutcomes = {TRUE}
  PROVE  Spec => [](RoomForAll => EverythingSent)
<1>1. TypeInv /\ HandOffParts /\ QuitAfterEnd /\ OverMeansIdle /\ BytesInv
      => (RoomForAll => EverythingSent)
  <2> SUFFICES ASSUME TypeInv, HandOffParts, QuitAfterEnd, OverMeansIdle, BytesInv,
                      RoomForAll, main = 7
               PROVE  /\ BytesOf(1, Blocks(1)) = FileBytes
                      /\ BytesOf(2, Blocks(2)) = Cardinality(Blocks(1)) * Block1Bytes
                      /\ BytesOf(3, posted) =
                           Sets!MapThenSumSet(LAMBDA n : FrameHeader + FrameBytes + out[n],
                                              Blocks(2))
    BY DEF EverythingSent
  <2>1. \A s \in Stages : Blocks(s) \in SUBSET JobIds
    BY DEF Blocks
  <2>2. \A s \in Stages : BytesOf(s, Blocks(s)) = Sum(bytes[s], JobIds)
    BY <2>1, BlockSums, BytesOfBlocks DEF RoomForAll, BytesInv
  <2>3. /\ Sum(bytes[1], JobIds) = FileBytes
        /\ Sum(bytes[2], JobIds) = size[2] /\ Sum(bytes[3], JobIds) = size[3]
    BY AllIsCut, FilesRead
  <2>4. Handed(1) = Blocks(1) /\ Handed(2) = Blocks(2)
    BY EndLeavesNothing
  <2>5. size[2] = Cardinality(Blocks(1)) * Block1Bytes
    BY <2>4 DEF RoomForAll, BytesInv, StoredRecords
  <2>6. size[3] = Sum(FrameSize, Blocks(2))
    BY <2>4 DEF RoomForAll, BytesInv, StoredFrames
  <2>7. posted = Blocks(3)
    BY StageNumbers DEF BytesInv, AllAccepted, Blocks, OverMeansIdle, HandedOn
  <2>8. Sets!MapThenSumSet(LAMBDA n : FrameHeader + FrameBytes + out[n], Blocks(2))
          = Sum(FrameSize, Blocks(2))
    <3> DEFINE S == Blocks(2)
               f == [n \in S |-> FrameHeader + FrameBytes + out[n]]
               g == FrameSize
    <3>1. S \in SUBSET JobIds /\ IsFiniteSet(S)
      BY JobIdsFinite DEF Blocks
    <3>2. \A n \in S : f[n] = g[n]
      BY <3>1, FrameSizes
    <3>3. Sets!MapThenSumSet(LAMBDA n : FrameHeader + FrameBytes + out[n], S) = Sum(f, S)
      BY <3>1, BlockSums
    <3> HIDE DEF S, f, g
    <3>4. Sum(f, S) = Sum(g, S)
      BY <3>1, <3>2, SumSame
    <3>5. Sets!MapThenSumSet(LAMBDA n : FrameHeader + FrameBytes + out[n], S) = Sum(g, S)
      BY <3>3, <3>4
    <3> QED
      BY <3>5 DEF S, g
  <2> QED
    BY <2>2, <2>3, <2>5, <2>6, <2>7, <2>8, StageNumbers
<1> QED
  BY <1>1, BytesInvariant, RefinementInvariant, QuitAfterEndAlways, OverMeansIdleCorrect, PTL
=============================================================================
