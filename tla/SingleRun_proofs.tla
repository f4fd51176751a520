-------------------------- MODULE SingleRun_proofs --------------------------
(***************************************************************************)
(* That main frees no memory a job still uses, that no storage, queue or   *)
(* pool of the sequential program is ever beyond its bounds, and that the  *)
(* tests read back what was in the files, for any files, sizes, capacities *)
(* and numbers of threads.                                                 *)
(***************************************************************************)
EXTENDS SingleRun, Frames_proofs, FiniteSetTheorems

Room == cap.b2 * block2Size + Slack

Job == [op : {"readFile", "compress_func", "copy", "transfer"}, n : Nat \ {0}]

Work == running \cup ToSet(jobs)

Types ==
  /\ i \in Nat \ {0}
  /\ block1Storage \in Seq(Block1)
  /\ block2Storage \in Seq(Block2)
  /\ block3Storage \in Seq(Seq(Byte))
  /\ compressQueue1 \in Seq(Byte)
  /\ transferQueue1 \in Seq(Byte)
  /\ compressedBuffer \in [1 .. Room -> Byte2]
  /\ jobs \in Seq(Job)
  /\ running \subseteq Job /\ IsFiniteSet(running)

(* The block of a job is in its storage, and what it copies in the buffer. *)
JobsFit ==
  \A j \in Work :
    /\ j.op = "readFile" => j.n <= Len(block1Storage)
    /\ j.op \in {"compress_func", "copy"} => j.n <= Len(block2Storage)
    /\ j.op = "transfer" => j.n <= Len(block3Storage)
    /\ j.op = "copy" => dst(j.n - 1) + block2Storage[j.n].blockSize <= Room

(* The jobs there are while main is at a place, and what is allocated then *)
Stage(ops, needed) ==
  /\ \A j \in Work : j.op \in ops
  /\ needed \subseteq allocated

StageOK ==
  /\ pc \in {"solve1", "wait1"} => Stage({"readFile"}, Memory1)
  /\ pc = "push" => Stage({}, Memory1 \cup Memory2)
  /\ pc \in {"solve2", "wait2"} => Stage({"compress_func", "copy"}, Memory1 \cup Memory2)
  /\ pc = "frame" => Stage({}, Memory3)
  /\ pc \in {"solve3", "wait3"} => Stage({"transfer"}, Memory3)
  /\ pc = "over" => Stage({}, {})
  /\ NoUseAfterFree

SingleInv == TypeOK /\ Types /\ JobsFit /\ StageOK
-----------------------------------------------------------------------------
LEMMA CapSizes ==
  ASSUME cap \in Capacities
  PROVE  /\ cap.f \in Nat \ {0} /\ cap.b1 \in Nat \ {0}
         /\ cap.b2 \in Nat \ {0} /\ cap.b3 \in Nat \ {0}
         /\ cap.b1 * block1Bytes \in Nat \ {0}
         /\ cap.b2 * block2Bytes \in Nat \ {0}
         /\ Room \in Nat
<1>1. /\ cap.f \in Nat \ {0} /\ cap.b1 \in Nat \ {0}
      /\ cap.b2 \in Nat \ {0} /\ cap.b3 \in Nat \ {0}
  BY SingleAssumption
<1>2. /\ cap.b1 * block1Bytes \in Nat \ {0}
      /\ cap.b2 * block2Bytes \in Nat \ {0}
      /\ cap.b2 * block2Size \in Nat
  BY <1>1, Sizes, Products
<1> QED
  BY <1>1, <1>2, Sizes DEF Room

(* The jobs of a queue that one joins, or that one leaves *)
LEMMA QueueSet ==
  ASSUME NEW S, NEW q \in Seq(S)
  PROVE  /\ ToSet(q) \subseteq S
         /\ \A x \in S : Append(q, x) \in Seq(S) /\ ToSet(Append(q, x)) = ToSet(q) \cup {x}
         /\ q # <<>> => /\ Head(q) \in S /\ Tail(q) \in Seq(S)
                        /\ ToSet(q) = {Head(q)} \cup ToSet(Tail(q))
         /\ q = <<>> => ToSet(q) = {}
<1>1. DOMAIN q = 1 .. Len(q) /\ Len(q) \in Nat /\ \A k \in 1 .. Len(q) : q[k] \in S
  BY LenProperties, ElementOfSeq
<1>2. ToSet(q) \subseteq S
  BY <1>1 DEF ToSet
<1>3. ASSUME NEW x \in S
      PROVE  Append(q, x) \in Seq(S) /\ ToSet(Append(q, x)) = ToSet(q) \cup {x}
  <2>1. /\ Append(q, x) \in Seq(S) /\ Len(Append(q, x)) = Len(q) + 1
        /\ \A k \in 1 .. Len(q) : Append(q, x)[k] = q[k]
        /\ Append(q, x)[Len(q) + 1] = x
    BY AppendProperties
  <2>2. DOMAIN Append(q, x) = 1 .. Len(q) + 1
    BY <2>1, LenProperties
  <2> DEFINE w == Append(q, x)
  <2> HIDE DEF w
  <2>3. /\ DOMAIN w = 1 .. Len(q) + 1
        /\ \A k \in 1 .. Len(q) : w[k] = q[k]
        /\ w[Len(q) + 1] = x
    BY <2>1, <2>2 DEF w
  <2>4. ToSet(w) = ToSet(q) \cup {x}
    BY <1>1, <2>3 DEF ToSet
  <2> QED
    BY <2>1, <2>4 DEF w
<1>4. ASSUME q # <<>>
      PROVE  /\ Head(q) \in S /\ Tail(q) \in Seq(S)
             /\ ToSet(q) = {Head(q)} \cup ToSet(Tail(q))
  <2>1. /\ Head(q) \in S /\ Tail(q) \in Seq(S) /\ Len(Tail(q)) = Len(q) - 1
        /\ \A k \in 1 .. Len(Tail(q)) : Tail(q)[k] = q[k + 1]
    BY <1>4, HeadTailProperties
  <2>2. Head(q) = q[1] /\ Len(q) \in Nat \ {0}
    BY <1>1, <1>4
  <2>3. DOMAIN Tail(q) = 1 .. Len(q) - 1
    BY <2>1, LenProperties
  <2> DEFINE h == Head(q)
             w == Tail(q)
  <2> HIDE DEF h, w
  <2>4. /\ h = q[1] /\ DOMAIN w = 1 .. Len(q) - 1
        /\ \A k \in 1 .. Len(q) - 1 : w[k] = q[k + 1]
    BY <2>1, <2>2, <2>3 DEF h, w
  <2>5. ToSet(q) \subseteq {h} \cup ToSet(w)
    <3> SUFFICES ASSUME NEW k \in 1 .. Len(q) PROVE q[k] = h \/ q[k] \in ToSet(w)
      BY <1>1 DEF ToSet
    <3>1. CASE k = 1
      BY <2>4, <3>1
    <3>2. CASE k # 1
      <4>1. k - 1 \in 1 .. Len(q) - 1 /\ (k - 1) + 1 = k
        BY <1>1, <3>2
      <4> QED
        BY <2>4, <4>1 DEF ToSet
    <3> QED
      BY <3>1, <3>2
  <2>6. {h} \cup ToSet(w) \subseteq ToSet(q)
    <3>1. h \in ToSet(q)
      BY <1>1, <2>2, <2>4 DEF ToSet
    <3>2. ASSUME NEW k \in 1 .. Len(q) - 1 PROVE w[k] \in ToSet(q)
      <4>1. k + 1 \in 1 .. Len(q)
        BY <1>1
      <4> QED
        BY <1>1, <2>4, <4>1 DEF ToSet
    <3> QED
      BY <2>4, <3>1, <3>2 DEF ToSet
  <2> QED
    BY <2>1, <2>5, <2>6 DEF h, w
<1>5. q = <<>> => ToSet(q) = {}
  BY <1>1 DEF ToSet
<1> QED
  BY <1>2, <1>3, <1>4, <1>5

LEMMA WorkOfPool ==
  ASSUME Types
  PROVE  /\ Work \subseteq Job
         /\ Idle => Work = {}
         /\ running \subseteq Work
<1>1. ToSet(jobs) \subseteq Job /\ (jobs = <<>> => ToSet(jobs) = {})
  BY QueueSet DEF Types
<1> QED
  BY <1>1 DEF Work, Types, Idle

LEMMA UsesOf ==
  /\ Uses("readFile") = {"block1Storage"}
  /\ Uses("transfer") = {"block3Storage"}
  /\ Uses("compress_func") = {"compressQueue1"} \cup Memory2
  /\ Uses("copy") = {"compressQueue1"} \cup Memory2
  BY DEF Uses

(* A stage gives its pool a job that uses what is allocated for the stage. *)
LEMMA Submit ==
  ASSUME SingleInv, NEW op, NEW n, [op |-> op, n |-> n] \in Job,
         thpool_add_work(op, n), UNCHANGED <<running, allocated>>,
         \/ pc = "solve1" /\ pc' = "solve1" /\ op = "readFile"
         \/ pc \in {"push", "solve2"} /\ pc' = "solve2" /\ op = "compress_func"
         \/ pc \in {"frame", "solve3"} /\ pc' = "solve3" /\ op = "transfer"
  PROVE  /\ jobs' \in Seq(Job) /\ Work' = Work \cup {[op |-> op, n |-> n]}
         /\ StageOK'
<1> DEFINE j == [op |-> op, n |-> n]
<1>1. jobs' \in Seq(Job) /\ Work' = Work \cup {j}
  BY QueueSet DEF SingleInv, Types, Work, thpool_add_work
<1>2. j.op = op
  OBVIOUS
<1> HIDE DEF j
<1>3. Uses(op) \subseteq allocated
  BY UsesOf DEF SingleInv, StageOK, Stage, Memory1, Memory2, Memory3
<1>4. NoUseAfterFree'
  BY <1>1, <1>2, <1>3 DEF SingleInv, StageOK, NoUseAfterFree, Work
<1>5. StageOK'
  BY <1>1, <1>2, <1>4 DEF SingleInv, StageOK, Stage
<1> QED
  BY <1>1, <1>5 DEF j

(* A step that gives no pool a job, and frees nothing *)
LEMMA NoSubmit ==
  ASSUME SingleInv, Work' \subseteq Work, UNCHANGED allocated,
         \/ pc' \in {pc, "stop"}
         \/ pc = "solve1" /\ pc' = "wait1"
         \/ pc \in {"push", "solve2"} /\ pc' = "wait2"
         \/ pc \in {"frame", "solve3"} /\ pc' = "wait3"
  PROVE  StageOK'
<1>1. NoUseAfterFree'
  BY DEF SingleInv, StageOK, NoUseAfterFree, Work
<1> QED
  BY <1>1 DEF SingleInv, StageOK, Stage, TypeOK, Places
-----------------------------------------------------------------------------
LEMMA SingleInit ==
  ASSUME Init PROVE SingleInv
<1>1. /\ THREAD_NUM \in Threads /\ cap \in Capacities
      /\ pc = "solve1" /\ i = 1 /\ posFile = 0
      /\ block1Storage = <<>> /\ compressQueue1 = <<>>
      /\ compressedBuffer = [k \in 1 .. Room |-> NoByte]
      /\ block2Storage = <<>> /\ transferQueue1 = <<>> /\ block3Storage = <<>>
      /\ jobs = <<>> /\ running = {} /\ allocated = Memory1
      /\ served = {} /\ lost = FALSE
  BY DEF Init, Room
<1>2. /\ cap.b1 \in Nat \ {0} /\ cap.b2 \in Nat \ {0} /\ cap.b3 \in Nat \ {0}
      /\ cap.b1 * block1Bytes \in Nat \ {0}
      /\ cap.b2 * block2Bytes \in Nat \ {0}
      /\ Room \in Nat
  BY <1>1, CapSizes
<1>3. \A S : <<>> \in Seq(S) /\ Len(<<>>) = 0
  OBVIOUS
<1>4. Cardinality(running) <= THREAD_NUM /\ IsFiniteSet(running)
  BY <1>1, FS_EmptySet, SingleAssumption
<1>5. TypeOK
  <2>1. /\ Len(block1Storage) <= cap.b1 /\ Len(block2Storage) <= cap.b2
        /\ Len(block3Storage) <= cap.b3
    BY <1>1, <1>2, <1>3
  <2>2. /\ Len(compressQueue1) < cap.b1 * block1Bytes
        /\ Len(transferQueue1) < cap.b2 * block2Bytes
    BY <1>1, <1>2, <1>3
  <2>3. /\ pc \in Places /\ {i, posFile} \subseteq Nat /\ lost \in BOOLEAN
        /\ allocated \subseteq Memory1 \cup Memory2 \cup Memory3
    <3>1. pc \in Places /\ i \in Nat /\ posFile \in Nat
      BY <1>1 DEF Places
    <3>2. lost \in BOOLEAN
      BY <1>1, Zenon
    <3>3. allocated \subseteq Memory1 \cup Memory2 \cup Memory3
      BY <1>1
    <3> QED
      BY <3>1, <3>2, <3>3
  <2>4. THREAD_NUM \in Threads /\ cap \in Capacities
        /\ served \subseteq DOMAIN block3Storage
    BY <1>1
  <2> QED
    BY <1>4, <2>1, <2>2, <2>3, <2>4 DEF TypeOK
<1>6. Types
  <2>1. NoByte \in Byte2
    BY DEF Byte2
  <2>2. compressedBuffer \in [1 .. Room -> Byte2]
    BY <1>1, <2>1
  <2>3. /\ block1Storage \in Seq(Block1) /\ block2Storage \in Seq(Block2)
        /\ block3Storage \in Seq(Seq(Byte)) /\ compressQueue1 \in Seq(Byte)
        /\ transferQueue1 \in Seq(Byte) /\ jobs \in Seq(Job)
    BY <1>1, <1>3
  <2> QED
    BY <1>1, <1>4, <2>2, <2>3 DEF Types
<1>7. Work = {}
  BY <1>1, <1>6, WorkOfPool DEF Idle
<1>8. StageOK
  BY <1>1, <1>7 DEF StageOK, Stage, NoUseAfterFree, Work
<1> QED
  BY <1>5, <1>6, <1>7, <1>8 DEF SingleInv, JobsFit

LEMMA AddFileInv ==
  ASSUME SingleInv, addFile PROVE SingleInv'
<1> DEFINE size == Files[i].size - posFile
           b == [block1(i, posFile, <<>>) EXCEPT !.blockSize = Least(size, block1Size)]
<1>1. /\ pc = "solve1" /\ i <= Len(Files)
      /\ UNCHANGED <<setting, compressQueue1, compressedBuffer, block2Storage,
                     transferQueue1, block3Storage, allocated, served, running>>
  BY DEF addFile, pool
<1>2. /\ i \in Nat \ {0} /\ posFile \in Nat /\ lost \in BOOLEAN
      /\ cap \in Capacities /\ fileStorage_full \in BOOLEAN
  BY DEF SingleInv, TypeOK, Types, fileStorage_full
<1>3. size \in Int
  <2>1. Files[i] \in [dir : Nat, name : Nat, size : Nat]
    <3> DEFINE File == [dir : Nat, name : Nat, size : Nat]
    <3> HIDE DEF File
    <3>1. Files \in Seq(File) /\ Len(Files) \in Nat
      BY FramesAssumption, LenProperties DEF File
    <3>2. i \in 1 .. Len(Files)
      BY <1>1, <1>2, <3>1
    <3> QED
      BY <3>1, <3>2, ElementOfSeq DEF File
  <2> QED
    BY <1>2, <2>1
<1>4. CASE /\ UNCHANGED <<block1Storage, pool>> /\ lost' \in BOOLEAN
           /\ \/ i' = i + 1 /\ posFile' = 0 /\ pc' = pc
              \/ UNCHANGED <<i, posFile>> /\ pc' = "stop"
  <2>1. i' \in Nat \ {0} /\ posFile' \in Nat
    BY <1>2, <1>4
  <2>2. TypeOK' /\ Types'
    BY <1>1, <1>4, <2>1 DEF SingleInv, TypeOK, Types, setting, pool, Places, Room
  <2>3. Work' = Work
    BY <1>4 DEF Work, pool
  <2>4. JobsFit'
    BY <1>1, <1>4, <2>3 DEF SingleInv, JobsFit, Room, setting
  <2>5. StageOK'
    BY <1>1, <1>4, <2>3, NoSubmit
  <2> QED
    BY <2>2, <2>4, <2>5 DEF SingleInv
<1>5. CASE /\ ~(size <= 0) /\ ~block1Storage_full
           /\ block1Storage' = Append(block1Storage, b)
           /\ posFile' = posFile + block1Size
           /\ thpool_add_work("readFile", Len(block1Storage) + 1)
           /\ UNCHANGED <<pc, i, running, lost>>
  <2> DEFINE n == Len(block1Storage) + 1
  <2>1. b \in Block1
    <3>1. Least(size, block1Size) \in Nat
      BY <1>3, <1>5, Sizes DEF Least
    <3>2. <<>> \in Seq(Byte1) /\ Len(<<>>) = 0
      OBVIOUS
    <3> HIDE DEF size
    <3> QED
      BY <1>2, <3>1, <3>2 DEF block1, Block1
  <2> HIDE DEF b, size
  <2>2. block1Storage \in Seq(Block1) /\ Len(block1Storage) \in Nat
        /\ Len(block1Storage) <= cap.b1 /\ cap.b1 \in Nat
    BY <1>2, CapSizes, LenProperties DEF SingleInv, Types, TypeOK
  <2>3. block1Storage' \in Seq(Block1) /\ Len(block1Storage') = n
    BY <1>5, <2>1, <2>2, AppendProperties
  <2>4. Len(block1Storage') <= cap.b1
    BY <1>5, <2>2, <2>3 DEF block1Storage_full
  <2>5. n \in Nat \ {0} /\ [op |-> "readFile", n |-> n] \in Job
    BY <2>2 DEF Job
  <2>6. /\ jobs' \in Seq(Job) /\ Work' = Work \cup {[op |-> "readFile", n |-> n]}
        /\ StageOK'
    BY <1>1, <1>5, <2>5, Submit
  <2>7. posFile' \in Nat
    BY <1>2, <1>5, Sizes
  <2>8. TypeOK' /\ Types'
    BY <1>1, <1>5, <2>3, <2>4, <2>6, <2>7
    DEF SingleInv, TypeOK, Types, setting, Room
  <2>9. JobsFit'
    <3>1. \A j \in Work : j.op = "readFile" => j.n <= Len(block1Storage')
      <4>1. Work \subseteq Job
        BY WorkOfPool DEF SingleInv
      <4> QED
        BY <2>2, <2>3, <4>1 DEF SingleInv, JobsFit, Job
    <3> QED
      BY <1>1, <2>3, <2>5, <2>6, <3>1 DEF SingleInv, JobsFit, setting, Room
  <2> QED
    BY <2>6, <2>8, <2>9 DEF SingleInv
<1> QED
  <2>1. CASE size <= 0 \/ fileStorage_full
    <3>1. /\ i' = i + 1 /\ posFile' = 0 /\ lost' = (lost \/ fileStorage_full)
          /\ UNCHANGED <<pc, block1Storage, pool>>
      BY <2>1 DEF addFile
    <3> QED
      BY <1>2, <1>4, <3>1
  <2>2. CASE ~(size <= 0 \/ fileStorage_full) /\ block1Storage_full
    <3>1. /\ pc' = "stop" /\ lost' = TRUE
          /\ UNCHANGED <<i, posFile, block1Storage, pool>>
      BY <2>2 DEF addFile
    <3> QED
      BY <1>4, <3>1
  <2>3. CASE ~(size <= 0 \/ fileStorage_full) /\ ~block1Storage_full
    BY <1>5, <2>3 DEF addFile
  <2> QED
    BY <2>1, <2>2, <2>3
-----------------------------------------------------------------------------
LEMMA TraverseInv ==
  ASSUME SingleInv, trave_dir PROVE SingleInv'
<1>1. /\ pc = "solve1" /\ pc' = "wait1" /\ i' = 1
      /\ UNCHANGED <<posFile, setting, memory, pool, world>>
  BY DEF trave_dir, Goto
<1>2. TypeOK' /\ Types' /\ JobsFit' /\ Work' = Work
  BY <1>1 DEF SingleInv, TypeOK, Types, JobsFit, Work, Room, Places,
              setting, memory, pool, world
<1>3. StageOK'
  BY <1>1, <1>2, NoSubmit DEF world
<1> QED
  BY <1>2, <1>3 DEF SingleInv

LEMMA PushInv ==
  ASSUME SingleInv, compressQueue_push PROVE SingleInv'
<1> DEFINE record == Record1(block1Storage[i])
           capacity == cap.b1 * block1Bytes
<1>1. /\ pc = "push" /\ i <= Len(block1Storage) /\ i' = i + 1
      /\ UNCHANGED <<setting, pc, posFile, block1Storage, compressedBuffer, block2Storage,
                     transferQueue1, block3Storage, pool, allocated, served>>
      /\ \/ UNCHANGED compressQueue1 /\ lost' = TRUE
         \/ /\ ~Refuses(compressQueue1, record, capacity)
            /\ compressQueue1' = compressQueue1 \o record
            /\ UNCHANGED lost
  BY DEF compressQueue_push
<1>2. /\ i \in Nat \ {0} /\ block1Storage \in Seq(Block1)
      /\ compressQueue1 \in Seq(Byte) /\ Len(compressQueue1) < capacity
      /\ cap \in Capacities /\ lost \in BOOLEAN
  BY DEF SingleInv, TypeOK, Types
<1>3. record \in Seq(Byte)
  <2>1. i \in 1 .. Len(block1Storage)
    BY <1>1, <1>2, LenProperties
  <2>2. block1Storage[i] \in Block1
    BY <1>2, <2>1, ElementOfSeq
  <2> QED
    BY <2>2, Record1Bytes
<1>4. capacity \in Nat
  BY <1>2, CapSizes
<1> HIDE DEF record, capacity
<1>5. compressQueue1' \in Seq(Byte) /\ Len(compressQueue1') < capacity
  <2>1. CASE UNCHANGED compressQueue1
    BY <1>2, <2>1
  <2>2. CASE compressQueue1' = compressQueue1 \o record
             /\ ~Refuses(compressQueue1, record, capacity)
    <3>1. /\ compressQueue1' \in Seq(Byte)
          /\ Len(compressQueue1') = Len(compressQueue1) + Len(record)
      BY <1>2, <1>3, <2>2, ConcatProperties
    <3>2. Len(compressQueue1) \in Nat /\ Len(record) \in Nat
      BY <1>2, <1>3, LenProperties
    <3> QED
      BY <1>4, <2>2, <3>1, <3>2 DEF Refuses
  <2> QED
    BY <1>1, <2>1, <2>2
<1>6. lost' \in BOOLEAN /\ i' \in Nat \ {0}
  <2>1. lost' \in BOOLEAN
    BY <1>1, <1>2, Zenon
  <2>2. i' \in Nat \ {0}
    BY <1>1, <1>2
  <2> QED
    BY <2>1, <2>2
<1>7. TypeOK' /\ Types'
  BY <1>1, <1>5, <1>6 DEF SingleInv, TypeOK, Types, Room, setting, pool, capacity
<1>8. Work' = Work /\ JobsFit'
  BY <1>1 DEF SingleInv, JobsFit, Work, Room, setting, pool
<1>9. StageOK'
  BY <1>1, <1>8, NoSubmit
<1> QED
  BY <1>7, <1>8, <1>9 DEF SingleInv

LEMMA Solve2Inv ==
  ASSUME SingleInv, solve2 PROVE SingleInv'
<1> DEFINE n == Len(block2Storage) + 1
           b == block2(Len(block2Storage), 0, <<>>)
<1>1. /\ pc \in {"push", "solve2"}
      /\ UNCHANGED <<setting, block1Storage, compressQueue1, compressedBuffer,
                     transferQueue1, block3Storage, allocated, served>>
  BY DEF solve2
<1>2. CASE /\ UNCHANGED <<posFile, block2Storage, pool>>
           /\ \/ pc' = "wait2" /\ i' = 1 /\ UNCHANGED lost
              \/ pc' = "stop" /\ i' = i /\ lost' = TRUE
  <2>0. lost' \in BOOLEAN
    BY <1>2, Zenon DEF SingleInv, TypeOK
  <2>1. TypeOK' /\ Types'
    BY <1>1, <1>2, <2>0 DEF SingleInv, TypeOK, Types, Room, Places, setting, pool
  <2>2. Work' = Work /\ JobsFit'
    BY <1>1, <1>2 DEF SingleInv, JobsFit, Work, Room, setting, pool
  <2>3. StageOK'
    BY <1>1, <1>2, <2>2, NoSubmit
  <2> QED
    BY <2>1, <2>2, <2>3 DEF SingleInv
<1>3. CASE /\ pc' = "solve2" /\ ~block2Storage_full
           /\ block2Storage' = Append(block2Storage, b)
           /\ thpool_add_work("compress_func", n)
           /\ UNCHANGED <<i, posFile, running, lost>>
  <2>1. /\ block2Storage \in Seq(Block2) /\ Len(block2Storage) \in Nat
        /\ Len(block2Storage) <= cap.b2 /\ cap.b2 \in Nat
    BY CapSizes, LenProperties DEF SingleInv, TypeOK, Types
  <2>2. b \in Block2
    <3>1. <<>> \in Seq(Byte2) /\ Len(<<>>) = 0
      OBVIOUS
    <3> QED
      BY <2>1, <3>1 DEF block2, Block2
  <2> HIDE DEF b
  <2>3. /\ block2Storage' \in Seq(Block2) /\ Len(block2Storage') = n
        /\ \A k \in 1 .. Len(block2Storage) : block2Storage'[k] = block2Storage[k]
    BY <1>3, <2>1, <2>2, AppendProperties
  <2>4. Len(block2Storage') <= cap.b2
    BY <1>3, <2>1, <2>3 DEF block2Storage_full
  <2>5. [op |-> "compress_func", n |-> n] \in Job /\ n \in Nat
    BY <2>1 DEF Job
  <2>6. /\ jobs' \in Seq(Job) /\ Work' = Work \cup {[op |-> "compress_func", n |-> n]}
        /\ StageOK'
    BY <1>1, <1>3, <2>5, Submit
  <2>7. TypeOK' /\ Types'
    BY <1>1, <1>3, <2>3, <2>4, <2>6 DEF SingleInv, TypeOK, Types, Room, Places, setting
  <2>8. JobsFit'
    <3> SUFFICES ASSUME NEW j \in Work'
                 PROVE  /\ j.op = "readFile" => j.n <= Len(block1Storage)
                        /\ j.op \in {"compress_func", "copy"} => j.n <= n
                        /\ j.op = "transfer" => j.n <= Len(block3Storage)
                        /\ j.op = "copy" =>
                             dst(j.n - 1) + block2Storage'[j.n].blockSize <= Room
      BY <1>1, <2>3 DEF JobsFit, Room, setting
    <3>1. CASE j \in Work
      <4>1. j \in Job
        BY <3>1, WorkOfPool DEF SingleInv
      <4>2. j.op \in {"compress_func", "copy"} =>
              j.n \in 1 .. Len(block2Storage) /\ j.n <= n
        BY <2>1, <3>1, <4>1 DEF SingleInv, JobsFit, Job
      <4> QED
        BY <2>3, <3>1, <4>2 DEF SingleInv, JobsFit
    <3>2. CASE j = [op |-> "compress_func", n |-> n]
      BY <2>5, <3>2
    <3> QED
      BY <2>6, <3>1, <3>2
  <2> QED
    BY <2>6, <2>7, <2>8 DEF SingleInv
<1> QED
  <2>1. CASE Len(block2Storage) = Len(Pieces(compressQueue1, block2Size))
    BY <1>2, <2>1 DEF solve2, Goto
  <2>2. CASE Len(block2Storage) # Len(Pieces(compressQueue1, block2Size))
             /\ block2Storage_full
    BY <1>2, <2>2 DEF solve2
  <2>3. CASE Len(block2Storage) # Len(Pieces(compressQueue1, block2Size))
             /\ ~block2Storage_full
    BY <1>3, <2>3 DEF solve2
  <2> QED
    BY <2>1, <2>2, <2>3

LEMMA FrameInv ==
  ASSUME SingleInv, frame PROVE SingleInv'
<1> DEFINE b == block2Storage[i]
           capacity == cap.b2 * block2Bytes
           withHeader == transferQueue_push(transferQueue1, Frame(b))
<1>1. /\ pc = "frame" /\ i <= Len(block2Storage) /\ i' = i + 1
      /\ UNCHANGED <<setting, pc, posFile, block1Storage, compressQueue1, compressedBuffer,
                     block2Storage, block3Storage, pool, allocated, served>>
      /\ transferQueue1' = transferQueue_push(withHeader, Record2(b))
  BY DEF frame
<1>2. /\ i \in Nat \ {0} /\ block2Storage \in Seq(Block2)
      /\ transferQueue1 \in Seq(Byte) /\ Len(transferQueue1) < capacity
      /\ cap \in Capacities
  BY DEF SingleInv, TypeOK, Types
<1>3. Frame(b) \in Seq(Byte) /\ Record2(b) \in Seq(Byte)
  <2>1. i \in 1 .. Len(block2Storage)
    BY <1>1, <1>2, LenProperties
  <2>2. block2Storage[i] \in Block2
    BY <1>2, <2>1, ElementOfSeq
  <2> QED
    BY <2>2, Record2Bytes
<1>4. capacity \in Nat
  BY <1>2, CapSizes
<1>5. ASSUME NEW q \in Seq(Byte), NEW data \in Seq(Byte), Len(q) < capacity
      PROVE  /\ transferQueue_push(q, data) \in Seq(Byte)
             /\ Len(transferQueue_push(q, data)) < capacity
  <2>1. CASE Refuses(q, data, capacity)
    BY <1>5, <2>1 DEF transferQueue_push
  <2>2. CASE ~Refuses(q, data, capacity)
    <3>1. transferQueue_push(q, data) = q \o data
      BY <2>2 DEF transferQueue_push
    <3>2. q \o data \in Seq(Byte) /\ Len(q \o data) = Len(q) + Len(data)
      BY ConcatProperties
    <3>3. Len(q) \in Nat /\ Len(data) \in Nat
      BY LenProperties
    <3>4. Len(q) + Len(data) < capacity
      BY <1>4, <2>2, <3>3 DEF Refuses
    <3> QED
      BY <3>1, <3>2, <3>4
  <2> QED
    BY <2>1, <2>2
<1> HIDE DEF b, capacity
<1>6. withHeader \in Seq(Byte) /\ Len(withHeader) < capacity
  BY <1>2, <1>3, <1>5
<1> HIDE DEF withHeader
<1>7. transferQueue1' \in Seq(Byte) /\ Len(transferQueue1') < capacity
  BY <1>1, <1>3, <1>5, <1>6
<1>8. lost' \in BOOLEAN
  BY Zenon DEF frame, SingleInv, TypeOK
<1>9. i' \in Nat \ {0}
  BY <1>1, <1>2
<1>10. TypeOK' /\ Types'
  BY <1>1, <1>7, <1>8, <1>9 DEF SingleInv, TypeOK, Types, Room, setting, pool, capacity
<1>11. Work' = Work /\ JobsFit'
  BY <1>1 DEF SingleInv, JobsFit, Work, Room, setting, pool
<1>12. StageOK'
  BY <1>1, <1>11, NoSubmit
<1> QED
  BY <1>10, <1>11, <1>12 DEF SingleInv

LEMMA Solve3Inv ==
  ASSUME SingleInv, solve3 PROVE SingleInv'
<1> DEFINE n == Len(block3Storage) + 1
           pieces == Pieces(transferQueue1, block3Size)
<1>1. /\ pc \in {"frame", "solve3"}
      /\ UNCHANGED <<setting, block1Storage, compressQueue1, compressedBuffer,
                     block2Storage, transferQueue1, allocated, served>>
  BY DEF solve3
<1>2. CASE /\ UNCHANGED <<posFile, block3Storage, pool>>
           /\ \/ pc' = "wait3" /\ i' = 1 /\ UNCHANGED lost
              \/ pc' = "stop" /\ i' = i /\ lost' = TRUE
  <2>0. lost' \in BOOLEAN
    BY <1>2, Zenon DEF SingleInv, TypeOK
  <2>1. TypeOK' /\ Types'
    BY <1>1, <1>2, <2>0 DEF SingleInv, TypeOK, Types, Room, Places, setting, pool
  <2>2. Work' = Work /\ JobsFit'
    BY <1>1, <1>2 DEF SingleInv, JobsFit, Work, Room, setting, pool
  <2>3. StageOK'
    BY <1>1, <1>2, <2>2, NoSubmit
  <2> QED
    BY <2>1, <2>2, <2>3 DEF SingleInv
<1>3. CASE /\ pc' = "solve3" /\ ~(n > Len(pieces)) /\ ~block3Storage_full
           /\ block3Storage' = Append(block3Storage, pieces[n])
           /\ thpool_add_work("transfer", n)
           /\ UNCHANGED <<i, posFile, running, lost>>
  <2>1. /\ block3Storage \in Seq(Seq(Byte)) /\ Len(block3Storage) \in Nat
        /\ Len(block3Storage) <= cap.b3 /\ cap.b3 \in Nat
        /\ transferQueue1 \in Seq(Byte)
    BY CapSizes, LenProperties DEF SingleInv, TypeOK, Types
  <2>2. pieces[n] \in Seq(Byte)
    <3>1. Len(pieces) \in Int => n \in 1 .. Len(pieces)
      BY <1>3, <2>1
    <3>2. Len(pieces) \in Int
      BY <2>1, Sizes, PieceCount
    <3> QED
      BY <2>1, <3>1, <3>2, PieceBytes, Sizes
  <2> HIDE DEF pieces
  <2>3. block3Storage' \in Seq(Seq(Byte)) /\ Len(block3Storage') = n
    BY <1>3, <2>1, <2>2, AppendProperties
  <2>4. Len(block3Storage') <= cap.b3
    BY <1>3, <2>1, <2>3 DEF block3Storage_full
  <2>5. [op |-> "transfer", n |-> n] \in Job /\ n \in Nat
    BY <2>1 DEF Job
  <2>6. /\ jobs' \in Seq(Job) /\ Work' = Work \cup {[op |-> "transfer", n |-> n]}
        /\ StageOK'
    BY <1>1, <1>3, <2>5, Submit
  <2>7. served \subseteq DOMAIN block3Storage'
    <3>1. DOMAIN block3Storage = 1 .. Len(block3Storage)
          /\ DOMAIN block3Storage' = 1 .. n
      BY <2>1, <2>3, LenProperties
    <3> QED
      BY <2>1, <3>1 DEF SingleInv, TypeOK
  <2>8. TypeOK' /\ Types'
    BY <1>1, <1>3, <2>3, <2>4, <2>6, <2>7
    DEF SingleInv, TypeOK, Types, Room, Places, setting
  <2>9. JobsFit'
    <3>1. \A j \in Work : j.op = "transfer" => j.n <= n
      <4>1. Work \subseteq Job
        BY WorkOfPool DEF SingleInv
      <4> QED
        BY <2>1, <4>1 DEF SingleInv, JobsFit, Job
    <3> QED
      BY <1>1, <2>3, <2>5, <2>6, <3>1 DEF SingleInv, JobsFit, setting, Room
  <2> QED
    BY <2>6, <2>8, <2>9 DEF SingleInv
<1> QED
  <2>1. CASE n > Len(pieces)
    BY <1>2, <2>1 DEF solve3, Goto
  <2>2. CASE ~(n > Len(pieces)) /\ block3Storage_full
    BY <1>2, <2>2 DEF solve3
  <2>3. CASE ~(n > Len(pieces)) /\ ~block3Storage_full
    BY <1>3, <2>3 DEF solve3
  <2> QED
    BY <2>1, <2>2, <2>3

(* main goes on when the pool is idle: no job is left to use what it frees.*)
LEMMA NextStageInv ==
  ASSUME SingleInv, NextStage PROVE SingleInv'
<1>1. PICK wait, next, freed, new :
        /\ AfterStage(wait, next, freed, new)
        /\ \/ wait = "wait1" /\ next = "push" /\ freed = {} /\ new = Memory2
           \/ /\ wait = "wait2" /\ next = "frame"
              /\ freed = Memory1 \cup {"compressedBuffer"} /\ new = Memory3
           \/ /\ wait = "wait3" /\ next = "over"
              /\ freed = Memory3 \cup {"block2Storage"} /\ new = {}
  BY DEF NextStage
<1>2. /\ pc = wait /\ pc' = next /\ i' = 1 /\ Idle
      /\ allocated' = (allocated \ freed) \cup new
      /\ UNCHANGED <<posFile, setting, memory, pool, served, lost>>
  BY <1>1 DEF AfterStage, Goto
<1>3. Work = {} /\ Work' = {}
  BY <1>2, WorkOfPool DEF SingleInv, Work, pool
<1>4. pc' \in Places /\ new \subseteq Memory1 \cup Memory2 \cup Memory3
  BY <1>1, <1>2 DEF Places
<1>5. TypeOK' /\ Types'
  BY <1>2, <1>4 DEF SingleInv, TypeOK, Types, Room, setting, memory, pool
<1>6. JobsFit'
  BY <1>3 DEF JobsFit
<1>7. StageOK'
  BY <1>1, <1>2, <1>3 DEF SingleInv, StageOK, Stage, NoUseAfterFree, Work
<1> QED
  BY <1>5, <1>6, <1>7 DEF SingleInv
-----------------------------------------------------------------------------
LEMMA StartInv ==
  ASSUME SingleInv, Start PROVE SingleInv'
<1> DEFINE j == Head(jobs)
<1>1. /\ jobs # <<>> /\ Cardinality(running) < THREAD_NUM
      /\ running' = running \cup {j} /\ jobs' = Tail(jobs)
      /\ UNCHANGED <<setting, loop, memory, world>>
  BY DEF Start
<1>2. jobs \in Seq(Job) /\ running \subseteq Job /\ IsFiniteSet(running)
      /\ THREAD_NUM \in Nat
  BY SingleAssumption DEF SingleInv, Types, TypeOK
<1>3. /\ j \in Job /\ Tail(jobs) \in Seq(Job)
      /\ ToSet(jobs) = {j} \cup ToSet(Tail(jobs))
  BY <1>1, <1>2, QueueSet
<1> HIDE DEF j
<1>4. IsFiniteSet(running') /\ Cardinality(running') <= THREAD_NUM
  <2>1. Cardinality(running) \in Nat
    BY <1>2, FS_CardinalityType
  <2>2. /\ IsFiniteSet(running \cup {j})
        /\ Cardinality(running \cup {j}) =
             IF j \in running THEN Cardinality(running) ELSE Cardinality(running) + 1
    BY <1>2, FS_AddElement
  <2> QED
    BY <1>1, <1>2, <2>1, <2>2
<1>5. TypeOK' /\ Types'
  BY <1>1, <1>2, <1>3, <1>4
  DEF SingleInv, TypeOK, Types, Room, setting, loop, memory, world
<1>6. Work' = Work
  BY <1>1, <1>3 DEF Work
<1>7. JobsFit'
  BY <1>1, <1>6 DEF SingleInv, JobsFit, Room, setting, memory
<1>8. StageOK'
  BY <1>1, <1>6, NoSubmit DEF loop, world
<1> QED
  BY <1>5, <1>7, <1>8 DEF SingleInv

(* A job that is done is gone, and the pool smaller. *)
LEMMA DoneFacts ==
  ASSUME SingleInv, NEW j \in running, Done(j)
  PROVE  /\ j \in Work /\ j \in Job /\ j.n \in Nat \ {0}
         /\ running' \subseteq Job /\ IsFiniteSet(running')
         /\ Cardinality(running') <= THREAD_NUM
         /\ UNCHANGED jobs
         /\ Work' \subseteq Work
<1>1. running' = running \ {j} /\ UNCHANGED jobs
  BY DEF Done
<1>2. running \subseteq Job /\ IsFiniteSet(running) /\ Cardinality(running) <= THREAD_NUM
  BY DEF SingleInv, Types, TypeOK
<1>3. IsFiniteSet(running') /\ Cardinality(running') <= THREAD_NUM
  <2>1. /\ IsFiniteSet(running \ {j})
        /\ Cardinality(running \ {j}) <= Cardinality(running)
    BY <1>2, FS_Subset
  <2>2. Cardinality(running) \in Nat /\ Cardinality(running \ {j}) \in Nat
        /\ THREAD_NUM \in Nat
    BY <1>2, <2>1, FS_CardinalityType, SingleAssumption DEF SingleInv, TypeOK
  <2> QED
    BY <1>1, <1>2, <2>1, <2>2
<1>4. Work' \subseteq Work
  BY <1>1 DEF Work
<1>5. j \in Job
  BY <1>2
<1>6. j.n \in Nat \ {0}
  BY <1>5 DEF Job
<1> QED
  BY <1>1, <1>2, <1>3, <1>4, <1>5, <1>6 DEF Work

LEMMA ReadFileInv ==
  ASSUME SingleInv, NEW j \in running, readFile(j) PROVE SingleInv'
<1> DEFINE b == block1Storage[j.n]
           data == DataBytes(b.file, b.blockNum, b.blockSize)
           c == [b EXCEPT !.buffer = data]
<1>1. /\ j.op = "readFile" /\ Done(j)
      /\ block1Storage' = [block1Storage EXCEPT ![j.n] = c]
      /\ UNCHANGED <<setting, loop, compressQueue1, compressedBuffer, block2Storage,
                     transferQueue1, block3Storage, world>>
  BY DEF readFile
<1>2. /\ j \in Work /\ j \in Job /\ j.n \in Nat \ {0}
      /\ running' \subseteq Job /\ IsFiniteSet(running')
      /\ Cardinality(running') <= THREAD_NUM
      /\ UNCHANGED jobs /\ Work' \subseteq Work
  BY <1>1, DoneFacts
<1>3. block1Storage \in Seq(Block1) /\ j.n \in 1 .. Len(block1Storage)
  <2>1. block1Storage \in Seq(Block1) /\ Len(block1Storage) \in Nat
    BY LenProperties DEF SingleInv, Types
  <2>2. j.n <= Len(block1Storage)
    BY <1>1, <1>2 DEF SingleInv, JobsFit
  <2> QED
    BY <1>2, <2>1, <2>2
<1>4. b \in Block1
  BY <1>3, ElementOfSeq
<1>5. data \in Seq(Byte1)
  <2>1. b.file \in Nat /\ b.blockNum \in Nat /\ b.blockSize \in Nat
    BY <1>4 DEF Block1
  <2> HIDE DEF b
  <2>2. data \in [1 .. b.blockSize -> Byte1]
    BY <2>1 DEF DataBytes, Byte1
  <2> HIDE DEF data
  <2> QED
    BY <2>1, <2>2, SeqDef
<1> HIDE DEF data
<1>6. c \in Block1
  BY <1>4, <1>5 DEF Block1
<1> HIDE DEF c, b
<1>7. block1Storage' \in Seq(Block1) /\ Len(block1Storage') = Len(block1Storage)
  BY <1>1, <1>3, <1>6, ExceptSeq
<1>8. TypeOK' /\ Types'
  BY <1>1, <1>2, <1>7 DEF SingleInv, TypeOK, Types, Room, setting, loop, world
<1>9. JobsFit'
  BY <1>1, <1>2, <1>7 DEF SingleInv, JobsFit, Room, setting
<1>10. StageOK'
  BY <1>1, <1>2, NoSubmit DEF loop, world
<1> QED
  BY <1>8, <1>9, <1>10 DEF SingleInv

LEMMA CopyInv ==
  ASSUME SingleInv, NEW j \in running, copy(j) PROVE SingleInv'
<1> DEFINE b == block2Storage[j.n]
           from == dst(j.n - 1)
           data == SubSeq(compressedBuffer, from + 1, from + b.blockSize)
           c == [b EXCEPT !.buffer = data]
<1>1. /\ j.op = "copy" /\ Done(j)
      /\ block2Storage' = [block2Storage EXCEPT ![j.n] = c]
      /\ UNCHANGED <<setting, loop, block1Storage, compressQueue1, compressedBuffer,
                     transferQueue1, block3Storage, world>>
  BY DEF copy
<1>2. /\ j \in Work /\ j \in Job /\ j.n \in Nat \ {0}
      /\ running' \subseteq Job /\ IsFiniteSet(running')
      /\ Cardinality(running') <= THREAD_NUM
      /\ UNCHANGED jobs /\ Work' \subseteq Work
  BY <1>1, DoneFacts
<1>3. block2Storage \in Seq(Block2) /\ j.n \in 1 .. Len(block2Storage)
  <2>1. block2Storage \in Seq(Block2) /\ Len(block2Storage) \in Nat
    BY LenProperties DEF SingleInv, Types
  <2>2. j.n <= Len(block2Storage)
    BY <1>1, <1>2 DEF SingleInv, JobsFit
  <2> QED
    BY <1>2, <2>1, <2>2
<1>4. b \in Block2
  BY <1>3, ElementOfSeq
<1>5. b.blockSize \in Nat
  BY <1>4 DEF Block2
<1>6. data \in Seq(Byte2)
  <2>1. from \in Nat
    BY <1>2, Sizes, Products DEF dst
  <2>2. from + b.blockSize <= Room
    BY <1>1, <1>2 DEF SingleInv, JobsFit
  <2>3. Room \in Nat /\ compressedBuffer \in [1 .. Room -> Byte2]
    BY CapSizes DEF SingleInv, TypeOK, Types
  <2> HIDE DEF b, from
  <2>4. \A k \in from + 1 .. from + b.blockSize : compressedBuffer[k] \in Byte2
    BY <1>5, <2>1, <2>2, <2>3
  <2> QED
    BY <1>5, <2>1, <2>4, SubSeqProperties
<1> HIDE DEF data
<1>7. c \in Block2 /\ c.blockSize = b.blockSize
  BY <1>4, <1>6 DEF Block2
<1> HIDE DEF c
<1>8. /\ block2Storage' \in Seq(Block2) /\ Len(block2Storage') = Len(block2Storage)
      /\ \A k \in 1 .. Len(block2Storage) :
           block2Storage'[k].blockSize = block2Storage[k].blockSize
  <2>1. /\ [block2Storage EXCEPT ![j.n] = c] \in Seq(Block2)
        /\ Len([block2Storage EXCEPT ![j.n] = c]) = Len(block2Storage)
        /\ \A k \in 1 .. Len(block2Storage) :
             [block2Storage EXCEPT ![j.n] = c][k] = IF k = j.n THEN c ELSE block2Storage[k]
    BY <1>3, <1>7, ExceptSeq
  <2> QED
    BY <1>1, <1>7, <2>1
<1>9. TypeOK' /\ Types'
  BY <1>1, <1>2, <1>8 DEF SingleInv, TypeOK, Types, Room, setting, loop, world
<1>10. JobsFit'
  <2> SUFFICES ASSUME NEW k \in Work
               PROVE  /\ k.op = "readFile" => k.n <= Len(block1Storage)
                      /\ k.op \in {"compress_func", "copy"} => k.n <= Len(block2Storage)
                      /\ k.op = "transfer" => k.n <= Len(block3Storage)
                      /\ k.op = "copy" =>
                           dst(k.n - 1) + block2Storage'[k.n].blockSize <= Room
    BY <1>1, <1>2, <1>8 DEF JobsFit, Room, setting
  <2>1. k \in Job
    BY WorkOfPool DEF SingleInv
  <2>2. k.op = "copy" => k.n \in 1 .. Len(block2Storage)
    <3>1. k.n \in Nat \ {0} /\ Len(block2Storage) \in Nat
      BY <1>3, <2>1, LenProperties DEF Job
    <3> QED
      BY <3>1 DEF SingleInv, JobsFit
  <2> QED
    BY <1>8, <2>2 DEF SingleInv, JobsFit
<1>11. StageOK'
  BY <1>1, <1>2, NoSubmit DEF loop, world
<1> QED
  BY <1>9, <1>10, <1>11 DEF SingleInv

LEMMA TransferInv ==
  ASSUME SingleInv, NEW j \in running, transfer(j) PROVE SingleInv'
<1>1. PICK sent \in PostOutcomes :
        /\ served' = IF sent THEN served \cup {j.n} ELSE served
        /\ lost' = (lost \/ ~sent)
  BY DEF transfer
<1>2. j.op = "transfer" /\ Done(j) /\ UNCHANGED <<setting, loop, memory, allocated>>
  BY DEF transfer
<1>3. /\ j \in Work /\ j \in Job /\ j.n \in Nat \ {0}
      /\ running' \subseteq Job /\ IsFiniteSet(running')
      /\ Cardinality(running') <= THREAD_NUM
      /\ UNCHANGED jobs /\ Work' \subseteq Work
  BY <1>2, DoneFacts
<1>4. j.n \in DOMAIN block3Storage
  <2>1. DOMAIN block3Storage = 1 .. Len(block3Storage) /\ Len(block3Storage) \in Nat
    BY LenProperties DEF SingleInv, Types
  <2>2. j.n <= Len(block3Storage)
    BY <1>2, <1>3 DEF SingleInv, JobsFit
  <2> QED
    BY <1>3, <2>1, <2>2
<1>5. served' \subseteq DOMAIN block3Storage
  BY <1>1, <1>4 DEF SingleInv, TypeOK
<1>6. lost' \in BOOLEAN
  BY <1>1, Zenon
<1>7. TypeOK' /\ Types'
  BY <1>2, <1>3, <1>5, <1>6 DEF SingleInv, TypeOK, Types, Room, setting, loop, memory
<1>8. JobsFit'
  BY <1>2, <1>3 DEF SingleInv, JobsFit, Room, setting, memory
<1>9. StageOK'
  BY <1>2, <1>3, NoSubmit DEF loop
<1> QED
  BY <1>7, <1>8, <1>9 DEF SingleInv

(* The codec of a job that goes on to copy what fits, or stops the program *)
LEMMA CompressInv ==
  ASSUME SingleInv, NEW j \in running, compress_func(j), pc # "stop" PROVE SingleInv'
<1> DEFINE from == dst(j.n - 1)
<1>1. /\ j.op = "compress_func"
      /\ UNCHANGED <<setting, i, posFile, block1Storage, compressQueue1, transferQueue1,
                     block3Storage, jobs, allocated, served>>
  BY DEF compress_func
<1>2. j \in Work /\ j \in Job /\ j.n \in Nat \ {0}
  <2>1. j \in Work /\ j \in Job
    BY DEF Work, SingleInv, Types
  <2> QED
    BY <2>1 DEF Job
<1>0. from \in Nat /\ Room \in Nat
  <2>1. from \in Nat
    BY <1>2, Sizes, Products DEF dst
  <2>2. Room \in Nat
    BY CapSizes DEF SingleInv, TypeOK
  <2> QED
    BY <2>1, <2>2
<1>3. CASE pc' = "stop" /\ lost' = TRUE
           /\ UNCHANGED <<compressedBuffer, block2Storage, running>>
  <2>0. lost' \in BOOLEAN
    BY <1>3, Zenon
  <2>1. TypeOK' /\ Types'
    BY <1>1, <1>3, <2>0 DEF SingleInv, TypeOK, Types, Room, Places, setting
  <2>2. Work' = Work
    BY <1>1, <1>3 DEF Work
  <2>3. JobsFit'
    BY <1>1, <1>3, <2>2 DEF SingleInv, JobsFit, Room, setting
  <2>4. StageOK'
    BY <1>1, <1>3, <2>2, NoSubmit
  <2> QED
    BY <2>1, <2>3, <2>4 DEF SingleInv
<1>4. ASSUME NEW size \in CompressedSizes,
             from + size <= Room,
             compressedBuffer' = [k \in DOMAIN compressedBuffer |->
               IF k \in from + 1 .. from + size THEN Output(0, j.n - 1, size)[k - from]
               ELSE compressedBuffer[k]],
             block2Storage' = [block2Storage EXCEPT ![j.n].blockSize = size],
             running' = (running \ {j}) \cup {[j EXCEPT !.op = "copy"]},
             UNCHANGED <<pc, lost>>
      PROVE  SingleInv'
  <2> DEFINE c == [block2Storage[j.n] EXCEPT !.blockSize = size]
             k == [j EXCEPT !.op = "copy"]
  <2>1. size \in Nat /\ from \in Nat /\ Room \in Nat
        /\ compressedBuffer \in [1 .. Room -> Byte2]
    BY <1>0, SingleAssumption DEF SingleInv, Types
  <2>2. compressedBuffer' \in [1 .. Room -> Byte2]
    <3>1. \A l \in 1 .. size : Output(0, j.n - 1, size)[l] \in Byte2
      <4>1. \A l \in 1 .. size :
              Output(0, j.n - 1, size)[l]
                = [type |-> 0, block |-> j.n - 1, part |-> l, of |-> size]
        BY DEF Output
      <4>2. \A l \in 1 .. size :
              [type |-> 0, block |-> j.n - 1, part |-> l, of |-> size]
                \in [type : Nat, block : Nat, part : Nat, of : Nat]
        BY <1>2, <2>1
      <4> QED
        BY <4>1, <4>2 DEF Byte2
    <3> DEFINE output == Output(0, j.n - 1, size)
    <3> HIDE DEF from, output
    <3>2. \A l \in from + 1 .. from + size : output[l - from] \in Byte2
      BY <2>1, <3>1 DEF output
    <3>3. compressedBuffer' = [l \in 1 .. Room |->
               IF l \in from + 1 .. from + size THEN output[l - from]
               ELSE compressedBuffer[l]]
      BY <1>4, <2>1 DEF output
    <3> QED
      BY <2>1, <3>2, <3>3
  <2>3. block2Storage \in Seq(Block2) /\ j.n \in 1 .. Len(block2Storage)
    <3>1. block2Storage \in Seq(Block2) /\ Len(block2Storage) \in Nat
      BY LenProperties DEF SingleInv, Types
    <3>2. j.n <= Len(block2Storage)
      BY <1>1, <1>2 DEF SingleInv, JobsFit
    <3> QED
      BY <1>2, <3>1, <3>2
  <2>4. c \in Block2 /\ c.blockSize = size
    <3>1. block2Storage[j.n] \in Block2
      BY <2>3, ElementOfSeq
    <3> QED
      BY <2>1, <3>1 DEF Block2
  <2>5. block2Storage' = [block2Storage EXCEPT ![j.n] = c]
    BY <1>4
  <2> HIDE DEF c
  <2>6. /\ block2Storage' \in Seq(Block2) /\ Len(block2Storage') = Len(block2Storage)
        /\ \A l \in 1 .. Len(block2Storage) :
             block2Storage'[l] = IF l = j.n THEN c ELSE block2Storage[l]
    BY <2>3, <2>4, <2>5, ExceptSeq
  <2>7. k \in Job /\ k.op = "copy" /\ k.n = j.n
    BY <1>2 DEF Job
  <2> HIDE DEF k
  <2>8. /\ running' \subseteq Job /\ IsFiniteSet(running')
        /\ Cardinality(running') <= THREAD_NUM
    <3>1. running \subseteq Job /\ IsFiniteSet(running) /\ Cardinality(running) <= THREAD_NUM
          /\ THREAD_NUM \in Nat /\ Cardinality(running) \in Nat
      BY SingleAssumption, FS_CardinalityType DEF SingleInv, TypeOK, Types
    <3>2. /\ IsFiniteSet(running \ {j})
          /\ Cardinality(running \ {j}) = Cardinality(running) - 1
      BY <3>1, FS_RemoveElement
    <3>3. /\ IsFiniteSet((running \ {j}) \cup {k})
          /\ Cardinality((running \ {j}) \cup {k}) <= Cardinality(running)
      <4> DEFINE rest == running \ {j}
      <4>1. IsFiniteSet(rest) /\ Cardinality(rest) = Cardinality(running) - 1
        BY <3>2
      <4> HIDE DEF rest
      <4>2. /\ IsFiniteSet(rest \cup {k})
            /\ Cardinality(rest \cup {k}) =
                 IF k \in rest THEN Cardinality(rest) ELSE Cardinality(rest) + 1
        BY <4>1, FS_AddElement
      <4>3. Cardinality(rest \cup {k}) <= Cardinality(running)
        BY <3>1, <4>1, <4>2
      <4> QED
        BY <4>2, <4>3 DEF rest
    <3>4. running' = (running \ {j}) \cup {k}
      BY <1>4 DEF k
    <3>5. Cardinality((running \ {j}) \cup {k}) \in Nat
      BY <3>3, FS_CardinalityType
    <3> QED
      BY <2>7, <3>1, <3>3, <3>4, <3>5
  <2>9. Work' \subseteq Work \cup {k}
    BY <1>1, <1>4 DEF Work, k
  <2>10. TypeOK' /\ Types'
    BY <1>1, <1>4, <2>2, <2>6, <2>8 DEF SingleInv, TypeOK, Types, Room, setting
  <2>11. JobsFit'
    <3> SUFFICES ASSUME NEW l \in Work'
                 PROVE  /\ l.op = "readFile" => l.n <= Len(block1Storage)
                        /\ l.op \in {"compress_func", "copy"} => l.n <= Len(block2Storage)
                        /\ l.op = "transfer" => l.n <= Len(block3Storage)
                        /\ l.op = "copy" =>
                             dst(l.n - 1) + block2Storage'[l.n].blockSize <= Room
      BY <1>1, <2>6 DEF JobsFit, Room, setting
    <3>1. CASE l = k
      <4>1. block2Storage'[l.n].blockSize = size /\ l.n <= Len(block2Storage)
        BY <2>3, <2>4, <2>6, <2>7, <3>1
      <4> QED
        BY <1>4, <2>7, <3>1, <4>1
    <3>2. CASE l \in Work
      <4>1. l \in Job
        BY <3>2, WorkOfPool DEF SingleInv
      <4>2. l.op = "copy" => l.n \in 1 .. Len(block2Storage)
        <5>1. l.n \in Nat \ {0} /\ Len(block2Storage) \in Nat
          BY <2>3, <4>1, LenProperties DEF Job
        <5> QED
          BY <3>2, <5>1 DEF SingleInv, JobsFit
      <4>3. l.op = "copy" => dst(l.n - 1) + block2Storage'[l.n].blockSize <= Room
        <5>1. CASE l.n = j.n
          BY <1>4, <2>4, <2>6, <4>2, <5>1
        <5>2. CASE l.n # j.n
          BY <2>6, <3>2, <4>2, <5>2 DEF SingleInv, JobsFit
        <5> QED
          BY <5>1, <5>2
      <4> QED
        BY <3>2, <4>3 DEF SingleInv, JobsFit
    <3> QED
      BY <2>9, <3>1, <3>2
  <2>12. StageOK'
    <3>1. Uses(k.op) \subseteq allocated
      BY <1>1, <1>2, <2>7, UsesOf DEF SingleInv, StageOK, NoUseAfterFree, Work
    <3>2. NoUseAfterFree'
      <4>1. \A l \in Work' : Uses(l.op) \subseteq allocated
        BY <2>9, <3>1 DEF SingleInv, StageOK, NoUseAfterFree, Work
      <4> QED
        BY <1>1, <4>1 DEF NoUseAfterFree, Work
    <3> QED
      BY <1>1, <1>2, <1>4, <2>7, <2>9, <3>2 DEF SingleInv, StageOK, Stage
  <2> QED
    BY <2>10, <2>11, <2>12 DEF SingleInv
<1>5. PICK size \in CompressedSizes :
        IF from + size > Room \/ size > BLOCK2_MAX_SIZE
          THEN /\ pc' = "stop" /\ lost' = TRUE
               /\ UNCHANGED <<compressedBuffer, block2Storage, running>>
          ELSE /\ compressedBuffer' = [k \in DOMAIN compressedBuffer |->
                    IF k \in from + 1 .. from + size THEN Output(0, j.n - 1, size)[k - from]
                    ELSE compressedBuffer[k]]
               /\ block2Storage' = [block2Storage EXCEPT ![j.n].blockSize = size]
               /\ running' = (running \ {j}) \cup {[j EXCEPT !.op = "copy"]}
               /\ UNCHANGED <<pc, lost>>
  BY DEF compress_func, Room
<1>6. ~(from + size > Room) => from + size <= Room
  <2>1. size \in Nat /\ from \in Nat /\ Room \in Nat
    BY <1>0, SingleAssumption
  <2> QED
    BY <2>1
<1> HIDE DEF from
<1> QED
  BY <1>3, <1>4, <1>5, <1>6 DEF from

LEMMA SingleNext == SingleInv /\ [Next]_vars => SingleInv'
<1> SUFFICES ASSUME SingleInv, [Next]_vars
             PROVE  SingleInv'
  OBVIOUS
<1>1. CASE UNCHANGED vars
  BY <1>1 DEF SingleInv, TypeOK, Types, JobsFit, StageOK, Stage, NoUseAfterFree, Work,
              Room, vars, setting, loop, memory, pool, world
<1>2. CASE main
  BY <1>2, AddFileInv, TraverseInv, PushInv, Solve2Inv, FrameInv, Solve3Inv, NextStageInv
  DEF main
<1>3. CASE thread_do
  BY <1>3, StartInv, ReadFileInv, CompressInv, CopyInv, TransferInv DEF thread_do
<1> QED
  BY <1>1, <1>2, <1>3 DEF Next

LEMMA SingleAlways == Spec => []SingleInv
<1>1. Init => SingleInv
  BY SingleInit
<1> QED
  BY <1>1, SingleNext, PTL DEF Spec

(* main frees and allocates the memory of its stages only when no job, in  *)
(* the queue or at a thread, still uses it: for any number of threads, any *)
(* files, and storages of any size, also when one of them is full.         *)
THEOREM NoUseAfterFreeCorrect == Spec => []NoUseAfterFree
<1>1. SingleInv => NoUseAfterFree
  BY DEF SingleInv, StageOK
<1> QED
  BY <1>1, SingleAlways, PTL

(* No storage takes more blocks, no queue more bytes and no pool more jobs *)
(* than it has room for, and the server holds no block that was not sent.  *)
THEOREM SingleTypeCorrect == Spec => []TypeOK
<1>1. SingleInv => TypeOK
  BY DEF SingleInv
<1> QED
  BY <1>1, SingleAlways, PTL
-----------------------------------------------------------------------------
(* The round trip: what the stages hand on, as long as nothing is lost.    *)
Pending(op, n) == [op |-> op, n |-> n] \in Work

(* The part of its file a record is to hold                                *)
Planned(b) == DataBytes(b.file, b.blockNum, b.blockSize)

Parts(f, s) ==
  [n \in 1 .. Len(s) |-> IF s[n].file = f THEN Planned(s[n]) ELSE <<>>]

(* How much of file f has been cut                                         *)
CoveredTo(f) ==
  IF pc # "solve1" \/ f < i THEN Files[f].size
  ELSE IF f = i THEN Least(posFile, Files[f].size) ELSE 0

FilesCut ==
  \A f \in 1 .. Len(Files) :
    FlattenSeq(Parts(f, block1Storage)) = DataBytes(f, 0, CoveredTo(f))

BlocksCut ==
  \A n \in 1 .. Len(block1Storage) :
    /\ block1Storage[n].file \in 1 .. Len(Files)
    /\ block1Storage[n].blockSize <= block1Size
    /\ Pending("readFile", n) \/ block1Storage[n].buffer = Planned(block1Storage[n])

(* compressQueue1 holds the records pushed so far, transferQueue1 the      *)
(* frames.                                                                 *)
PushedBlocks ==
  IF pc \in {"solve1", "wait1"} THEN <<>>
  ELSE IF pc = "push" THEN SubSeq(block1Storage, 1, i - 1)
  ELSE block1Storage

Pushed ==
  /\ pc = "push" => i <= Len(block1Storage) + 1
  /\ compressQueue1 = FlattenSeq(Records1(PushedBlocks))

FramedBlocks ==
  IF pc = "frame" THEN SubSeq(block2Storage, 1, i - 1)
  ELSE IF pc \in {"solve3", "wait3", "over"} THEN block2Storage
  ELSE <<>>

Framed ==
  /\ pc = "frame" => i <= Len(block2Storage) + 1
  /\ transferQueue1 = FlattenSeq(Frames2(FramedBlocks))

(* The output of a block, until it is copied in compressedBuffer.  Two     *)
(* jobs at once spoil it unless it fits.                                   *)
Undisturbed == THREAD_NUM = 1 \/ OutputsFit

CopiedFrom(n) ==
  SubSeq(compressedBuffer, dst(n - 1) + 1, dst(n - 1) + block2Storage[n].blockSize)

HasOutput(n) ==
  (IF Pending("copy", n) THEN CopiedFrom(n) ELSE block2Storage[n].buffer)
    = Output(0, n - 1, block2Storage[n].blockSize)

Compressed ==
  \A n \in 1 .. Len(block2Storage) :
    /\ block2Storage[n].blockNum = n - 1
    /\ block2Storage[n].compressType = 0
    /\ \/ Pending("compress_func", n) /\ block2Storage[n].blockSize = 0
       \/ /\ block2Storage[n].blockSize \in CompressedSizes
          /\ ~Pending("compress_func", n)
          /\ Undisturbed => HasOutput(n)

AllCompressed ==
  pc \in {"wait2", "frame", "solve3", "wait3", "over"} =>
    Len(block2Storage) = Len(Pieces(compressQueue1, block2Size))

Sent ==
  /\ Len(block3Storage) <= Len(Pieces(transferQueue1, block3Size))
  /\ \A n \in 1 .. Len(block3Storage) :
       /\ block3Storage[n] = Pieces(transferQueue1, block3Size)[n]
       /\ n \in served \/ Pending("transfer", n)
  /\ pc \in {"wait3", "over"} =>
       Len(block3Storage) = Len(Pieces(transferQueue1, block3Size))
  /\ pc \in {"solve3", "wait3", "over"} \/ block3Storage = <<>>

(* Jobs start in the order of their blocks, and a block has one at a time. *)
InOrder ==
  /\ \A k, l \in 1 .. Len(jobs) : k < l => jobs[k].n < jobs[l].n
  /\ \A j \in running, k \in 1 .. Len(jobs) : j.n < jobs[k].n
  /\ \A j, k \in running : j.n = k.n => j = k
  /\ \A k \in 1 .. Len(jobs) : jobs[k].op # "copy"

Trip ==
  /\ FilesCut /\ BlocksCut /\ Pushed /\ Framed /\ Compressed /\ AllCompressed
  /\ Sent /\ InOrder

TripInv == SingleInv /\ (lost \/ Trip)
-----------------------------------------------------------------------------
(* The jobs of the pool *)
LEMMA QueueElements ==
  ASSUME Types
  PROVE  /\ Len(jobs) \in Nat
         /\ \A k \in 1 .. Len(jobs) : jobs[k] \in Job /\ jobs[k] \in Work
         /\ \A j \in Work : j \in running \/ \E k \in 1 .. Len(jobs) : j = jobs[k]
         /\ \A j \in Work : j.n \in Nat
<1>1. jobs \in Seq(Job)
  BY DEF Types
<1>2. Len(jobs) \in Nat /\ DOMAIN jobs = 1 .. Len(jobs)
      /\ \A k \in 1 .. Len(jobs) : jobs[k] \in Job
  BY <1>1, ElementOfSeq, LenProperties
<1>3. ToSet(jobs) = {jobs[k] : k \in 1 .. Len(jobs)}
  BY <1>2 DEF ToSet
<1>4. \A j \in Work : j.n \in Nat
  BY WorkOfPool DEF Job
<1> QED
  BY <1>2, <1>3, <1>4 DEF Work

LEMMA OrderAppend ==
  ASSUME Types, InOrder, NEW op, NEW n, [op |-> op, n |-> n] \in Job, op # "copy",
         \A j \in Work : j.n < n,
         thpool_add_work(op, n), UNCHANGED running
  PROVE  InOrder'
<1> DEFINE j == [op |-> op, n |-> n]
           m == Len(jobs)
<1>1. /\ Len(jobs') = m + 1 /\ m \in Nat
      /\ \A k \in 1 .. m : jobs'[k] = jobs[k]
      /\ jobs'[m + 1] = j
  <2>1. jobs \in Seq(Job) /\ jobs' = Append(jobs, j)
    BY DEF Types, thpool_add_work
  <2> HIDE DEF j
  <2> QED
    BY <2>1, AppendProperties, LenProperties
<1>2. j.n = n /\ j.op = op
  OBVIOUS
<1>3. \A k \in 1 .. m + 1 : k \in 1 .. m \/ k = m + 1
  BY <1>1
<1>4. \A k \in 1 .. m : jobs[k].n < n /\ jobs[k].n \in Nat
  BY QueueElements
<1>5. \A k \in running : k.n < n
  BY DEF Work
<1> HIDE DEF j, m
<1>6. ASSUME NEW k \in 1 .. m + 1, NEW l \in 1 .. m + 1, k < l
      PROVE  jobs'[k].n < jobs'[l].n
  <2>1. k \in 1 .. m
    BY <1>1, <1>6
  <2> QED
    BY <1>1, <1>2, <1>3, <1>4, <1>6, <2>1 DEF InOrder, m
<1>7. ASSUME NEW r \in running, NEW k \in 1 .. m + 1
      PROVE  r.n < jobs'[k].n
  BY <1>1, <1>2, <1>3, <1>5 DEF InOrder, m
<1>8. ASSUME NEW k \in 1 .. m + 1
      PROVE  jobs'[k].op # "copy"
  BY <1>1, <1>2, <1>3 DEF InOrder, m
<1> QED
  BY <1>1, <1>6, <1>7, <1>8 DEF InOrder

LEMMA OrderStart ==
  ASSUME Types, InOrder, Start
  PROVE  InOrder' /\ Work' = Work
<1> DEFINE m == Len(jobs)
<1>1. jobs \in Seq(Job) /\ jobs # <<>> /\ running' = running \cup {Head(jobs)}
      /\ jobs' = Tail(jobs)
  BY DEF Types, Start
<1>2. /\ m \in Nat \ {0} /\ Head(jobs) = jobs[1] /\ Len(jobs') = m - 1
      /\ \A k \in 1 .. m - 1 : jobs'[k] = jobs[k + 1]
  BY <1>1, HeadTailProperties, LenProperties
<1>3. Work' = Work
  BY <1>1, QueueSet DEF Work
<1> DEFINE h == jobs[1]
<1>4. running' = running \cup {h} /\ \A r \in running : r.n < h.n /\ r.n \in Nat /\ h.n \in Nat
  <2>1. 1 \in 1 .. m
    BY <1>2
  <2> QED
    BY <1>1, <1>2, <2>1, QueueElements DEF InOrder, Work
<1>5. \A k \in 1 .. m - 1 : k + 1 \in 1 .. m /\ jobs'[k] = jobs[k + 1] /\ h.n < jobs[k + 1].n
  BY <1>2 DEF InOrder
<1> HIDE DEF h
<1>6. \A k, l \in 1 .. m - 1 : k < l => jobs'[k].n < jobs'[l].n
  <2> SUFFICES ASSUME NEW k \in 1 .. m - 1, NEW l \in 1 .. m - 1, k < l
               PROVE  jobs[k + 1].n < jobs[l + 1].n
    BY <1>5
  <2>1. k + 1 < l + 1
    BY <1>2
  <2> QED
    BY <1>5, <2>1 DEF InOrder
<1>7. \A r \in running', k \in 1 .. m - 1 : r.n < jobs'[k].n
  BY <1>4, <1>5 DEF InOrder
<1>8. \A r, s \in running' : r.n = s.n => r = s
  <2> SUFFICES ASSUME NEW r \in running', NEW s \in running', r.n = s.n
               PROVE  r = s
    OBVIOUS
  <2>1. CASE r = h /\ s = h
    BY <2>1
  <2>2. CASE r \in running /\ s \in running
    BY <2>2 DEF InOrder
  <2>3. CASE r \in running /\ s = h
    BY <1>4, <2>3
  <2>4. CASE s \in running /\ r = h
    BY <1>4, <2>4
  <2> QED
    BY <1>4, <2>1, <2>2, <2>3, <2>4
<1>9. \A k \in 1 .. m - 1 : jobs'[k].op # "copy"
  BY <1>5 DEF InOrder
<1> QED
  BY <1>2, <1>3, <1>6, <1>7, <1>8, <1>9 DEF InOrder

(* A job that is done, or that gives way to another one for its block      *)
LEMMA OrderDone ==
  ASSUME Types, InOrder, NEW j \in running, UNCHANGED jobs,
         NEW new, running' = (running \ {j}) \cup new, \A k \in new : k.n = j.n,
         \A k, l \in new : k = l
  PROVE  /\ InOrder'
         /\ Work' = (Work \ {j}) \cup new
         /\ \A k \in Work \ {j} : k.n # j.n
<1>1. /\ \A k \in 1 .. Len(jobs) : j.n < jobs[k].n /\ jobs[k].n \in Nat
      /\ j.n \in Nat
  BY QueueElements DEF InOrder, Work
<1>2. \A k \in 1 .. Len(jobs) : jobs[k].n # j.n
  BY <1>1
<1>3. \A k \in Work \ {j} : k.n # j.n
  BY <1>2, QueueElements DEF InOrder
<1>4. j \notin ToSet(jobs)
  <2>1. \A k \in DOMAIN jobs : jobs[k].n # j.n
    BY <1>2, LenProperties DEF Types
  <2> QED
    BY <2>1 DEF ToSet
<1>5. Work' = (Work \ {j}) \cup new
  BY <1>4 DEF Work
<1>6. \A k \in running' : \E l \in running : k.n = l.n /\ (k \in new => l = j)
                                             /\ (k \notin new => l = k /\ l # j)
  OBVIOUS
<1>7. InOrder'
  <2>1. \A r \in running', k \in 1 .. Len(jobs') : r.n < jobs'[k].n
    BY <1>6 DEF InOrder
  <2>2. \A r, s \in running' : r.n = s.n => r = s
    BY <1>6 DEF InOrder
  <2> QED
    BY <2>1, <2>2 DEF InOrder
<1> QED
  BY <1>3, <1>5, <1>7
-----------------------------------------------------------------------------
(* Stage 1.                                                                *)
LEMMA PlannedIs ==
  ASSUME NEW b \in Block1
  PROVE  Planned(b) \in Seq(Byte1) /\ Len(Planned(b)) = b.blockSize
<1>1. b.file \in Nat /\ b.blockNum \in Nat /\ b.blockSize \in Nat
  BY DEF Block1
<1> QED
  BY <1>1, DataIs DEF Planned

LEMMA PartsIs ==
  ASSUME NEW f, NEW s \in Seq(Block1)
  PROVE  /\ Parts(f, s) \in Seq(Seq(Byte1)) /\ Len(Parts(f, s)) = Len(s)
         /\ \A n \in 1 .. Len(s) :
              Parts(f, s)[n] = IF s[n].file = f THEN Planned(s[n]) ELSE <<>>
<1> DEFINE part(n) == IF s[n].file = f THEN Planned(s[n]) ELSE <<>>
           m == Len(s)
<1>1. m \in Nat /\ \A n \in 1 .. m : s[n] \in Block1
  BY ElementOfSeq
<1>2. \A n \in 1 .. m : part(n) \in Seq(Byte1)
  <2>1. <<>> \in Seq(Byte1)
    OBVIOUS
  <2> QED
    BY <1>1, <2>1, PlannedIs
<1>3. Parts(f, s) = [n \in 1 .. m |-> part(n)]
  BY DEF Parts
<1> HIDE DEF part, m
<1>4. Parts(f, s) \in Seq(Seq(Byte1)) /\ Len(Parts(f, s)) = m
      /\ \A n \in 1 .. m : Parts(f, s)[n] = part(n)
  BY <1>1, <1>2, <1>3
<1> QED
  BY <1>4 DEF part, m

LEMMA PartsAppend ==
  ASSUME NEW f, NEW s \in Seq(Block1), NEW b \in Block1
  PROVE  FlattenSeq(Parts(f, Append(s, b))) =
           FlattenSeq(Parts(f, s)) \o (IF b.file = f THEN Planned(b) ELSE <<>>)
<1> DEFINE x == IF b.file = f THEN Planned(b) ELSE <<>>
           r == Append(s, b)
           p == Parts(f, s)
           q == Parts(f, r)
           m == Len(s)
<1>1. x \in Seq(Byte1)
  <2>1. <<>> \in Seq(Byte1)
    OBVIOUS
  <2> QED
    BY <2>1, PlannedIs
<1>2. /\ r \in Seq(Block1) /\ Len(r) = m + 1 /\ m \in Nat
      /\ \A n \in 1 .. m : r[n] = s[n]
      /\ r[m + 1] = b
  BY AppendProperties
<1>3. /\ p \in Seq(Seq(Byte1)) /\ Len(p) = m
      /\ \A n \in 1 .. m : p[n] = IF s[n].file = f THEN Planned(s[n]) ELSE <<>>
  BY PartsIs
<1> HIDE DEF r
<1>4. /\ q \in Seq(Seq(Byte1)) /\ Len(q) = m + 1
      /\ \A n \in 1 .. m + 1 : q[n] = IF r[n].file = f THEN Planned(r[n]) ELSE <<>>
  BY <1>2, PartsIs
<1>5. q[m + 1] = x /\ \A n \in 1 .. m : q[n] = p[n]
  <2>1. m + 1 \in 1 .. m + 1 /\ \A n \in 1 .. m : n \in 1 .. m + 1
    BY <1>2
  <2> QED
    BY <1>2, <1>3, <1>4, <2>1
<1> HIDE DEF x, p, q, m
<1>6. q = Append(p, x)
  <2>1. /\ Append(p, x) \in Seq(Seq(Byte1)) /\ Len(Append(p, x)) = m + 1
        /\ \A n \in 1 .. m : Append(p, x)[n] = p[n]
        /\ Append(p, x)[m + 1] = x
    BY <1>1, <1>3, AppendProperties
  <2>2. \A n \in 1 .. m + 1 : n \in 1 .. m \/ n = m + 1
    BY <1>2
  <2>3. \A n \in 1 .. Len(q) : q[n] = Append(p, x)[n]
    BY <1>4, <1>5, <2>1, <2>2
  <2> QED
    BY <1>4, <2>1, <2>3, SeqEqual
<1>7. FlattenSeq(q) = FlattenSeq(p) \o x
  BY <1>1, <1>3, <1>6, FlattenAppend
<1> QED
  BY <1>7 DEF q, p, x, r

LEMMA KeepReading ==
  ASSUME FilesCut, BlocksCut, UNCHANGED block1Storage,
         UNCHANGED <<pc, i, posFile>> \/ (pc # "solve1" /\ pc' # "solve1"),
         \A n \in 1 .. Len(block1Storage) : Pending("readFile", n) => Pending("readFile", n)'
  PROVE  FilesCut' /\ BlocksCut'
<1>1. \A f : CoveredTo(f)' = CoveredTo(f)
  BY DEF CoveredTo
<1>2. FilesCut'
  BY <1>1 DEF FilesCut
<1>3. BlocksCut'
  BY DEF BlocksCut
<1> QED
  BY <1>2, <1>3

LEMMA PendingAdd ==
  ASSUME NEW o, NEW m, Work' = Work \cup {[op |-> o, n |-> m]}
  PROVE  \A op, n : Pending(op, n)' <=> Pending(op, n) \/ (op = o /\ n = m)
<1> SUFFICES ASSUME NEW op, NEW n
             PROVE  Pending(op, n)' <=> Pending(op, n) \/ (op = o /\ n = m)
  OBVIOUS
<1>1. [op |-> op, n |-> n] = [op |-> o, n |-> m] <=> (op = o /\ n = m)
  <2> DEFINE a == [op |-> op, n |-> n]
             b == [op |-> o, n |-> m]
  <2>1. a.op = op /\ a.n = n /\ b.op = o /\ b.n = m
    OBVIOUS
  <2>2. a = b => op = o /\ n = m
    <3> HIDE DEF a, b
    <3> QED
      BY <2>1
  <2> QED
    BY <2>2
<1> QED
  BY <1>1 DEF Pending

LEMMA PendingSame ==
  ASSUME Work' = Work
  PROVE  \A op, n : Pending(op, n)' <=> Pending(op, n)
  BY DEF Pending

LEMMA KeepPushed ==
  ASSUME Pushed, UNCHANGED compressQueue1, PushedBlocks' = PushedBlocks,
         pc' # "push" \/ UNCHANGED <<pc, i, block1Storage>>
  PROVE  Pushed'
  BY DEF Pushed

LEMMA KeepFramed ==
  ASSUME Framed, UNCHANGED transferQueue1, FramedBlocks' = FramedBlocks,
         pc' # "frame" \/ UNCHANGED <<pc, i, block2Storage>>
  PROVE  Framed'
  BY DEF Framed

LEMMA KeepCompressed ==
  ASSUME Compressed, UNCHANGED <<THREAD_NUM, block2Storage, compressedBuffer>>,
         \A n \in 1 .. Len(block2Storage) :
           /\ Pending("compress_func", n)' <=> Pending("compress_func", n)
           /\ Pending("copy", n)' <=> Pending("copy", n)
  PROVE  Compressed'
<1>1. Undisturbed' = Undisturbed
  BY DEF Undisturbed, OutputsFit
<1>2. \A n \in 1 .. Len(block2Storage) : HasOutput(n)' <=> HasOutput(n)
  BY DEF HasOutput, CopiedFrom
<1> QED
  BY <1>1, <1>2 DEF Compressed

LEMMA KeepAllCompressed ==
  ASSUME AllCompressed, UNCHANGED compressQueue1, Len(block2Storage') = Len(block2Storage),
         \/ pc' = pc
         \/ pc' \in {"solve1", "wait1", "push", "solve2"}
         \/ pc \in {"wait2", "frame", "solve3", "wait3", "over"}
  PROVE  AllCompressed'
  BY DEF AllCompressed

LEMMA KeepSent ==
  ASSUME Sent, UNCHANGED <<transferQueue1, block3Storage>>, served \subseteq served',
         \A n \in 1 .. Len(block3Storage) :
           Pending("transfer", n) => Pending("transfer", n)' \/ n \in served',
         \/ pc' = pc
         \/ {pc, pc'} \subseteq {"solve1", "wait1", "push", "solve2", "wait2", "frame"}
         \/ pc = "wait3" /\ pc' = "over"
  PROVE  Sent'
<1>1. \A n \in 1 .. Len(block3Storage) :
        /\ block3Storage[n] = Pieces(transferQueue1, block3Size)[n]
        /\ n \in served' \/ Pending("transfer", n)'
  BY DEF Sent
<1> QED
  BY <1>1 DEF Sent

LEMMA KeepOrder ==
  ASSUME InOrder, UNCHANGED pool
  PROVE  InOrder' /\ Work' = Work
  BY DEF InOrder, pool, Work

(* The next file, and the next block of a file                             *)
LEMMA NextFileReading ==
  ASSUME FilesCut, BlocksCut, pc = "solve1", i \in Nat \ {0}, posFile \in Nat,
         i <= Len(Files), Files[i].size - posFile <= 0,
         i' = i + 1, posFile' = 0, UNCHANGED <<pc, block1Storage>>, Work' = Work
  PROVE  FilesCut' /\ BlocksCut'
<1>1. i \in 1 .. Len(Files) /\ i + 1 > i
  <2>1. Len(Files) \in Nat
    BY FramesAssumption, LenProperties
  <2> QED
    BY <2>1
<1>2. \A f \in 1 .. Len(Files) : CoveredTo(f)' = CoveredTo(f)
  <2> SUFFICES ASSUME NEW f \in 1 .. Len(Files)
               PROVE  CoveredTo(f)' = CoveredTo(f)
    OBVIOUS
  <2>1. f \in Nat /\ Files[f].size \in Nat
    BY FileIs
  <2>2. CASE f < i
    BY <2>1, <2>2 DEF CoveredTo
  <2>3. CASE f = i
    BY <2>1, <2>3 DEF CoveredTo, Least
  <2>4. CASE f > i
    BY <2>1, <2>4 DEF CoveredTo, Least
  <2> QED
    BY <2>1, <2>2, <2>3, <2>4
<1>3. FilesCut'
  BY <1>2 DEF FilesCut
<1>4. BlocksCut'
  BY PendingSame DEF BlocksCut
<1> QED
  BY <1>3, <1>4

LEMMA CutBlock ==
  ASSUME NEW f \in Nat, NEW p \in Nat, NEW l \in Nat
  PROVE  /\ [block1(f, p, <<>>) EXCEPT !.blockSize = l]
               = [file |-> f, blockNum |-> p, blockSize |-> l, buffer |-> <<>>]
         /\ [file |-> f, blockNum |-> p, blockSize |-> l, buffer |-> <<>>] \in Block1
<1>1. <<>> \in Seq(Byte1)
  OBVIOUS
<1>2. [block1(f, p, <<>>) EXCEPT !.blockSize = l]
        = [file |-> f, blockNum |-> p, blockSize |-> l, buffer |-> <<>>]
  BY DEF block1
<1>3. [file |-> f, blockNum |-> p, blockSize |-> l, buffer |-> <<>>] \in Block1
  <2> DEFINE S == Seq(Byte1)
             d == <<>>
  <2>1. d \in S
    BY <1>1
  <2> HIDE DEF S, d
  <2>2. [file |-> f, blockNum |-> p, blockSize |-> l, buffer |-> d]
          \in [file : Nat, blockNum : Nat, blockSize : Nat, buffer : S]
    BY <2>1
  <2> QED
    BY <2>2 DEF Block1, S, d
<1> QED
  BY <1>2, <1>3

LEMMA NextBlockReading ==
  ASSUME FilesCut, BlocksCut, block1Storage \in Seq(Block1),
         pc = "solve1", i \in Nat \ {0}, posFile \in Nat,
         i <= Len(Files), NEW size, size = Files[i].size - posFile, ~(size <= 0),
         NEW b, b = [block1(i, posFile, <<>>) EXCEPT !.blockSize = Least(size, block1Size)],
         block1Storage' = Append(block1Storage, b),
         posFile' = posFile + block1Size, UNCHANGED <<pc, i>>,
         Work' = Work \cup {[op |-> "readFile", n |-> Len(block1Storage) + 1]}
  PROVE  FilesCut' /\ BlocksCut'
<1> DEFINE l == Least(size, block1Size)
           m == Len(block1Storage)
<1>1. i \in 1 .. Len(Files) /\ Files[i].size \in Nat
  <2>1. Len(Files) \in Nat
    BY FramesAssumption, LenProperties
  <2> QED
    BY <2>1, FileIs
<1>2. size \in Nat /\ l \in Nat /\ l <= block1Size /\ posFile + l = Least(posFile', Files[i].size)
      /\ Least(posFile, Files[i].size) = posFile
  <2> DEFINE z == Files[i].size
  <2>1. /\ z \in Nat /\ posFile \in Nat /\ block1Size \in Nat \ {0}
        /\ size = z - posFile /\ ~(size <= 0) /\ posFile' = posFile + block1Size
    BY <1>1, Sizes
  <2> HIDE DEF z
  <2>2. size \in Nat /\ Least(posFile, z) = posFile
    BY <2>1 DEF Least
  <2>3. l \in Nat /\ l <= block1Size /\ posFile + l = Least(posFile', z)
    BY <2>1 DEF Least
  <2> QED
    BY <2>2, <2>3 DEF z
<1>3. /\ b.file = i /\ b.blockNum = posFile /\ b.blockSize = l
      /\ b \in Block1
  <2>1. i \in Nat
    OBVIOUS
  <2> HIDE DEF l
  <2>2. l \in Nat /\ b = [block1(i, posFile, <<>>) EXCEPT !.blockSize = l]
    BY <1>2 DEF l
  <2>3. /\ b = [file |-> i, blockNum |-> posFile, blockSize |-> l, buffer |-> <<>>]
        /\ [file |-> i, blockNum |-> posFile, blockSize |-> l, buffer |-> <<>>] \in Block1
    BY <2>1, <2>2, CutBlock
  <2> QED
    BY <2>3
<1> HIDE DEF l
<1>4. ASSUME NEW f \in 1 .. Len(Files)
      PROVE  FlattenSeq(Parts(f, block1Storage')) = DataBytes(f, 0, CoveredTo(f)')
  <2>1. f \in Nat /\ Files[f].size \in Nat
    BY FileIs
  <2>2. FlattenSeq(Parts(f, block1Storage')) =
          FlattenSeq(Parts(f, block1Storage)) \o (IF i = f THEN Planned(b) ELSE <<>>)
    BY <1>3, PartsAppend
  <2>3. FlattenSeq(Parts(f, block1Storage)) = DataBytes(f, 0, CoveredTo(f))
    BY DEF FilesCut
  <2>4. CASE f = i
    <3>1. CoveredTo(f) = posFile /\ CoveredTo(f)' = posFile + l
      BY <1>2, <2>4 DEF CoveredTo
    <3>2. Planned(b) = DataBytes(f, posFile, l)
      BY <1>3, <2>4 DEF Planned
    <3>3. DataBytes(f, 0, posFile) \o DataBytes(f, posFile, l) = DataBytes(f, 0, posFile + l)
      BY <1>2, <2>1, DataJoin
    <3> QED
      BY <2>2, <2>3, <2>4, <3>1, <3>2, <3>3
  <2>5. CASE f # i
    <3>1. CoveredTo(f)' = CoveredTo(f) /\ CoveredTo(f) \in Nat
      BY <2>1, <2>5 DEF CoveredTo
    <3>2. DataBytes(f, 0, CoveredTo(f)) \in Seq(Byte1)
      BY <2>1, <3>1, DataIs
    <3>3. DataBytes(f, 0, CoveredTo(f)) \o <<>> = DataBytes(f, 0, CoveredTo(f))
      BY <3>2, ConcatEmptySeq
    <3> QED
      BY <2>2, <2>3, <2>5, <3>1, <3>3
  <2> QED
    BY <2>4, <2>5
<1>5. FilesCut'
  BY <1>4 DEF FilesCut
<1>6. /\ Len(block1Storage') = m + 1 /\ m \in Nat
      /\ \A n \in 1 .. m : block1Storage'[n] = block1Storage[n]
      /\ block1Storage'[m + 1] = b
  BY <1>3, AppendProperties, LenProperties
<1>7. /\ \A n : n = m + 1 => Pending("readFile", n)'
      /\ \A n \in 1 .. m : Pending("readFile", n) => Pending("readFile", n)'
  <2>1. Work' = Work \cup {[op |-> "readFile", n |-> m + 1]}
    OBVIOUS
  <2> HIDE DEF m
  <2>2. \A op, n : Pending(op, n)' <=> Pending(op, n) \/ (op = "readFile" /\ n = m + 1)
    BY <2>1, PendingAdd
  <2> QED
    BY <2>2
<1> HIDE DEF m
<1>8. \A n \in 1 .. m + 1 : n \in 1 .. m \/ n = m + 1
  BY <1>6
<1>9. ASSUME NEW n \in 1 .. m + 1
      PROVE  /\ block1Storage'[n].file \in 1 .. Len(Files)
             /\ block1Storage'[n].blockSize <= block1Size
             /\ \/ Pending("readFile", n)'
                \/ block1Storage'[n].buffer = Planned(block1Storage'[n])
  <2>1. CASE n \in 1 .. m
    BY <1>6, <1>7, <2>1 DEF BlocksCut, m
  <2>2. CASE n = m + 1
    <3>1. Pending("readFile", n)'
      BY <1>7, <2>2
    <3>2. block1Storage'[n] = b
      BY <1>6, <2>2
    <3> QED
      BY <1>1, <1>2, <1>3, <3>1, <3>2
  <2> QED
    BY <1>8, <2>1, <2>2
<1>10. BlocksCut'
  BY <1>6, <1>9 DEF BlocksCut
<1> QED
  BY <1>5, <1>10

(* What a step of stage 1 leaves alone                                     *)
LEMMA ReadingOnly ==
  ASSUME Trip, {pc, pc'} \subseteq {"solve1", "wait1"},
         UNCHANGED <<THREAD_NUM, compressQueue1, compressedBuffer, block2Storage,
                     transferQueue1, block3Storage, served>>,
         \A op, n : op # "readFile" => (Pending(op, n)' <=> Pending(op, n))
  PROVE  Pushed' /\ Framed' /\ Compressed' /\ AllCompressed' /\ Sent'
<1>1. Pushed' /\ Framed'
  BY KeepPushed, KeepFramed DEF Trip, PushedBlocks, FramedBlocks
<1>2. Compressed'
  BY KeepCompressed DEF Trip
<1>3. AllCompressed'
  BY KeepAllCompressed DEF Trip
<1>4. Sent'
  <2>1. \A n \in 1 .. Len(block3Storage) : Pending("transfer", n) => Pending("transfer", n)'
    OBVIOUS
  <2> QED
    BY <2>1, KeepSent DEF Trip
<1> QED
  BY <1>1, <1>2, <1>3, <1>4

LEMMA AddFileTrip ==
  ASSUME SingleInv, Trip, ~lost', addFile PROVE Trip'
<1> DEFINE size == Files[i].size - posFile
           b == [block1(i, posFile, <<>>) EXCEPT !.blockSize = Least(size, block1Size)]
           n == Len(block1Storage) + 1
<1>1. /\ pc = "solve1" /\ i <= Len(Files) /\ pc' = pc
      /\ UNCHANGED <<setting, compressQueue1, compressedBuffer, block2Storage,
                     transferQueue1, block3Storage, served>>
      /\ \/ /\ size <= 0 /\ i' = i + 1 /\ posFile' = 0
            /\ UNCHANGED <<block1Storage, pool>>
         \/ /\ ~(size <= 0)
            /\ block1Storage' = Append(block1Storage, b)
            /\ posFile' = posFile + block1Size
            /\ thpool_add_work("readFile", n)
            /\ UNCHANGED <<i, running, allocated>>
  BY DEF addFile
<1>2. /\ i \in Nat \ {0} /\ posFile \in Nat /\ block1Storage \in Seq(Block1)
      /\ Len(block1Storage) \in Nat
  BY LenProperties DEF SingleInv, TypeOK, Types
<1>3. CASE /\ size <= 0 /\ i' = i + 1 /\ posFile' = 0
           /\ UNCHANGED <<block1Storage, pool>>
  <2>1. InOrder' /\ Work' = Work
    BY <1>3, KeepOrder DEF Trip
  <2>2. FilesCut' /\ BlocksCut'
    BY <1>1, <1>2, <1>3, <2>1, NextFileReading DEF Trip
  <2>3. Pushed' /\ Framed' /\ Compressed' /\ AllCompressed' /\ Sent'
    BY <1>1, <2>1, PendingSame, ReadingOnly DEF setting
  <2> QED
    BY <2>1, <2>2, <2>3 DEF Trip
<1>4. CASE /\ ~(size <= 0)
           /\ block1Storage' = Append(block1Storage, b)
           /\ posFile' = posFile + block1Size
           /\ thpool_add_work("readFile", n)
           /\ UNCHANGED <<i, running, allocated>>
  <2> HIDE DEF b
  <2>1. n \in Nat \ {0} /\ [op |-> "readFile", n |-> n] \in Job
    BY <1>2 DEF Job
  <2>2. Work' = Work \cup {[op |-> "readFile", n |-> n]}
    BY <1>1, <1>4, <2>1, Submit
  <2>3. \A j \in Work : j.n < n
    <3>1. \A j \in Work : j.op = "readFile" /\ j.n <= Len(block1Storage)
      BY <1>1 DEF SingleInv, StageOK, Stage, JobsFit
    <3>2. \A j \in Work : j.n \in Nat
      BY QueueElements DEF SingleInv
    <3> QED
      BY <1>2, <3>1, <3>2
  <2>4. InOrder'
    <3> HIDE DEF n
    <3> QED
      BY <1>4, <2>1, <2>3, OrderAppend DEF Trip, SingleInv
  <2>5. FilesCut' /\ BlocksCut'
    BY <1>1, <1>2, <1>4, <2>2, NextBlockReading DEF Trip, b
  <2>6. \A op, m : op # "readFile" => (Pending(op, m)' <=> Pending(op, m))
    <3> HIDE DEF n
    <3> QED
      BY <2>2, PendingAdd
  <2>7. Pushed' /\ Framed' /\ Compressed' /\ AllCompressed' /\ Sent'
    BY <1>1, <2>6, ReadingOnly DEF setting
  <2> QED
    BY <2>4, <2>5, <2>7 DEF Trip
<1> QED
  BY <1>1, <1>3, <1>4

LEMMA TraverseTrip ==
  ASSUME SingleInv, Trip, trave_dir PROVE Trip'
<1>1. /\ pc = "solve1" /\ pc' = "wait1" /\ i > Len(Files)
      /\ UNCHANGED <<setting, memory, pool, world>>
  BY DEF trave_dir, Goto
<1>2. InOrder' /\ Work' = Work
  BY <1>1, KeepOrder DEF Trip
<1>3. \A f \in 1 .. Len(Files) : CoveredTo(f)' = CoveredTo(f)
  <2>1. \A f \in 1 .. Len(Files) : f < i
    <3>1. Len(Files) \in Nat /\ i \in Nat
      BY FramesAssumption, LenProperties DEF SingleInv, Types
    <3> QED
      BY <1>1, <3>1
  <2> QED
    BY <1>1, <2>1 DEF CoveredTo
<1>4. FilesCut' /\ BlocksCut'
  BY <1>1, <1>2, <1>3, PendingSame DEF Trip, FilesCut, BlocksCut, memory
<1>5. Pushed' /\ Framed' /\ Compressed' /\ AllCompressed' /\ Sent'
  BY <1>1, <1>2, PendingSame, ReadingOnly DEF setting, memory, world
<1> QED
  BY <1>2, <1>4, <1>5 DEF Trip
-----------------------------------------------------------------------------
(* Stage 2.                                                                *)
LEMMA PushTrip ==
  ASSUME SingleInv, Trip, ~lost', compressQueue_push PROVE Trip'
<1> DEFINE b == block1Storage[i]
<1>1. /\ pc = "push" /\ pc' = pc /\ i <= Len(block1Storage) /\ i' = i + 1
      /\ UNCHANGED <<setting, posFile, block1Storage, compressedBuffer, block2Storage,
                     transferQueue1, block3Storage, pool, allocated, served>>
      /\ compressQueue1' = compressQueue1 \o Record1(b)
  BY DEF compressQueue_push
<1>2. /\ i \in 1 .. Len(block1Storage) /\ i \in Nat \ {0} /\ block1Storage \in Seq(Block1)
      /\ Len(block1Storage) \in Nat
  BY <1>1, LenProperties DEF SingleInv, Types
<1>3. InOrder' /\ Work' = Work
  BY <1>1, KeepOrder DEF Trip
<1>4. FilesCut' /\ BlocksCut'
  BY <1>1, <1>3, PendingSame, KeepReading DEF Trip
<1>5. Pushed'
  <2> DEFINE q == SubSeq(block1Storage, 1, i - 1)
  <2>1. q \in Seq(Block1) /\ b \in Block1 /\ SubSeq(block1Storage, 1, i) = Append(q, b)
    BY <1>2, PrefixStep
  <2>2. compressQueue1 = FlattenSeq(Records1(q))
    BY <1>1 DEF Trip, Pushed, PushedBlocks
  <2> HIDE DEF b, q
  <2>3. compressQueue1' = FlattenSeq(Records1(Append(q, b)))
    BY <1>1, <2>1, <2>2, RecordsAppend
  <2>4. PushedBlocks' = SubSeq(block1Storage, 1, i)
    <3>1. i' - 1 = i
      BY <1>1, <1>2
    <3> QED
      BY <1>1, <3>1 DEF PushedBlocks
  <2>5. i' <= Len(block1Storage') + 1
    BY <1>1, <1>2
  <2> QED
    BY <2>1, <2>3, <2>4, <2>5 DEF Pushed
<1>6. Framed'
  BY <1>1, KeepFramed DEF Trip, FramedBlocks
<1>7. Compressed'
  BY <1>1, <1>3, PendingSame, KeepCompressed DEF Trip, setting
<1>8. AllCompressed'
  BY <1>1 DEF AllCompressed
<1>9. Sent'
  BY <1>1, <1>3, PendingSame, KeepSent DEF Trip
<1> QED
  BY <1>3, <1>4, <1>5, <1>6, <1>7, <1>8, <1>9 DEF Trip

LEMMA WaitTrip2 ==
  ASSUME SingleInv, Trip, pc \in {"push", "solve2"}, pc = "push" => i > Len(block1Storage),
         Len(block2Storage) = Len(Pieces(compressQueue1, block2Size)),
         Goto("wait2"), UNCHANGED <<setting, memory, pool, world>>
  PROVE  Trip'
<1>1. pc' = "wait2"
  BY DEF Goto
<1>2. InOrder' /\ Work' = Work
  BY KeepOrder DEF Trip
<1>3. FilesCut' /\ BlocksCut'
  BY <1>1, <1>2, PendingSame, KeepReading DEF Trip, memory
<1>4. Pushed'
  <2>1. PushedBlocks = block1Storage
    <3>1. CASE pc = "push"
      <4>1. i \in Nat \ {0} /\ Len(block1Storage) \in Nat /\ block1Storage \in Seq(Block1)
        BY LenProperties DEF SingleInv, Types
      <4>2. i - 1 = Len(block1Storage)
        BY <3>1, <4>1 DEF Trip, Pushed
      <4>3. SubSeq(block1Storage, 1, Len(block1Storage)) = block1Storage
        BY <4>1, PrefixEnds
      <4> QED
        BY <3>1, <4>2, <4>3 DEF PushedBlocks
    <3>2. CASE pc # "push"
      BY <3>2 DEF PushedBlocks
    <3> QED
      BY <3>1, <3>2
  <2>2. PushedBlocks' = block1Storage
    BY <1>1 DEF PushedBlocks, memory
  <2> QED
    BY <1>1, <2>1, <2>2, KeepPushed DEF Trip, memory
<1>5. Framed'
  BY <1>1, KeepFramed DEF Trip, FramedBlocks, memory
<1>6. Compressed'
  BY <1>2, PendingSame, KeepCompressed DEF Trip, setting, memory
<1>7. AllCompressed'
  BY DEF AllCompressed, memory
<1>8. Sent'
  BY <1>1, <1>2, PendingSame, KeepSent DEF Trip, memory, world
<1> QED
  BY <1>2, <1>3, <1>4, <1>5, <1>6, <1>7, <1>8 DEF Trip

LEMMA FitBefore ==
  ASSUME Undisturbed', UNCHANGED THREAD_NUM, block2Storage \in Seq(Block2),
         Len(block2Storage) <= Len(block2Storage'), block2Storage' \in Seq(Block2),
         \A n \in 1 .. Len(block2Storage) :
           block2Storage[n].blockSize <= block2Storage'[n].blockSize \/ block2Storage[n].blockSize = 0
  PROVE  Undisturbed
<1>1. CASE THREAD_NUM = 1
  BY <1>1 DEF Undisturbed
<1>2. CASE OutputsFit'
  <2>1. /\ DOMAIN block2Storage = 1 .. Len(block2Storage) /\ Len(block2Storage) \in Nat
        /\ DOMAIN block2Storage' = 1 .. Len(block2Storage') /\ Len(block2Storage') \in Nat
    BY LenProperties
  <2>2. ASSUME NEW n \in 1 .. Len(block2Storage)
        PROVE  block2Storage[n].blockSize <= block2Size
    <3> DEFINE b == block2Storage[n]
               c == block2Storage'[n]
    <3>1. n \in 1 .. Len(block2Storage')
      BY <2>1
    <3>2. b \in Block2 /\ c \in Block2
      BY <3>1, ElementOfSeq
    <3>3. b.blockSize \in Nat /\ c.blockSize \in Nat
      BY <3>2 DEF Block2
    <3>4. c.blockSize <= block2Size
      BY <1>2, <2>1, <3>1 DEF OutputsFit
    <3>5. b.blockSize <= c.blockSize \/ b.blockSize = 0
      OBVIOUS
    <3> HIDE DEF b, c
    <3>6. b.blockSize <= block2Size
      BY <3>3, <3>4, <3>5, Sizes
    <3> QED
      BY <3>6 DEF b
  <2> QED
    BY <2>1, <2>2 DEF Undisturbed, OutputsFit
<1> QED
  BY <1>1, <1>2 DEF Undisturbed

LEMMA NewBlock2 ==
  ASSUME NEW m \in Nat
  PROVE  /\ block2(m, 0, <<>>) = [blockNum |-> m, blockSize |-> 0, compressType |-> 0, buffer |-> <<>>]
         /\ block2(m, 0, <<>>) \in Block2
<1>1. block2(m, 0, <<>>) = [blockNum |-> m, blockSize |-> 0, compressType |-> 0, buffer |-> <<>>]
  BY DEF block2
<1>2. block2(m, 0, <<>>) \in Block2
  <2> DEFINE S == Seq(Byte2)
             d == <<>>
  <2>1. d \in S
    OBVIOUS
  <2>2. block2(m, 0, d) = [blockNum |-> m, blockSize |-> 0, compressType |-> 0, buffer |-> d]
    BY <1>1
  <2> HIDE DEF S, d
  <2>3. block2(m, 0, d) \in [blockNum : Nat, blockSize : Nat, compressType : Nat, buffer : S]
    BY <2>1, <2>2
  <2> QED
    BY <2>3 DEF Block2, S, d
<1> QED
  BY <1>1, <1>2

LEMMA SubmitTrip2 ==
  ASSUME SingleInv, Trip, pc \in {"push", "solve2"}, pc = "push" => i > Len(block1Storage),
         pc' = "solve2", UNCHANGED <<setting, i, posFile, block1Storage, compressQueue1,
           compressedBuffer, transferQueue1, block3Storage, running, world>>,
         block2Storage' = Append(block2Storage, block2(Len(block2Storage), 0, <<>>)),
         thpool_add_work("compress_func", Len(block2Storage) + 1)
  PROVE  Trip'
<1> DEFINE m == Len(block2Storage)
           n1 == m + 1
           b == block2(m, 0, <<>>)
<1>1. block2Storage \in Seq(Block2) /\ m \in Nat /\ n1 \in Nat \ {0}
  BY LenProperties DEF SingleInv, Types
<1>2. /\ b \in Block2 /\ b.blockNum = m /\ b.compressType = 0 /\ b.blockSize = 0
  BY <1>1, NewBlock2
<1> HIDE DEF b
<1>3. /\ block2Storage' \in Seq(Block2) /\ Len(block2Storage') = m + 1
      /\ \A n \in 1 .. m : block2Storage'[n] = block2Storage[n]
      /\ block2Storage'[m + 1] = b
  BY <1>1, <1>2, AppendProperties DEF b
<1>4. [op |-> "compress_func", n |-> n1] \in Job
  BY <1>1 DEF Job
<1>5. Work' = Work \cup {[op |-> "compress_func", n |-> n1]}
  BY <1>4, Submit DEF world
<1>6. \A j \in Work : j.n < n1
  <2>1. \A j \in Work : j.op \in {"compress_func", "copy"} /\ j.n <= m
    BY DEF SingleInv, StageOK, Stage, JobsFit
  <2>2. \A j \in Work : j.n \in Nat
    BY QueueElements DEF SingleInv
  <2> QED
    BY <1>1, <2>1, <2>2
<1>7. InOrder'
  <2> HIDE DEF n1
  <2> QED
    BY <1>4, <1>6, OrderAppend DEF Trip, SingleInv, n1
<1>8. \A op, n : Pending(op, n)' <=> Pending(op, n) \/ (op = "compress_func" /\ n = n1)
  <2> HIDE DEF n1
  <2> QED
    BY <1>5, PendingAdd
<1>9. FilesCut' /\ BlocksCut'
  BY <1>8, KeepReading DEF Trip
<1>10. Pushed'
  <2>1. PushedBlocks = block1Storage
    <3>1. CASE pc = "push"
      <4>1. i \in Nat \ {0} /\ Len(block1Storage) \in Nat /\ block1Storage \in Seq(Block1)
        BY LenProperties DEF SingleInv, Types
      <4>2. i - 1 = Len(block1Storage)
        BY <3>1, <4>1 DEF Trip, Pushed
      <4>3. SubSeq(block1Storage, 1, Len(block1Storage)) = block1Storage
        BY <4>1, PrefixEnds
      <4> QED
        BY <3>1, <4>2, <4>3 DEF PushedBlocks
    <3>2. CASE pc # "push"
      BY <3>2 DEF PushedBlocks
    <3> QED
      BY <3>1, <3>2
  <2>2. PushedBlocks' = block1Storage
    BY DEF PushedBlocks
  <2> QED
    BY <2>1, <2>2, KeepPushed DEF Trip
<1>11. Framed'
  BY KeepFramed DEF Trip, FramedBlocks
<1>12. \A n : n = n1 => Pending("compress_func", n)'
  BY <1>8
<1>13. \A n \in 1 .. m + 1 : n \in 1 .. m \/ n = n1
  BY <1>1
<1>14. Undisturbed' => Undisturbed
  <2>1. \A n \in 1 .. m : block2Storage[n].blockSize <= block2Storage'[n].blockSize
    <3> SUFFICES ASSUME NEW n \in 1 .. m
                 PROVE  block2Storage[n].blockSize <= block2Storage[n].blockSize
      BY <1>3
    <3>1. block2Storage[n] \in Block2
      BY <1>1, ElementOfSeq
    <3>2. block2Storage[n].blockSize \in Nat
      BY <3>1 DEF Block2
    <3> QED
      BY <3>2
  <2>2. m <= m + 1
    BY <1>1
  <2> QED
    BY <1>1, <1>3, <2>1, <2>2, FitBefore DEF setting
<1>15. \A n \in 1 .. m : HasOutput(n) => HasOutput(n)'
  <2> SUFFICES ASSUME NEW n \in 1 .. m, HasOutput(n)
               PROVE  HasOutput(n)'
    OBVIOUS
  <2>1. block2Storage'[n] = block2Storage[n]
    BY <1>3
  <2>2. Pending("copy", n)' <=> Pending("copy", n)
    BY <1>8
  <2> HIDE DEF m
  <2> QED
    BY <2>1, <2>2 DEF HasOutput, CopiedFrom
<1>16. Compressed'
  <2> SUFFICES ASSUME NEW n \in 1 .. m + 1
        PROVE  /\ block2Storage'[n].blockNum = n - 1
               /\ block2Storage'[n].compressType = 0
               /\ \/ Pending("compress_func", n)' /\ block2Storage'[n].blockSize = 0
                  \/ /\ block2Storage'[n].blockSize \in CompressedSizes
                     /\ ~Pending("compress_func", n)'
                     /\ Undisturbed' => HasOutput(n)'
    BY <1>3 DEF Compressed
  <2>1. CASE n \in 1 .. m
    <3>1. block2Storage'[n] = block2Storage[n] /\ n # n1
      BY <1>1, <1>3, <2>1
    <3> HIDE DEF m, n1
    <3>2. Pending("compress_func", n)' <=> Pending("compress_func", n)
      BY <1>8, <3>1
    <3> QED
      BY <1>14, <1>15, <2>1, <3>1, <3>2 DEF Trip, Compressed, m
  <2>2. CASE n = n1
    <3>1. block2Storage'[n] = b /\ n - 1 = m
      BY <1>1, <1>3, <2>2
    <3>2. Pending("compress_func", n)'
      BY <1>12, <2>2
    <3> QED
      BY <1>2, <3>1, <3>2
  <2> QED
    BY <1>13, <2>1, <2>2
<1>17. AllCompressed'
  BY DEF AllCompressed
<1>18. Sent'
  <2>1. \A n \in 1 .. Len(block3Storage) : Pending("transfer", n) => Pending("transfer", n)'
    BY <1>8
  <2> QED
    BY <2>1, KeepSent DEF Trip, world
<1> QED
  BY <1>7, <1>9, <1>10, <1>11, <1>16, <1>17, <1>18 DEF Trip

LEMMA Solve2Trip ==
  ASSUME SingleInv, Trip, ~lost', solve2 PROVE Trip'
<1>1. /\ pc \in {"push", "solve2"}
      /\ pc = "push" => i > Len(block1Storage)
      /\ UNCHANGED <<setting, block1Storage, compressQueue1, compressedBuffer,
                     transferQueue1, block3Storage, allocated, served>>
  BY DEF solve2
<1>2. CASE Len(block2Storage) = Len(Pieces(compressQueue1, block2Size))
  <2>1. Goto("wait2") /\ UNCHANGED <<block2Storage, pool, lost>>
    BY <1>2 DEF solve2
  <2>2. UNCHANGED <<setting, memory, pool, world>>
    BY <1>1, <2>1 DEF memory, world
  <2> QED
    BY <1>1, <1>2, <2>1, <2>2, WaitTrip2
<1>3. CASE Len(block2Storage) # Len(Pieces(compressQueue1, block2Size))
  <2>1. /\ pc' = "solve2"
        /\ block2Storage' = Append(block2Storage, block2(Len(block2Storage), 0, <<>>))
        /\ thpool_add_work("compress_func", Len(block2Storage) + 1)
        /\ UNCHANGED <<i, posFile, running, lost>>
    BY <1>3 DEF solve2
  <2>2. UNCHANGED <<setting, i, posFile, block1Storage, compressQueue1,
           compressedBuffer, transferQueue1, block3Storage, running, world>>
    BY <1>1, <2>1 DEF world
  <2> QED
    BY <1>1, <2>1, <2>2, SubmitTrip2
<1> QED
  BY <1>2, <1>3
-----------------------------------------------------------------------------
(* Stage 3.                                                                *)
LEMMA FrameTrip ==
  ASSUME SingleInv, Trip, ~lost', frame PROVE Trip'
<1> DEFINE b == block2Storage[i]
           q == SubSeq(block2Storage, 1, i - 1)
<1>1. /\ pc = "frame" /\ pc' = pc /\ i <= Len(block2Storage) /\ i' = i + 1
      /\ UNCHANGED <<setting, posFile, block1Storage, compressQueue1, compressedBuffer,
                     block2Storage, block3Storage, pool, allocated, served>>
      /\ transferQueue1' =
           transferQueue_push(transferQueue_push(transferQueue1, Frame(b)), Record2(b))
      /\ ~(Len(transferQueue1') < Len(transferQueue1) + 1 + dataSize(b))
  BY DEF frame
<1>2. /\ i \in 1 .. Len(block2Storage) /\ i \in Nat \ {0} /\ block2Storage \in Seq(Block2)
      /\ Len(block2Storage) \in Nat /\ transferQueue1 \in Seq(Byte)
  BY <1>1, LenProperties DEF SingleInv, Types
<1>3. InOrder' /\ Work' = Work
  BY <1>1, KeepOrder DEF Trip
<1>4. FilesCut' /\ BlocksCut'
  BY <1>1, <1>3, PendingSame, KeepReading DEF Trip
<1>5. Pushed'
  BY <1>1, KeepPushed DEF Trip, PushedBlocks
<1>6. Framed'
  <2>1. q \in Seq(Block2) /\ b \in Block2 /\ SubSeq(block2Storage, 1, i) = Append(q, b)
    BY <1>2, PrefixStep
  <2>2. transferQueue1 = FlattenSeq(Frames2(q))
    BY <1>1 DEF Trip, Framed, FramedBlocks
  <2> HIDE DEF b, q
  <2>3. /\ Frame(b) \in Seq(Byte) /\ Len(Frame(b)) = 1
        /\ Record2(b) \in Seq(Byte) /\ Len(Record2(b)) = dataSize(b)
    BY <2>1, UnpackRecord2
  <2>4. transferQueue1' = transferQueue1 \o (Frame(b) \o Record2(b))
    <3> DEFINE x == Frame(b)
               y == Record2(b)
    <3>1. /\ transferQueue1' = transferQueue_push(transferQueue_push(transferQueue1, x), y)
          /\ ~(Len(transferQueue1') < Len(transferQueue1) + 1 + Len(y))
          /\ x \in Seq(Byte) /\ y \in Seq(Byte) /\ Len(x) = 1
      BY <1>1, <2>3 DEF b
    <3> HIDE DEF x, y
    <3> DEFINE q1 == transferQueue1
               h == transferQueue_push(q1, x)
               r == transferQueue_push(h, y)
    <3>2. ~(Len(r) < Len(q1) + 1 + Len(y)) /\ q1 \in Seq(Byte)
      BY <1>2, <3>1
    <3> HIDE DEF q1
    <3>3. h = q1 \/ h = q1 \o x
      BY DEF transferQueue_push
    <3> HIDE DEF h
    <3>4. r = h \/ r = h \o y
      BY DEF transferQueue_push
    <3>5. transferQueue1' = r
      BY <3>1 DEF r, h, q1
    <3> HIDE DEF r
    <3>6. /\ q1 \in Seq(Byte) /\ x \in Seq(Byte) /\ y \in Seq(Byte) /\ Len(x) = 1
          /\ ~(Len(r) < Len(q1) + 1 + Len(y))
      BY <3>1, <3>2, <3>5 DEF q1
    <3>7. r = q1 \o (x \o y)
      <4>1. r = q1 \/ r = q1 \o x \/ r = q1 \o y \/ r = (q1 \o x) \o y
        BY <3>3, <3>4
      <4> QED
        BY <3>6, <4>1, BothPushed
    <3> QED
      BY <3>5, <3>7 DEF x, y, q1
  <2>5. transferQueue1' = FlattenSeq(Frames2(Append(q, b)))
    BY <2>1, <2>2, <2>4, FramesAppend
  <2>6. FramedBlocks' = SubSeq(block2Storage, 1, i)
    <3>1. i' - 1 = i
      BY <1>1, <1>2
    <3> QED
      BY <1>1, <3>1 DEF FramedBlocks
  <2>7. i' <= Len(block2Storage') + 1
    BY <1>1, <1>2
  <2> QED
    BY <2>1, <2>5, <2>6, <2>7 DEF Framed
<1>7. Compressed'
  BY <1>1, <1>3, PendingSame, KeepCompressed DEF Trip, setting
<1>8. AllCompressed'
  BY <1>1, KeepAllCompressed DEF Trip
<1>9. Sent'
  <2>1. block3Storage = <<>> /\ Len(block3Storage) = 0
    BY <1>1 DEF Trip, Sent
  <2>2. transferQueue1' \in Seq(Byte)
    <3>1. SingleInv'
      BY FrameInv
    <3> QED
      BY <3>1 DEF SingleInv, Types
  <2>3. Len(Pieces(transferQueue1', block3Size)) \in Nat
    BY <2>2, Sizes, PieceCount
  <2> QED
    BY <1>1, <2>1, <2>3 DEF Sent
<1> QED
  BY <1>3, <1>4, <1>5, <1>6, <1>7, <1>8, <1>9 DEF Trip

LEMMA AllFramed ==
  ASSUME SingleInv, Framed, pc \in {"frame", "solve3"}, pc = "frame" => i > Len(block2Storage)
  PROVE  FramedBlocks = block2Storage
<1>1. CASE pc = "frame"
  <2>1. i \in Nat \ {0} /\ Len(block2Storage) \in Nat /\ block2Storage \in Seq(Block2)
    BY LenProperties DEF SingleInv, Types
  <2>2. i - 1 = Len(block2Storage)
    BY <1>1, <2>1 DEF Framed
  <2>3. SubSeq(block2Storage, 1, Len(block2Storage)) = block2Storage
    BY <2>1, PrefixEnds
  <2> QED
    BY <1>1, <2>2, <2>3 DEF FramedBlocks
<1>2. CASE pc # "frame"
  BY <1>2 DEF FramedBlocks
<1> QED
  BY <1>1, <1>2

LEMMA WaitTrip3 ==
  ASSUME SingleInv, Trip, pc \in {"frame", "solve3"}, pc = "frame" => i > Len(block2Storage),
         Len(block3Storage) + 1 > Len(Pieces(transferQueue1, block3Size)),
         Goto("wait3"), UNCHANGED <<setting, memory, pool, world>>
  PROVE  Trip'
<1>1. pc' = "wait3"
  BY DEF Goto
<1>2. InOrder' /\ Work' = Work
  BY KeepOrder DEF Trip
<1>3. FilesCut' /\ BlocksCut'
  BY <1>1, <1>2, PendingSame, KeepReading DEF Trip, memory
<1>4. Pushed'
  BY <1>1, KeepPushed DEF Trip, memory, PushedBlocks
<1>5. Framed'
  <2>1. FramedBlocks = block2Storage
    BY AllFramed DEF Trip
  <2>2. FramedBlocks' = block2Storage
    BY <1>1 DEF FramedBlocks, memory
  <2> QED
    BY <1>1, <2>1, <2>2, KeepFramed DEF Trip, memory
<1>6. Compressed'
  BY <1>2, PendingSame, KeepCompressed DEF Trip, setting, memory
<1>7. AllCompressed'
  BY KeepAllCompressed DEF Trip, memory
<1>8. Sent'
  <2>1. /\ Len(block3Storage) \in Nat
        /\ Len(Pieces(transferQueue1, block3Size)) \in Nat
    BY Sizes, PieceCount, LenProperties DEF SingleInv, Types
  <2>2. Len(block3Storage) = Len(Pieces(transferQueue1, block3Size))
    BY <2>1 DEF Trip, Sent
  <2> QED
    BY <1>1, <1>2, <2>2, PendingSame DEF Trip, Sent, memory, world
<1> QED
  BY <1>2, <1>3, <1>4, <1>5, <1>6, <1>7, <1>8 DEF Trip

LEMMA SubmitTrip3 ==
  ASSUME SingleInv, Trip, pc \in {"frame", "solve3"}, pc = "frame" => i > Len(block2Storage),
         pc' = "solve3", UNCHANGED <<setting, i, posFile, block1Storage, compressQueue1,
           compressedBuffer, block2Storage, transferQueue1, running, world>>,
         NEW n, n = Len(block3Storage) + 1, n <= Len(Pieces(transferQueue1, block3Size)),
         block3Storage' = Append(block3Storage, Pieces(transferQueue1, block3Size)[n]),
         thpool_add_work("transfer", n)
  PROVE  Trip'
<1> DEFINE P == Pieces(transferQueue1, block3Size)
           m == Len(block3Storage)
<1>1. block3Storage \in Seq(Seq(Byte)) /\ m \in Nat /\ n \in Nat \ {0} /\ Len(P) \in Nat
  <2>1. block3Storage \in Seq(Seq(Byte)) /\ m \in Nat
    BY LenProperties DEF SingleInv, Types
  <2>2. Len(P) \in Nat
    BY Sizes, PieceCount DEF SingleInv, Types
  <2> QED
    BY <2>1, <2>2
<1>2. n \in 1 .. Len(P) /\ P[n] \in Seq(Byte)
  <2>1. n \in 1 .. Len(P)
    BY <1>1
  <2> QED
    BY <2>1, Sizes, PieceBytes DEF SingleInv, Types
<1>3. n <= Len(P) /\ block3Storage' = Append(block3Storage, P[n])
  OBVIOUS
<1> HIDE DEF P
<1>4. /\ Len(block3Storage') = m + 1 /\ m + 1 = n
      /\ \A k \in 1 .. m : block3Storage'[k] = block3Storage[k]
      /\ block3Storage'[n] = P[n]
  BY <1>1, <1>2, <1>3, AppendProperties
<1>5. [op |-> "transfer", n |-> n] \in Job
  BY <1>1 DEF Job
<1>6. Work' = Work \cup {[op |-> "transfer", n |-> n]}
  BY <1>5, Submit DEF world
<1>7. \A j \in Work : j.n < n
  <2>1. \A j \in Work : j.op = "transfer" /\ j.n <= m
    BY DEF SingleInv, StageOK, Stage, JobsFit
  <2>2. \A j \in Work : j.n \in Nat
    BY QueueElements DEF SingleInv
  <2> QED
    BY <1>1, <1>4, <2>1, <2>2
<1>8. InOrder'
  BY <1>5, <1>7, OrderAppend DEF Trip, SingleInv
<1>9. \A op, k : Pending(op, k)' <=> Pending(op, k) \/ (op = "transfer" /\ k = n)
  BY <1>6, PendingAdd
<1>10. FilesCut' /\ BlocksCut'
  BY <1>9, KeepReading DEF Trip
<1>11. Pushed'
  BY KeepPushed DEF Trip, PushedBlocks
<1>12. Framed'
  <2>1. FramedBlocks = block2Storage
    BY AllFramed DEF Trip
  <2>2. FramedBlocks' = block2Storage
    BY DEF FramedBlocks
  <2> QED
    BY <2>1, <2>2, KeepFramed DEF Trip
<1>13. Compressed'
  BY <1>9, KeepCompressed DEF Trip, setting
<1>14. AllCompressed'
  BY KeepAllCompressed DEF Trip
<1>15. Sent'
  <2>1. \A k : k = n => Pending("transfer", k)'
    BY <1>9
  <2>2. \A k \in 1 .. m : /\ block3Storage[k] = P[k]
                          /\ k \in served \/ Pending("transfer", k)
    BY DEF Trip, Sent, P
  <2>3. \A k \in 1 .. m + 1 : k \in 1 .. m \/ k = n
    BY <1>1, <1>4
  <2>4. \A k \in 1 .. m + 1 : /\ block3Storage'[k] = P[k]
                              /\ k \in served' \/ Pending("transfer", k)'
    <3> SUFFICES ASSUME NEW k \in 1 .. m + 1
                 PROVE  /\ block3Storage'[k] = P[k]
                        /\ k \in served \/ Pending("transfer", k)'
      BY DEF world
    <3>1. CASE k \in 1 .. m
      <4>1. Pending("transfer", k) => Pending("transfer", k)'
        BY <1>9
      <4> QED
        BY <1>4, <2>2, <3>1, <4>1
    <3>2. CASE k = n
      <4>1. Pending("transfer", k)'
        BY <2>1, <3>2
      <4> QED
        BY <1>4, <3>2, <4>1
    <3> QED
      BY <2>3, <3>1, <3>2
  <2>5. P' = P
    BY DEF P
  <2> QED
    BY <1>1, <1>3, <1>4, <2>4, <2>5 DEF Sent, P
<1> QED
  BY <1>8, <1>10, <1>11, <1>12, <1>13, <1>14, <1>15 DEF Trip

LEMMA Solve3Trip ==
  ASSUME SingleInv, Trip, ~lost', solve3 PROVE Trip'
<1> DEFINE pieces == Pieces(transferQueue1, block3Size)
           n == Len(block3Storage) + 1
<1>1. /\ pc \in {"frame", "solve3"}
      /\ pc = "frame" => i > Len(block2Storage)
      /\ UNCHANGED <<setting, block1Storage, compressQueue1, compressedBuffer,
                     block2Storage, transferQueue1, allocated, served>>
  BY DEF solve3
<1>2. CASE n > Len(pieces)
  <2>1. Goto("wait3") /\ UNCHANGED <<block3Storage, pool, lost>>
    BY <1>2 DEF solve3
  <2>2. UNCHANGED <<setting, memory, pool, world>>
    BY <1>1, <2>1 DEF memory, world
  <2> QED
    BY <1>1, <1>2, <2>1, <2>2, WaitTrip3
<1>3. CASE ~(n > Len(pieces))
  <2>1. /\ pc' = "solve3" /\ block3Storage' = Append(block3Storage, pieces[n])
        /\ thpool_add_work("transfer", n)
        /\ UNCHANGED <<i, posFile, running, lost>>
    BY <1>3 DEF solve3
  <2>2. UNCHANGED <<setting, i, posFile, block1Storage, compressQueue1,
           compressedBuffer, block2Storage, transferQueue1, running, world>>
    BY <1>1, <2>1 DEF world
  <2>3. n <= Len(pieces)
    <3>1. Len(block3Storage) \in Nat /\ Len(pieces) \in Nat
      BY LenProperties, Sizes, PieceCount DEF SingleInv, Types
    <3> QED
      BY <1>3, <3>1
  <2> QED
    BY <1>1, <2>1, <2>2, <2>3, SubmitTrip3
<1> QED
  BY <1>2, <1>3

LEMMA NextStageTrip ==
  ASSUME SingleInv, Trip, NextStage PROVE Trip'
<1>1. /\ i' = 1 /\ UNCHANGED <<posFile, setting, memory, pool, served, lost>>
      /\ \/ pc = "wait1" /\ pc' = "push"
         \/ pc = "wait2" /\ pc' = "frame"
         \/ pc = "wait3" /\ pc' = "over"
  BY DEF NextStage, AfterStage, Goto
<1>2. InOrder' /\ Work' = Work
  BY <1>1, KeepOrder DEF Trip
<1>3. /\ block1Storage \in Seq(Block1) /\ Len(block1Storage) \in Nat
      /\ block2Storage \in Seq(Block2) /\ Len(block2Storage) \in Nat
  BY LenProperties DEF SingleInv, Types
<1>4. SubSeq(block1Storage, 1, i' - 1) = <<>> /\ SubSeq(block2Storage, 1, i' - 1) = <<>>
  <2>1. i' - 1 = 0
    BY <1>1
  <2> QED
    BY <1>3, <2>1, PrefixEnds
<1>5. FilesCut' /\ BlocksCut'
  BY <1>1, <1>2, PendingSame, KeepReading DEF Trip, memory
<1>6. Pushed'
  <2>1. PushedBlocks' = PushedBlocks
    BY <1>1, <1>4 DEF PushedBlocks, memory
  <2>2. i' <= Len(block1Storage') + 1
    BY <1>1, <1>3 DEF memory
  <2> QED
    BY <1>1, <2>1, <2>2 DEF Trip, Pushed, memory
<1>7. Framed'
  <2>1. FramedBlocks' = FramedBlocks
    BY <1>1, <1>4 DEF FramedBlocks, memory
  <2>2. i' <= Len(block2Storage') + 1
    BY <1>1, <1>3 DEF memory
  <2> QED
    BY <1>1, <2>1, <2>2 DEF Trip, Framed, memory
<1>8. Compressed'
  BY <1>1, <1>2, PendingSame, KeepCompressed DEF Trip, setting, memory
<1>9. AllCompressed'
  BY <1>1, KeepAllCompressed DEF Trip, memory
<1>10. Sent'
  BY <1>1, <1>2, PendingSame, KeepSent DEF Trip, memory
<1> QED
  BY <1>2, <1>5, <1>6, <1>7, <1>8, <1>9, <1>10 DEF Trip
-----------------------------------------------------------------------------
(* The threads.                                                            *)
LEMMA SameMemoryTrip ==
  ASSUME Trip, InOrder', Work' = Work, UNCHANGED <<setting, loop, memory, world>>
  PROVE  Trip'
<1>1. FilesCut' /\ BlocksCut'
  BY PendingSame, KeepReading DEF Trip, memory, loop
<1>2. Pushed'
  BY KeepPushed DEF Trip, PushedBlocks, memory, loop
<1>3. Framed'
  BY KeepFramed DEF Trip, FramedBlocks, memory, loop
<1>4. Compressed'
  BY PendingSame, KeepCompressed DEF Trip, setting, memory
<1>5. AllCompressed'
  BY KeepAllCompressed DEF Trip, memory, loop
<1>6. Sent'
  BY PendingSame, KeepSent DEF Trip, memory, loop, world
<1> QED
  BY <1>1, <1>2, <1>3, <1>4, <1>5, <1>6 DEF Trip

LEMMA StartTrip ==
  ASSUME SingleInv, Trip, Start PROVE Trip'
<1>1. InOrder' /\ Work' = Work
  BY OrderStart DEF Trip, SingleInv
<1>2. UNCHANGED <<setting, loop, memory, world>>
  BY DEF Start
<1> QED
  BY <1>1, <1>2, SameMemoryTrip

LEMMA JobIs ==
  ASSUME NEW j \in Job
  PROVE  \A op, n : [op |-> op, n |-> n] = j <=> op = j.op /\ n = j.n
<1>1. j = [op |-> j.op, n |-> j.n]
  BY DEF Job
<1> DEFINE o == j.op
           m == j.n
<1>2. j = [op |-> o, n |-> m]
  BY <1>1
<1> HIDE DEF o, m
<1> SUFFICES ASSUME NEW op, NEW n
             PROVE  [op |-> op, n |-> n] = [op |-> o, n |-> m] <=> op = o /\ n = m
  BY <1>2 DEF o, m
<1> DEFINE a == [op |-> op, n |-> n]
           b == [op |-> o, n |-> m]
<1>3. a.op = op /\ a.n = n /\ b.op = o /\ b.n = m
  OBVIOUS
<1>4. a = b => op = o /\ n = m
  <2> HIDE DEF a, b
  <2> QED
    BY <1>3
<1> QED
  BY <1>4

(* The block of a job that is done has no job left, and no other has less. *)
LEMMA PendingDone ==
  ASSUME NEW j \in Job, Work' = Work \ {j}, \A k \in Work \ {j} : k.n # j.n
  PROVE  \A op, n : Pending(op, n)' <=> Pending(op, n) /\ n # j.n
<1> SUFFICES ASSUME NEW op, NEW n
             PROVE  Pending(op, n)' <=> Pending(op, n) /\ n # j.n
  OBVIOUS
<1> DEFINE k == [op |-> op, n |-> n]
<1>1. k.n = n /\ (k = j <=> op = j.op /\ n = j.n)
  BY JobIs
<1> HIDE DEF k
<1>2. k \in Work \ {j} <=> k \in Work /\ n # j.n
  BY <1>1
<1> QED
  BY <1>2 DEF Pending, k

LEMMA PendingCopy ==
  ASSUME NEW j \in Job, \A k \in Work \ {j} : k.n # j.n,
         Work' = (Work \ {j}) \cup {[j EXCEPT !.op = "copy"]}
  PROVE  \A op, n : Pending(op, n)' <=>
           (Pending(op, n) /\ n # j.n) \/ (op = "copy" /\ n = j.n)
<1> SUFFICES ASSUME NEW op, NEW n
             PROVE  Pending(op, n)' <=>
                      (Pending(op, n) /\ n # j.n) \/ (op = "copy" /\ n = j.n)
  OBVIOUS
<1> DEFINE k == [op |-> op, n |-> n]
           l == [j EXCEPT !.op = "copy"]
<1>1. k.n = n /\ (k = j <=> op = j.op /\ n = j.n)
  BY JobIs
<1>2. k = l <=> op = "copy" /\ n = j.n
  <2>1. l \in Job /\ l.op = "copy" /\ l.n = j.n
    BY DEF Job
  <2> HIDE DEF l
  <2> QED
    BY <2>1, JobIs
<1> HIDE DEF k, l
<1>3. k \in Work \ {j} <=> k \in Work /\ n # j.n
  BY <1>1
<1>4. k \in Work' <=> k \in Work \ {j} \/ k = l
  BY DEF l
<1> QED
  BY <1>2, <1>3, <1>4 DEF Pending, k

LEMMA RunningJob ==
  ASSUME SingleInv, NEW j \in running
  PROVE  j \in Job /\ j \in Work
  BY WorkOfPool DEF SingleInv, Types

LEMMA JobDone ==
  ASSUME SingleInv, Trip, NEW j \in running, Done(j)
  PROVE  /\ InOrder' /\ Work' = Work \ {j}
         /\ \A op, n : Pending(op, n)' <=> Pending(op, n) /\ n # j.n
<1>1. running' = (running \ {j}) \cup {} /\ UNCHANGED jobs
  BY DEF Done
<1>2. InOrder' /\ Work' = (Work \ {j}) \cup {} /\ \A k \in Work \ {j} : k.n # j.n
  <2> DEFINE new == {}
  <2>1. /\ \A k \in new : k.n = j.n
        /\ \A k, l \in new : k = l
        /\ running' = (running \ {j}) \cup new
    BY <1>1
  <2> HIDE DEF new
  <2>2. InOrder' /\ Work' = (Work \ {j}) \cup new /\ \A k \in Work \ {j} : k.n # j.n
    BY <1>1, <2>1, OrderDone DEF Trip, SingleInv
  <2> QED
    BY <2>2 DEF new
<1>3. Work' = Work \ {j}
  BY <1>2
<1> QED
  BY <1>2, <1>3, RunningJob, PendingDone

LEMMA TransferTrip ==
  ASSUME SingleInv, Trip, ~lost', pc # "stop", NEW j \in running, transfer(j)
  PROVE  Trip'
<1>1. /\ served' = served \cup {j.n} /\ Done(j)
      /\ UNCHANGED <<setting, loop, memory, allocated>>
  BY DEF transfer
<1>2. j.op = "transfer"
  BY DEF transfer
<1>3. InOrder' /\ \A op, n : Pending(op, n)' <=> Pending(op, n) /\ n # j.n
  BY <1>1, JobDone
<1>4. pc \in {"solve3", "wait3"}
  BY <1>2, RunningJob DEF SingleInv, StageOK, Stage, TypeOK, Places
<1>5. FilesCut' /\ BlocksCut'
  <2>1. \A n : ~Pending("readFile", n)
    BY <1>4 DEF SingleInv, StageOK, Stage, Pending
  <2> QED
    BY <1>1, <2>1, KeepReading DEF Trip, memory, loop
<1>6. Pushed'
  BY <1>1, KeepPushed DEF Trip, PushedBlocks, memory, loop
<1>7. Framed'
  BY <1>1, KeepFramed DEF Trip, FramedBlocks, memory, loop
<1>8. Compressed'
  <2>1. \A n : ~Pending("compress_func", n) /\ ~Pending("copy", n)
    BY <1>4 DEF SingleInv, StageOK, Stage, Pending
  <2>2. \A n : ~Pending("compress_func", n)' /\ ~Pending("copy", n)'
    BY <1>3, <2>1
  <2> QED
    BY <1>1, <2>1, <2>2, KeepCompressed DEF Trip, setting, memory
<1>9. AllCompressed'
  BY <1>1, KeepAllCompressed DEF Trip, memory, loop
<1>10. Sent'
  BY <1>1, <1>3, KeepSent DEF Trip, memory, loop
<1> QED
  BY <1>3, <1>5, <1>6, <1>7, <1>8, <1>9, <1>10 DEF Trip

LEMMA ReadFileTrip ==
  ASSUME SingleInv, Trip, pc # "stop", NEW j \in running, readFile(j)
  PROVE  Trip'
<1> DEFINE m == Len(block1Storage)
           b == block1Storage[j.n]
           c == [b EXCEPT !.buffer = Planned(b)]
<1>1. /\ j.op = "readFile" /\ Done(j)
      /\ block1Storage' = [block1Storage EXCEPT ![j.n] = c]
      /\ UNCHANGED <<setting, loop, compressQueue1, compressedBuffer, block2Storage,
                     transferQueue1, block3Storage, world>>
  BY DEF readFile, Planned
<1>2. InOrder' /\ \A op, n : Pending(op, n)' <=> Pending(op, n) /\ n # j.n
  BY <1>1, JobDone
<1>3. pc \in {"solve1", "wait1"} /\ j.n \in 1 .. m
  <2>1. pc \in {"solve1", "wait1"}
    BY <1>1, RunningJob DEF SingleInv, StageOK, Stage, TypeOK, Places
  <2>2. j.n \in Nat \ {0} /\ j.n <= m /\ m \in Nat
    BY <1>1, RunningJob, LenProperties DEF SingleInv, JobsFit, Types, Job
  <2> QED
    BY <2>1, <2>2
<1>4. \A op, n : op # "readFile" => (Pending(op, n)' <=> Pending(op, n))
  <2>1. \A op, n : Pending(op, n) => op = "readFile"
    <3> SUFFICES ASSUME NEW op, NEW n, Pending(op, n)
                 PROVE  op = "readFile"
      OBVIOUS
    <3> DEFINE k == [op |-> op, n |-> n]
    <3>1. k \in Work /\ k.op = op
      BY DEF Pending
    <3> HIDE DEF k
    <3> QED
      BY <1>3, <3>1 DEF SingleInv, StageOK, Stage
  <2> QED
    BY <1>2, <2>1
<1>5. Pushed' /\ Framed' /\ Compressed' /\ AllCompressed' /\ Sent'
  BY <1>1, <1>3, <1>4, ReadingOnly DEF setting, loop, world
<1>6. block1Storage \in Seq(Block1) /\ b \in Block1 /\ m \in Nat
  BY <1>3, ElementOfSeq, LenProperties DEF SingleInv, Types
<1> HIDE DEF b
<1>7. /\ c \in Block1 /\ c.file = b.file /\ c.blockNum = b.blockNum
      /\ c.blockSize = b.blockSize /\ c.buffer = Planned(b)
  <2>1. Planned(b) \in Seq(Byte1)
    BY <1>6, PlannedIs
  <2> QED
    BY <1>6, <2>1 DEF Block1
<1>8. Planned(c) = Planned(b)
  BY <1>7 DEF Planned
<1> HIDE DEF c
<1>9. /\ Len(block1Storage') = m
      /\ block1Storage'[j.n] = c
      /\ \A n \in 1 .. m : n # j.n => block1Storage'[n] = block1Storage[n]
  BY <1>1, <1>3, <1>6, <1>7, ExceptSeq
<1>10. \A n \in 1 .. m : /\ block1Storage'[n].file = block1Storage[n].file
                         /\ block1Storage'[n].blockSize = block1Storage[n].blockSize
                         /\ Planned(block1Storage'[n]) = Planned(block1Storage[n])
  <2> SUFFICES ASSUME NEW n \in 1 .. m
               PROVE  /\ block1Storage'[n].file = block1Storage[n].file
                      /\ block1Storage'[n].blockSize = block1Storage[n].blockSize
                      /\ Planned(block1Storage'[n]) = Planned(block1Storage[n])
    OBVIOUS
  <2>1. CASE n = j.n
    BY <1>7, <1>8, <1>9, <2>1 DEF b
  <2>2. CASE n # j.n
    BY <1>9, <2>2
  <2> QED
    BY <2>1, <2>2
<1>11. \A f : Parts(f, block1Storage') = Parts(f, block1Storage)
  BY <1>9, <1>10 DEF Parts
<1>12. FilesCut'
  <2>1. \A f : CoveredTo(f)' = CoveredTo(f)
    BY <1>1 DEF CoveredTo, loop
  <2> QED
    BY <1>11, <2>1 DEF Trip, FilesCut
<1>13. BlocksCut'
  <2> SUFFICES ASSUME NEW n \in 1 .. m
               PROVE  /\ block1Storage'[n].file \in 1 .. Len(Files)
                      /\ block1Storage'[n].blockSize <= block1Size
                      /\ \/ Pending("readFile", n)'
                         \/ block1Storage'[n].buffer = Planned(block1Storage'[n])
    BY <1>9 DEF BlocksCut
  <2>1. /\ block1Storage'[n].file \in 1 .. Len(Files)
        /\ block1Storage'[n].blockSize <= block1Size
    BY <1>10 DEF Trip, BlocksCut
  <2>2. CASE n = j.n
    BY <1>7, <1>8, <1>9, <2>1, <2>2
  <2>3. CASE n # j.n
    <3>1. Pending("readFile", n)' <=> Pending("readFile", n)
      BY <1>2, <2>3
    <3> QED
      BY <1>9, <2>1, <2>3, <3>1 DEF Trip, BlocksCut
  <2> QED
    BY <2>2, <2>3
<1> QED
  BY <1>2, <1>5, <1>12, <1>13 DEF Trip

LEMMA OneJob ==
  ASSUME SingleInv, THREAD_NUM = 1, NEW j \in running, NEW k \in running
  PROVE  j = k
<1> SUFFICES ASSUME j # k
             PROVE  FALSE
  OBVIOUS
<1> DEFINE both == {j} \cup {k}
<1>1. IsFiniteSet({j}) /\ Cardinality({j}) = 1
  BY FS_Singleton
<1>2. Cardinality(both) = 2
  BY <1>1, FS_AddElement
<1>3. both \subseteq running /\ IsFiniteSet(running)
  BY DEF SingleInv, Types
<1> HIDE DEF both
<1>4. Cardinality(both) <= Cardinality(running) /\ Cardinality(running) \in Nat
  BY <1>3, FS_Subset, FS_CardinalityType
<1>5. Cardinality(running) <= 1
  BY DEF SingleInv, TypeOK
<1> QED
  BY <1>2, <1>4, <1>5

(* What a step of compress_func or copy leaves alone                       *)
LEMMA CompressingOnly ==
  ASSUME SingleInv, Trip, pc \in {"solve2", "wait2"},
         UNCHANGED <<loop, block1Storage, compressQueue1, transferQueue1, block3Storage, served>>,
         Len(block2Storage') = Len(block2Storage),
         \A op, n : Pending(op, n) /\ op \in {"readFile", "transfer"} => Pending(op, n)'
  PROVE  FilesCut' /\ BlocksCut' /\ Pushed' /\ Framed' /\ AllCompressed' /\ Sent'
<1>1. FilesCut' /\ BlocksCut'
  BY KeepReading DEF Trip, loop
<1>2. Pushed'
  BY KeepPushed DEF Trip, PushedBlocks, loop
<1>3. Framed'
  BY KeepFramed DEF Trip, FramedBlocks, loop
<1>4. AllCompressed'
  BY KeepAllCompressed DEF Trip, loop
<1>5. Sent'
  BY KeepSent DEF Trip, loop
<1> QED
  BY <1>1, <1>2, <1>3, <1>4, <1>5

LEMMA CompressJob ==
  ASSUME SingleInv, Trip, pc # "stop", NEW j \in running, j.op \in {"compress_func", "copy"}
  PROVE  /\ pc \in {"solve2", "wait2"}
         /\ j.n \in 1 .. Len(block2Storage)
         /\ Pending(j.op, j.n)
         /\ \A op, n : Pending(op, n) => op \in {"compress_func", "copy"}
         /\ \A n : Pending("copy", n) => [op |-> "copy", n |-> n] \in running
         /\ \A op : Pending(op, j.n) => op = j.op
<1>1. j \in Job /\ j \in Work
  BY RunningJob
<1>2. pc \in {"solve2", "wait2"}
  BY <1>1 DEF SingleInv, StageOK, Stage, TypeOK, Places
<1>3. j.n \in 1 .. Len(block2Storage)
  <2>1. j.n \in Nat \ {0} /\ j.n <= Len(block2Storage) /\ Len(block2Storage) \in Nat
    BY <1>1, LenProperties DEF SingleInv, JobsFit, Types, Job
  <2> QED
    BY <2>1
<1>4. Pending(j.op, j.n)
  <2>1. j = [op |-> j.op, n |-> j.n]
    BY <1>1 DEF Job
  <2> QED
    BY <1>1, <2>1 DEF Pending
<1>5. ASSUME NEW op, NEW n, Pending(op, n)
      PROVE  op \in {"compress_func", "copy"}
  <2> DEFINE k == [op |-> op, n |-> n]
  <2>1. k \in Work /\ k.op = op
    BY <1>5 DEF Pending
  <2> HIDE DEF k
  <2> QED
    BY <1>2, <2>1 DEF SingleInv, StageOK, Stage
<1>6. ASSUME NEW n, Pending("copy", n)
      PROVE  [op |-> "copy", n |-> n] \in running
  <2> DEFINE k == [op |-> "copy", n |-> n]
  <2>1. k \in Work /\ k.op = "copy"
    BY <1>6 DEF Pending
  <2> HIDE DEF k
  <2>2. k \in running
    BY <2>1, QueueElements DEF SingleInv, Trip, InOrder
  <2> QED
    BY <2>2 DEF k
<1>7. ASSUME NEW op, Pending(op, j.n)
      PROVE  op = j.op
  <2> DEFINE k == [op |-> op, n |-> j.n]
  <2>1. k \in Work /\ k.op = op /\ k.n = j.n
    BY <1>7 DEF Pending
  <2> HIDE DEF k
  <2>2. j.n \in Nat
    BY <1>3
  <2>3. CASE k \in running
    BY <2>1, <2>3 DEF Trip, InOrder
  <2>4. CASE k \notin running
    <3>1. PICK l \in 1 .. Len(jobs) : k = jobs[l]
      BY <2>1, <2>4, QueueElements DEF SingleInv
    <3>2. j.n < jobs[l].n
      BY DEF Trip, InOrder
    <3> QED
      BY <2>1, <2>2, <3>1, <3>2
  <2> QED
    BY <2>3, <2>4
<1> QED
  BY <1>2, <1>3, <1>4, <1>5, <1>6, <1>7

LEMMA CopyTrip ==
  ASSUME SingleInv, Trip, pc # "stop", NEW j \in running, copy(j)
  PROVE  Trip'
<1> DEFINE m == Len(block2Storage)
           b == block2Storage[j.n]
           c == [b EXCEPT !.buffer = CopiedFrom(j.n)]
<1>1. /\ j.op = "copy" /\ Done(j)
      /\ block2Storage' = [block2Storage EXCEPT ![j.n] = c]
      /\ UNCHANGED <<setting, loop, block1Storage, compressQueue1, compressedBuffer,
                     transferQueue1, block3Storage, world>>
  BY DEF copy, CopiedFrom
<1>2. InOrder' /\ \A op, n : Pending(op, n)' <=> Pending(op, n) /\ n # j.n
  BY <1>1, JobDone
<1>3. /\ pc \in {"solve2", "wait2"} /\ j.n \in 1 .. m /\ Pending("copy", j.n)
      /\ \A op, n : Pending(op, n) => op \in {"compress_func", "copy"}
      /\ \A op : Pending(op, j.n) => op = "copy"
  BY <1>1, CompressJob
<1>4. /\ block2Storage \in Seq(Block2) /\ b \in Block2 /\ m \in Nat
      /\ block2Storage' \in Seq(Block2)
  <2>1. SingleInv'
    BY <1>1, CopyInv
  <2> QED
    BY <1>3, <2>1, ElementOfSeq, LenProperties DEF SingleInv, Types
<1> HIDE DEF b
<1>5. /\ c.blockNum = b.blockNum /\ c.compressType = b.compressType
      /\ c.blockSize = b.blockSize /\ c.buffer = CopiedFrom(j.n)
  BY <1>4 DEF Block2
<1> HIDE DEF c
<1>6. /\ Len(block2Storage') = m
      /\ block2Storage'[j.n] = c
      /\ \A n \in 1 .. m : n # j.n => block2Storage'[n] = block2Storage[n]
  <2>1. DOMAIN block2Storage = 1 .. m /\ DOMAIN block2Storage' = 1 .. Len(block2Storage')
        /\ Len(block2Storage') \in Nat
    BY <1>4, LenProperties
  <2> QED
    BY <1>1, <1>3, <1>4, <2>1
<1>7. FilesCut' /\ BlocksCut' /\ Pushed' /\ Framed' /\ AllCompressed' /\ Sent'
  BY <1>1, <1>3, <1>6, CompressingOnly DEF world
<1>8. \A n \in 1 .. m : /\ block2Storage'[n].blockNum = block2Storage[n].blockNum
                        /\ block2Storage'[n].compressType = block2Storage[n].compressType
                        /\ block2Storage'[n].blockSize = block2Storage[n].blockSize
  BY <1>5, <1>6 DEF b
<1>9. Undisturbed' => Undisturbed
  <2>1. \A n \in 1 .. m : block2Storage'[n].blockSize = block2Storage[n].blockSize
    BY <1>8
  <2>2. DOMAIN block2Storage = 1 .. m /\ DOMAIN block2Storage' = 1 .. m
    BY <1>4, <1>6, LenProperties
  <2> QED
    BY <1>1, <2>1, <2>2 DEF Undisturbed, OutputsFit, setting
<1>10. Compressed'
  <2> SUFFICES ASSUME NEW n \in 1 .. m
        PROVE  /\ block2Storage'[n].blockNum = n - 1
               /\ block2Storage'[n].compressType = 0
               /\ \/ Pending("compress_func", n)' /\ block2Storage'[n].blockSize = 0
                  \/ /\ block2Storage'[n].blockSize \in CompressedSizes
                     /\ ~Pending("compress_func", n)'
                     /\ Undisturbed' => HasOutput(n)'
    BY <1>6 DEF Compressed
  <2>1. /\ block2Storage'[n].blockNum = n - 1
        /\ block2Storage'[n].compressType = 0
    BY <1>8 DEF Trip, Compressed
  <2>2. CASE n = j.n
    <3>1. ~Pending("compress_func", n)
      BY <1>3, <2>2
    <3>2. /\ block2Storage[n].blockSize \in CompressedSizes
          /\ Undisturbed => HasOutput(n)
      BY <3>1 DEF Trip, Compressed
    <3>3. HasOutput(n) => HasOutput(n)'
      <4>1. ASSUME HasOutput(n) PROVE CopiedFrom(n) = Output(0, n - 1, block2Storage[n].blockSize)
        BY <1>3, <2>2, <4>1 DEF HasOutput
      <4>2. block2Storage'[n].buffer = CopiedFrom(n)
        BY <1>5, <1>6, <2>2
      <4>3. ~Pending("copy", n)'
        BY <1>2, <2>2
      <4> QED
        BY <1>8, <4>1, <4>2, <4>3 DEF HasOutput
    <3>4. ~Pending("compress_func", n)'
      BY <1>2, <2>2
    <3> QED
      BY <1>8, <1>9, <2>1, <3>2, <3>3, <3>4
  <2>3. CASE n # j.n
    <3>1. block2Storage'[n] = block2Storage[n]
      BY <1>6, <2>3
    <3>2. /\ Pending("compress_func", n)' <=> Pending("compress_func", n)
          /\ Pending("copy", n)' <=> Pending("copy", n)
      BY <1>2, <2>3
    <3>3. HasOutput(n)' <=> HasOutput(n)
      BY <1>1, <3>1, <3>2 DEF HasOutput, CopiedFrom
    <3> QED
      BY <1>9, <2>1, <3>1, <3>2, <3>3 DEF Trip, Compressed
  <2> QED
    BY <2>2, <2>3
<1> QED
  BY <1>2, <1>7, <1>10 DEF Trip

LEMMA CompressStep ==
  ASSUME SingleInv, SingleInv', Trip, pc # "stop", NEW j \in running, j.op = "compress_func",
         NEW size \in CompressedSizes, dst(j.n - 1) + size <= Room,
         compressedBuffer' = [k \in DOMAIN compressedBuffer |->
            IF k \in dst(j.n - 1) + 1 .. dst(j.n - 1) + size
            THEN Output(0, j.n - 1, size)[k - dst(j.n - 1)]
            ELSE compressedBuffer[k]],
         block2Storage' = [block2Storage EXCEPT ![j.n].blockSize = size],
         running' = (running \ {j}) \cup {[j EXCEPT !.op = "copy"]},
         UNCHANGED <<setting, loop, block1Storage, compressQueue1, transferQueue1,
                     block3Storage, jobs, world>>
  PROVE  Trip'
<1> DEFINE from == dst(j.n - 1)
           m == Len(block2Storage)
           b == block2Storage[j.n]
           c == [b EXCEPT !.blockSize = size]
           O == Output(0, j.n - 1, size)
           new == {[j EXCEPT !.op = "copy"]}
<1>1. /\ pc \in {"solve2", "wait2"} /\ j.n \in 1 .. m /\ Pending("compress_func", j.n)
      /\ \A op, n : Pending(op, n) => op \in {"compress_func", "copy"}
      /\ \A n : Pending("copy", n) => [op |-> "copy", n |-> n] \in running
      /\ \A op : Pending(op, j.n) => op = "compress_func"
  BY CompressJob
<1>2. j \in Job /\ j \in Work
  BY RunningJob
<1>3. InOrder' /\ Work' = (Work \ {j}) \cup new /\ \A k \in Work \ {j} : k.n # j.n
  <2>1. (\A k \in new : k.n = j.n) /\ (\A k, l \in new : k = l)
    BY <1>2 DEF Job
  <2> HIDE DEF new
  <2>2. running' = (running \ {j}) \cup new
    BY DEF new
  <2> QED
    BY <2>1, <2>2, OrderDone DEF Trip, SingleInv
<1>4. \A op, n : Pending(op, n)' <=> (Pending(op, n) /\ n # j.n) \/ (op = "copy" /\ n = j.n)
  BY <1>2, <1>3, PendingCopy
<1> HIDE DEF new
<1>5. /\ block2Storage \in Seq(Block2) /\ b \in Block2 /\ m \in Nat
      /\ block2Storage' \in Seq(Block2) /\ size \in Nat \ {0}
      /\ Room \in Nat /\ Room' = Room
      /\ compressedBuffer \in [1 .. Room -> Byte2]
      /\ compressedBuffer' \in [1 .. Room -> Byte2]
  <2>1. block2Storage \in Seq(Block2) /\ m \in Nat /\ block2Storage' \in Seq(Block2)
    BY LenProperties DEF SingleInv, Types
  <2>2. b \in Block2
    BY <1>1, <2>1, ElementOfSeq
  <2>3. Room \in Nat /\ Room' = Room
    BY CapSizes DEF SingleInv, TypeOK, Room, setting
  <2>4. compressedBuffer \in [1 .. Room -> Byte2] /\ compressedBuffer' \in [1 .. Room -> Byte2]
    BY <2>3 DEF SingleInv, Types
  <2> QED
    BY <2>1, <2>2, <2>3, <2>4, SingleAssumption
<1>6. /\ O \in Seq(Byte2) /\ Len(O) = size
  <2>1. j.n - 1 \in Nat
    BY <1>1
  <2> QED
    BY <1>5, <2>1, PlainOutput
<1>7. from \in Nat
  <2> DEFINE l == j.n - 1
  <2>1. l \in Nat
    BY <1>1
  <2> HIDE DEF l
  <2>2. dst(l) \in Nat
    BY <2>1, Sizes, Products DEF dst
  <2> QED
    BY <2>2 DEF l
<1>8. \A k \in 1 .. Room : compressedBuffer'[k] =
        IF k \in from + 1 .. from + size THEN O[k - from] ELSE compressedBuffer[k]
  BY <1>5
<1> HIDE DEF O, b
<1>9. /\ c.blockNum = b.blockNum /\ c.compressType = b.compressType /\ c.blockSize = size
      /\ c.buffer = b.buffer
  BY <1>5 DEF Block2
<1>10. block2Storage' = [block2Storage EXCEPT ![j.n] = c]
  BY DEF b
<1> HIDE DEF c
<1>11. /\ Len(block2Storage') = m
       /\ block2Storage'[j.n] = c
       /\ \A n \in 1 .. m : n # j.n => block2Storage'[n] = block2Storage[n]
  <2>1. DOMAIN block2Storage = 1 .. m /\ DOMAIN block2Storage' = 1 .. Len(block2Storage')
        /\ Len(block2Storage') \in Nat
    BY <1>5, LenProperties
  <2> QED
    BY <1>1, <1>5, <1>10, <2>1
<1>12. FilesCut' /\ BlocksCut' /\ Pushed' /\ Framed' /\ AllCompressed' /\ Sent'
  <2>1. \A op, n : Pending(op, n) /\ op \in {"readFile", "transfer"} => Pending(op, n)'
    BY <1>1
  <2> QED
    BY <1>1, <1>11, <2>1, CompressingOnly DEF world
<1>13. b.blockSize = 0
  <2>1. \/ b.blockSize = 0
        \/ ~Pending("compress_func", j.n)
    BY <1>1 DEF Trip, Compressed, b
  <2> QED
    BY <1>1, <2>1
<1>14. Undisturbed' => Undisturbed
  <2>1. ASSUME NEW n \in 1 .. m
        PROVE  block2Storage[n].blockSize <= block2Storage'[n].blockSize
               \/ block2Storage[n].blockSize = 0
    <3>1. CASE n = j.n
      BY <1>13, <3>1 DEF b
    <3>2. CASE n # j.n
      <4>1. block2Storage[n] \in Block2 /\ block2Storage'[n] = block2Storage[n]
        BY <1>5, <1>11, <3>2, ElementOfSeq
      <4> DEFINE y == block2Storage[n].blockSize
      <4>2. y \in Nat /\ block2Storage'[n].blockSize = y
        BY <4>1 DEF Block2
      <4> HIDE DEF y
      <4>3. y <= block2Storage'[n].blockSize
        BY <4>2
      <4> QED
        BY <4>3 DEF y
    <3> QED
      BY <3>1, <3>2
  <2>2. m <= m
    BY <1>5
  <2> QED
    BY <1>5, <1>11, <2>1, <2>2, FitBefore DEF setting
<1>15. SubSeq(compressedBuffer', from + 1, from + size) = O
  BY <1>5, <1>6, <1>7, <1>8, OutputWritten
<1>16. ASSUME NEW n \in 1 .. m, n # j.n, Pending("copy", n), Undisturbed'
       PROVE  CopiedFrom(n)' = CopiedFrom(n)
  <2> DEFINE a == dst(n - 1)
             y == block2Storage[n].blockSize
  <2>1. a \in Nat /\ y \in Nat
    <3>1. n - 1 \in Nat
      BY <1>5
    <3>2. a \in Nat
      BY <3>1, Sizes, Products DEF dst
    <3>3. block2Storage[n] \in Block2
      BY <1>5, ElementOfSeq
    <3> QED
      BY <3>2, <3>3 DEF Block2
  <2>2. a + y <= Room
    <3> DEFINE k == [op |-> "copy", n |-> n]
    <3>1. k \in Work /\ k.op = "copy" /\ k.n = n
      BY <1>16 DEF Pending
    <3> HIDE DEF k
    <3> QED
      BY <3>1 DEF SingleInv, JobsFit
  <2>3. CASE THREAD_NUM = 1
    <3> DEFINE k == [op |-> "copy", n |-> n]
    <3>1. k \in running /\ k.n = n
      BY <1>1, <1>16
    <3> HIDE DEF k
    <3>2. k = j
      BY <2>3, <3>1, OneJob
    <3> QED
      BY <1>16, <3>1, <3>2
  <2>4. CASE OutputsFit'
    <3>1. y <= block2Size /\ size <= block2Size
      <4>1. DOMAIN block2Storage' = 1 .. m
        BY <1>5, <1>11, LenProperties
      <4>2. /\ block2Storage'[n].blockSize <= block2Size
            /\ block2Storage'[j.n].blockSize <= block2Size
        BY <1>1, <2>4, <4>1 DEF OutputsFit
      <4> QED
        BY <1>9, <1>11, <1>16, <4>2
    <3>2. \A k \in a + 1 .. a + y : k \notin from + 1 .. from + size
      <4>1. n \in Nat \ {0} /\ j.n \in Nat \ {0} /\ size \in Nat
        BY <1>1, <1>5
      <4> HIDE DEF y
      <4> QED
        BY <1>16, <2>1, <3>1, <4>1, Apart
    <3>3. \A k \in a + 1 .. a + y : k \in 1 .. Room
      <4> HIDE DEF a, y
      <4> QED
        BY <1>5, <2>1, <2>2
    <3> HIDE DEF a, y
    <3>4. \A k \in a + 1 .. a + y : compressedBuffer'[k] = compressedBuffer[k]
      BY <1>8, <3>2, <3>3
    <3>5. SubSeq(compressedBuffer', a + 1, a + y) = SubSeq(compressedBuffer, a + 1, a + y)
      <4> DEFINE t == compressedBuffer'
      <4>1. t \in [1 .. Room -> Byte2] /\ \A k \in a + 1 .. a + y : t[k] = compressedBuffer[k]
        BY <1>5, <3>4
      <4> HIDE DEF t
      <4> DEFINE u == compressedBuffer
                 r == Room
      <4>2. /\ r \in Nat /\ a \in Nat /\ y \in Nat /\ a + y <= r
            /\ u \in [1 .. r -> Byte2] /\ t \in [1 .. r -> Byte2]
            /\ \A k \in a + 1 .. a + y : t[k] = u[k]
        BY <1>5, <2>1, <2>2, <4>1
      <4> HIDE DEF u, r
      <4>3. SubSeq(t, a + 1, a + y) = SubSeq(u, a + 1, a + y)
        BY <4>2, SliceSame
      <4> QED
        BY <4>3 DEF t, u
    <3>6. CopiedFrom(n)' = SubSeq(compressedBuffer', a + 1, a + y)
      BY <1>11, <1>16 DEF CopiedFrom, a, y
    <3>7. CopiedFrom(n) = SubSeq(compressedBuffer, a + 1, a + y)
      BY DEF CopiedFrom, a, y
    <3> QED
      BY <3>5, <3>6, <3>7
  <2> QED
    BY <1>16, <2>3, <2>4 DEF Undisturbed, setting
<1>17. Compressed'
  <2> SUFFICES ASSUME NEW n \in 1 .. m
        PROVE  /\ block2Storage'[n].blockNum = n - 1
               /\ block2Storage'[n].compressType = 0
               /\ \/ Pending("compress_func", n)' /\ block2Storage'[n].blockSize = 0
                  \/ /\ block2Storage'[n].blockSize \in CompressedSizes
                     /\ ~Pending("compress_func", n)'
                     /\ Undisturbed' => HasOutput(n)'
    BY <1>11 DEF Compressed
  <2>1. block2Storage[n].blockNum = n - 1 /\ block2Storage[n].compressType = 0
    BY DEF Trip, Compressed
  <2>2. CASE n = j.n
    <3>1. /\ block2Storage'[n] = c /\ c.blockNum = n - 1 /\ c.compressType = 0
      BY <1>9, <1>11, <2>1, <2>2 DEF b
    <3>2. ~Pending("compress_func", n)' /\ Pending("copy", n)'
      BY <1>4, <2>2
    <3>3. CopiedFrom(n)' = O
      <4>1. CopiedFrom(n)' = SubSeq(compressedBuffer', dst(n - 1) + 1, dst(n - 1) + size)
        BY <1>9, <3>1 DEF CopiedFrom, dst
      <4> QED
        BY <1>15, <2>2, <4>1
    <3>4. HasOutput(n)'
      BY <1>9, <2>2, <3>1, <3>2, <3>3 DEF HasOutput, O
    <3> QED
      BY <1>9, <3>1, <3>2, <3>4
  <2>3. CASE n # j.n
    <3>1. block2Storage'[n] = block2Storage[n]
      BY <1>11, <2>3
    <3>2. /\ Pending("compress_func", n)' <=> Pending("compress_func", n)
          /\ Pending("copy", n)' <=> Pending("copy", n)
      BY <1>4, <2>3
    <3>3. Undisturbed' /\ HasOutput(n) => HasOutput(n)'
      <4> SUFFICES ASSUME Undisturbed', HasOutput(n)
                   PROVE  HasOutput(n)'
        OBVIOUS
      <4>1. CASE Pending("copy", n)
        <5>1. CopiedFrom(n)' = CopiedFrom(n)
          BY <1>16, <2>3, <4>1
        <5> QED
          BY <3>1, <3>2, <4>1, <5>1 DEF HasOutput
      <4>2. CASE ~Pending("copy", n)
        BY <3>1, <3>2, <4>2 DEF HasOutput
      <4> QED
        BY <4>1, <4>2
    <3> QED
      BY <1>14, <2>1, <3>1, <3>2, <3>3 DEF Trip, Compressed
  <2> QED
    BY <2>2, <2>3
<1> QED
  BY <1>3, <1>12, <1>17 DEF Trip

LEMMA CompressTrip ==
  ASSUME SingleInv, SingleInv', Trip, ~lost', pc # "stop", NEW j \in running, compress_func(j)
  PROVE  Trip'
<1> DEFINE from == dst(j.n - 1)
<1>1. /\ j.op = "compress_func"
      /\ UNCHANGED <<setting, i, posFile, block1Storage, compressQueue1, transferQueue1,
                     block3Storage, jobs, allocated, served>>
  BY DEF compress_func
<1>2. PICK size \in CompressedSizes :
        /\ ~(from + size > Room)
        /\ compressedBuffer' = [k \in DOMAIN compressedBuffer |->
             IF k \in from + 1 .. from + size THEN Output(0, j.n - 1, size)[k - from]
             ELSE compressedBuffer[k]]
        /\ block2Storage' = [block2Storage EXCEPT ![j.n].blockSize = size]
        /\ running' = (running \ {j}) \cup {[j EXCEPT !.op = "copy"]}
        /\ UNCHANGED <<pc, lost>>
  BY DEF compress_func, Room
<1>3. from + size <= Room
  <2>1. j.n \in Nat \ {0}
    BY RunningJob DEF Job
  <2>2. from \in Nat
    BY <2>1, Sizes, Products DEF dst
  <2>3. Room \in Nat /\ size \in Nat
    BY CapSizes, SingleAssumption DEF SingleInv, TypeOK
  <2> HIDE DEF from
  <2> QED
    BY <1>2, <2>2, <2>3
<1>4. UNCHANGED <<setting, loop, block1Storage, compressQueue1, transferQueue1,
                  block3Storage, jobs, world>>
  BY <1>1, <1>2 DEF loop, world
<1> QED
  BY <1>1, <1>2, <1>3, <1>4, CompressStep
-----------------------------------------------------------------------------
LEMMA LostStays ==
  ASSUME SingleInv, Next, lost PROVE lost'
<1>1. CASE addFile
  BY <1>1 DEF addFile
<1>2. CASE trave_dir
  BY <1>2 DEF trave_dir, world
<1>3. CASE compressQueue_push
  BY <1>3 DEF compressQueue_push
<1>4. CASE solve2
  BY <1>4 DEF solve2
<1>5. CASE frame
  BY <1>5 DEF frame
<1>6. CASE solve3
  BY <1>6 DEF solve3
<1>7. CASE NextStage
  BY <1>7 DEF NextStage, AfterStage
<1>8. CASE Start
  BY <1>8 DEF Start, world
<1>9. ASSUME NEW j \in running, readFile(j) \/ compress_func(j) \/ copy(j) \/ transfer(j)
      PROVE  lost'
  <2>1. CASE readFile(j)
    BY <2>1 DEF readFile, world
  <2>2. CASE compress_func(j)
    BY <2>2 DEF compress_func
  <2>3. CASE copy(j)
    BY <2>3 DEF copy, world
  <2>4. CASE transfer(j)
    BY <2>4 DEF transfer
  <2> QED
    BY <1>9, <2>1, <2>2, <2>3, <2>4
<1> QED
  BY <1>1, <1>2, <1>3, <1>4, <1>5, <1>6, <1>7, <1>8, <1>9 DEF Next, main, thread_do

LEMMA TripInit ==
  ASSUME Init PROVE Trip
<1>1. SingleInv
  BY SingleInit
<1>2. /\ pc = "solve1" /\ i = 1 /\ posFile = 0
      /\ block1Storage = <<>> /\ compressQueue1 = <<>> /\ block2Storage = <<>>
      /\ transferQueue1 = <<>> /\ block3Storage = <<>>
      /\ jobs = <<>> /\ running = {}
  BY DEF Init
<1>3. Len(<<>>) = 0 /\ \A n : n \notin 1 .. 0
  OBVIOUS
<1>4. FilesCut
  <2> SUFFICES ASSUME NEW f \in 1 .. Len(Files)
               PROVE  FlattenSeq(Parts(f, <<>>)) = DataBytes(f, 0, CoveredTo(f))
    BY <1>2 DEF FilesCut
  <2>1. f \in Nat /\ Files[f].size \in Nat
    BY FileIs
  <2>2. CoveredTo(f) = 0
    BY <1>2, <2>1 DEF CoveredTo, Least
  <2>3. Parts(f, <<>>) = <<>> /\ DataBytes(f, 0, 0) = <<>>
    BY <1>3 DEF Parts, DataBytes
  <2> QED
    BY <2>2, <2>3, FlattenEmpty
<1>5. BlocksCut
  BY <1>2, <1>3 DEF BlocksCut
<1>6. Pushed
  <2>1. Records1(<<>>) = <<>>
    BY <1>3 DEF Records1
  <2> QED
    BY <1>2, <2>1, FlattenEmpty DEF Pushed, PushedBlocks
<1>7. Framed
  <2>1. Frames2(<<>>) = <<>>
    BY <1>3 DEF Frames2
  <2> QED
    BY <1>2, <2>1, FlattenEmpty DEF Framed, FramedBlocks
<1>8. Compressed /\ AllCompressed
  BY <1>2, <1>3 DEF Compressed, AllCompressed
<1>9. Sent
  <2>1. Len(Pieces(transferQueue1, block3Size)) \in Nat
    BY <1>1, Sizes, PieceCount DEF SingleInv, Types
  <2> QED
    BY <1>2, <1>3, <2>1 DEF Sent
<1>10. InOrder
  BY <1>2, <1>3 DEF InOrder
<1> QED
  BY <1>4, <1>5, <1>6, <1>7, <1>8, <1>9, <1>10 DEF Trip

LEMMA TripNext ==
  ASSUME TripInv, Next PROVE TripInv'
<1>1. SingleInv /\ SingleInv'
  BY SingleNext DEF TripInv
<1> SUFFICES ASSUME ~lost' PROVE Trip'
  BY <1>1 DEF TripInv
<1>2. Trip
  BY <1>1, LostStays DEF TripInv
<1>3. CASE addFile
  BY <1>1, <1>2, <1>3, AddFileTrip
<1>4. CASE trave_dir
  BY <1>1, <1>2, <1>4, TraverseTrip
<1>5. CASE compressQueue_push
  BY <1>1, <1>2, <1>5, PushTrip
<1>6. CASE solve2
  BY <1>1, <1>2, <1>6, Solve2Trip
<1>7. CASE frame
  BY <1>1, <1>2, <1>7, FrameTrip
<1>8. CASE solve3
  BY <1>1, <1>2, <1>8, Solve3Trip
<1>9. CASE NextStage
  BY <1>1, <1>2, <1>9, NextStageTrip
<1>10. CASE Start
  BY <1>1, <1>2, <1>10, StartTrip
<1>11. ASSUME NEW j \in running, pc # "stop",
              readFile(j) \/ compress_func(j) \/ copy(j) \/ transfer(j)
       PROVE  Trip'
  <2>1. CASE readFile(j)
    BY <1>1, <1>2, <1>11, <2>1, ReadFileTrip
  <2>2. CASE compress_func(j)
    BY <1>1, <1>2, <1>11, <2>2, CompressTrip
  <2>3. CASE copy(j)
    BY <1>1, <1>2, <1>11, <2>3, CopyTrip
  <2>4. CASE transfer(j)
    BY <1>1, <1>2, <1>11, <2>4, TransferTrip
  <2> QED
    BY <1>11, <2>1, <2>2, <2>3, <2>4
<1> QED
  BY <1>3, <1>4, <1>5, <1>6, <1>7, <1>8, <1>9, <1>10, <1>11 DEF Next, main, thread_do

(* As long as nothing is lost, every storage and stream holds what the     *)
(* work done so far makes of the files, and every job still to run has     *)
(* what it reads; once a wait is over, nothing of its stage is pending.    *)
THEOREM TripInvariant == Spec => []TripInv
<1>1. Init => TripInv
  BY SingleInit, TripInit DEF TripInv
<1>2. TripInv /\ [Next]_vars => TripInv'
  <2> SUFFICES ASSUME TripInv, [Next]_vars PROVE TripInv'
    OBVIOUS
  <2>1. CASE Next
    BY <2>1, TripNext
  <2>2. CASE UNCHANGED vars
    <3>1. SingleInv'
      BY <2>2, SingleNext DEF TripInv
    <3>2. Trip => Trip'
      <4> SUFFICES ASSUME Trip PROVE Trip'
        OBVIOUS
      <4>1. InOrder' /\ Work' = Work
        BY <2>2, KeepOrder DEF Trip, vars
      <4> QED
        BY <2>2, <4>1, SameMemoryTrip DEF vars
    <3>3. lost' = lost
      BY <2>2 DEF vars, world
    <3> QED
      BY <3>1, <3>2, <3>3 DEF TripInv
  <2> QED
    BY <2>1, <2>2
<1> QED
  BY <1>1, <1>2, PTL DEF Spec
-----------------------------------------------------------------------------
(* What the tests make of it                                               *)
LEMMA StorageBack ==
  ASSUME SingleInv, Trip, pc = "over"
  PROVE  /\ compressQueue1 = FlattenSeq(Records1(block1Storage))
         /\ Blocks1(compressQueue1) = block1Storage
         /\ \A n \in 1 .. Len(block1Storage) : block1Storage[n].buffer = Planned(block1Storage[n])
<1>1. \A op, n : ~Pending(op, n)
  BY DEF SingleInv, StageOK, Stage, Pending
<1>2. compressQueue1 = FlattenSeq(Records1(block1Storage))
  BY DEF Trip, Pushed, PushedBlocks
<1>3. block1Storage \in Seq(Block1)
  BY DEF SingleInv, Types
<1>4. ASSUME NEW n \in 1 .. Len(block1Storage)
      PROVE  /\ block1Storage[n].buffer = Planned(block1Storage[n])
             /\ Filled(block1Storage[n]) /\ block1Storage[n].blockSize <= block1Size
  <2>1. /\ block1Storage[n].buffer = Planned(block1Storage[n])
        /\ block1Storage[n].blockSize <= block1Size
    BY <1>1 DEF Trip, BlocksCut
  <2>2. block1Storage[n] \in Block1
    BY <1>3, ElementOfSeq
  <2>3. Filled(block1Storage[n])
    BY <2>1, <2>2, PlannedIs DEF Filled
  <2> QED
    BY <2>1, <2>3
<1>5. Blocks1(FlattenSeq(Records1(block1Storage))) = block1Storage
  BY <1>3, <1>4, Blocks1Back
<1> QED
  BY <1>2, <1>4, <1>5

LEMMA CompressedBack ==
  ASSUME SingleInv, Trip, pc = "over", Undisturbed
  PROVE  /\ Decompressed(block2Storage) = block1Storage
         /\ Blocks2(FlattenSeq(Frames2(block2Storage))) = block2Storage
<1> DEFINE P == Pieces(compressQueue1, block2Size)
           m == Len(block2Storage)
           plain == [n \in DOMAIN block2Storage |-> Decompress(P, 0, block2Storage[n])]
<1>1. \A op, n : ~Pending(op, n)
  BY DEF SingleInv, StageOK, Stage, Pending
<1>2. /\ block2Storage \in Seq(Block2) /\ DOMAIN block2Storage = 1 .. m /\ m \in Nat
      /\ compressQueue1 \in Seq(Byte)
  BY LenProperties DEF SingleInv, Types
<1>3. /\ P \in Seq(Seq(Byte)) /\ Len(P) = m /\ FlattenSeq(P) = compressQueue1
  BY <1>2, Sizes, PieceIs, FlattenPieces DEF Trip, AllCompressed
<1>4. \A n \in 1 .. m : /\ block2Storage[n].blockSize \in CompressedSizes
                        /\ block2Storage[n].buffer = Output(0, n - 1, block2Storage[n].blockSize)
  BY <1>1 DEF Trip, Compressed, HasOutput
<1> HIDE DEF P
<1>5. ASSUME NEW n \in 1 .. m
      PROVE  /\ Decompress(P, 0, block2Storage[n]) = P[n]
             /\ Filled(block2Storage[n])
  <2> DEFINE b == block2Storage[n]
             size == b.blockSize
             l == n - 1
             type == 0
  <2>1. size \in Nat \ {0} /\ b.buffer = Output(type, l, size)
    BY <1>4, SingleAssumption
  <2>2. l \in Nat /\ l + 1 = n /\ type \in Nat
    BY <1>2
  <2>3. P[l + 1] \in Seq(Byte)
    BY <1>3, <2>2, ElementOfSeq
  <2> HIDE DEF b, size, l, type
  <2>4. Decompress(P, type, b) = P[l + 1]
    BY <2>1, <2>2, <2>3, DecompressOutput
  <2>5. Len(Output(type, l, size)) = size
    BY <2>1, <2>2, OutputIs
  <2> QED
    BY <2>1, <2>2, <2>4, <2>5 DEF Filled, b, size, type
<1>6. plain = P
  <2>1. P = [n \in 1 .. m |-> P[n]]
    BY <1>3
  <2> QED
    BY <1>2, <1>5, <2>1
<1>7. Exit \notin Range(plain)
  <2>1. \A n \in 1 .. m : P[n] \in Seq(Byte)
    BY <1>3, ElementOfSeq
  <2>2. \A n \in 1 .. m : P[n] # Exit
    BY <2>1, NoExit
  <2>3. DOMAIN P = 1 .. m
    BY <1>3
  <2> QED
    BY <1>6, <2>2, <2>3 DEF Range
<1>8. Decompressed(block2Storage) = Blocks1(FlattenSeq(plain))
  BY <1>7 DEF Decompressed, P
<1> HIDE DEF plain
<1>9. Decompressed(block2Storage) = block1Storage
  BY <1>3, <1>6, <1>8, StorageBack
<1>10. Blocks2(FlattenSeq(Frames2(block2Storage))) = block2Storage
  BY <1>2, <1>5, Blocks2Back
<1> QED
  BY <1>9, <1>10

LEMMA SentBack ==
  ASSUME SingleInv, Trip, pc = "over"
  PROVE  Fetched = FlattenSeq(Frames2(block2Storage))
<1> DEFINE P == Pieces(transferQueue1, block3Size)
           m == Len(block3Storage)
<1>1. \A op, n : ~Pending(op, n)
  BY DEF SingleInv, StageOK, Stage, Pending
<1>2. /\ block3Storage \in Seq(Seq(Byte)) /\ DOMAIN block3Storage = 1 .. m
      /\ transferQueue1 \in Seq(Byte)
  BY LenProperties DEF SingleInv, Types
<1>3. P \in Seq(Seq(Byte)) /\ Len(P) = m /\ FlattenSeq(P) = transferQueue1
  BY <1>2, Sizes, PieceIs, FlattenPieces DEF Trip, Sent
<1>4. \A n \in 1 .. m : n \in served /\ block3Storage[n] = P[n]
  BY <1>1 DEF Trip, Sent
<1> HIDE DEF P
<1>5. [n \in DOMAIN block3Storage |-> IF n \in served THEN block3Storage[n] ELSE <<>>] = P
  <2>1. P = [n \in 1 .. m |-> P[n]]
    BY <1>3
  <2> QED
    BY <1>2, <1>4, <2>1
<1>6. Fetched = transferQueue1
  BY <1>3, <1>5 DEF Fetched
<1> QED
  BY <1>6 DEF Trip, Framed, FramedBlocks

LEMMA FilesBack ==
  ASSUME SingleInv, Trip, pc = "over", DifferentNames
  PROVE  Restored(block1Storage) = Original
<1>1. block1Storage \in Seq(Block1) /\ DOMAIN block1Storage = 1 .. Len(block1Storage)
  BY LenProperties DEF SingleInv, Types
<1>2. block1Storage # Exit
  <2>1. block1Storage \in Seq(Byte)
    BY <1>1, SeqMonotonic DEF Byte
  <2> QED
    BY <2>1, NoExit
<1>3. ASSUME NEW f \in DOMAIN Files, NEW name, name = Files[f].name
      PROVE  Written(block1Storage, name) = DataBytes(f, 0, Files[f].size)
  <2>1. DOMAIN Files = 1 .. Len(Files)
    BY FramesAssumption, LenProperties
  <2>2. ASSUME NEW n \in 1 .. Len(block1Storage)
        PROVE  (IF block1Storage[n] # Bad /\ Files[block1Storage[n].file].name = name
                THEN block1Storage[n].buffer ELSE <<>>)
               = IF block1Storage[n].file = f THEN Planned(block1Storage[n]) ELSE <<>>
    <3> DEFINE b == block1Storage[n]
    <3>1. b \in Block1
      BY <1>1, ElementOfSeq
    <3>2. b.file \in DOMAIN Files /\ b.buffer = Planned(b)
      BY <2>1, StorageBack DEF Trip, BlocksCut
    <3> HIDE DEF b
    <3>3. b # Bad
      <4>1. "file" \in DOMAIN b /\ "file" \notin DOMAIN Bad
        BY <3>1 DEF Block1, Bad
      <4> QED
        BY <4>1
    <3>4. Files[b.file].name = name <=> b.file = f
      BY <1>3, <3>2 DEF DifferentNames
    <3> QED
      BY <3>2, <3>3, <3>4 DEF b
  <2>3. Written(block1Storage, name) = FlattenSeq(Parts(f, block1Storage))
    BY <1>1, <2>2 DEF Written, Parts
  <2>4. FlattenSeq(Parts(f, block1Storage)) = DataBytes(f, 0, CoveredTo(f))
    BY <2>1 DEF Trip, FilesCut
  <2>5. CoveredTo(f) = Files[f].size
    BY DEF CoveredTo
  <2> QED
    BY <2>3, <2>4, <2>5
<1>4. ASSUME NEW name \in Names
      PROVE  Written(block1Storage, name) =
               LET f == CHOOSE f \in DOMAIN Files : Files[f].name = name
               IN DataBytes(f, 0, Files[f].size)
  <2> DEFINE f == CHOOSE f \in DOMAIN Files : Files[f].name = name
  <2>1. f \in DOMAIN Files /\ Files[f].name = name
    BY DEF Names
  <2> HIDE DEF f
  <2>2. Written(block1Storage, name) = DataBytes(f, 0, Files[f].size)
    BY <1>3, <2>1
  <2> QED
    BY <2>2 DEF f
<1> QED
  BY <1>2, <1>4 DEF Restored, Original

(* If nothing was refused, dropped or not sent, what each of the tests     *)
(* reads back is what was in the files: for any files of different names,  *)
(* sizes, capacities and numbers of threads.                               *)
THEOREM RoundTripCorrect == ASSUME DifferentNames PROVE Spec => []RoundTrip
<1>1. TripInv => RoundTrip
  <2> SUFFICES ASSUME TripInv, pc = "over", ~lost, THREAD_NUM = 1 \/ OutputsFit,
                      NEW records \in {test1, test2, test3}
               PROVE  Restored(records) = Original
    BY DEF RoundTrip
  <2>1. SingleInv /\ Trip /\ Undisturbed
    BY DEF TripInv, Undisturbed
  <2>2. test1 = block1Storage /\ test2 = block1Storage
    BY <2>1, CompressedBack DEF test1, test2
  <2>3. test3 = block1Storage
    <3>1. Blocks2(Fetched) = block2Storage
      BY <2>1, SentBack, CompressedBack
    <3> QED
      BY <2>1, <3>1, CompressedBack DEF test3
  <2> QED
    BY <2>1, <2>2, <2>3, FilesBack
<1> QED
  BY <1>1, TripInvariant, PTL
=============================================================================
