----------------------------- MODULE SingleRun -----------------------------
(***************************************************************************)
(* The sequential program: read everything, compress everything, send      *)
(* everything, each stage on a pool of its own that main waits for before  *)
(* it destroys it and frees memory.                                        *)
(*                                                                         *)
(* A step is one turn of a loop of main, or of a job; only the codec and   *)
(* the copy of its output are steps of their own, since other jobs write   *)
(* to the same buffer between them.  The queue of a pool is in order.      *)
(***************************************************************************)
EXTENDS Frames, Functions

CONSTANTS
  Threads,          \* what argv[2] may ask for
  Capacities,       \* [f, b1, b2, b3]: FILE_MAX_NUM, BLOCK1_MAX_NUM, ...
  CompressedSizes,  \* how many bytes a codec may make of a block
  PostOutcomes      \* whether a POST may fail

ASSUME SingleAssumption ==
  /\ Threads \subseteq Nat \ {0}
  /\ \A c \in Capacities : {c.f, c.b1, c.b2, c.b3} \subseteq Nat \ {0}
  /\ CompressedSizes \subseteq Nat \ {0}
  /\ PostOutcomes \subseteq BOOLEAN

VARIABLES
  THREAD_NUM, cap,
  pc,               \* where main is
  i,                \* the counter of its loop
  posFile,          \* and of the inner loop of addFile
  block1Storage, compressQueue1, compressedBuffer, block2Storage,
  transferQueue1, block3Storage,
  jobs,             \* the queue of the pool
  running,          \* the jobs its threads are at
  allocated,        \* the memory main has not freed
  served,           \* the blocks the server holds
  lost              \* something was refused or not sent

setting == <<THREAD_NUM, cap>>
loop == <<pc, i, posFile>>
memory == <<block1Storage, compressQueue1, compressedBuffer, block2Storage,
            transferQueue1, block3Storage>>
pool == <<jobs, running>>
world == <<allocated, served, lost>>
vars == <<setting, loop, memory, pool, world>>

Memory1 == {"block1Storage", "compressQueue1"}
Memory2 == {"compressedBuffer", "block2Storage"}
Memory3 == {"transferQueue1", "block3Storage"}

(* The memory a job reads or writes *)
Uses(op) == CASE op = "readFile" -> {"block1Storage"}
              [] op = "transfer" -> {"block3Storage"}
              [] OTHER -> {"compressQueue1"} \cup Memory2  \* compress_func, copy

Places == {"solve1", "wait1", "push", "solve2", "wait2", "frame", "solve3",
           "wait3", "over", "stop"}

TypeOK ==
  /\ THREAD_NUM \in Threads
  /\ cap \in Capacities
  /\ pc \in Places
  /\ {i, posFile} \subseteq Nat
  /\ Len(block1Storage) <= cap.b1
  /\ Len(block2Storage) <= cap.b2
  /\ Len(block3Storage) <= cap.b3
  /\ Len(compressQueue1) < cap.b1 * block1Bytes
  /\ Len(transferQueue1) < cap.b2 * block2Bytes
  /\ Cardinality(running) <= THREAD_NUM
  /\ allocated \subseteq Memory1 \cup Memory2 \cup Memory3
  /\ served \subseteq DOMAIN block3Storage
  /\ lost \in BOOLEAN

Init ==
  /\ THREAD_NUM \in Threads
  /\ cap \in Capacities
  /\ pc = "solve1" /\ i = 1 /\ posFile = 0
  /\ block1Storage = <<>> /\ compressQueue1 = <<>>
  /\ compressedBuffer = [k \in 1 .. cap.b2 * block2Size + Slack |-> NoByte]
  /\ block2Storage = <<>>
  /\ transferQueue1 = <<>> /\ block3Storage = <<>>
  /\ jobs = <<>> /\ running = {}
  /\ allocated = Memory1
  /\ served = {} /\ lost = FALSE
-----------------------------------------------------------------------------
thpool_add_work(op, n) == jobs' = Append(jobs, [op |-> op, n |-> n])

Goto(p) == pc' = p /\ i' = 1 /\ UNCHANGED posFile

(* The storages give NULL when they are full: fileStorage when the files   *)
(* before file i have taken every place.                                   *)
fileStorage_full == i > cap.f

block1Storage_full == Len(block1Storage) = cap.b1

block2Storage_full == Len(block2Storage) = cap.b2

block3Storage_full == Len(block3Storage) = cap.b3

(* addFile: the next block of file i.  A full storage gives no buffer, and *)
(* readFile writes where none is; a file that finds no place is left out.  *)
addFile ==
  LET size == Files[i].size - posFile IN
  /\ pc = "solve1" /\ i <= Len(Files)
  /\ IF size <= 0 \/ fileStorage_full
       THEN /\ i' = i + 1 /\ posFile' = 0
            /\ lost' = (lost \/ fileStorage_full)
            /\ UNCHANGED <<pc, block1Storage, pool>>
     ELSE IF block1Storage_full
       THEN /\ pc' = "stop" /\ lost' = TRUE
            /\ UNCHANGED <<i, posFile, block1Storage, pool>>
     ELSE /\ block1Storage' = Append(block1Storage,
               [block1(i, posFile, <<>>) EXCEPT !.blockSize = Least(size, block1Size)])
          /\ posFile' = posFile + block1Size
          /\ thpool_add_work("readFile", Len(block1Storage) + 1)
          /\ UNCHANGED <<pc, i, running, lost>>
  /\ UNCHANGED <<setting, compressQueue1, compressedBuffer, block2Storage,
                 transferQueue1, block3Storage, allocated, served>>

trave_dir ==
  /\ pc = "solve1" /\ i > Len(Files)
  /\ Goto("wait1")
  /\ UNCHANGED <<setting, memory, pool, world>>

(* solve2, first loop *)
compressQueue_push ==
  LET record == Record1(block1Storage[i]) IN
  /\ pc = "push" /\ i <= Len(block1Storage)
  /\ i' = i + 1
  /\ IF Refuses(compressQueue1, record, cap.b1 * block1Bytes)
       THEN lost' = TRUE /\ UNCHANGED compressQueue1
       ELSE compressQueue1' = compressQueue1 \o record /\ UNCHANGED lost
  /\ UNCHANGED <<setting, pc, posFile, block1Storage, compressedBuffer, block2Storage,
                 transferQueue1, block3Storage, pool, allocated, served>>

(* Second loop; push's NULL is ignored, and the job writes beyond the end. *)
solve2 ==
  /\ pc \in {"push", "solve2"}
  /\ pc = "push" => i > Len(block1Storage)
  /\ IF Len(block2Storage) = Len(Pieces(compressQueue1, block2Size))
       THEN Goto("wait2") /\ UNCHANGED <<block2Storage, pool, lost>>
     ELSE IF block2Storage_full
       THEN pc' = "stop" /\ lost' = TRUE
            /\ UNCHANGED <<i, posFile, block2Storage, pool>>
     ELSE /\ pc' = "solve2"
          /\ block2Storage' = Append(block2Storage,
               block2(Len(block2Storage), 0, <<>>))
          /\ thpool_add_work("compress_func", Len(block2Storage) + 1)
          /\ UNCHANGED <<i, posFile, running, lost>>
  /\ UNCHANGED <<setting, block1Storage, compressQueue1, compressedBuffer,
                 transferQueue1, block3Storage, allocated, served>>

(* solve3, first loop: the header and the block are pushed one by one, and *)
(* the queue may take the one and refuse the other.                        *)
transferQueue_push(q, data) ==
  IF Refuses(q, data, cap.b2 * block2Bytes) THEN q ELSE q \o data

frame ==
  LET b == block2Storage[i]
      withHeader == transferQueue_push(transferQueue1, Frame(b))
  IN
  /\ pc = "frame" /\ i <= Len(block2Storage)
  /\ i' = i + 1
  /\ transferQueue1' = transferQueue_push(withHeader, Record2(b))
  /\ lost' = (lost \/ Len(transferQueue1') < Len(transferQueue1) + 1 + dataSize(b))
  /\ UNCHANGED <<setting, pc, posFile, block1Storage, compressQueue1, compressedBuffer,
                 block2Storage, block3Storage, pool, allocated, served>>

solve3 ==
  LET pieces == Pieces(transferQueue1, block3Size)
      n == Len(block3Storage) + 1
  IN
  /\ pc \in {"frame", "solve3"}
  /\ pc = "frame" => i > Len(block2Storage)
  /\ IF n > Len(pieces)
       THEN Goto("wait3") /\ UNCHANGED <<block3Storage, pool, lost>>
     ELSE IF block3Storage_full
       THEN pc' = "stop" /\ lost' = TRUE
            /\ UNCHANGED <<i, posFile, block3Storage, pool>>
     ELSE /\ pc' = "solve3"
          /\ block3Storage' = Append(block3Storage, pieces[n])
          /\ thpool_add_work("transfer", n)
          /\ UNCHANGED <<i, posFile, running, lost>>
  /\ UNCHANGED <<setting, block1Storage, compressQueue1, compressedBuffer,
                 block2Storage, transferQueue1, allocated, served>>
-----------------------------------------------------------------------------
Idle_QueueOnly == jobs = <<>>  \* fault: a running job is not waited for
Idle == jobs = <<>> /\ running = {}

(* thpool_wait, thpool_destroy, free_memory and the next allocate_memory. *)
AfterStage(wait, next, freed, new) ==
  /\ pc = wait
  /\ Idle
  /\ Goto(next)
  /\ allocated' = (allocated \ freed) \cup new
  /\ UNCHANGED <<setting, memory, pool, served, lost>>

NextStage ==
  \/ AfterStage("wait1", "push", {}, Memory2)
  \/ AfterStage("wait2", "frame", Memory1 \cup {"compressedBuffer"}, Memory3)
  \/ AfterStage("wait3", "over", Memory3 \cup {"block2Storage"}, {})

main ==
  \/ addFile \/ trave_dir \/ compressQueue_push \/ solve2
  \/ frame \/ solve3 \/ NextStage
-----------------------------------------------------------------------------
(* The threads of the pool *)
Start_KeepsJob ==  \* fault: the job stays in the queue
  /\ jobs # <<>>
  /\ Cardinality(running) < THREAD_NUM
  /\ running' = running \cup {Head(jobs)}
  /\ UNCHANGED <<setting, loop, memory, jobs, world>>

Start ==
  /\ jobs # <<>>
  /\ Cardinality(running) < THREAD_NUM
  /\ running' = running \cup {Head(jobs)}
  /\ jobs' = Tail(jobs)
  /\ UNCHANGED <<setting, loop, memory, world>>

Done(j) == running' = running \ {j} /\ UNCHANGED jobs

readFile(j) ==
  LET b == block1Storage[j.n] IN
  /\ j.op = "readFile"
  /\ block1Storage' =
       [block1Storage EXCEPT ![j.n].buffer = DataBytes(b.file, b.blockNum, b.blockSize)]
  /\ Done(j)
  /\ UNCHANGED <<setting, loop, compressQueue1, compressedBuffer, block2Storage,
                 transferQueue1, block3Storage, world>>

(* The codec writes its output; one that is too long ends the program. *)
compress_func(j) ==
  /\ j.op = "compress_func"
  /\ \E size \in CompressedSizes :
       LET from == dst(j.n - 1)
           to == from + size
       IN IF to > cap.b2 * block2Size + Slack \/ size > BLOCK2_MAX_SIZE
          THEN /\ pc' = "stop" /\ lost' = TRUE
               /\ UNCHANGED <<compressedBuffer, block2Storage, running>>
          ELSE /\ compressedBuffer' = [k \in DOMAIN compressedBuffer |->
                    IF k \in from + 1 .. to THEN Output(0, j.n - 1, size)[k - from]
                    ELSE compressedBuffer[k]]
               /\ block2Storage' = [block2Storage EXCEPT ![j.n].blockSize = size]
               /\ running' = (running \ {j}) \cup {[j EXCEPT !.op = "copy"]}
               /\ UNCHANGED <<pc, lost>>
  /\ UNCHANGED <<setting, i, posFile, block1Storage, compressQueue1, transferQueue1,
                 block3Storage, jobs, allocated, served>>

copy(j) ==
  LET from == dst(j.n - 1) IN
  /\ j.op = "copy"
  /\ block2Storage' = [block2Storage EXCEPT ![j.n].buffer =
       SubSeq(compressedBuffer, from + 1, from + block2Storage[j.n].blockSize)]
  /\ Done(j)
  /\ UNCHANGED <<setting, loop, block1Storage, compressQueue1, compressedBuffer,
                 transferQueue1, block3Storage, world>>

(* The port of the POST is PortTable's, the POST HttpTransfer's. *)
transfer(j) ==
  /\ j.op = "transfer"
  /\ \E sent \in PostOutcomes :
       /\ served' = IF sent THEN served \cup {j.n} ELSE served
       /\ lost' = (lost \/ ~sent)
  /\ Done(j)
  /\ UNCHANGED <<setting, loop, memory, allocated>>

thread_do ==
  /\ pc # "stop"
  /\ Start \/ \E j \in running : readFile(j) \/ compress_func(j) \/ copy(j) \/ transfer(j)

Next == main \/ thread_do

Spec == Init /\ [][Next]_vars /\ WF_vars(main) /\ WF_vars(thread_do)
-----------------------------------------------------------------------------
(* The tests main has commented out: what was read, what was compressed,   *)
(* and what the server has, each written to FOLDER_OUT as records.         *)
test1 == block1Storage

Decompressed(blocks) ==
  LET pieces == Pieces(compressQueue1, block2Size)
      plain == [n \in DOMAIN blocks |-> Decompress(pieces, 0, blocks[n])]
  IN IF Exit \in Range(plain) THEN Exit ELSE Blocks1(FlattenSeq(plain))

test2 == Decompressed(block2Storage)

Fetched ==
  FlattenSeq([n \in DOMAIN block3Storage |->
                IF n \in served THEN block3Storage[n] ELSE <<>>])

test3 ==
  LET blocks == Blocks2(Fetched)
  IN IF Len(blocks) # Len(block2Storage) THEN Exit ELSE Decompressed(blocks)

OutputsFit == \A n \in DOMAIN block2Storage : block2Storage[n].blockSize <= block2Size

(* If no storage, queue or POST refused anything, each test writes the     *)
(* files as they were.  Two jobs at once garble outputs longer than        *)
(* block2Size, so either one thread compresses or the outputs fit: the     *)
(* codecs promise neither, and BLOCK2_MAX_SIZE is meant to leave them the  *)
(* room.                                                                   *)
RoundTrip ==
  pc = "over" /\ ~lost /\ (THREAD_NUM = 1 \/ OutputsFit) =>
    \A records \in {test1, test2, test3} : Restored(records) = Original

(* main frees the memory of a stage only when no job of it is left.        *)
NoUseAfterFree ==
  \A j \in running \cup ToSet(jobs) : Uses(j.op) \subseteq allocated

(* Every stage ends, and with it the program.                              *)
Ends == <>(pc \in {"over", "stop"})
=============================================================================
