------------------------ MODULE HttpTransfer_proofs ------------------------
(***************************************************************************)
(* With no more transfer threads than ports the scan finds a port, for any *)
(* number of ports.  A POST opened up is still one step of PortTable, so   *)
(* what is proved of the ports holds with the HTTP client in place.  And   *)
(* of the client itself: who owns a descriptor, and what a Result says.    *)
(***************************************************************************)
EXTENDS HttpTransfer, FiniteSetTheorems, SequenceTheorems, TLAPS

(* The ports: what is used here of HttpTransfer is PortTable.              *)
FewThreads == Cardinality(Thread) <= THREAD_MAX_NUM3

Holds(t) == pc[t] \in {"post", "release"}

(* A flag is up exactly while a thread holds its port. *)
FlagsHeld ==
  /\ \A t \in Thread : Holds(t) => clientPort[t] \in Port
                                   /\ clientPort_flag[clientPort[t]]
  /\ \A i \in Port : clientPort_flag[i] =>
                       \E t \in Thread : Holds(t) /\ clientPort[t] = i

(* The threads whose job looks at port i, or holds it, or is beyond it. *)
From(i) == {t \in Thread : pc[t] # "idle" /\ clientPort[t] >= i}

(* What makes one pass over the ports enough: from each port on there are  *)
(* no more jobs than ports.  A job goes past a port only while another     *)
(* job holds that port, and so stays behind.                               *)
Room ==
  \A i \in 0 .. THREAD_MAX_NUM3 : Cardinality(From(i)) <= THREAD_MAX_NUM3 - i

Inv == TypeOK /\ ExclusivePort /\ FlagsHeld /\ Room

LEMMA ThreadFinite ==
  /\ IsFiniteSet(Thread)
  /\ (\E k \in 1 .. THREAD_MAX_NUM3 : PoolsInUse = {k}) => FewThreads
<1>1. THREAD_MAX_NUM3 \in Nat /\ PoolsInUse \in SUBSET (1 .. THREAD_MAX_NUM3)
  BY PortTableAssumption
<1>2. /\ IsFiniteSet(1 .. THREAD_MAX_NUM3)
      /\ Cardinality(1 .. THREAD_MAX_NUM3) = THREAD_MAX_NUM3
  BY <1>1, PortTableAssumption, FS_Interval
<1>3. IsFiniteSet(PoolsInUse)
  BY <1>1, <1>2, FS_Subset
<1>4. /\ IsFiniteSet(PoolsInUse \X (1 .. THREAD_MAX_NUM3))
      /\ Cardinality(PoolsInUse \X (1 .. THREAD_MAX_NUM3))
           = Cardinality(PoolsInUse) * THREAD_MAX_NUM3
  BY <1>2, <1>3, FS_Product
<1>5. Thread \in SUBSET (PoolsInUse \X (1 .. THREAD_MAX_NUM3))
  BY DEF Thread
<1>6. /\ IsFiniteSet(Thread)
      /\ Cardinality(Thread) <= Cardinality(PoolsInUse \X (1 .. THREAD_MAX_NUM3))
  BY <1>4, <1>5, FS_Subset
<1>7. ASSUME NEW k \in 1 .. THREAD_MAX_NUM3, PoolsInUse = {k}
      PROVE  FewThreads
  <2>1. Cardinality(PoolsInUse) = 1
    BY <1>7, FS_Singleton
  <2>2. Cardinality(PoolsInUse) * THREAD_MAX_NUM3 = THREAD_MAX_NUM3
    BY <1>1, <2>1
  <2> QED
    BY <1>4, <1>6, <2>2 DEF FewThreads
<1> QED
  BY <1>6, <1>7

LEMMA FromFinite ==
  ASSUME NEW i
  PROVE  IsFiniteSet(From(i)) /\ Cardinality(From(i)) \in Nat
<1>1. From(i) \in SUBSET Thread
  BY DEF From
<1> QED
  BY <1>1, ThreadFinite, FS_Subset, FS_CardinalityType

LEMMA InitInv == Init => Inv
<1> SUFFICES ASSUME Init PROVE Inv
  OBVIOUS
<1>1. TypeOK /\ ExclusivePort
  BY PortTableAssumption DEF Init, TypeOK, ThreadPC, ExclusivePort
<1>2. FlagsHeld
  BY DEF Init, FlagsHeld, Holds
<1>3. \A i : From(i) = {}
  BY DEF Init, From
<1>4. Room
  BY <1>3, FS_EmptySet, PortTableAssumption DEF Room
<1> QED
  BY <1>1, <1>2, <1>4 DEF Inv

(* A job looks for a port only among the ports. *)
LEMMA InvAlwaysAPort == Inv => AlwaysAPort
<1> SUFFICES ASSUME Inv, NEW t \in Thread, pc[t] = "scan",
                    clientPort[t] = THREAD_MAX_NUM3
             PROVE  FALSE
  BY DEF AlwaysAPort
<1>1. THREAD_MAX_NUM3 \in Nat
  BY PortTableAssumption
<1>2. t \in From(THREAD_MAX_NUM3)
  BY <1>1 DEF From
<1>3. Cardinality(From(THREAD_MAX_NUM3)) <= 0
  BY <1>1 DEF Inv, Room
<1>4. Cardinality(From(THREAD_MAX_NUM3)) = 0
  BY <1>3, FromFinite
<1> QED
  BY <1>2, <1>4, FromFinite, FS_EmptySet

LEMMA NextInv == FewThreads /\ Inv /\ [Next]_vars => Inv'
<1> SUFFICES ASSUME FewThreads, Inv, [Next]_vars PROVE Inv'
  OBVIOUS
<1>0. /\ THREAD_MAX_NUM3 \in Nat \ {0}
      /\ TypeOK /\ ExclusivePort /\ FlagsHeld /\ Room
  BY PortTableAssumption DEF Inv
<1> USE DEF ThreadPC
<1>1. ASSUME NEW t \in Thread, transfer(t) PROVE Inv'
  <2>1. /\ pc' = [pc EXCEPT ![t] = "scan"] /\ pc[t] = "idle"
        /\ clientPort' = [clientPort EXCEPT ![t] = 0]
        /\ clientPort_flag' = clientPort_flag
    BY <1>1 DEF transfer
  <2>2. TypeOK'
    BY <1>0, <2>1 DEF TypeOK
  <2>3. ExclusivePort'
    BY <1>0, <2>1 DEF TypeOK, ExclusivePort
  <2>4. FlagsHeld'
    BY <1>0, <2>1 DEF TypeOK, FlagsHeld, Holds
  <2>5. ASSUME NEW i \in 0 .. THREAD_MAX_NUM3
        PROVE  Cardinality(From(i)') <= THREAD_MAX_NUM3 - i
    <3>1. CASE i = 0
      <4>1. From(i)' \in SUBSET Thread
        BY DEF From
      <4>2. Cardinality(From(i)') <= Cardinality(Thread)
        BY <4>1, ThreadFinite, FS_Subset
      <4>3. Cardinality(From(i)') \in Nat /\ Cardinality(Thread) \in Nat
        BY <4>1, ThreadFinite, FS_Subset, FS_CardinalityType
      <4> QED
        BY <1>0, <3>1, <4>2, <4>3 DEF FewThreads
    <3>2. CASE i # 0
      <4>1. From(i)' = From(i)
        BY <1>0, <2>1, <3>2 DEF From, TypeOK
      <4> QED
        BY <1>0, <4>1 DEF Room
    <3> QED
      BY <3>1, <3>2
  <2>6. Room'
    BY <2>5 DEF Room
  <2> QED
    BY <2>2, <2>3, <2>4, <2>6 DEF Inv
<1>2. ASSUME NEW t \in Thread, Take(t) PROVE Inv'
  <2>1. /\ pc' = [pc EXCEPT ![t] = "post"] /\ pc[t] = "scan"
        /\ clientPort' = clientPort /\ clientPort[t] \in Port
        /\ ~clientPort_flag[clientPort[t]]
        /\ clientPort_flag' = [clientPort_flag EXCEPT ![clientPort[t]] = TRUE]
    BY <1>2 DEF Take
  <2>2. TypeOK'
    BY <1>0, <2>1 DEF TypeOK
  <2>3. ExclusivePort'
    BY <1>0, <2>1 DEF TypeOK, ExclusivePort, FlagsHeld, Holds
  <2>4. FlagsHeld'
    BY <1>0, <2>1 DEF TypeOK, FlagsHeld, Holds
  <2>5. Room'
    <3>1. ASSUME NEW i \in 0 .. THREAD_MAX_NUM3 PROVE From(i)' = From(i)
      BY <1>0, <2>1 DEF From, TypeOK
    <3> QED
      BY <1>0, <3>1 DEF Room
  <2> QED
    BY <2>2, <2>3, <2>4, <2>5 DEF Inv
<1>3. ASSUME NEW t \in Thread, Skip(t) PROVE Inv'
  <2> DEFINE k == clientPort[t]
  <2>1. /\ pc[t] = "scan" /\ k \in Port /\ clientPort_flag[k]
        /\ clientPort' = [clientPort EXCEPT ![t] = k + 1]
        /\ pc' = pc /\ clientPort_flag' = clientPort_flag
    BY <1>3 DEF Skip
  <2>2. k \in 0 .. THREAD_MAX_NUM3 /\ k + 1 \in 0 .. THREAD_MAX_NUM3
    BY <1>0, <2>1 DEF Port
  <2>3. TypeOK'
    BY <1>0, <2>1, <2>2 DEF TypeOK
  <2>4. ExclusivePort'
    BY <1>0, <2>1 DEF TypeOK, ExclusivePort
  <2>5. FlagsHeld'
    <3>1. \A u \in Thread : Holds(u)' <=> Holds(u)
      BY <2>1 DEF Holds
    <3>2. \A u \in Thread : Holds(u) => clientPort'[u] = clientPort[u]
      BY <1>0, <2>1 DEF Holds, TypeOK
    <3> QED
      BY <1>0, <2>1, <3>1, <3>2 DEF FlagsHeld
  <2>6. PICK u \in Thread : Holds(u) /\ clientPort[u] = k
    BY <1>0, <2>1 DEF FlagsHeld
  <2>7. u \in From(k) /\ t \in From(k) /\ u # t
    BY <1>0, <2>1, <2>2, <2>6 DEF From, Holds
  <2> HIDE DEF k
  <2>8. ASSUME NEW i \in 0 .. THREAD_MAX_NUM3
        PROVE  Cardinality(From(i)') <= THREAD_MAX_NUM3 - i
    <3>1. CASE i = k + 1
      <4>1. From(i)' \in SUBSET (From(k) \ {u})
        BY <1>0, <2>1, <2>2, <2>6, <2>7, <3>1 DEF From, TypeOK, k
      <4>2. /\ IsFiniteSet(From(k) \ {u})
            /\ Cardinality(From(k) \ {u}) = Cardinality(From(k)) - 1
        BY <2>7, FromFinite, FS_RemoveElement
      <4>3. /\ IsFiniteSet(From(i)')
            /\ Cardinality(From(i)') <= Cardinality(From(k) \ {u})
        BY <4>1, <4>2, FS_Subset
      <4>4. Cardinality(From(k)) <= THREAD_MAX_NUM3 - k
        BY <1>0, <2>2 DEF Room
      <4>5. Cardinality(From(i)') \in Nat /\ Cardinality(From(k)) \in Nat
        BY <4>3, FromFinite, FS_CardinalityType
      <4> QED
        BY <1>0, <2>2, <3>1, <4>2, <4>3, <4>4, <4>5
    <3>2. CASE i # k + 1
      <4>1. From(i)' = From(i)
        BY <1>0, <2>1, <2>2, <3>2 DEF From, TypeOK, k
      <4> QED
        BY <1>0, <4>1 DEF Room
    <3> QED
      BY <3>1, <3>2
  <2>9. Room'
    BY <2>8 DEF Room
  <2> QED
    BY <2>3, <2>4, <2>5, <2>9 DEF Inv
<1>4. ASSUME NEW t \in Thread, Post(t) PROVE Inv'
  <2>1. /\ pc' = [pc EXCEPT ![t] = "release"] /\ pc[t] = "post"
        /\ clientPort' = clientPort /\ clientPort_flag' = clientPort_flag
    BY <1>4 DEF Post
  <2>2. TypeOK'
    BY <1>0, <2>1 DEF TypeOK
  <2>3. \A u \in Thread : Holds(u)' <=> Holds(u)
    BY <1>0, <2>1 DEF Holds, TypeOK
  <2>4. ExclusivePort'
    BY <1>0, <2>1, <2>3 DEF ExclusivePort, Holds
  <2>5. FlagsHeld'
    BY <1>0, <2>1, <2>3 DEF FlagsHeld
  <2>6. Room'
    <3>1. ASSUME NEW i \in 0 .. THREAD_MAX_NUM3 PROVE From(i)' = From(i)
      BY <1>0, <2>1 DEF From, TypeOK
    <3> QED
      BY <1>0, <3>1 DEF Room
  <2> QED
    BY <2>2, <2>4, <2>5, <2>6 DEF Inv
<1>5. ASSUME NEW t \in Thread, Release(t) PROVE Inv'
  <2>1. /\ pc' = [pc EXCEPT ![t] = "idle"] /\ pc[t] = "release"
        /\ clientPort' = clientPort /\ clientPort[t] \in Port
        /\ clientPort_flag' = [clientPort_flag EXCEPT ![clientPort[t]] = FALSE]
    BY <1>0, <1>5 DEF Release, FlagsHeld, Holds
  <2>2. TypeOK'
    BY <1>0, <2>1 DEF TypeOK
  <2>3. ExclusivePort'
    BY <1>0, <2>1 DEF TypeOK, ExclusivePort
  <2>4. FlagsHeld'
    <3>1. \A u \in Thread : Holds(u)' <=> Holds(u) /\ u # t
      BY <1>0, <2>1 DEF Holds, TypeOK
    <3>2. \A u \in Thread : Holds(u) /\ u # t => clientPort[u] # clientPort[t]
      BY <1>0, <2>1 DEF Holds, ExclusivePort
    <3>3. \A i \in Port : clientPort_flag'[i] <=>
                            clientPort_flag[i] /\ i # clientPort[t]
      BY <1>0, <2>1 DEF TypeOK
    <3> QED
      BY <1>0, <2>1, <3>1, <3>2, <3>3 DEF FlagsHeld
  <2>5. ASSUME NEW i \in 0 .. THREAD_MAX_NUM3
        PROVE  Cardinality(From(i)') <= THREAD_MAX_NUM3 - i
    <3>1. From(i)' \in SUBSET From(i)
      BY <1>0, <2>1 DEF From, TypeOK
    <3>2. /\ IsFiniteSet(From(i)')
          /\ Cardinality(From(i)') <= Cardinality(From(i))
      BY <3>1, FromFinite, FS_Subset
    <3>3. Cardinality(From(i)') \in Nat /\ Cardinality(From(i)) \in Nat
      BY <3>2, FromFinite, FS_CardinalityType
    <3>4. Cardinality(From(i)) <= THREAD_MAX_NUM3 - i
      BY <1>0 DEF Room
    <3> QED
      BY <1>0, <3>2, <3>3, <3>4
  <2>6. Room'
    BY <2>5 DEF Room
  <2> QED
    BY <2>2, <2>3, <2>4, <2>6 DEF Inv
<1>6. CASE UNCHANGED vars
  BY <1>6 DEF vars, Inv, TypeOK, ExclusivePort, FlagsHeld, Holds, Room, From
<1> QED
  BY <1>1, <1>2, <1>3, <1>4, <1>5, <1>6 DEF Next

LEMMA InvAlways == ASSUME FewThreads PROVE Spec => []Inv
<1>1. Init => Inv
  BY InitInv
<1>2. Inv /\ [Next]_vars => Inv'
  BY NextInv
<1> QED
  BY <1>1, <1>2, PTL DEF Spec

-----------------------------------------------------------------------------
(* While the jobs of one pool run, the scan for a port never runs past the *)
(* last port, whatever the other jobs do meanwhile.                        *)
THEOREM AlwaysAPortCorrect ==
  ASSUME FewThreads PROVE Spec => []AlwaysAPort
  BY InvAlways, InvAlwaysAPort, PTL

(* The same for the pools of the program: one pool, whichever, never has   *)
(* more threads than there are ports.                                      *)
THEOREM OnePoolAlwaysAPort ==
  ASSUME NEW k \in 1 .. THREAD_MAX_NUM3, PoolsInUse = {k}
  PROVE  Spec => []AlwaysAPort
<1>1. FewThreads
  BY ThreadFinite
<1> QED
  BY <1>1, AlwaysAPortCorrect

(* A client is used by one job at a time. *)
THEOREM ExclusivePortCorrect ==
  ASSUME FewThreads PROVE Spec => []ExclusivePort
<1>1. Inv => ExclusivePort
  BY DEF Inv
<1> QED
  BY <1>1, InvAlways, PTL

-----------------------------------------------------------------------------
(* The client.                                                             *)

(* Where the sockets of a POST are while it goes on. *)
PhaseOK ==
  \A t \in Thread :
    /\ phase[t] # "none" => pc[t] = "post"
    /\ pc[t] \in {"post", "release"} => Client(t) \in Port
    /\ phase[t] \in {"socket", "connect"} => socket_[Client(t)] = INVALID_SOCKET
    /\ phase[t] \notin {"none", "socket", "connect"} => socket_[Client(t)] \in Fd
    /\ sock[t] \in Fd <=> phase[t] = "connect"
    /\ phase[t] = "connect" => address[t] \in 1 .. Addresses

(* request_mutex_: one thread at a time is inside send of a client. *)
OneSender ==
  \A t, u \in Thread :
    phase[t] # "none" /\ phase[u] # "none" /\ Client(t) = Client(u) => t = u

(* OneOwner without counting. *)
Owned ==
  /\ \A i, j \in Port : socket_[i] = socket_[j] /\ socket_[i] \in Fd => i = j
  /\ \A t, u \in Thread : sock[t] = sock[u] /\ sock[t] \in Fd => t = u
  /\ \A i \in Port, t \in Thread : socket_[i] \in Fd => socket_[i] # sock[t]
  /\ \A f \in Fd :
       fds[f].open <=> (\E i \in Port : socket_[i] = f) \/ (\E t \in Thread : sock[t] = f)

(* What the local error variable of send says at each point of a POST. *)
ResultOK ==
  \A t \in Thread :
    /\ phase[t] = "none" /\ pc[t] # "release" => error[t] = "Success"
    /\ phase[t] \in {"head", "body", "line", "headers", "content"} => error[t] = "Success"
    /\ phase[t] \in {"headers", "content"} => reply[t].status # NoStatus
    /\ phase[t] = "exit" /\ error[t] = "Success" => reply[t].status # NoStatus
    /\ pc[t] = "release" => (status[t] = NoStatus <=> error[t] # "Success")

HttpInv == HttpTypeOK /\ PhaseOK /\ OneSender /\ Owned /\ ResultOK

(* The steps inside a POST leave the ports alone, until it returns. *)
LEMMA SocketSteps ==
  ASSUME NEW t \in Thread, Post_socket(t)
  PROVE  Post(t) \/ UNCHANGED vars
<1>1. CASE Reuse(t) \/ Resolve(t) \/ socket(t) \/ connect(t) \/ NotConnected(t)
  BY <1>1 DEF Reuse, Resolve, socket, connect, NotConnected, portVars, vars
<1>2. CASE NoSocket(t)
  BY <1>2 DEF NoSocket, Return
<1> QED
  BY <1>1, <1>2 DEF Post_socket

LEMMA RequestSteps ==
  ASSUME NEW t \in Thread, Post_request(t)
  PROVE  Post(t) \/ UNCHANGED vars
<1>1. ASSUME NEW k, Read(t, k)
      PROVE  UNCHANGED vars
  BY <1>1 DEF Read, portVars, vars
<1>2. CASE write_request(t)
  BY <1>2 DEF write_request, Write, portVars, vars
<1>3. CASE ReadInterim(t) \/ read_response_line(t) \/ read_headers(t)
  BY <1>1, <1>3 DEF ReadInterim, read_response_line, read_headers
<1>4. CASE read_content(t)
  BY <1>1, <1>4 DEF read_content, read_content_framed, read_content_without_length,
                    EndOfContent, portVars, vars
<1>5. CASE ReadFails(t)
  BY <1>5 DEF ReadFails, portVars, vars
<1>6. CASE Finish(t)
  BY <1>6 DEF Finish, Return
<1> QED
  BY <1>2, <1>3, <1>4, <1>5, <1>6 DEF Post_request

(* Each step of the transfer stage with its HTTP clients and servers is a  *)
(* step of PortTable or leaves its variables alone.                        *)
THEOREM StepRefines == [HttpNext]_<<portVars, httpVars>> => [Next]_vars
<1> SUFFICES ASSUME [HttpNext]_<<portVars, httpVars>>
             PROVE  [Next]_vars
  OBVIOUS
<1>1. CASE UNCHANGED <<portVars, httpVars>>
  BY <1>1 DEF portVars, vars
<1>2. ASSUME NEW f \in Fd, Server(f)
      PROVE  [Next]_vars
  BY <1>2 DEF Server, portVars, vars
<1>3. ASSUME NEW t \in Thread, StartJob(t) \/ Step(t)
      PROVE  [Next]_vars
  <2>1. CASE StartJob(t)
    BY <2>1 DEF StartJob, Next
  <2>2. CASE Scan(t)
    BY <2>2 DEF Scan, Next
  <2>3. CASE EndJob(t)
    BY <2>3 DEF EndJob, Next
  <2>4. CASE Post_socket(t) \/ Post_request(t)
    BY <2>4, SocketSteps, RequestSteps DEF Next
  <2> QED
    BY <1>3, <2>1, <2>2, <2>3, <2>4 DEF Step
<1> QED
  BY <1>1, <1>2, <1>3 DEF HttpNext

(* The transfer stage with its HTTP clients implements PortTable: whatever *)
(* a server or a connection does, a POST begins with a port of its own and *)
(* gives it back afterwards.                                               *)
THEOREM ActsAsPortTableCorrect == HttpSpec => ActsAsPortTable
<1>1. HttpInit => Init
  BY DEF HttpInit
<1> QED
  BY <1>1, StepRefines, PTL DEF HttpSpec, ActsAsPortTable, Spec
-----------------------------------------------------------------------------
LEMMA Constants ==
  /\ INVALID_SOCKET \notin Fd
  /\ NoStatus \notin {r.status : r \in Replies}
  /\ Replies \subseteq [status : Status, framed : BOOLEAN, close : BOOLEAN]
  /\ NoConn \in Connection
  /\ NoReply \in [status : Status, framed : BOOLEAN, close : BOOLEAN]
<1>1. INVALID_SOCKET \notin Fd
  BY PortTableAssumption DEF Fd, INVALID_SOCKET
<1>2. NoStatus \notin {r.status : r \in Replies}
  BY HttpTransferAssumption DEF NoStatus
<1>3. Replies \subseteq [status : Status, framed : BOOLEAN, close : BOOLEAN]
  <2> SUFFICES ASSUME NEW r \in Replies
               PROVE  r \in [status : Status, framed : BOOLEAN, close : BOOLEAN]
    OBVIOUS
  <2>1. r \in [status : Nat \ {0, 100}, framed : BOOLEAN, close : BOOLEAN]
    BY HttpTransferAssumption
  <2>2. r.status \in Status
    BY DEF Status
  <2> QED
    BY <2>1, <2>2
<1>4. NoConn \in Connection
  <2>1. <<>> \in Seq(RequestToken) /\ <<>> \in Seq(ReplyToken)
    OBVIOUS
  <2> QED
    BY <2>1 DEF NoConn, Connection
<1>5. NoReply \in [status : Status, framed : BOOLEAN, close : BOOLEAN]
  BY DEF NoReply, Status
<1> QED
  BY <1>1, <1>2, <1>3, <1>4, <1>5

LEMMA HttpInitInv ==
  ASSUME HttpInit PROVE HttpInv
<1>1. HttpTypeOK
  <2>1. TypeOK
    BY PortTableAssumption DEF HttpInit, Init, TypeOK, ThreadPC, Port
  <2>2. 0 \in Block /\ 0 \in 0 .. BLOCK3_MAX_NUM /\ 0 \in 0 .. Addresses + 1
    BY HttpTransferAssumption DEF Block
  <2>3. keep_alive_ \in BOOLEAN
    BY HttpTransferAssumption DEF HttpInit
  <2> QED
    BY <2>1, <2>2, <2>3, Constants
    DEF HttpInit, HttpTypeOK, Phase, Error, Status, INVALID_SOCKET, NoStatus
<1>2. PhaseOK /\ OneSender
  BY Constants DEF HttpInit, PhaseOK, OneSender, Init
<1>3. Owned
  BY Constants DEF HttpInit, Owned, NoConn
<1>4. ResultOK
  BY DEF HttpInit, ResultOK, Init
<1> QED
  BY <1>1, <1>2, <1>3, <1>4 DEF HttpInv

(* Taking a token of the reply leaves a connection as open as it was. *)
LEMMA ReadTakes ==
  ASSUME HttpInv, NEW t \in Thread, NEW k, Read(t, k),
         phase[t] \notin {"none", "socket", "connect"}
  PROVE  /\ fds' \in [Fd -> Connection]
         /\ \A f \in Fd : fds'[f].open = fds[f].open
         /\ Head(Conn(t).in) \in ReplyToken
<1> DEFINE g == socket_[Client(t)]
<1>1. g \in Fd /\ fds \in [Fd -> Connection]
  BY DEF HttpInv, HttpTypeOK, PhaseOK
<1>2. fds[g].in \in Seq(ReplyToken) /\ fds[g].in # <<>>
  BY <1>1 DEF Read, Conn, Connection
<1>3. Head(fds[g].in) \in ReplyToken /\ Tail(fds[g].in) \in Seq(ReplyToken)
  BY <1>2, HeadTailProperties
<1>4. fds' = [fds EXCEPT ![g] = [fds[g] EXCEPT !.in = Tail(fds[g].in)]]
  BY DEF Read
<1>5. /\ [fds[g] EXCEPT !.in = Tail(fds[g].in)] \in Connection
      /\ [fds[g] EXCEPT !.in = Tail(fds[g].in)].open = fds[g].open
  BY <1>1, <1>3 DEF Connection
<1> HIDE DEF g
<1> QED
  BY <1>1, <1>3, <1>4, <1>5 DEF Conn, g

(* A step inside a POST that goes on with the socket it has. *)
LEMMA Inside ==
  ASSUME HttpInv, NEW t \in Thread, NEW p \in Phase \ {"none", "socket", "connect"},
         phase[t] \notin {"none", "socket", "connect"},
         phase' = [phase EXCEPT ![t] = p],
         UNCHANGED <<clientPort_flag, pc, clientPort, socket_, sock, address>>,
         \A f \in Fd : fds'[f].open = fds[f].open
  PROVE  TypeOK' /\ PhaseOK' /\ OneSender' /\ Owned'
<1>1. phase \in [Thread -> Phase]
  BY DEF HttpInv, HttpTypeOK
<1>2. TypeOK'
  BY DEF HttpInv, HttpTypeOK, TypeOK
<1>3. PhaseOK'
  BY <1>1 DEF HttpInv, PhaseOK, Client
<1>4. OneSender'
  BY <1>1 DEF HttpInv, OneSender, Client
<1>5. Owned'
  BY DEF HttpInv, Owned
<1> QED
  BY <1>2, <1>3, <1>4, <1>5

LEMMA WriteInv ==
  ASSUME HttpInv, NEW t \in Thread, write_request(t)
  PROVE  HttpInv'
<1>1. PICK part \in {"head", "body"}, p \in {"body", "line"} : Write(t, part, p)
  BY DEF write_request
<1>2. phase[t] = part /\ part \in Phase /\ "exit" \in Phase /\ p \in Phase
  BY <1>1 DEF Write, Phase
<1>3. CASE Fail(t, "Write") /\ UNCHANGED fds
  <2>1. phase' = [phase EXCEPT ![t] = "exit"]
    BY <1>3 DEF Fail, Go
  <2>2. TypeOK' /\ PhaseOK' /\ OneSender' /\ Owned'
    BY <1>1, <1>2, <1>3, <2>1, Inside DEF Write, portVars
  <2>3. error' = [error EXCEPT ![t] = "Write"] /\ "Write" \in Error
    BY <1>3 DEF Fail, Error
  <2>4. HttpTypeOK'
    BY <1>1, <1>2, <1>3, <2>1, <2>2, <2>3 DEF HttpInv, HttpTypeOK, Write
  <2>5. ResultOK'
    BY <1>1, <2>1, <2>3 DEF HttpInv, HttpTypeOK, ResultOK, PhaseOK, Write, portVars
  <2> QED
    BY <2>2, <2>4, <2>5 DEF HttpInv
<1>4. CASE ~(Fail(t, "Write") /\ UNCHANGED fds)
  <2> DEFINE g == socket_[Client(t)]
             out == IF fds[g].peer THEN Append(fds[g].out, <<part, blockNum[t]>>)
                                   ELSE fds[g].out
  <2>1. /\ fds' = [fds EXCEPT ![g] = [fds[g] EXCEPT !.out = out]]
        /\ phase' = [phase EXCEPT ![t] = p]
        /\ UNCHANGED error
    BY <1>1, <1>4 DEF Write, Go, Conn
  <2>2. g \in Fd /\ fds \in [Fd -> Connection]
    BY <1>2 DEF HttpInv, HttpTypeOK, PhaseOK
  <2>3. fds[g].out \in Seq(RequestToken) /\ <<part, blockNum[t]>> \in RequestToken
    BY <2>2 DEF HttpInv, HttpTypeOK, Connection, RequestToken
  <2>4. out \in Seq(RequestToken)
    BY <2>3, AppendProperties
  <2>5. /\ [fds[g] EXCEPT !.out = out] \in Connection
        /\ [fds[g] EXCEPT !.out = out].open = fds[g].open
    BY <2>2, <2>4 DEF Connection
  <2> HIDE DEF g, out
  <2>6. fds' \in [Fd -> Connection] /\ \A f \in Fd : fds'[f].open = fds[f].open
    BY <2>1, <2>2, <2>5
  <2>7. TypeOK' /\ PhaseOK' /\ OneSender' /\ Owned'
    BY <1>1, <1>2, <2>1, <2>6, Inside DEF Write, portVars
  <2>8. HttpTypeOK'
    BY <1>1, <1>2, <2>1, <2>6, <2>7 DEF HttpInv, HttpTypeOK, Write
  <2>9. ResultOK'
    BY <1>1, <1>2, <2>1 DEF HttpInv, HttpTypeOK, ResultOK, PhaseOK, Write, portVars
  <2> QED
    BY <2>7, <2>8, <2>9 DEF HttpInv
<1> QED
  BY <1>3, <1>4

LEMMA ReadInv ==
  ASSUME HttpInv, NEW t \in Thread,
         ReadInterim(t) \/ read_response_line(t) \/ read_headers(t) \/ read_content(t)
  PROVE  HttpInv'
<1> DEFINE token == Head(Conn(t).in)
<1>1. /\ phase[t] \in Phase /\ phase \in [Thread -> Phase] /\ error \in [Thread -> Error]
      /\ reply \in [Thread -> [status : Status, framed : BOOLEAN, close : BOOLEAN]]
  BY DEF HttpInv, HttpTypeOK
<1>2. /\ "exit" \in Phase /\ "headers" \in Phase /\ "content" \in Phase
  BY DEF Phase
<1>3. phase[t] \in {"line", "headers", "content"}
  BY DEF ReadInterim, read_response_line, read_headers, read_content
<1>4. ASSUME NEW k, Read(t, k)
      PROVE  /\ fds' \in [Fd -> Connection]
             /\ \A f \in Fd : fds'[f].open = fds[f].open
             /\ token \in ReplyToken /\ token.kind = k
             /\ UNCHANGED <<portVars, keep_alive_, next, blockNum, socket_, address,
                            sock, status, stored>>
  BY <1>3, <1>4, ReadTakes DEF Read
<1>5. ASSUME NEW k \in {"line", "headers", "content"}, Read(t, k)
      PROVE  /\ token.of \in Replies
             /\ token.of.status \in Status /\ token.of.status # NoStatus
             /\ token.of \in [status : Status, framed : BOOLEAN, close : BOOLEAN]
  <2>1. token \in ReplyToken /\ token.kind # "interim"
    BY <1>4, <1>5
  <2>2. token.of \in Replies
    BY <2>1 DEF ReplyToken
  <2> HIDE DEF token
  <2> QED
    BY <2>2, Constants
<1> HIDE DEF token
<1>6. CASE ReadInterim(t)
  <2>1. Read(t, "interim") /\ UNCHANGED <<phase, reply, error>>
    BY <1>6 DEF ReadInterim
  <2>2. phase' = [phase EXCEPT ![t] = phase[t]]
    BY <1>1, <2>1
  <2>3. TypeOK' /\ PhaseOK' /\ OneSender' /\ Owned'
    BY <1>1, <1>3, <1>4, <2>1, <2>2, Inside DEF portVars
  <2>4. HttpTypeOK' /\ ResultOK'
    BY <1>4, <2>1, <2>3 DEF HttpInv, HttpTypeOK, ResultOK, portVars
  <2> QED
    BY <2>3, <2>4 DEF HttpInv
<1>7. CASE read_response_line(t)
  <2>1. /\ Read(t, "line") /\ UNCHANGED error
        /\ phase' = [phase EXCEPT ![t] = "headers"]
        /\ reply' = [reply EXCEPT ![t] = [reply[t] EXCEPT !.status = token.of.status]]
    BY <1>7 DEF read_response_line, Go, token
  <2>2. TypeOK' /\ PhaseOK' /\ OneSender' /\ Owned'
    BY <1>2, <1>3, <1>4, <2>1, Inside DEF portVars
  <2>3. token.of.status \in Status /\ token.of.status # NoStatus
    BY <1>5, <2>1
  <2>4. /\ reply' \in [Thread -> [status : Status, framed : BOOLEAN, close : BOOLEAN]]
        /\ reply'[t].status # NoStatus
        /\ \A u \in Thread \ {t} : reply'[u] = reply[u]
    BY <1>1, <2>1, <2>3
  <2>5. HttpTypeOK'
    BY <1>1, <1>2, <1>4, <2>1, <2>2, <2>4 DEF HttpInv, HttpTypeOK
  <2>6. ResultOK'
    BY <1>1, <1>3, <1>4, <2>1, <2>4 DEF HttpInv, ResultOK, PhaseOK, portVars
  <2> QED
    BY <2>2, <2>5, <2>6 DEF HttpInv
<1>8. CASE read_headers(t)
  <2>1. PICK p \in {"exit", "content"} :
          /\ Read(t, "headers") /\ UNCHANGED error
          /\ phase' = [phase EXCEPT ![t] = p]
          /\ reply' = [reply EXCEPT ![t] = token.of]
    BY <1>8 DEF read_headers, Go, token
  <2>2. TypeOK' /\ PhaseOK' /\ OneSender' /\ Owned'
    BY <1>2, <1>3, <1>4, <2>1, Inside DEF portVars
  <2>3. /\ token.of.status # NoStatus
        /\ token.of \in [status : Status, framed : BOOLEAN, close : BOOLEAN]
    BY <1>5, <2>1
  <2>4. HttpTypeOK'
    BY <1>1, <1>2, <1>4, <2>1, <2>2, <2>3 DEF HttpInv, HttpTypeOK
  <2>5. ResultOK'
    BY <1>1, <1>3, <1>4, <2>1, <2>3 DEF HttpInv, ResultOK, PhaseOK, portVars
  <2> QED
    BY <2>2, <2>4, <2>5 DEF HttpInv
<1>9. CASE read_content(t)
  <2>1. phase[t] = "content" /\ UNCHANGED <<reply, error>>
        /\ UNCHANGED <<portVars, keep_alive_, next, blockNum, socket_, address,
                       sock, status, stored>>
    BY <1>4, <1>9 DEF read_content, read_content_framed, read_content_without_length,
                      EndOfContent, callVars
  <2>2. /\ fds' \in [Fd -> Connection]
        /\ \A f \in Fd : fds'[f].open = fds[f].open
    <3>1. fds \in [Fd -> Connection]
      BY DEF HttpInv, HttpTypeOK
    <3> QED
      BY <1>4, <1>9, <3>1 DEF read_content, read_content_framed,
                              read_content_without_length, EndOfContent
  <2>3. PICK p \in {"exit", "content"} : phase' = [phase EXCEPT ![t] = p]
    <3>1. [phase EXCEPT ![t] = "content"] = phase
      BY <1>1, <2>1
    <3> QED
      BY <1>9, <3>1 DEF read_content, read_content_framed,
                        read_content_without_length, EndOfContent, Go
  <2>4. TypeOK' /\ PhaseOK' /\ OneSender' /\ Owned'
    BY <1>2, <2>1, <2>2, <2>3, Inside DEF portVars
  <2>5. HttpTypeOK'
    BY <1>1, <1>2, <2>1, <2>2, <2>3, <2>4 DEF HttpInv, HttpTypeOK
  <2>6. ResultOK'
    BY <1>1, <2>1, <2>3 DEF HttpInv, ResultOK, PhaseOK, portVars
  <2> QED
    BY <2>4, <2>5, <2>6 DEF HttpInv
<1> QED
  BY <1>6, <1>7, <1>8, <1>9

LEMMA ReadFailsInv ==
  ASSUME HttpInv, NEW t \in Thread, ReadFails(t)
  PROVE  HttpInv'
<1>1. /\ phase[t] \in {"line", "headers", "content"}
      /\ phase' = [phase EXCEPT ![t] = "exit"]
      /\ error' = [error EXCEPT ![t] = "Read"]
      /\ UNCHANGED <<portVars, keep_alive_, next, blockNum, socket_, fds, address,
                     sock, reply, status, stored>>
  BY DEF ReadFails, Fail, Go
<1>2. "exit" \in Phase /\ "Read" \in Error
  BY DEF Phase, Error
<1>3. TypeOK' /\ PhaseOK' /\ OneSender' /\ Owned'
  BY <1>1, <1>2, Inside DEF portVars
<1>4. HttpTypeOK'
  BY <1>1, <1>2, <1>3 DEF HttpInv, HttpTypeOK
<1>5. ResultOK'
  BY <1>1 DEF HttpInv, HttpTypeOK, ResultOK, PhaseOK, portVars
<1> QED
  BY <1>3, <1>4, <1>5 DEF HttpInv

(* The job around the POST: no socket is touched. *)
LEMMA AroundInv ==
  ASSUME HttpInv, NEW t \in Thread, StartJob(t) \/ Scan(t) \/ EndJob(t)
  PROVE  HttpInv'
<1>1. /\ UNCHANGED <<keep_alive_, socket_, fds, phase, address, sock, reply, stored>>
      /\ phase[t] = "none"
  BY DEF StartJob, Scan, EndJob, httpVars, callVars, transfer, Take, Skip, Release,
         HttpInv, PhaseOK
<1>2. /\ clientPort_flag \in [Port -> BOOLEAN] /\ pc \in [Thread -> ThreadPC]
      /\ clientPort \in [Thread -> 0 .. THREAD_MAX_NUM3]
      /\ error \in [Thread -> Error] /\ status \in [Thread -> Status]
      /\ blockNum \in [Thread -> Block] /\ next \in 0 .. BLOCK3_MAX_NUM
  BY DEF HttpInv, HttpTypeOK, TypeOK
<1>3. TypeOK'
  <2>1. 0 \in 0 .. THREAD_MAX_NUM3
        /\ \A i \in Port : i \in 0 .. THREAD_MAX_NUM3 /\ i + 1 \in 0 .. THREAD_MAX_NUM3
    BY PortTableAssumption DEF Port
  <2>2. CASE StartJob(t)
    BY <1>2, <2>1, <2>2 DEF StartJob, transfer, TypeOK, ThreadPC
  <2>3. CASE Scan(t)
    BY <1>2, <2>1, <2>3 DEF Scan, Take, Skip, TypeOK, ThreadPC
  <2>4. CASE EndJob(t)
    BY <1>2, <2>4 DEF EndJob, Release, TypeOK, ThreadPC
  <2> QED
    BY <2>2, <2>3, <2>4
<1>4. HttpTypeOK'
  <2>1. CASE StartJob(t)
    <3>1. next \in Block /\ next + 1 \in 0 .. BLOCK3_MAX_NUM
      BY <1>2, <2>1, HttpTransferAssumption DEF StartJob, Block
    <3>2. blockNum' \in [Thread -> Block] /\ next' \in 0 .. BLOCK3_MAX_NUM
          /\ UNCHANGED <<error, status>>
      BY <1>2, <2>1, <3>1 DEF StartJob, callVars
    <3> QED
      BY <1>1, <1>3, <3>2 DEF HttpInv, HttpTypeOK
  <2>2. CASE Scan(t)
    BY <1>1, <1>3, <2>2 DEF Scan, httpVars, callVars, HttpInv, HttpTypeOK
  <2>3. CASE EndJob(t)
    <3>1. error' \in [Thread -> Error] /\ status' \in [Thread -> Status]
      BY <1>2, <2>3 DEF EndJob, Error, Status
    <3> QED
      BY <1>1, <1>3, <2>3, <3>1 DEF EndJob, HttpInv, HttpTypeOK
  <2> QED
    BY <2>1, <2>2, <2>3
<1>5. \A u \in Thread \ {t} : pc'[u] = pc[u] /\ clientPort'[u] = clientPort[u]
  BY <1>2 DEF StartJob, Scan, EndJob, transfer, Take, Skip, Release
<1>6. PhaseOK'
  <2>1. pc'[t] \in {"post", "release"} => clientPort'[t] \in Port
    BY <1>2 DEF StartJob, Scan, EndJob, transfer, Take, Skip, Release
  <2> QED
    BY <1>1, <1>5, <2>1, Constants DEF HttpInv, PhaseOK, Client
<1>7. OneSender'
  BY <1>1, <1>5 DEF HttpInv, OneSender, Client
<1>8. Owned'
  BY <1>1 DEF HttpInv, Owned
<1>9. ResultOK'
  <2>1. CASE StartJob(t) \/ Scan(t)
    BY <1>1, <1>2, <2>1 DEF StartJob, Scan, transfer, Take, Skip, httpVars, callVars,
                       HttpInv, ResultOK
  <2>2. CASE EndJob(t)
    BY <1>1, <1>2, <2>2 DEF EndJob, Release, HttpInv, ResultOK
  <2> QED
    BY <2>1, <2>2
<1> QED
  BY <1>4, <1>6, <1>7, <1>8, <1>9 DEF HttpInv

(* A server touches no end of ours: it reads what was written and writes   *)
(* what is to be read.                                                     *)
LEMMA ServerInv ==
  ASSUME HttpInv, NEW f \in Fd, Server(f)
  PROVE  HttpInv'
<1>1. /\ UNCHANGED <<clientPort_flag, pc, clientPort, keep_alive_, next, blockNum,
                     socket_, phase, address, sock, reply, error, status>>
      /\ Interim(f) \/ Serve(f) \/ PeerClose(f)
  BY DEF Server, portVars, callVars
<1>2. fds \in [Fd -> Connection] /\ stored \subseteq Block
  BY DEF HttpInv, HttpTypeOK
<1>3. PICK c \in Connection :
        /\ fds' = [fds EXCEPT ![f] = c]
        /\ c.open = fds[f].open
        /\ stored' \subseteq Block
  <2>1. fds[f] \in Connection
    BY <1>2
  <2>2. CASE Interim(f)
    <3>1. <<[kind |-> "interim"]>> \in Seq(ReplyToken)
      BY DEF ReplyToken
    <3>2. [fds[f] EXCEPT !.in = <<[kind |-> "interim"]>>] \in Connection
      BY <2>1, <3>1 DEF Connection
    <3>3. fds' = [fds EXCEPT ![f] = [fds[f] EXCEPT !.in = <<[kind |-> "interim"]>>]]
          /\ UNCHANGED stored
      BY <2>2 DEF Interim
    <3> QED
      BY <1>2, <2>1, <3>2, <3>3 DEF Connection
  <2>3. CASE PeerClose(f)
    <3>1. [fds[f] EXCEPT !.peer = FALSE, !.out = <<>>] \in Connection
      <4>1. <<>> \in Seq(RequestToken)
        OBVIOUS
      <4> QED
        BY <2>1, <4>1 DEF Connection
    <3>2. fds' = [fds EXCEPT ![f] = [fds[f] EXCEPT !.peer = FALSE, !.out = <<>>]]
          /\ UNCHANGED stored
      BY <2>3 DEF PeerClose
    <3> QED
      BY <1>2, <2>1, <3>1, <3>2 DEF Connection
  <2>4. CASE Serve(f)
    <3>0. PICK r \in Replies, open \in BOOLEAN :
            \E n \in 1 .. Len(Tokens(r)) :
              fds' = [fds EXCEPT ![f] = [fds[f] EXCEPT
                        !.in = fds[f].in \o SubSeq(Tokens(r), 1, n),
                        !.out = SubSeq(fds[f].out, 3, Len(fds[f].out)),
                        !.peer = open]]
      BY <2>4 DEF Serve
    <3>1. PICK n \in 1 .. Len(Tokens(r)) :
            fds' = [fds EXCEPT ![f] = [fds[f] EXCEPT
                      !.in = fds[f].in \o SubSeq(Tokens(r), 1, n),
                      !.out = SubSeq(fds[f].out, 3, Len(fds[f].out)),
                      !.peer = open]]
      BY <3>0
    <3>2. Tokens(r) \in Seq(ReplyToken)
      <4>1. \A k \in {"line", "headers", "content"} : [kind |-> k, of |-> r] \in ReplyToken
        BY DEF ReplyToken
      <4>2. /\ [kind |-> "line", of |-> r] \in ReplyToken
            /\ [kind |-> "headers", of |-> r] \in ReplyToken
            /\ [kind |-> "content", of |-> r] \in ReplyToken
        BY <4>1
      <4> HIDE DEF ReplyToken
      <4>3. ASSUME NEW S, NEW a \in S, NEW b \in S, NEW d \in S
            PROVE  <<a, b>> \o <<>> \in Seq(S) /\ <<a, b>> \o <<d>> \in Seq(S)
        OBVIOUS
      <4> QED
        BY <4>2, <4>3 DEF Tokens
    <3>3. SubSeq(Tokens(r), 1, n) \in Seq(ReplyToken)
      BY <3>2, SubSeqProperties
    <3>4. fds[f].out \in Seq(RequestToken) /\ fds[f].in \in Seq(ReplyToken)
          /\ Len(fds[f].out) >= 2
      BY <2>1, <2>4 DEF Connection, Serve
    <3>5. SubSeq(fds[f].out, 3, Len(fds[f].out)) \in Seq(RequestToken)
      BY <3>4, SubSeqProperties
    <3>6. fds[f].in \o SubSeq(Tokens(r), 1, n) \in Seq(ReplyToken)
      BY <3>3, <3>4, ConcatProperties
    <3>7. fds[f].out[1][2] \in Block
      <4>1. fds[f].out[1] \in RequestToken
        BY <3>4, ElementOfSeq
      <4> QED
        BY <4>1 DEF RequestToken
    <3>8. stored' \subseteq Block
      BY <1>2, <2>4, <3>7 DEF Serve
    <3> DEFINE in == fds[f].in \o SubSeq(Tokens(r), 1, n)
               out == SubSeq(fds[f].out, 3, Len(fds[f].out))
    <3> HIDE DEF in, out
    <3>9. fds' = [fds EXCEPT ![f] = [fds[f] EXCEPT !.in = in, !.out = out, !.peer = open]]
      BY <3>1 DEF in, out
    <3>10. in \in Seq(ReplyToken) /\ out \in Seq(RequestToken)
      BY <3>5, <3>6 DEF in, out
    <3>11. [fds[f] EXCEPT !.in = in, !.out = out, !.peer = open] \in Connection
           /\ [fds[f] EXCEPT !.in = in, !.out = out, !.peer = open].open = fds[f].open
      BY <2>1, <3>10 DEF Connection
    <3> QED
      BY <3>8, <3>9, <3>11
  <2> QED
    BY <1>1, <2>2, <2>3, <2>4
<1>4. fds' \in [Fd -> Connection] /\ \A g \in Fd : fds'[g].open = fds[g].open
  BY <1>2, <1>3
<1>5. HttpTypeOK'
  BY <1>1, <1>3, <1>4 DEF HttpInv, HttpTypeOK, TypeOK
<1>6. PhaseOK' /\ OneSender' /\ Owned' /\ ResultOK'
  BY <1>1, <1>4 DEF HttpInv, PhaseOK, OneSender, Owned, ResultOK, Client
<1> QED
  BY <1>5, <1>6 DEF HttpInv

Alone(t) == \A u \in Thread \ {t} : phase[u] # "none" => Client(u) # Client(t)

(* A step of the one thread that is inside send of its client. *)
LEMMA SendStep ==
  ASSUME HttpInv, NEW t \in Thread, NEW p \in Phase, Alone(t), pc[t] = "post",
         phase' = [phase EXCEPT ![t] = p], UNCHANGED clientPort,
         UNCHANGED pc \/ (p = "none" /\ pc' = [pc EXCEPT ![t] = "release"]),
         \A i \in Port \ {Client(t)} : socket_'[i] = socket_[i],
         \A u \in Thread \ {t} : sock'[u] = sock[u] /\ address'[u] = address[u],
         p \in {"socket", "connect"} => socket_'[Client(t)] = INVALID_SOCKET,
         p \notin {"none", "socket", "connect"} => socket_'[Client(t)] \in Fd,
         sock'[t] \in Fd <=> p = "connect",
         p = "connect" => address'[t] \in 1 .. Addresses
  PROVE  PhaseOK' /\ OneSender'
<1>1. phase \in [Thread -> Phase] /\ pc \in [Thread -> ThreadPC]
  BY DEF HttpInv, HttpTypeOK, TypeOK
<1>2. PhaseOK'
  <2> SUFFICES ASSUME NEW u \in Thread
               PROVE  /\ phase'[u] # "none" => pc'[u] = "post"
                      /\ pc'[u] \in {"post", "release"} => Client(u)' \in Port
                      /\ phase'[u] \in {"socket", "connect"} =>
                           socket_'[Client(u)'] = INVALID_SOCKET
                      /\ phase'[u] \notin {"none", "socket", "connect"} =>
                           socket_'[Client(u)'] \in Fd
                      /\ sock'[u] \in Fd <=> phase'[u] = "connect"
                      /\ phase'[u] = "connect" => address'[u] \in 1 .. Addresses
    BY DEF PhaseOK
  <2>1. Client(u)' = Client(u)
    BY DEF Client
  <2>2. CASE u = t
    BY <1>1, <2>1, <2>2 DEF HttpInv, PhaseOK
  <2>3. CASE u # t
    <3>1. phase'[u] = phase[u] /\ pc'[u] = pc[u] /\ sock'[u] = sock[u]
          /\ address'[u] = address[u]
      BY <1>1, <2>3
    <3>2. phase[u] # "none" => pc[u] = "post" /\ Client(u) \in Port \ {Client(t)}
      BY <2>3 DEF Alone, HttpInv, PhaseOK
    <3> QED
      BY <2>1, <3>1, <3>2 DEF HttpInv, PhaseOK
  <2> QED
    BY <2>2, <2>3
<1>3. OneSender'
  BY <1>1 DEF Alone, HttpInv, OneSender, Client
<1> QED
  BY <1>2, <1>3

LEMMA AloneInside ==
  ASSUME HttpInv, NEW t \in Thread, MaySend(t) \/ phase[t] # "none"
  PROVE  Alone(t) /\ pc[t] = "post" /\ Client(t) \in Port
  BY DEF Alone, HttpInv, OneSender, PhaseOK, MaySend

(* A closed descriptor was its client's, and is nobody's now. *)
LEMMA CloseSocket ==
  ASSUME HttpInv, NEW i \in Port, close_socket(i), UNCHANGED sock
  PROVE  /\ fds' \in [Fd -> Connection]
         /\ socket_' \in [Port -> Fd \cup {INVALID_SOCKET}]
         /\ socket_'[i] = INVALID_SOCKET
         /\ \A j \in Port \ {i} : socket_'[j] = socket_[j]
         /\ Owned'
<1>1. fds \in [Fd -> Connection] /\ socket_ \in [Port -> Fd \cup {INVALID_SOCKET}]
  BY DEF HttpInv, HttpTypeOK
<1>2. /\ fds' = [f \in Fd |-> IF f = socket_[i] THEN NoConn ELSE fds[f]]
      /\ socket_' = [socket_ EXCEPT ![i] = INVALID_SOCKET]
  BY DEF close_socket
<1>3. fds' \in [Fd -> Connection]
  BY <1>1, <1>2, Constants
<1>4. /\ socket_' \in [Port -> Fd \cup {INVALID_SOCKET}]
      /\ socket_'[i] = INVALID_SOCKET
      /\ \A j \in Port \ {i} : socket_'[j] = socket_[j]
  BY <1>1, <1>2
<1>5. Owned'
  <2>1. /\ \A j, k \in Port : socket_'[j] = socket_'[k] /\ socket_'[j] \in Fd => j = k
        /\ \A t, u \in Thread : sock'[t] = sock'[u] /\ sock'[t] \in Fd => t = u
        /\ \A j \in Port, t \in Thread : socket_'[j] \in Fd => socket_'[j] # sock'[t]
    BY <1>1, <1>4, Constants DEF HttpInv, Owned
  <2>2. ASSUME NEW f \in Fd
        PROVE  fds'[f].open <=> (\E j \in Port : socket_'[j] = f)
                                \/ (\E t \in Thread : sock'[t] = f)
    <3>1. CASE f = socket_[i]
      <4>1. ~fds'[f].open
        BY <1>2, <3>1 DEF NoConn
      <4>2. \A j \in Port : socket_'[j] # f
        BY <1>1, <1>4, <3>1, Constants DEF HttpInv, Owned
      <4>3. \A t \in Thread : sock'[t] # f
        BY <3>1 DEF HttpInv, Owned
      <4> QED
        BY <4>1, <4>2, <4>3
    <3>2. CASE f # socket_[i]
      <4>1. fds'[f] = fds[f]
        BY <1>2, <3>2
      <4>2. (\E j \in Port : socket_'[j] = f) <=> (\E j \in Port : socket_[j] = f)
        BY <1>4, <3>2, Constants
      <4> QED
        BY <4>1, <4>2 DEF HttpInv, Owned
    <3> QED
      BY <3>1, <3>2
  <2> QED
    BY <2>1, <2>2 DEF Owned
<1> QED
  BY <1>3, <1>4, <1>5

LEMMA ReuseInv ==
  ASSUME HttpInv, NEW t \in Thread, Reuse(t)
  PROVE  HttpInv'
<1>1. /\ UNCHANGED <<portVars, keep_alive_, next, blockNum, socket_, fds, callVars, stored>>
      /\ phase' = [phase EXCEPT ![t] = "head"]
      /\ MaySend(t) /\ socket_[Client(t)] # INVALID_SOCKET
  BY DEF Reuse, Go
<1>2. Alone(t) /\ pc[t] = "post" /\ Client(t) \in Port
  BY <1>1, AloneInside
<1>3. "head" \in Phase /\ socket_[Client(t)] \in Fd
  BY <1>1, <1>2 DEF Phase, HttpInv, HttpTypeOK
<1>4. phase[t] = "none"
  BY <1>1 DEF MaySend
<1>5. PhaseOK' /\ OneSender'
  <2>1. ~(sock'[t] \in Fd)
    BY <1>1, <1>4 DEF callVars, HttpInv, PhaseOK
  <2> QED
    BY <1>1, <1>2, <1>3, <2>1, SendStep DEF portVars, callVars
<1>6. HttpTypeOK' /\ Owned'
  BY <1>1, <1>3 DEF HttpInv, HttpTypeOK, TypeOK, Owned, portVars, callVars
<1>7. ResultOK'
  BY <1>1, <1>2, <1>4 DEF HttpInv, HttpTypeOK, ResultOK, portVars, callVars
<1> QED
  BY <1>5, <1>6, <1>7 DEF HttpInv

LEMMA ResolveInv ==
  ASSUME HttpInv, NEW t \in Thread, Resolve(t)
  PROVE  HttpInv'
<1>1. /\ UNCHANGED <<portVars, keep_alive_, next, blockNum, sock, reply, error, status, stored>>
      /\ phase' = [phase EXCEPT ![t] = "socket"]
      /\ MaySend(t) /\ close_socket(Client(t))
  BY DEF Resolve, Go
<1>2. Alone(t) /\ pc[t] = "post" /\ Client(t) \in Port
  BY <1>1, AloneInside
<1>3. phase[t] = "none" /\ "socket" \in Phase
  BY <1>1 DEF MaySend, Phase
<1>4. /\ fds' \in [Fd -> Connection]
      /\ socket_' \in [Port -> Fd \cup {INVALID_SOCKET}]
      /\ socket_'[Client(t)] = INVALID_SOCKET
      /\ \A j \in Port \ {Client(t)} : socket_'[j] = socket_[j]
      /\ Owned'
  BY <1>1, <1>2, CloseSocket
<1>5. PhaseOK' /\ OneSender'
  <2>1. ~(sock'[t] \in Fd)
    BY <1>1, <1>3 DEF HttpInv, PhaseOK
  <2>2. \A u \in Thread \ {t} : address'[u] = address[u]
    BY DEF Resolve, HttpInv, HttpTypeOK
  <2> QED
    BY <1>1, <1>2, <1>3, <1>4, <2>1, <2>2, SendStep DEF portVars
<1>6. address' \in [Thread -> 0 .. Addresses + 1]
  <2>1. 1 \in 0 .. Addresses + 1 /\ Addresses + 1 \in 0 .. Addresses + 1
    BY HttpTransferAssumption
  <2> QED
    BY <2>1 DEF Resolve, HttpInv, HttpTypeOK
<1>7. HttpTypeOK'
  BY <1>1, <1>3, <1>4, <1>6 DEF HttpInv, HttpTypeOK, TypeOK, portVars
<1>8. ResultOK'
  BY <1>1, <1>2, <1>3 DEF HttpInv, HttpTypeOK, ResultOK, portVars
<1> QED
  BY <1>4, <1>5, <1>7, <1>8 DEF HttpInv

LEMMA SocketInv ==
  ASSUME HttpInv, NEW t \in Thread, socket(t)
  PROVE  HttpInv'
<1>1. /\ phase[t] = "socket" /\ address[t] \in 1 .. Addresses
      /\ UNCHANGED <<portVars, keep_alive_, next, blockNum, socket_, reply, error,
                     status, stored>>
  BY DEF socket, More
<1>2. Alone(t) /\ pc[t] = "post" /\ Client(t) \in Port
  BY <1>1, AloneInside
<1>3. /\ socket_[Client(t)] = INVALID_SOCKET /\ ~(sock[t] \in Fd)
      /\ phase \in [Thread -> Phase] /\ address \in [Thread -> 0 .. Addresses + 1]
      /\ fds \in [Fd -> Connection] /\ sock \in [Thread -> Fd \cup {INVALID_SOCKET}]
  BY <1>1 DEF HttpInv, HttpTypeOK, PhaseOK
<1>4. CASE NextAddress(t) /\ UNCHANGED <<fds, phase, sock>>
  <2>1. phase' = [phase EXCEPT ![t] = "socket"] /\ "socket" \in Phase
    BY <1>1, <1>3, <1>4 DEF Phase
  <2>2. PhaseOK' /\ OneSender'
    <3>1. \A u \in Thread \ {t} : address'[u] = address[u]
      BY <1>3, <1>4 DEF NextAddress
    <3> QED
      BY <1>1, <1>2, <1>3, <1>4, <2>1, <3>1, SendStep DEF portVars
  <2>3. address' \in [Thread -> 0 .. Addresses + 1]
    <3>1. address[t] + 1 \in 0 .. Addresses + 1
      BY <1>1, HttpTransferAssumption
    <3> QED
      BY <1>3, <1>4, <3>1 DEF NextAddress
  <2>4. HttpTypeOK' /\ Owned' /\ ResultOK'
    BY <1>1, <1>4, <2>3 DEF HttpInv, HttpTypeOK, TypeOK, Owned, ResultOK, portVars
  <2> QED
    BY <2>2, <2>4 DEF HttpInv
<1>5. CASE ~(NextAddress(t) /\ UNCHANGED <<fds, phase, sock>>)
  <2>1. PICK f \in Fd :
          /\ ~fds[f].open
          /\ fds' = [fds EXCEPT ![f].open = TRUE]
          /\ sock' = [sock EXCEPT ![t] = f]
          /\ phase' = [phase EXCEPT ![t] = "connect"]
          /\ UNCHANGED address
    BY <1>5 DEF socket, Go
  <2>2. /\ fds' \in [Fd -> Connection] /\ fds'[f].open
        /\ \A g \in Fd \ {f} : fds'[g] = fds[g]
    <3>1. fds[f] \in Connection
      BY <1>3
    <3>2. /\ [fds[f] EXCEPT !.open = TRUE] \in Connection
          /\ [fds[f] EXCEPT !.open = TRUE].open
      BY <3>1 DEF Connection
    <3> QED
      BY <1>3, <2>1, <3>2
  <2>3. "connect" \in Phase /\ sock'[t] = f
        /\ \A u \in Thread \ {t} : sock'[u] = sock[u]
    BY <1>3, <2>1 DEF Phase
  <2>4. PhaseOK' /\ OneSender'
    BY <1>1, <1>2, <1>3, <2>1, <2>3, SendStep DEF portVars
  <2>5. HttpTypeOK'
    BY <1>1, <1>3, <2>1, <2>2, <2>3 DEF HttpInv, HttpTypeOK, TypeOK, portVars
  <2>6. Owned'
    <3>1. /\ \A i \in Port : socket_[i] # f
          /\ \A u \in Thread : sock[u] # f
      BY <2>1 DEF HttpInv, Owned
    <3>2. UNCHANGED socket_
      BY <1>1
    <3>3. /\ \A i, j \in Port : socket_'[i] = socket_'[j] /\ socket_'[i] \in Fd => i = j
          /\ \A v, u \in Thread : sock'[v] = sock'[u] /\ sock'[v] \in Fd => v = u
          /\ \A i \in Port, u \in Thread : socket_'[i] \in Fd => socket_'[i] # sock'[u]
      BY <2>3, <3>1, <3>2 DEF HttpInv, Owned
    <3>4. ASSUME NEW g \in Fd
          PROVE  fds'[g].open <=> (\E i \in Port : socket_'[i] = g)
                                  \/ (\E u \in Thread : sock'[u] = g)
      <4>1. CASE g = f
        BY <2>2, <2>3, <4>1
      <4>2. CASE g # f
        <5>1. fds'[g] = fds[g]
          BY <2>2, <4>2
        <5>2. (\E u \in Thread : sock'[u] = g) <=> (\E u \in Thread : sock[u] = g)
          BY <1>3, <2>3, <4>2
        <5> QED
          BY <3>2, <5>1, <5>2 DEF HttpInv, Owned
      <4> QED
        BY <4>1, <4>2
    <3> QED
      BY <3>3, <3>4 DEF Owned
  <2>7. ResultOK'
    BY <1>1, <1>2, <1>3, <2>1 DEF HttpInv, ResultOK, portVars
  <2> QED
    BY <2>4, <2>5, <2>6, <2>7 DEF HttpInv
<1> QED
  BY <1>4, <1>5

LEMMA ConnectInv ==
  ASSUME HttpInv, NEW t \in Thread, connect(t)
  PROVE  HttpInv'
<1>1. /\ phase[t] = "connect"
      /\ fds' = [fds EXCEPT ![sock[t]].peer = TRUE]
      /\ socket_' = [socket_ EXCEPT ![Client(t)] = sock[t]]
      /\ sock' = [sock EXCEPT ![t] = INVALID_SOCKET]
      /\ error' = [error EXCEPT ![t] = "Success"]
      /\ phase' = [phase EXCEPT ![t] = "head"]
      /\ UNCHANGED <<portVars, keep_alive_, next, blockNum, address, reply, status, stored>>
  BY DEF connect, Go
<1>2. Alone(t) /\ pc[t] = "post" /\ Client(t) \in Port
  BY <1>1, AloneInside
<1>3. /\ sock[t] \in Fd /\ socket_[Client(t)] = INVALID_SOCKET
      /\ phase \in [Thread -> Phase] /\ error \in [Thread -> Error]
      /\ socket_ \in [Port -> Fd \cup {INVALID_SOCKET}]
      /\ fds \in [Fd -> Connection] /\ sock \in [Thread -> Fd \cup {INVALID_SOCKET}]
  BY <1>1 DEF HttpInv, HttpTypeOK, PhaseOK
<1>4. fds' \in [Fd -> Connection] /\ \A g \in Fd : fds'[g].open = fds[g].open
  <2>1. fds[sock[t]] \in Connection
    BY <1>3
  <2>2. /\ [fds[sock[t]] EXCEPT !.peer = TRUE] \in Connection
        /\ [fds[sock[t]] EXCEPT !.peer = TRUE].open = fds[sock[t]].open
    BY <2>1 DEF Connection
  <2> QED
    BY <1>1, <1>3, <2>2
<1>5. /\ socket_'[Client(t)] = sock[t] /\ sock'[t] = INVALID_SOCKET
      /\ \A i \in Port \ {Client(t)} : socket_'[i] = socket_[i]
      /\ \A u \in Thread \ {t} : sock'[u] = sock[u]
      /\ "head" \in Phase /\ "Success" \in Error
  BY <1>1, <1>2, <1>3 DEF Phase, Error
<1>6. PhaseOK' /\ OneSender'
  BY <1>1, <1>2, <1>3, <1>5, SendStep, Constants DEF portVars
<1>7. HttpTypeOK'
  BY <1>1, <1>2, <1>3, <1>4, <1>5 DEF HttpInv, HttpTypeOK, TypeOK, portVars
<1>8. Owned'
  <2>1. /\ \A i \in Port : socket_[i] # sock[t]
        /\ \A u \in Thread \ {t} : sock[u] # sock[t]
    BY <1>3 DEF HttpInv, Owned
  <2>2. /\ \A i, j \in Port : socket_'[i] = socket_'[j] /\ socket_'[i] \in Fd => i = j
        /\ \A v, u \in Thread : sock'[v] = sock'[u] /\ sock'[v] \in Fd => v = u
    BY <1>5, <2>1, Constants DEF HttpInv, Owned
  <2>3. \A i \in Port, u \in Thread : socket_'[i] \in Fd => socket_'[i] # sock'[u]
    BY <1>5, <2>1, Constants DEF HttpInv, Owned
  <2>4. ASSUME NEW g \in Fd
        PROVE  fds'[g].open <=> (\E i \in Port : socket_'[i] = g)
                                \/ (\E u \in Thread : sock'[u] = g)
    <3>1. fds'[g].open <=> (\E i \in Port : socket_[i] = g) \/ (\E u \in Thread : sock[u] = g)
      BY <1>4 DEF HttpInv, Owned
    <3>2. CASE g = sock[t]
      BY <1>2, <1>5, <3>1, <3>2
    <3>3. CASE g # sock[t]
      <4>1. (\E i \in Port : socket_'[i] = g) <=> (\E i \in Port : socket_[i] = g)
        BY <1>3, <1>5, <3>3, Constants
      <4>2. (\E u \in Thread : sock'[u] = g) <=> (\E u \in Thread : sock[u] = g)
        BY <1>5, <3>3, Constants
      <4> QED
        BY <3>1, <4>1, <4>2
    <3> QED
      BY <3>2, <3>3
  <2> QED
    BY <2>2, <2>3, <2>4 DEF Owned
<1>9. ResultOK'
  BY <1>1, <1>2, <1>3 DEF HttpInv, ResultOK, portVars
<1> QED
  BY <1>6, <1>7, <1>8, <1>9 DEF HttpInv

LEMMA NotConnectedInv ==
  ASSUME HttpInv, NEW t \in Thread, NotConnected(t)
  PROVE  HttpInv'
<1>1. PICK e \in {"Connection", "ConnectionTimeout"} :
        /\ error' = [error EXCEPT ![t] = e]
        /\ phase[t] = "connect"
        /\ fds' = [fds EXCEPT ![sock[t]] = NoConn]
        /\ sock' = [sock EXCEPT ![t] = INVALID_SOCKET]
        /\ phase' = [phase EXCEPT ![t] = "socket"]
        /\ NextAddress(t)
        /\ UNCHANGED <<portVars, keep_alive_, next, blockNum, socket_, reply, status, stored>>
  BY DEF NotConnected, Go, wait_until_socket_is_ready
<1>2. Alone(t) /\ pc[t] = "post" /\ Client(t) \in Port
  BY <1>1, AloneInside
<1>3. /\ sock[t] \in Fd /\ socket_[Client(t)] = INVALID_SOCKET
      /\ phase \in [Thread -> Phase] /\ error \in [Thread -> Error]
      /\ fds \in [Fd -> Connection] /\ sock \in [Thread -> Fd \cup {INVALID_SOCKET}]
      /\ address \in [Thread -> 0 .. Addresses + 1]
  BY <1>1 DEF HttpInv, HttpTypeOK, PhaseOK
<1>4. /\ fds' \in [Fd -> Connection] /\ ~fds'[sock[t]].open
      /\ \A g \in Fd \ {sock[t]} : fds'[g] = fds[g]
  BY <1>1, <1>3, Constants DEF NoConn
<1>5. /\ sock'[t] = INVALID_SOCKET
      /\ \A u \in Thread \ {t} : sock'[u] = sock[u] /\ address'[u] = address[u]
      /\ "socket" \in Phase /\ e \in Error
  BY <1>1, <1>3 DEF Phase, Error, NextAddress
<1>6. PhaseOK' /\ OneSender'
  BY <1>1, <1>2, <1>3, <1>5, SendStep, Constants DEF portVars
<1>7. address' \in [Thread -> 0 .. Addresses + 1]
  <2>1. address[t] \in 1 .. Addresses
    BY <1>1 DEF HttpInv, PhaseOK
  <2>2. address[t] + 1 \in 0 .. Addresses + 1
    BY <2>1, HttpTransferAssumption
  <2> QED
    BY <1>1, <1>3, <2>2 DEF NextAddress
<1>8. HttpTypeOK'
  BY <1>1, <1>3, <1>4, <1>5, <1>7 DEF HttpInv, HttpTypeOK, TypeOK, portVars
<1>9. Owned'
  <2>1. /\ \A i \in Port : socket_[i] # sock[t]
        /\ \A u \in Thread \ {t} : sock[u] # sock[t]
    BY <1>3 DEF HttpInv, Owned
  <2>2. UNCHANGED socket_
    BY <1>1
  <2>3. /\ \A i, j \in Port : socket_'[i] = socket_'[j] /\ socket_'[i] \in Fd => i = j
        /\ \A v, u \in Thread : sock'[v] = sock'[u] /\ sock'[v] \in Fd => v = u
        /\ \A i \in Port, u \in Thread : socket_'[i] \in Fd => socket_'[i] # sock'[u]
    BY <1>5, <2>2, Constants DEF HttpInv, Owned
  <2>4. ASSUME NEW g \in Fd
        PROVE  fds'[g].open <=> (\E i \in Port : socket_'[i] = g)
                                \/ (\E u \in Thread : sock'[u] = g)
    <3>1. CASE g = sock[t]
      BY <1>4, <1>5, <2>1, <2>2, <3>1, Constants
    <3>2. CASE g # sock[t]
      <4>1. fds'[g] = fds[g]
        BY <1>4, <3>2
      <4>2. (\E u \in Thread : sock'[u] = g) <=> (\E u \in Thread : sock[u] = g)
        BY <1>5, <3>2, Constants
      <4> QED
        BY <2>2, <4>1, <4>2 DEF HttpInv, Owned
    <3> QED
      BY <3>1, <3>2
  <2> QED
    BY <2>3, <2>4 DEF Owned
<1>10. ResultOK'
  BY <1>1, <1>2, <1>3 DEF HttpInv, ResultOK, portVars
<1> QED
  BY <1>6, <1>8, <1>9, <1>10 DEF HttpInv

(* The Result goes to transfer; what is left of the call is cleared. *)
LEMMA ReturnInv ==
  ASSUME HttpInv, NEW t \in Thread, NEW ret \in BOOLEAN, Return(t, ret),
         Alone(t), phase[t] # "none", Client(t) \in Port,
         fds' \in [Fd -> Connection],
         socket_' \in [Port -> Fd \cup {INVALID_SOCKET}],
         \A j \in Port \ {Client(t)} : socket_'[j] = socket_[j],
         Owned', ~(sock[t] \in Fd),
         error' \in [Thread -> Error],
         \A u \in Thread \ {t} : error'[u] = error[u],
         ret <=> error'[t] = "Success",
         ret => reply[t].status # NoStatus
  PROVE  HttpInv'
<1>1. /\ status' = [status EXCEPT ![t] = IF ret THEN reply[t].status ELSE NoStatus]
      /\ reply' = [reply EXCEPT ![t] = NoReply]
      /\ address' = [address EXCEPT ![t] = 0]
      /\ phase' = [phase EXCEPT ![t] = "none"]
      /\ pc[t] = "post" /\ pc' = [pc EXCEPT ![t] = "release"]
      /\ UNCHANGED <<clientPort_flag, clientPort, keep_alive_, next, blockNum, sock, stored>>
  BY DEF Return, Go, Post
<1>2. /\ status \in [Thread -> Status] /\ address \in [Thread -> 0 .. Addresses + 1]
      /\ reply \in [Thread -> [status : Status, framed : BOOLEAN, close : BOOLEAN]]
      /\ phase \in [Thread -> Phase] /\ pc \in [Thread -> ThreadPC]
  BY DEF HttpInv, HttpTypeOK, TypeOK
<1>3. "none" \in Phase /\ "release" \in ThreadPC /\ NoStatus \in Status
      /\ 0 \in 0 .. Addresses + 1
  BY HttpTransferAssumption DEF Phase, ThreadPC, Status
<1>4. PhaseOK' /\ OneSender'
  <2>1. \A u \in Thread \ {t} : sock'[u] = sock[u] /\ address'[u] = address[u]
    BY <1>1, <1>2
  <2> QED
    BY <1>1, <1>3, <2>1, SendStep
<1>5. status' \in [Thread -> Status]
  BY <1>1, <1>2, <1>3
<1>6. HttpTypeOK'
  BY <1>1, <1>2, <1>3, <1>5, Constants DEF HttpInv, HttpTypeOK, TypeOK
<1>7. ResultOK'
  <2>1. status'[t] = NoStatus <=> error'[t] # "Success"
    BY <1>1, <1>2
  <2>2. \A u \in Thread \ {t} : /\ phase'[u] = phase[u] /\ pc'[u] = pc[u]
                                /\ reply'[u] = reply[u] /\ status'[u] = status[u]
    BY <1>1, <1>2
  <2>3. phase'[t] = "none" /\ pc'[t] = "release"
    BY <1>1, <1>2
  <2> QED
    BY <2>1, <2>2, <2>3 DEF HttpInv, ResultOK
<1> QED
  BY <1>4, <1>6, <1>7 DEF HttpInv

LEMMA NoSocketInv ==
  ASSUME HttpInv, NEW t \in Thread, NoSocket(t)
  PROVE  HttpInv'
<1>1. /\ phase[t] = "socket" /\ Return(t, FALSE) /\ UNCHANGED <<socket_, fds>>
      /\ error' = [error EXCEPT ![t] = IF error[t] = "Success" THEN "Connection"
                                                               ELSE error[t]]
  BY DEF NoSocket
<1>2. Alone(t) /\ Client(t) \in Port
  BY <1>1, AloneInside
<1>3. error \in [Thread -> Error] /\ "Connection" \in Error
  BY DEF HttpInv, HttpTypeOK, Error
<1>4. /\ error' \in [Thread -> Error] /\ error'[t] # "Success"
      /\ \A u \in Thread \ {t} : error'[u] = error[u]
  BY <1>1, <1>3
<1>5. ~(sock[t] \in Fd)
  BY <1>1 DEF HttpInv, PhaseOK
<1>6. /\ fds' \in [Fd -> Connection]
      /\ socket_' \in [Port -> Fd \cup {INVALID_SOCKET}]
      /\ \A j \in Port : socket_'[j] = socket_[j]
  BY <1>1 DEF HttpInv, HttpTypeOK
<1>7. Owned'
  <2>1. UNCHANGED sock
    BY <1>1 DEF Return
  <2> QED
    BY <1>1, <2>1 DEF HttpInv, Owned
<1> QED
  BY <1>1, <1>2, <1>4, <1>5, <1>6, <1>7, ReturnInv

LEMMA FinishInv ==
  ASSUME HttpInv, NEW t \in Thread, Finish(t)
  PROVE  HttpInv'
<1> DEFINE ret == error[t] = "Success"
<1>1. /\ phase[t] = "exit" /\ Return(t, ret) /\ UNCHANGED error
      /\ close_socket(Client(t)) \/ UNCHANGED <<fds, socket_>>
  BY DEF Finish
<1>2. Alone(t) /\ Client(t) \in Port
  BY <1>1, AloneInside
<1>3. ~(sock[t] \in Fd)
  BY <1>1 DEF HttpInv, PhaseOK
<1>4. UNCHANGED sock
  BY <1>1 DEF Return
<1>5. /\ fds' \in [Fd -> Connection]
      /\ socket_' \in [Port -> Fd \cup {INVALID_SOCKET}]
      /\ \A j \in Port \ {Client(t)} : socket_'[j] = socket_[j]
      /\ Owned'
  <2>1. CASE close_socket(Client(t))
    BY <1>2, <1>4, <2>1, CloseSocket
  <2>2. CASE UNCHANGED <<fds, socket_>>
    BY <1>4, <2>2 DEF HttpInv, HttpTypeOK, Owned
  <2> QED
    BY <1>1, <2>1, <2>2
<1>6. error' \in [Thread -> Error] /\ ret \in BOOLEAN
      /\ \A u \in Thread : error'[u] = error[u]
  BY <1>1 DEF HttpInv, HttpTypeOK
<1>7. ret => reply[t].status # NoStatus
  BY <1>1 DEF HttpInv, ResultOK
<1> HIDE DEF ret
<1>8. ret <=> error'[t] = "Success"
  BY <1>1 DEF ret
<1> QED
  BY <1>1, <1>2, <1>3, <1>5, <1>6, <1>7, <1>8, ReturnInv

LEMMA HttpNextInv == HttpInv /\ [HttpNext]_<<portVars, httpVars>> => HttpInv'
<1> SUFFICES ASSUME HttpInv, [HttpNext]_<<portVars, httpVars>>
             PROVE  HttpInv'
  OBVIOUS
<1>1. CASE UNCHANGED <<portVars, httpVars>>
  BY <1>1 DEF HttpInv, HttpTypeOK, TypeOK, PhaseOK, OneSender, Owned, ResultOK, Client,
              portVars, httpVars, callVars
<1>2. ASSUME NEW f \in Fd, Server(f)
      PROVE  HttpInv'
  BY <1>2, ServerInv
<1>3. ASSUME NEW t \in Thread, StartJob(t) \/ Step(t)
      PROVE  HttpInv'
  <2>1. CASE StartJob(t) \/ Scan(t) \/ EndJob(t)
    BY <2>1, AroundInv
  <2>2. CASE Post_socket(t)
    BY <2>2, ReuseInv, ResolveInv, SocketInv, ConnectInv, NotConnectedInv, NoSocketInv
    DEF Post_socket
  <2>3. CASE Post_request(t)
    BY <2>3, WriteInv, ReadInv, ReadFailsInv, FinishInv DEF Post_request
  <2> QED
    BY <1>3, <2>1, <2>2, <2>3 DEF Step
<1> QED
  BY <1>1, <1>2, <1>3 DEF HttpNext

LEMMA HttpInvAlways == HttpSpec => []HttpInv
  BY HttpInitInv, HttpNextInv, PTL DEF HttpSpec

(* Types, for any number of threads, ports, addresses and blocks. *)
THEOREM HttpTypeCorrect == HttpSpec => []HttpTypeOK
<1>1. HttpInv => HttpTypeOK
  BY DEF HttpInv
<1> QED
  BY <1>1, HttpInvAlways, PTL

(* A POST without a response has an error, and one with a response none.   *)
THEOREM NullIffErrorCorrect == HttpSpec => []NullIffError
<1>1. HttpInv => NullIffError
  BY DEF HttpInv, ResultOK, NullIffError
<1> QED
  BY <1>1, HttpInvAlways, PTL

LEMMA OwnedIsOneOwner == HttpInv => OneOwner
<1> SUFFICES ASSUME HttpInv, NEW f \in Fd
             PROVE  Cardinality({i \in Port : socket_[i] = f})
                      + Cardinality({t \in Thread : sock[t] = f})
                        = IF fds[f].open THEN 1 ELSE 0
  BY DEF OneOwner
<1> DEFINE A == {i \in Port : socket_[i] = f}
           B == {t \in Thread : sock[t] = f}
<1>1. IsFiniteSet(A) /\ IsFiniteSet(B)
  <2>1. IsFiniteSet(Port) /\ IsFiniteSet(Thread)
    BY ThreadFinite, PortTableAssumption, FS_Interval DEF Port
  <2>2. A \subseteq Port /\ B \subseteq Thread
    OBVIOUS
  <2> HIDE DEF A, B
  <2> QED
    BY <2>1, <2>2, FS_Subset
<1>2. /\ \A i, j \in A : i = j
      /\ \A t, u \in B : t = u
      /\ A = {} \/ B = {}
      /\ fds[f].open <=> A # {} \/ B # {}
  BY DEF HttpInv, Owned
<1> HIDE DEF A, B
<1>3. ASSUME NEW S, IsFiniteSet(S), \A x, y \in S : x = y
      PROVE  Cardinality(S) = IF S = {} THEN 0 ELSE 1
  <2>1. CASE S = {}
    BY <2>1, FS_EmptySet
  <2>2. ASSUME NEW x \in S PROVE Cardinality(S) = 1
    <3>1. S = {x}
      BY <1>3
    <3> QED
      BY <3>1, FS_Singleton
  <2> QED
    BY <2>1, <2>2
<1>4. /\ Cardinality(A) = IF A = {} THEN 0 ELSE 1
      /\ Cardinality(B) = IF B = {} THEN 0 ELSE 1
  BY <1>1, <1>2, <1>3
<1>5. Cardinality(A) + Cardinality(B) = IF fds[f].open THEN 1 ELSE 0
  BY <1>2, <1>4
<1> QED
  BY <1>5 DEF A, B

(* Every open descriptor has one owner: for any number of clients, none is *)
(* lost, none used by two.                                                 *)
THEOREM OneOwnerCorrect == HttpSpec => []OneOwner
  BY HttpInvAlways, OwnedIsOneOwner, PTL
-----------------------------------------------------------------------------
(* What a connection carries at each point of a POST.  A reply to the POST *)
(* of b: its tokens are of one reply, in order, and if that is a 200 then  *)
(* b is among the blocks S that the servers have stored.                   *)
Quiet(c) == c.in = <<>> /\ c.out = <<>>

Interims(q) == \A i \in 1 .. Len(q) : q[i].kind = "interim"

EndsReply(x) == x.kind = "content" \/ (x.kind = "headers" /\ x.of.status = 204)

Confirmed(s, b, S) == s = 200 => b \in S

Answers(q, b, S) ==
  /\ \A i \in 1 .. Len(q) : q[i].kind # "interim" => Confirmed(q[i].of.status, b, S)
  /\ \A i, j \in 1 .. Len(q) :
       q[i].kind # "interim" /\ q[j].kind # "interim" => q[i].of.status = q[j].of.status
  /\ \A i, j \in 1 .. Len(q) : EndsReply(q[i]) => j <= i

Asks(q, b) == \A i \in 1 .. Len(q) : q[i][2] = b

OfStatus(q, s) == \A i \in 1 .. Len(q) : q[i].kind # "interim" => q[i].of.status = s

Conversation(p, r, b, c, S) ==
  /\ p = "head" => Quiet(c)
  /\ p = "body" => Len(c.out) <= 1 /\ Asks(c.out, b) /\ Interims(c.in)
  /\ p = "line" => /\ Len(c.out) <= 2 /\ Asks(c.out, b)
                   /\ c.out # <<>> => Interims(c.in)
                   /\ Answers(c.in, b, S)
  /\ p \in {"headers", "content"} => /\ c.out = <<>>
                                     /\ Answers(c.in, b, S)
                                     /\ OfStatus(c.in, r.status)
                                     /\ Confirmed(r.status, b, S)
  /\ p = "exit" => Quiet(c) /\ Confirmed(r.status, b, S)

Connected(t) == phase[t] \notin {"none", "socket", "connect"}

(* Outside of a POST the socket a client keeps is quiet, so that nothing   *)
(* of an earlier reply is left for the next POST; and a descriptor that no *)
(* client keeps carries nothing.                                           *)
TalkInv ==
  /\ \A t \in Thread : Connected(t) /\ error[t] = "Success" =>
       Conversation(phase[t], reply[t], blockNum[t], Conn(t), stored)
  /\ \A i \in Port :
       socket_[i] \in Fd /\ (\A t \in Thread : Client(t) = i => phase[t] = "none")
         => Quiet(fds[socket_[i]])
  /\ \A f \in Fd :
       (\A i \in Port : socket_[i] # f) => ~fds[f].peer /\ Quiet(fds[f])
  /\ \A t \in Thread :
       /\ pc[t] # "release" => status[t] = NoStatus
       /\ Confirmed(status[t], blockNum[t], stored)

LEMMA HttpInitTalk == HttpInit => TalkInv
<1> SUFFICES ASSUME HttpInit PROVE TalkInv
  OBVIOUS
<1>1. \A t \in Thread : ~Connected(t) /\ status[t] = NoStatus
  BY DEF HttpInit, Connected
<1>2. \A i \in Port : socket_[i] \notin Fd
  BY Constants DEF HttpInit
<1>3. \A f \in Fd : ~fds[f].peer /\ Quiet(fds[f])
  BY DEF HttpInit, NoConn, Quiet
<1>4. \A t \in Thread : Confirmed(status[t], blockNum[t], stored)
  BY <1>1 DEF Confirmed, NoStatus
<1> QED
  BY <1>1, <1>2, <1>3, <1>4 DEF TalkInv

(* What a reply without its first token still is. *)
LEMMA TailAnswers ==
  ASSUME NEW q \in Seq(ReplyToken), q # <<>>, NEW b, NEW S, NEW s
  PROVE  /\ Answers(q, b, S) => Answers(Tail(q), b, S)
         /\ Interims(q) => Interims(Tail(q))
         /\ OfStatus(q, s) => OfStatus(Tail(q), s)
         /\ Answers(q, b, S) /\ EndsReply(Head(q)) => Tail(q) = <<>>
         /\ Answers(q, b, S) /\ Head(q).kind # "interim" =>
              /\ Confirmed(Head(q).of.status, b, S)
              /\ OfStatus(q, Head(q).of.status)
<1>0. /\ Len(q) \in Nat \ {0} /\ Len(Tail(q)) = Len(q) - 1
      /\ Len(Tail(q)) \in Nat /\ Head(q) = q[1] /\ Tail(q) \in Seq(ReplyToken)
  BY HeadTailProperties
<1>1. /\ \A i \in 1 .. Len(Tail(q)) : i + 1 \in 1 .. Len(q) /\ Tail(q)[i] = q[i + 1]
      /\ 1 \in 1 .. Len(q)
      /\ Len(q) = 1 => Tail(q) = <<>>
  BY <1>0, HeadTailProperties
<1>2. Answers(q, b, S) => Answers(Tail(q), b, S)
  <2> SUFFICES ASSUME Answers(q, b, S) PROVE Answers(Tail(q), b, S)
    OBVIOUS
  <2>1. ASSUME NEW i \in 1 .. Len(Tail(q)), NEW j \in 1 .. Len(Tail(q)),
               EndsReply(Tail(q)[i])
        PROVE  j <= i
    <3>1. i + 1 \in 1 .. Len(q) /\ j + 1 \in 1 .. Len(q) /\ EndsReply(q[i + 1])
      BY <1>1, <2>1
    <3>2. j + 1 <= i + 1
      BY <3>1 DEF Answers
    <3> QED
      BY <1>0, <2>1, <3>2
  <2>2. ASSUME NEW i \in 1 .. Len(Tail(q)), Tail(q)[i].kind # "interim"
        PROVE  Confirmed(Tail(q)[i].of.status, b, S)
    BY <1>1, <2>2 DEF Answers
  <2>3. ASSUME NEW i \in 1 .. Len(Tail(q)), NEW j \in 1 .. Len(Tail(q)),
               Tail(q)[i].kind # "interim", Tail(q)[j].kind # "interim"
        PROVE  Tail(q)[i].of.status = Tail(q)[j].of.status
    BY <1>1, <2>3 DEF Answers
  <2> QED
    BY <2>1, <2>2, <2>3 DEF Answers
<1>3. Interims(q) => Interims(Tail(q))
  BY <1>1 DEF Interims
<1>4. OfStatus(q, s) => OfStatus(Tail(q), s)
  BY <1>1 DEF OfStatus
<1>5. Answers(q, b, S) /\ EndsReply(Head(q)) => Tail(q) = <<>>
  BY <1>0, <1>1 DEF Answers
<1>6. Answers(q, b, S) /\ Head(q).kind # "interim" =>
        /\ Confirmed(Head(q).of.status, b, S)
        /\ OfStatus(q, Head(q).of.status)
  BY <1>0, <1>1 DEF Answers, OfStatus
<1> QED
  BY <1>2, <1>3, <1>4, <1>5, <1>6

(* The connections of the others are not the one of t. *)
LEMMA OthersConnection ==
  ASSUME HttpInv, NEW t \in Thread, NEW u \in Thread, Alone(t), u # t,
         Client(t) \in Port, Connected(u)
  PROVE  /\ socket_[Client(u)] \in Fd
         /\ Client(u) \in Port /\ Client(u) # Client(t)
         /\ socket_[Client(u)] # socket_[Client(t)]
<1>1. phase[u] # "none" /\ socket_[Client(u)] \in Fd
  BY DEF Connected, HttpInv, PhaseOK
<1>2. Client(u) \in Port /\ Client(u) # Client(t)
  BY <1>1 DEF Alone, HttpInv, PhaseOK
<1> QED
  BY <1>1, <1>2 DEF HttpInv, Owned

(* A step of t that goes on with the connection it has. *)
LEMMA TalkStep ==
  ASSUME HttpInv, TalkInv, NEW t \in Thread, Alone(t), Client(t) \in Port,
         socket_[Client(t)] \in Fd,
         NEW p \in Phase \ {"none", "socket", "connect"},
         phase' = [phase EXCEPT ![t] = p],
         UNCHANGED <<clientPort, pc, socket_, blockNum, status, stored>>,
         \A f \in Fd \ {socket_[Client(t)]} : fds'[f] = fds[f],
         \A u \in Thread \ {t} : reply'[u] = reply[u] /\ error'[u] = error[u],
         error'[t] = "Success" =>
           Conversation(p, reply'[t], blockNum[t], fds'[socket_[Client(t)]], stored)
  PROVE  TalkInv'
<1> DEFINE g == socket_[Client(t)]
<1>1. /\ phase'[t] = p
      /\ \A u \in Thread \ {t} : phase'[u] = phase[u]
      /\ \A u \in Thread : Client(u)' = Client(u)
  BY DEF HttpInv, HttpTypeOK, Client
<1>2. ASSUME NEW u \in Thread, Connected(u)', error'[u] = "Success"
      PROVE  Conversation(phase'[u], reply'[u], blockNum'[u], fds'[socket_'[Client(u)']],
                          stored')
  <2>1. CASE u = t
    BY <1>1, <1>2, <2>1
  <2>2. CASE u # t
    <3>1. Connected(u) /\ error[u] = "Success" /\ phase'[u] = phase[u]
          /\ reply'[u] = reply[u]
      BY <1>1, <1>2, <2>2 DEF Connected
    <3>2. fds'[socket_[Client(u)]] = fds[socket_[Client(u)]]
      BY <2>2, <3>1, OthersConnection
    <3> QED
      BY <1>1, <3>1, <3>2 DEF TalkInv, Conn
  <2> QED
    BY <2>1, <2>2
<1>3. ASSUME NEW i \in Port, socket_'[i] \in Fd,
             \A u \in Thread : Client(u)' = i => phase'[u] = "none"
      PROVE  Quiet(fds'[socket_'[i]])
  <2>1. i # Client(t)
    BY <1>1, <1>3
  <2>2. \A u \in Thread : Client(u) = i => phase[u] = "none"
    BY <1>1, <1>3, <2>1
  <2>3. socket_[i] # g
    BY <1>3, <2>1 DEF HttpInv, Owned
  <2> QED
    BY <1>3, <2>2, <2>3 DEF TalkInv
<1>4. ASSUME NEW f \in Fd, \A i \in Port : socket_'[i] # f
      PROVE  ~fds'[f].peer /\ Quiet(fds'[f])
  BY <1>4 DEF TalkInv
<1> QED
  BY <1>2, <1>3, <1>4 DEF TalkInv, Conn

(* What a thread inside send has. *)
LEMMA TalkInside ==
  ASSUME HttpInv, TalkInv, NEW t \in Thread, Connected(t)
  PROVE  /\ Alone(t) /\ Client(t) \in Port /\ socket_[Client(t)] \in Fd
         /\ Conn(t) = fds[socket_[Client(t)]]
         /\ Conn(t).in \in Seq(ReplyToken) /\ Conn(t).out \in Seq(RequestToken)
         /\ error[t] = "Success" =>
              Conversation(phase[t], reply[t], blockNum[t], Conn(t), stored)
<1>1. phase[t] # "none"
  BY DEF Connected
<1>2. Alone(t) /\ Client(t) \in Port
  BY <1>1, AloneInside
<1>3. socket_[Client(t)] \in Fd
  BY DEF Connected, HttpInv, PhaseOK
<1>4. fds[socket_[Client(t)]] \in Connection
  BY <1>3 DEF HttpInv, HttpTypeOK
<1>5. Conn(t).in \in Seq(ReplyToken) /\ Conn(t).out \in Seq(RequestToken)
  BY <1>4 DEF Conn, Connection
<1> QED
  BY <1>2, <1>3, <1>5 DEF Conn, TalkInv

(* The step ends the conversation: nothing is claimed of what is left. *)
LEMMA TalkFails ==
  ASSUME HttpInv, TalkInv, NEW t \in Thread, Connected(t), NEW e \in Error \ {"Success"},
         Fail(t, e), UNCHANGED <<portVars, socket_, fds, blockNum, reply, status, stored>>
  PROVE  TalkInv'
<1>1. /\ phase' = [phase EXCEPT ![t] = "exit"]
      /\ "exit" \in Phase \ {"none", "socket", "connect"}
      /\ error'[t] # "Success"
      /\ \A u \in Thread \ {t} : reply'[u] = reply[u] /\ error'[u] = error[u]
      /\ UNCHANGED <<clientPort, pc, socket_, fds, blockNum, status, stored>>
  BY DEF Fail, Go, Phase, HttpInv, HttpTypeOK, portVars
<1> QED
  BY <1>1, TalkInside, TalkStep

LEMMA WriteTalk ==
  ASSUME HttpInv, TalkInv, NEW t \in Thread, write_request(t)
  PROVE  TalkInv'
<1>1. PICK part \in {"head", "body"}, p \in {"body", "line"} :
        /\ Write(t, part, p)
        /\ (part = "head" /\ p = "body") \/ (part = "body" /\ p = "line")
  <2>1. CASE Write(t, "head", "body")
    BY <2>1
  <2>2. CASE Write(t, "body", "line")
    BY <2>2
  <2> QED
    BY <2>1, <2>2 DEF write_request
<1>2. phase[t] = part /\ Connected(t) /\ error[t] = "Success"
  BY <1>1 DEF Write, Connected, HttpInv, ResultOK
<1>3. /\ UNCHANGED <<portVars, clientPort, pc, socket_, blockNum, reply, status, stored>>
      /\ p \in Phase \ {"none", "socket", "connect"}
  BY <1>1 DEF Write, portVars, Phase
<1>4. CASE Fail(t, "Write") /\ UNCHANGED fds
  BY <1>2, <1>3, <1>4, TalkFails DEF Error
<1>5. CASE ~(Fail(t, "Write") /\ UNCHANGED fds)
  <2> DEFINE g == socket_[Client(t)]
             b == blockNum[t]
             out == IF fds[g].peer THEN Append(fds[g].out, <<part, b>>) ELSE fds[g].out
             c == [fds[g] EXCEPT !.out = out]
  <2>1. /\ fds' = [fds EXCEPT ![g] = c]
        /\ phase' = [phase EXCEPT ![t] = p]
        /\ UNCHANGED error
    BY <1>1, <1>5 DEF Write, Go, Conn
  <2>2. /\ Alone(t) /\ Client(t) \in Port /\ g \in Fd
        /\ fds[g].in \in Seq(ReplyToken) /\ fds[g].out \in Seq(RequestToken)
        /\ Conversation(part, reply[t], b, fds[g], stored)
    BY <1>2, TalkInside
  <2>3. fds[g] \in Connection /\ fds \in [Fd -> Connection]
    BY <2>2 DEF HttpInv, HttpTypeOK
  <2>4. c.in = fds[g].in /\ c.out = out
    BY <2>3 DEF Connection
  <2>5. \A q \in Seq(RequestToken) :
          Asks(q, b) => /\ Asks(Append(q, <<part, b>>), b)
                        /\ Len(Append(q, <<part, b>>)) = Len(q) + 1
    <3>1. <<part, b>> \in RequestToken
      BY <2>2 DEF HttpInv, HttpTypeOK, RequestToken
    <3> QED
      BY <3>1, AppendProperties DEF Asks
  <2>6. Conversation(p, reply[t], b, c, stored)
    <3>1. CASE part = "head" /\ p = "body"
      <4>1. fds[g].in = <<>> /\ fds[g].out = <<>>
        BY <2>2, <3>1 DEF Conversation, Quiet
      <4>2. Len(out) <= 1 /\ Asks(out, b)
        BY <2>2, <2>5, <4>1 DEF Asks
      <4>3. Interims(c.in)
        BY <2>4, <4>1 DEF Interims
      <4> QED
        BY <2>4, <3>1, <4>2, <4>3 DEF Conversation
    <3>2. CASE part = "body" /\ p = "line"
      <4>1. Len(fds[g].out) <= 1 /\ Asks(fds[g].out, b) /\ Interims(fds[g].in)
        BY <2>2, <3>2 DEF Conversation
      <4>2. Len(out) <= 2 /\ Asks(out, b)
        BY <2>2, <2>5, <4>1
      <4>3. Answers(fds[g].in, b, stored)
        BY <4>1 DEF Interims, Answers, EndsReply
      <4> QED
        BY <2>4, <3>2, <4>1, <4>2, <4>3 DEF Conversation
    <3> QED
      BY <1>1, <3>1, <3>2
  <2> HIDE DEF g, b, c
  <2>7. fds'[g] = c /\ \A f \in Fd \ {g} : fds'[f] = fds[f]
    BY <2>1, <2>2, <2>3
  <2> QED
    BY <1>2, <1>3, <2>1, <2>2, <2>6, <2>7, TalkStep DEF g, b
<1> QED
  BY <1>4, <1>5

LEMMA ReuseTalk ==
  ASSUME HttpInv, TalkInv, NEW t \in Thread, Reuse(t)
  PROVE  TalkInv'
<1>1. /\ UNCHANGED <<clientPort, pc, socket_, fds, blockNum, reply, error, status, stored>>
      /\ phase' = [phase EXCEPT ![t] = "head"]
      /\ MaySend(t) /\ socket_[Client(t)] # INVALID_SOCKET
      /\ "head" \in Phase \ {"none", "socket", "connect"}
  BY DEF Reuse, Go, portVars, callVars, Phase
<1>2. Alone(t) /\ Client(t) \in Port
  BY <1>1, AloneInside
<1>3. socket_[Client(t)] \in Fd
  BY <1>1, <1>2 DEF HttpInv, HttpTypeOK
<1>4. Quiet(fds[socket_[Client(t)]])
  BY <1>1, <1>2, <1>3 DEF MaySend, TalkInv
<1>5. Conversation("head", reply[t], blockNum[t], fds[socket_[Client(t)]], stored)
  BY <1>4 DEF Conversation
<1> QED
  BY <1>1, <1>2, <1>3, <1>5, TalkStep

(* A token is taken: what is left of the reply is what is still to come. *)
LEMMA ReadToken ==
  ASSUME HttpInv, TalkInv, NEW t \in Thread, NEW k, Read(t, k), Connected(t)
  PROVE  LET g == socket_[Client(t)]
             q == Conn(t).in
         IN  /\ q \in Seq(ReplyToken) /\ q # <<>> /\ Head(q).kind = k
             /\ fds'[g].in = Tail(q) /\ fds'[g].out = Conn(t).out
             /\ \A f \in Fd \ {g} : fds'[f] = fds[f]
             /\ UNCHANGED <<clientPort, pc, socket_, blockNum, status, stored>>
<1> DEFINE g == socket_[Client(t)]
<1>1. g \in Fd /\ Conn(t) = fds[g] /\ Conn(t).in \in Seq(ReplyToken)
  BY TalkInside
<1>2. fds[g] \in Connection /\ fds \in [Fd -> Connection]
  BY <1>1 DEF HttpInv, HttpTypeOK
<1>3. /\ fds' = [fds EXCEPT ![g] = [fds[g] EXCEPT !.in = Tail(fds[g].in)]]
      /\ Conn(t).in # <<>> /\ Head(Conn(t).in).kind = k
      /\ UNCHANGED <<clientPort, pc, socket_, blockNum, status, stored>>
  BY DEF Read, portVars
<1>4. LET c == [fds[g] EXCEPT !.in = Tail(fds[g].in)]
      IN  c.in = Tail(fds[g].in) /\ c.out = fds[g].out
  BY <1>2 DEF Connection
<1> HIDE DEF g
<1>5. fds'[g].in = Tail(Conn(t).in) /\ fds'[g].out = Conn(t).out
      /\ \A f \in Fd \ {g} : fds'[f] = fds[f]
  BY <1>1, <1>2, <1>3, <1>4
<1> QED
  BY <1>1, <1>3, <1>5 DEF g

LEMMA ReadTalk ==
  ASSUME HttpInv, TalkInv, NEW t \in Thread,
         ReadInterim(t) \/ read_response_line(t) \/ read_headers(t)
           \/ (phase[t] = "content" /\ \E p \in {"content", "exit"} :
                 /\ Read(t, "content")
                 /\ phase' = [phase EXCEPT ![t] = p]
                 /\ UNCHANGED <<reply, error>>)
  PROVE  TalkInv'
<1> DEFINE g == socket_[Client(t)]
           q == Conn(t).in
           b == blockNum[t]
<1>1. PICK k \in {"interim", "line", "headers", "content"} :
        /\ Read(t, k)
        /\ k = "interim" => ReadInterim(t)
        /\ k = "line" => read_response_line(t)
        /\ k = "headers" => read_headers(t)
        /\ k = "content" =>
             /\ phase[t] = "content"
             /\ \E p \in {"content", "exit"} : phase' = [phase EXCEPT ![t] = p]
             /\ UNCHANGED <<reply, error>>
  <2>1. CASE ReadInterim(t)
    BY <2>1 DEF ReadInterim
  <2>2. CASE read_response_line(t)
    BY <2>2 DEF read_response_line
  <2>3. CASE read_headers(t)
    BY <2>3 DEF read_headers
  <2>4. CASE phase[t] = "content" /\ \E p \in {"content", "exit"} :
                 /\ Read(t, "content")
                 /\ phase' = [phase EXCEPT ![t] = p]
                 /\ UNCHANGED <<reply, error>>
    BY <2>4
  <2> QED
    BY <2>1, <2>2, <2>3, <2>4
<1>2. phase[t] \in {"line", "headers", "content"}
  BY <1>1 DEF ReadInterim, read_response_line, read_headers
<1>3. Connected(t) /\ error[t] = "Success" /\ UNCHANGED error
  BY <1>1, <1>2
  DEF Connected, HttpInv, ResultOK, ReadInterim, read_response_line, read_headers
<1>4. /\ Alone(t) /\ Client(t) \in Port /\ g \in Fd
      /\ Conversation(phase[t], reply[t], b, Conn(t), stored)
  BY <1>3, TalkInside
<1>5. /\ q \in Seq(ReplyToken) /\ q # <<>> /\ Head(q).kind = k
      /\ fds'[g].in = Tail(q) /\ fds'[g].out = Conn(t).out
      /\ \A f \in Fd \ {g} : fds'[f] = fds[f]
      /\ UNCHANGED <<clientPort, pc, socket_, blockNum, status, stored>>
  BY <1>1, <1>3, ReadToken
<1>6. /\ reply \in [Thread -> [status : Status, framed : BOOLEAN, close : BOOLEAN]]
      /\ phase \in [Thread -> Phase]
  BY DEF HttpInv, HttpTypeOK
<1>7. PICK p \in Phase \ {"none", "socket", "connect"} :
        /\ phase' = [phase EXCEPT ![t] = p]
        /\ \A u \in Thread \ {t} : reply'[u] = reply[u]
        /\ Conversation(p, reply'[t], b, fds'[g], stored)
  <2>1. Answers(q, b, stored)
    BY <1>2, <1>4 DEF Conversation
  <2>2. /\ Answers(Tail(q), b, stored)
        /\ EndsReply(Head(q)) => Tail(q) = <<>>
        /\ Interims(q) => Interims(Tail(q))
        /\ Head(q).kind # "interim" => /\ Confirmed(Head(q).of.status, b, stored)
                                       /\ OfStatus(q, Head(q).of.status)
    BY <1>5, <2>1, TailAnswers
  <2>3. \A s : OfStatus(q, s) => OfStatus(Tail(q), s)
    BY <1>5, TailAnswers
  <2>4. CASE k = "interim"
    <3>1. phase[t] = "line" /\ UNCHANGED <<phase, reply>>
      BY <1>1, <2>4 DEF ReadInterim
    <3>2. phase' = [phase EXCEPT ![t] = "line"]
      BY <1>6, <3>1
    <3>3. Conversation("line", reply'[t], b, fds'[g], stored)
      BY <1>4, <1>5, <2>2, <3>1 DEF Conversation
    <3> QED
      BY <3>1, <3>2, <3>3 DEF Phase
  <2>5. CASE k = "line"
    <3>1. /\ phase[t] = "line" /\ phase' = [phase EXCEPT ![t] = "headers"]
          /\ reply' = [reply EXCEPT ![t].status = Head(q).of.status]
      BY <1>1, <2>5 DEF read_response_line, Go
    <3>2. reply'[t].status = Head(q).of.status
          /\ \A u \in Thread \ {t} : reply'[u] = reply[u]
      BY <1>6, <3>1
    <3>3. 1 \in 1 .. Len(q) /\ Head(q) = q[1]
      BY <1>5, HeadTailProperties
    <3>4. Conn(t).out = <<>>
      BY <1>4, <1>5, <2>5, <3>1, <3>3 DEF Conversation, Interims
    <3>5. Conversation("headers", reply'[t], b, fds'[g], stored)
      BY <1>5, <2>2, <2>3, <2>5, <3>2, <3>4 DEF Conversation
    <3> QED
      BY <3>1, <3>2, <3>5 DEF Phase
  <2>6. CASE k = "headers"
    <3>1. /\ phase[t] = "headers"
          /\ phase' = [phase EXCEPT ![t] = IF reply[t].status = 204 THEN "exit"
                                                                    ELSE "content"]
          /\ reply' = [reply EXCEPT ![t] = Head(q).of]
      BY <1>1, <2>6 DEF read_headers, Go
    <3>2. reply'[t] = Head(q).of /\ \A u \in Thread \ {t} : reply'[u] = reply[u]
      BY <1>6, <3>1
    <3>3. 1 \in 1 .. Len(q) /\ Head(q) = q[1]
      BY <1>5, HeadTailProperties
    <3>4. Conn(t).out = <<>> /\ OfStatus(q, reply[t].status)
      BY <1>4, <3>1 DEF Conversation
    <3>5. Head(q).of.status = reply[t].status
      BY <1>5, <2>6, <3>3, <3>4 DEF OfStatus
    <3>6. reply[t].status = 204 => Conversation("exit", reply'[t], b, fds'[g], stored)
      <4>1. reply[t].status = 204 => Tail(q) = <<>>
        BY <1>5, <2>2, <2>6, <3>5 DEF EndsReply
      <4> QED
        BY <1>5, <2>2, <2>6, <3>2, <3>4, <4>1 DEF Conversation, Quiet
    <3>7. Conversation("content", reply'[t], b, fds'[g], stored)
      BY <1>5, <2>2, <2>3, <2>6, <3>2, <3>4 DEF Conversation
    <3> QED
      BY <3>1, <3>2, <3>6, <3>7 DEF Phase
  <2>7. CASE k = "content"
    <3>1. /\ phase[t] = "content" /\ UNCHANGED reply
          /\ \E p \in {"content", "exit"} : phase' = [phase EXCEPT ![t] = p]
      BY <1>1, <2>7
    <3>2. /\ Conn(t).out = <<>> /\ OfStatus(q, reply[t].status)
          /\ Confirmed(reply[t].status, b, stored)
      BY <1>4, <3>1 DEF Conversation
    <3>3. Tail(q) = <<>>
      BY <1>5, <2>2, <2>7 DEF EndsReply
    <3>4. Conversation("exit", reply'[t], b, fds'[g], stored)
      BY <1>5, <3>1, <3>2, <3>3 DEF Conversation, Quiet
    <3>5. Conversation("content", reply'[t], b, fds'[g], stored)
      BY <1>5, <2>2, <2>3, <3>1, <3>2 DEF Conversation
    <3> QED
      BY <3>1, <3>4, <3>5 DEF Phase
  <2> QED
    BY <2>4, <2>5, <2>6, <2>7
<1> HIDE DEF g, q, b
<1> QED
  BY <1>3, <1>4, <1>5, <1>7, TalkStep DEF g, b

(* The server closes after a content that no length ends. *)
LEMMA EndOfContentTalk ==
  ASSUME HttpInv, TalkInv, NEW t \in Thread, phase[t] = "content", EndOfContent(t)
  PROVE  TalkInv'
<1>1. /\ phase' = [phase EXCEPT ![t] = "exit"] /\ "exit" \in Phase
      /\ Conn(t).in = <<>>
      /\ UNCHANGED <<clientPort, pc, socket_, fds, blockNum, reply, error, status, stored>>
  BY DEF EndOfContent, Go, portVars, callVars, Phase
<1>2. Connected(t) /\ error[t] = "Success"
  BY DEF Connected, HttpInv, ResultOK
<1>3. /\ Alone(t) /\ Client(t) \in Port /\ socket_[Client(t)] \in Fd
      /\ Conn(t) = fds[socket_[Client(t)]]
      /\ Conversation("content", reply[t], blockNum[t], Conn(t), stored)
  BY <1>2, TalkInside
<1>4. Conversation("exit", reply[t], blockNum[t], Conn(t), stored)
  BY <1>1, <1>3 DEF Conversation, Quiet
<1> QED
  BY <1>1, <1>3, <1>4, TalkStep

LEMMA ContentTalk ==
  ASSUME HttpInv, TalkInv, NEW t \in Thread, read_content(t)
  PROVE  TalkInv'
<1>1. phase[t] = "content" /\ phase \in [Thread -> Phase]
  BY DEF read_content, HttpInv, HttpTypeOK
<1>2. CASE read_content_framed(t)
  BY <1>1, <1>2, ReadTalk DEF read_content_framed, Go
<1>3. CASE Read(t, "content") /\ UNCHANGED <<phase, reply, error>>
  <2>1. phase' = [phase EXCEPT ![t] = "content"]
    BY <1>1, <1>3
  <2> QED
    BY <1>1, <1>3, <2>1, ReadTalk
<1>4. CASE EndOfContent(t)
  BY <1>1, <1>4, EndOfContentTalk
<1> QED
  BY <1>2, <1>3, <1>4 DEF read_content, read_content_without_length

LEMMA ReadFailsTalk ==
  ASSUME HttpInv, TalkInv, NEW t \in Thread, ReadFails(t)
  PROVE  TalkInv'
<1>1. /\ Fail(t, "Read") /\ Connected(t) /\ "Read" \in Error \ {"Success"}
      /\ UNCHANGED <<portVars, socket_, fds, blockNum, reply, status, stored>>
  BY DEF ReadFails, Connected, Error
<1> QED
  BY <1>1, TalkFails

(* Blocks once stored stay stored. *)
LEMMA StoredGrows ==
  ASSUME NEW S, NEW T, S \subseteq T
  PROVE  /\ \A s, b : Confirmed(s, b, S) => Confirmed(s, b, T)
         /\ \A p, r, b, c : Conversation(p, r, b, c, S) => Conversation(p, r, b, c, T)
<1>1. \A s, b : Confirmed(s, b, S) => Confirmed(s, b, T)
  BY DEF Confirmed
<1>2. \A q, b : Answers(q, b, S) => Answers(q, b, T)
  BY <1>1 DEF Answers
<1> QED
  BY <1>1, <1>2 DEF Conversation

(* The reply of a server: all of its tokens are of it, the last ends it. *)
LEMMA TokensOfReply ==
  ASSUME NEW r \in Replies
  PROVE  /\ Tokens(r) \in Seq(ReplyToken) /\ Len(Tokens(r)) \in Nat
         /\ \A k \in 1 .. Len(Tokens(r)) :
              /\ Tokens(r)[k].kind # "interim" /\ Tokens(r)[k].of = r
              /\ EndsReply(Tokens(r)[k]) => k = Len(Tokens(r))
<1> DEFINE x == [kind |-> "line", of |-> r]
           y == [kind |-> "headers", of |-> r]
           z == [kind |-> "content", of |-> r]
<1>1. \A k \in {"line", "headers", "content"} : [kind |-> k, of |-> r] \in ReplyToken
  BY DEF ReplyToken
<1>2. x \in ReplyToken /\ y \in ReplyToken /\ z \in ReplyToken
  BY <1>1
<1>3. /\ x.kind = "line" /\ y.kind = "headers" /\ z.kind = "content"
      /\ x.of = r /\ y.of = r /\ z.of = r
  OBVIOUS
<1>4. /\ ~EndsReply(x)
      /\ EndsReply(y) <=> r.status = 204
  BY <1>3 DEF EndsReply
<1> HIDE DEF x, y, z
<1> HIDE DEF ReplyToken
<1>5. CASE r.status = 204
  <2>1. Tokens(r) = <<x, y>>
    BY <1>5 DEF Tokens, x, y
  <2> QED
    BY <1>2, <1>3, <1>4, <2>1
<1>6. CASE r.status # 204
  <2>1. Tokens(r) = <<x, y>> \o <<z>>
    BY <1>6 DEF Tokens, x, y, z
  <2>2. <<x, y>> \in Seq(ReplyToken) /\ <<z>> \in Seq(ReplyToken)
        /\ Len(<<x, y>>) = 2 /\ Len(<<z>>) = 1
        /\ <<x, y>>[1] = x /\ <<x, y>>[2] = y /\ <<z>>[1] = z
    BY <1>2
  <2>3. /\ Tokens(r) \in Seq(ReplyToken) /\ Len(Tokens(r)) = 3
        /\ Tokens(r)[1] = x /\ Tokens(r)[2] = y /\ Tokens(r)[3] = z
    BY <2>1, <2>2, ConcatProperties
  <2> QED
    BY <1>3, <1>4, <1>6, <2>3
<1> QED
  BY <1>5, <1>6

(* A reply, or as much of it as arrives, after interim ones answers the    *)
(* request that it was given for.                                          *)
LEMMA ReplyAnswers ==
  ASSUME NEW r \in Replies, NEW n \in 1 .. Len(Tokens(r)), NEW q \in Seq(ReplyToken),
         Interims(q), NEW b, NEW S, Confirmed(r.status, b, S)
  PROVE  Answers(q \o SubSeq(Tokens(r), 1, n), b, S)
<1> DEFINE w == q \o SubSeq(Tokens(r), 1, n)
<1>1. /\ Tokens(r) \in Seq(ReplyToken) /\ Len(Tokens(r)) \in Nat
      /\ \A k \in 1 .. Len(Tokens(r)) :
           /\ Tokens(r)[k].kind # "interim" /\ Tokens(r)[k].of = r
           /\ EndsReply(Tokens(r)[k]) => k = Len(Tokens(r))
  BY TokensOfReply
<1>2. /\ SubSeq(Tokens(r), 1, n) \in Seq(ReplyToken)
      /\ Len(SubSeq(Tokens(r), 1, n)) = n
      /\ \A k \in 1 .. n : SubSeq(Tokens(r), 1, n)[k] = Tokens(r)[k]
  BY <1>1, SubSeqProperties
<1>3. /\ Len(w) = Len(q) + n /\ Len(q) \in Nat
      /\ \A k \in 1 .. Len(w) : w[k] = IF k <= Len(q) THEN q[k]
                                       ELSE SubSeq(Tokens(r), 1, n)[k - Len(q)]
  BY <1>2, ConcatProperties
<1> HIDE DEF w
<1>4. ASSUME NEW k \in 1 .. Len(w)
      PROVE  \/ w[k].kind = "interim"
             \/ w[k].kind # "interim" /\ w[k].of = r /\ (EndsReply(w[k]) => k = Len(w))
  <2>1. CASE k <= Len(q)
    BY <1>3, <2>1 DEF Interims
  <2>2. CASE ~(k <= Len(q))
    <3>1. k - Len(q) \in 1 .. n /\ k - Len(q) \in 1 .. Len(Tokens(r))
      BY <1>1, <1>3, <2>2
    <3>2. w[k] = Tokens(r)[k - Len(q)]
      BY <1>2, <1>3, <2>2, <3>1
    <3>3. k - Len(q) = Len(Tokens(r)) => k = Len(w)
      BY <1>1, <1>3, <3>1, SMTT(40)
    <3> QED
      BY <1>1, <3>1, <3>2, <3>3
  <2> QED
    BY <2>1, <2>2
<1>5. \A x : x.kind = "interim" => ~EndsReply(x)
  BY DEF EndsReply
<1>6. \A i, j \in 1 .. Len(w) : EndsReply(w[i]) => j <= i
  BY <1>3, <1>4, <1>5
<1>7. Answers(w, b, S)
  BY <1>4, <1>6 DEF Answers
<1> QED
  BY <1>7 DEF w

(* A server's step on a connection keeps what the conversation says of it. *)
LEMMA ServerStep ==
  ASSUME HttpInv, NEW f \in Fd, Server(f)
  PROVE  /\ fds[f].peer /\ stored \subseteq stored'
         /\ \A g \in Fd \ {f} : fds'[g] = fds[g]
         /\ \A p \in Phase : \A r, b :
              p \notin {"none", "socket", "connect"}
                /\ Conversation(p, r, b, fds[f], stored)
                => Conversation(p, r, b, fds'[f], stored')
         /\ Quiet(fds[f]) => Quiet(fds'[f])
<1> DEFINE c == fds[f]
<1>1. fds \in [Fd -> Connection] /\ c \in Connection
  BY DEF HttpInv, HttpTypeOK
<1>2. c.in \in Seq(ReplyToken) /\ c.out \in Seq(RequestToken) /\ Len(c.out) \in Nat
  BY <1>1 DEF Connection
<1>3. c.peer /\ stored \subseteq stored'
  BY DEF Server, Interim, Serve, PeerClose
<1>4. CASE Interim(f)
  <2> DEFINE d == [c EXCEPT !.in = <<[kind |-> "interim"]>>]
  <2>1. fds' = [fds EXCEPT ![f] = d] /\ UNCHANGED stored /\ c.in = <<>> /\ Len(c.out) = 1
    BY <1>4 DEF Interim
  <2>2. d.in = <<[kind |-> "interim"]>> /\ d.out = c.out
    BY <1>1 DEF Connection
  <2> HIDE DEF d
  <2>3. fds'[f] = d /\ \A g \in Fd \ {f} : fds'[g] = fds[g]
    BY <1>1, <2>1
  <2>4. c.out # <<>>
    <3>1. c.out = <<>> => Len(c.out) = 0
      OBVIOUS
    <3> QED
      BY <2>1, <3>1
  <2>5. Len(d.in) = 1 /\ d.in[1].kind = "interim" /\ d.out # <<>>
    <3>1. Len(d.in) = 1 /\ d.in[1].kind = "interim"
      BY <2>2
    <3> QED
      BY <2>2, <2>4, <3>1
  <2>6. Interims(d.in) /\ \A b, S : Answers(d.in, b, S)
    BY <2>5 DEF Interims, Answers, EndsReply
  <2>7. ~Quiet(c)
    BY <2>4, Zenon DEF Quiet
  <2> HIDE DEF c
  <2>8. ASSUME NEW p \in Phase, NEW r, NEW b,
               p \notin {"none", "socket", "connect"}, Conversation(p, r, b, c, stored)
        PROVE  Conversation(p, r, b, d, stored)
    <3>1. d.out = c.out /\ Interims(d.in) /\ Answers(d.in, b, stored)
      BY <2>2, <2>6
    <3>2. p \notin {"head", "headers", "content", "exit"}
      BY <2>4, <2>7, <2>8 DEF Conversation
    <3>3. /\ p = "body" => Len(c.out) <= 1 /\ Asks(c.out, b)
          /\ p = "line" => Len(c.out) <= 2 /\ Asks(c.out, b)
      BY <2>8 DEF Conversation
    <3> QED
      BY <3>1, <3>2, <3>3 DEF Conversation
  <2> QED
    BY <1>3, <2>1, <2>3, <2>7, <2>8 DEF c

<1>5. CASE PeerClose(f)
  <2> DEFINE d == [c EXCEPT !.peer = FALSE, !.out = <<>>]
  <2>1. fds' = [fds EXCEPT ![f] = d] /\ UNCHANGED stored
    BY <1>5 DEF PeerClose
  <2>2. d.in = c.in /\ d.out = <<>>
    BY <1>1 DEF Connection
  <2> HIDE DEF d
  <2>3. fds'[f] = d /\ \A g \in Fd \ {f} : fds'[g] = fds[g]
    BY <1>1, <2>1
  <2>4. Quiet(c) => Quiet(d)
    BY <2>2 DEF Quiet
  <2>5. Len(d.out) = 0 /\ \A b : Asks(d.out, b)
    BY <2>2 DEF Asks
  <2>6. \A p \in Phase : \A r, b : Conversation(p, r, b, c, stored)
            => Conversation(p, r, b, d, stored)
    BY <2>2, <2>4, <2>5 DEF Conversation
  <2> HIDE DEF c
  <2> QED
    BY <1>3, <2>1, <2>3, <2>4, <2>6 DEF c
<1>6. CASE Serve(f)
  <2> DEFINE a == c.out[1][2]
  <2>1. PICK y \in Replies, open \in BOOLEAN :
          \E n \in 1 .. Len(Tokens(y)) :
            /\ y.close => ~open
            /\ fds' = [fds EXCEPT ![f] = [c EXCEPT
                         !.in = c.in \o SubSeq(Tokens(y), 1, n),
                         !.out = SubSeq(c.out, 3, Len(c.out)),
                         !.peer = open]]
            /\ stored' = IF y.status = 200 THEN stored \cup {a} ELSE stored
    BY <1>6, Zenon DEF Serve
  <2>2. PICK n \in 1 .. Len(Tokens(y)) :
          fds' = [fds EXCEPT ![f] = [c EXCEPT
                    !.in = c.in \o SubSeq(Tokens(y), 1, n),
                    !.out = SubSeq(c.out, 3, Len(c.out)),
                    !.peer = open]]
    BY <2>1
  <2>3. Confirmed(y.status, a, stored')
    BY <2>1 DEF Confirmed
  <2>4. Len(c.out) >= 2
    BY <1>6 DEF Serve
  <2> DEFINE in == c.in \o SubSeq(Tokens(y), 1, n)
             out == SubSeq(c.out, 3, Len(c.out))
             d == [c EXCEPT !.in = in, !.out = out, !.peer = open]
  <2> HIDE DEF in, out
  <2>5. fds' = [fds EXCEPT ![f] = d]
    BY <2>2 DEF in, out
  <2>6. d.in = in /\ d.out = out
    BY <1>1 DEF Connection
  <2> HIDE DEF d
  <2>7. fds'[f] = d /\ \A g \in Fd \ {f} : fds'[g] = fds[g]
    BY <1>1, <2>5
  <2>8. ASSUME NEW p \in Phase, NEW r, NEW b, p \notin {"none", "socket", "connect"},
               Conversation(p, r, b, c, stored)
        PROVE  Conversation(p, r, b, d, stored')
    <3>1. Len(c.out) # 0 /\ c.out # <<>> /\ ~(Len(c.out) <= 1)
      BY <1>2, <2>4
    <3>2. p = "line"
      BY <2>8, <3>1 DEF Conversation, Quiet, Phase
    <3>3. Len(c.out) = 2 /\ Asks(c.out, b) /\ Interims(c.in)
      <4>1. Conversation("line", r, b, c, stored)
        BY <2>8, <3>2
      <4>2. Len(c.out) <= 2 /\ Asks(c.out, b) /\ Interims(c.in)
        BY <3>1, <4>1 DEF Conversation
      <4>3. \A x \in Nat : x <= 2 /\ x >= 2 => x = 2
        OBVIOUS
      <4> QED
        BY <1>2, <2>4, <4>2, <4>3, Zenon
    <3>4. a = b
      BY <3>3 DEF Asks
    <3>5. Answers(in, b, stored')
      <4> HIDE DEF c, a
      <4> QED
        BY <1>2, <2>3, <3>3, <3>4, ReplyAnswers DEF in
    <3>6. out = <<>>
      BY <1>2, <3>3 DEF out
    <3>7. Len(out) <= 2 /\ Asks(out, b)
      BY <3>6 DEF Asks
    <3> QED
      BY <2>6, <3>2, <3>5, <3>6, <3>7 DEF Conversation
  <2>9. ~Quiet(c)
    BY <2>4 DEF Quiet
  <2> HIDE DEF c
  <2> QED
    BY <1>3, <2>7, <2>8, <2>9 DEF c
<1> HIDE DEF c
<1> QED
  BY <1>4, <1>5, <1>6 DEF Server

LEMMA ServerTalk ==
  ASSUME HttpInv, TalkInv, NEW f \in Fd, Server(f)
  PROVE  TalkInv'
<1>1. /\ fds[f].peer /\ stored \subseteq stored'
      /\ \A g \in Fd \ {f} : fds'[g] = fds[g]
      /\ \A p \in Phase : \A r, b :
           p \notin {"none", "socket", "connect"}
             /\ Conversation(p, r, b, fds[f], stored)
             => Conversation(p, r, b, fds'[f], stored')
      /\ Quiet(fds[f]) => Quiet(fds'[f])
  BY ServerStep
<1>2. UNCHANGED <<clientPort, pc, blockNum, socket_, phase, reply, error, status>>
  BY DEF Server, portVars, callVars
<1>3. /\ \A s, b : Confirmed(s, b, stored) => Confirmed(s, b, stored')
      /\ \A p, r, b, c : Conversation(p, r, b, c, stored) => Conversation(p, r, b, c, stored')
  BY <1>1, StoredGrows
<1>4. ASSUME NEW t \in Thread, Connected(t), error[t] = "Success"
      PROVE  Conversation(phase[t], reply[t], blockNum[t], fds'[socket_[Client(t)]], stored')
  <2>1. /\ socket_[Client(t)] \in Fd
        /\ Conversation(phase[t], reply[t], blockNum[t], fds[socket_[Client(t)]], stored)
    BY <1>4, TalkInside
  <2>2. phase[t] \in Phase /\ phase[t] \notin {"none", "socket", "connect"}
    BY <1>4 DEF Connected, HttpInv, HttpTypeOK
  <2>3. CASE socket_[Client(t)] = f
    BY <1>1, <2>1, <2>2, <2>3
  <2>4. CASE socket_[Client(t)] # f
    BY <1>1, <1>3, <2>1, <2>4
  <2> QED
    BY <2>3, <2>4
<1>5. ASSUME NEW i \in Port, socket_[i] \in Fd,
             \A t \in Thread : Client(t) = i => phase[t] = "none"
      PROVE  Quiet(fds'[socket_[i]])
  BY <1>1, <1>5 DEF TalkInv
<1>6. ASSUME NEW g \in Fd, \A i \in Port : socket_[i] # g
      PROVE  ~fds'[g].peer /\ Quiet(fds'[g])
  <2>1. ~fds[g].peer /\ Quiet(fds[g])
    BY <1>6 DEF TalkInv
  <2> QED
    BY <1>1, <2>1
<1>7. \A t \in Thread :
        /\ pc[t] # "release" => status[t] = NoStatus
        /\ Confirmed(status[t], blockNum[t], stored')
  BY <1>3 DEF TalkInv
<1> QED
  BY <1>2, <1>4, <1>5, <1>6, <1>7 DEF TalkInv, Connected, Client, Conn

(* A step of t outside of a POST, which sends and receives nothing. *)
LEMMA AroundTalk ==
  ASSUME HttpInv, TalkInv, NEW t \in Thread, StartJob(t) \/ Scan(t) \/ EndJob(t)
  PROVE  TalkInv'
<1>1. /\ UNCHANGED <<socket_, fds, phase, reply, stored>>
      /\ phase[t] = "none" /\ pc[t] # "post"
  BY DEF StartJob, Scan, EndJob, httpVars, callVars, transfer, Take, Skip, Release,
         HttpInv, PhaseOK
<1>2. \A u \in Thread \ {t} : /\ pc'[u] = pc[u] /\ clientPort'[u] = clientPort[u]
                              /\ blockNum'[u] = blockNum[u] /\ error'[u] = error[u]
                              /\ status'[u] = status[u]
  BY DEF StartJob, Scan, EndJob, transfer, Take, Skip, Release, httpVars, callVars,
         HttpInv, HttpTypeOK, TypeOK
<1>3. pc'[t] # "release" /\ status'[t] = NoStatus
  <2>1. /\ pc \in [Thread -> ThreadPC] /\ status \in [Thread -> Status]
        /\ pc[t] # "release" => status[t] = NoStatus
    BY DEF HttpInv, HttpTypeOK, TypeOK, TalkInv
  <2>2. CASE StartJob(t)
    BY <2>1, <2>2 DEF StartJob, transfer, callVars
  <2>3. CASE Scan(t)
    BY <2>1, <2>3 DEF Scan, Take, Skip, httpVars, callVars
  <2>4. CASE EndJob(t)
    BY <2>1, <2>4 DEF EndJob, Release
  <2> QED
    BY <2>2, <2>3, <2>4
<1>4. ASSUME NEW u \in Thread, Connected(u)', error'[u] = "Success"
      PROVE  Conversation(phase'[u], reply'[u], blockNum'[u], fds'[socket_'[Client(u)']],
                          stored')
  <2>1. u # t /\ Connected(u)
    BY <1>1, <1>4 DEF Connected
  <2> QED
    BY <1>1, <1>2, <1>4, <2>1 DEF TalkInv, Conn, Client
<1>5. ASSUME NEW i \in Port, socket_'[i] \in Fd,
             \A u \in Thread : Client(u)' = i => phase'[u] = "none"
      PROVE  Quiet(fds'[socket_'[i]])
  <2>1. \A u \in Thread : Client(u) = i => phase[u] = "none"
    BY <1>1, <1>2, <1>5 DEF Client
  <2> QED
    BY <1>1, <1>5, <2>1 DEF TalkInv
<1>6. ASSUME NEW f \in Fd, \A i \in Port : socket_'[i] # f
      PROVE  ~fds'[f].peer /\ Quiet(fds'[f])
  BY <1>1, <1>6 DEF TalkInv
<1>7. ASSUME NEW u \in Thread
      PROVE  /\ pc'[u] # "release" => status'[u] = NoStatus
             /\ Confirmed(status'[u], blockNum'[u], stored')
  <2>1. CASE u = t
    BY <1>3, <2>1 DEF Confirmed, NoStatus
  <2>2. CASE u # t
    BY <1>1, <1>2, <2>2 DEF TalkInv
  <2> QED
    BY <2>1, <2>2
<1> QED
  BY <1>4, <1>5, <1>6, <1>7 DEF TalkInv, Conn

(* A step of the one thread that is inside send of a client, on sockets no *)
(* other client keeps, and after which it is not connected: the others see *)
(* nothing of it, and what the client still keeps then is quiet.           *)
LEMMA TalkOutside ==
  ASSUME HttpInv, TalkInv, NEW t \in Thread, Alone(t), Client(t) \in Port,
         NEW p \in {"none", "socket", "connect"},
         phase' = [phase EXCEPT ![t] = p],
         UNCHANGED <<clientPort, blockNum, stored>>,
         \A u \in Thread \ {t} : /\ pc'[u] = pc[u] /\ reply'[u] = reply[u]
                                 /\ error'[u] = error[u] /\ status'[u] = status[u],
         \A i \in Port \ {Client(t)} : socket_'[i] = socket_[i],
         \A i \in Port \ {Client(t)} :
           socket_[i] \in Fd => /\ socket_'[Client(t)] # socket_[i]
                               /\ fds'[socket_[i]] = fds[socket_[i]],
         \A f \in Fd : (\A i \in Port \ {Client(t)} : socket_[i] # f) =>
           IF socket_'[Client(t)] = f THEN p = "none" => Quiet(fds'[f])
                                      ELSE ~fds'[f].peer /\ Quiet(fds'[f]),
         pc'[t] # "release" => status'[t] = NoStatus,
         Confirmed(status'[t], blockNum[t], stored)
  PROVE  TalkInv'
<1>1. /\ phase'[t] = p
      /\ \A u \in Thread \ {t} : phase'[u] = phase[u]
      /\ \A u \in Thread : Client(u)' = Client(u)
  BY DEF HttpInv, HttpTypeOK, Client
<1>2. ASSUME NEW u \in Thread, Connected(u)', error'[u] = "Success"
      PROVE  Conversation(phase'[u], reply'[u], blockNum'[u], fds'[socket_'[Client(u)']],
                          stored')
  <2>1. u # t
    BY <1>1, <1>2 DEF Connected
  <2>2. Connected(u) /\ error[u] = "Success" /\ phase'[u] = phase[u]
        /\ reply'[u] = reply[u]
    BY <1>1, <1>2, <2>1 DEF Connected
  <2>3. /\ socket_[Client(u)] \in Fd
        /\ Client(u) \in Port \ {Client(t)}
    BY <2>1, <2>2, OthersConnection
  <2>4. fds'[socket_[Client(u)]] = fds[socket_[Client(u)]]
        /\ socket_'[Client(u)] = socket_[Client(u)]
    BY <2>3
  <2> QED
    BY <1>1, <2>2, <2>4 DEF TalkInv, Conn
<1>3. ASSUME NEW i \in Port, socket_'[i] \in Fd,
             \A u \in Thread : Client(u)' = i => phase'[u] = "none"
      PROVE  Quiet(fds'[socket_'[i]])
  <2>1. CASE i = Client(t)
    <3>1. p = "none"
      BY <1>1, <1>3, <2>1
    <3>2. \A j \in Port \ {Client(t)} : socket_[j] # socket_'[i]
      BY <1>3, <2>1
    <3> QED
      BY <1>3, <2>1, <3>1, <3>2
  <2>2. CASE i # Client(t)
    <3>1. socket_'[i] = socket_[i] /\ fds'[socket_[i]] = fds[socket_[i]]
      BY <1>3, <2>2
    <3>2. \A u \in Thread : Client(u) = i => phase[u] = "none"
      BY <1>1, <1>3, <2>2
    <3> QED
      BY <1>3, <3>1, <3>2 DEF TalkInv
  <2> QED
    BY <2>1, <2>2
<1>4. ASSUME NEW f \in Fd, \A i \in Port : socket_'[i] # f
      PROVE  ~fds'[f].peer /\ Quiet(fds'[f])
  BY <1>4
<1>5. ASSUME NEW u \in Thread
      PROVE  /\ pc'[u] # "release" => status'[u] = NoStatus
             /\ Confirmed(status'[u], blockNum'[u], stored')
  <2>1. CASE u = t
    BY <2>1
  <2>2. CASE u # t
    BY <2>2 DEF TalkInv
  <2> QED
    BY <2>1, <2>2
<1> QED
  BY <1>2, <1>3, <1>4, <1>5 DEF TalkInv, Conn

(* Resolve closes a dead socket; there is nothing to say of it any more. *)
LEMMA ResolveTalk ==
  ASSUME HttpInv, TalkInv, NEW t \in Thread, Resolve(t)
  PROVE  TalkInv'
<1>1. /\ UNCHANGED <<clientPort, pc, blockNum, reply, error, status, stored>>
      /\ phase' = [phase EXCEPT ![t] = "socket"]
      /\ MaySend(t) /\ close_socket(Client(t))
  BY DEF Resolve, Go, portVars
<1>2. Alone(t) /\ Client(t) \in Port
  BY <1>1, AloneInside
<1>3. /\ socket_'[Client(t)] = INVALID_SOCKET
      /\ \A i \in Port \ {Client(t)} : socket_'[i] = socket_[i]
      /\ \A f \in Fd : fds'[f] = IF f = socket_[Client(t)] THEN NoConn ELSE fds[f]
  BY <1>1, <1>2 DEF close_socket, HttpInv, HttpTypeOK
<1>4. \A i \in Port \ {Client(t)} : socket_[i] \in Fd =>
        /\ socket_'[Client(t)] # socket_[i]
        /\ fds'[socket_[i]] = fds[socket_[i]]
  BY <1>2, <1>3, Constants DEF HttpInv, Owned
<1>5. ASSUME NEW f \in Fd, \A i \in Port \ {Client(t)} : socket_[i] # f
      PROVE  socket_'[Client(t)] # f /\ ~fds'[f].peer /\ Quiet(fds'[f])
  <2>1. CASE f = socket_[Client(t)]
    BY <1>3, <2>1, Constants DEF NoConn, Quiet
  <2>2. CASE f # socket_[Client(t)]
    BY <1>3, <1>5, <2>2, Constants DEF TalkInv
  <2> QED
    BY <2>1, <2>2
<1>6. /\ pc'[t] # "release" => status'[t] = NoStatus
      /\ Confirmed(status'[t], blockNum[t], stored)
  BY <1>1 DEF TalkInv
<1> QED
  BY <1>1, <1>2, <1>3, <1>4, <1>5, <1>6, TalkOutside

(* Only the open flag of a new descriptor changes. *)
LEMMA SocketTalk ==
  ASSUME HttpInv, TalkInv, NEW t \in Thread, socket(t)
  PROVE  TalkInv'
<1>1. /\ UNCHANGED <<clientPort, pc, blockNum, socket_, reply, error, status, stored>>
      /\ phase[t] = "socket"
  BY DEF socket, portVars
<1>2. Alone(t) /\ Client(t) \in Port /\ socket_[Client(t)] = INVALID_SOCKET
  BY <1>1, AloneInside DEF HttpInv, PhaseOK
<1>3. PICK p \in {"socket", "connect"} : phase' = [phase EXCEPT ![t] = p]
  <2>1. phase = [phase EXCEPT ![t] = "socket"]
    BY <1>1 DEF HttpInv, HttpTypeOK
  <2> QED
    BY <2>1 DEF socket, Go
<1>4. \A f \in Fd : /\ fds'[f].peer = fds[f].peer
                    /\ fds'[f].in = fds[f].in /\ fds'[f].out = fds[f].out
                    /\ fds[f].open => fds'[f] = fds[f]
  <2>1. fds \in [Fd -> Connection]
    BY DEF HttpInv, HttpTypeOK
  <2>2. CASE UNCHANGED fds
    BY <2>2
  <2>3. ASSUME NEW g \in Fd, ~fds[g].open, fds' = [fds EXCEPT ![g].open = TRUE]
        PROVE  \A f \in Fd : /\ fds'[f].peer = fds[f].peer
                             /\ fds'[f].in = fds[f].in /\ fds'[f].out = fds[f].out
                             /\ fds[f].open => fds'[f] = fds[f]
    <3>1. fds' = [fds EXCEPT ![g] = [fds[g] EXCEPT !.open = TRUE]]
      BY <2>3
    <3>2. LET c == [fds[g] EXCEPT !.open = TRUE]
          IN  c.peer = fds[g].peer /\ c.in = fds[g].in /\ c.out = fds[g].out
      BY <2>1 DEF Connection
    <3> QED
      BY <2>1, <2>3, <3>1, <3>2
  <2> QED
    BY <2>2, <2>3 DEF socket
<1>5. \A i \in Port \ {Client(t)} : socket_[i] \in Fd =>
        /\ socket_'[Client(t)] # socket_[i]
        /\ fds'[socket_[i]] = fds[socket_[i]]
  BY <1>1, <1>2, <1>4, Constants DEF HttpInv, Owned
<1>6. ASSUME NEW f \in Fd, \A i \in Port \ {Client(t)} : socket_[i] # f
      PROVE  socket_'[Client(t)] # f /\ ~fds'[f].peer /\ Quiet(fds'[f])
  <2>1. \A i \in Port : socket_[i] # f
    BY <1>2, <1>6, Constants
  <2> QED
    BY <1>1, <1>2, <1>4, <2>1, Constants DEF TalkInv, Quiet
<1>7. /\ pc'[t] # "release" => status'[t] = NoStatus
      /\ Confirmed(status'[t], blockNum[t], stored)
  BY <1>1 DEF TalkInv
<1> QED
  BY <1>1, <1>2, <1>3, <1>5, <1>6, <1>7, TalkOutside

LEMMA NotConnectedTalk ==
  ASSUME HttpInv, TalkInv, NEW t \in Thread, NotConnected(t)
  PROVE  TalkInv'
<1>1. /\ UNCHANGED <<clientPort, pc, blockNum, socket_, reply, status, stored>>
      /\ phase[t] = "connect" /\ phase' = [phase EXCEPT ![t] = "socket"]
      /\ fds' = [fds EXCEPT ![sock[t]] = NoConn]
  BY DEF NotConnected, Go, portVars
<1>2. Alone(t) /\ Client(t) \in Port /\ socket_[Client(t)] = INVALID_SOCKET
      /\ sock[t] \in Fd
  BY <1>1, AloneInside DEF HttpInv, PhaseOK
<1>3. \A u \in Thread \ {t} : error'[u] = error[u]
  BY DEF NotConnected, HttpInv, HttpTypeOK
<1>4. \A f \in Fd : fds'[f] = IF f = sock[t] THEN NoConn ELSE fds[f]
  BY <1>1 DEF HttpInv, HttpTypeOK
<1>5. \A i \in Port \ {Client(t)} : socket_[i] \in Fd =>
        /\ socket_'[Client(t)] # socket_[i]
        /\ fds'[socket_[i]] = fds[socket_[i]]
  BY <1>1, <1>2, <1>4, Constants DEF HttpInv, Owned
<1>6. ASSUME NEW f \in Fd, \A i \in Port \ {Client(t)} : socket_[i] # f
      PROVE  socket_'[Client(t)] # f /\ ~fds'[f].peer /\ Quiet(fds'[f])
  <2>1. socket_'[Client(t)] # f
    BY <1>1, <1>2, Constants
  <2>2. CASE f = sock[t]
    BY <1>4, <2>1, <2>2 DEF NoConn, Quiet
  <2>3. CASE f # sock[t]
    BY <1>1, <1>4, <1>6, <2>1, <2>3 DEF TalkInv
  <2> QED
    BY <2>2, <2>3
<1>7. /\ pc'[t] # "release" => status'[t] = NoStatus
      /\ Confirmed(status'[t], blockNum[t], stored)
  BY <1>1 DEF TalkInv
<1> QED
  BY <1>1, <1>2, <1>3, <1>5, <1>6, <1>7, TalkOutside

(* A new connection is quiet: the first POST on it begins from nothing. *)
LEMMA ConnectTalk ==
  ASSUME HttpInv, TalkInv, NEW t \in Thread, connect(t)
  PROVE  TalkInv'
<1> DEFINE g == sock[t]
           d == [fds[g] EXCEPT !.peer = TRUE]
<1>1. /\ UNCHANGED <<clientPort, pc, blockNum, reply, status, stored>>
      /\ phase[t] = "connect" /\ phase' = [phase EXCEPT ![t] = "head"]
      /\ fds' = [fds EXCEPT ![g] = d]
      /\ socket_' = [socket_ EXCEPT ![Client(t)] = g]
      /\ error' = [error EXCEPT ![t] = "Success"]
  BY DEF connect, Go, portVars
<1>2. Alone(t) /\ Client(t) \in Port /\ socket_[Client(t)] = INVALID_SOCKET /\ g \in Fd
  BY <1>1, AloneInside DEF HttpInv, PhaseOK
<1>3. /\ fds \in [Fd -> Connection] /\ phase \in [Thread -> Phase]
      /\ error \in [Thread -> Error]
      /\ socket_ \in [Port -> Fd \cup {INVALID_SOCKET}]
  BY DEF HttpInv, HttpTypeOK
<1>4. \A i \in Port : socket_[i] # g
  BY <1>2 DEF HttpInv, Owned
<1>5. Quiet(d)
  <2>1. Quiet(fds[g])
    BY <1>2, <1>4 DEF TalkInv
  <2>2. d.in = fds[g].in /\ d.out = fds[g].out
    BY <1>2, <1>3 DEF Connection
  <2> QED
    BY <2>1, <2>2 DEF Quiet
<1> HIDE DEF g, d
<1>6. /\ fds'[g] = d /\ \A f \in Fd \ {g} : fds'[f] = fds[f]
      /\ socket_'[Client(t)] = g
      /\ \A i \in Port \ {Client(t)} : socket_'[i] = socket_[i]
      /\ phase'[t] = "head" /\ \A u \in Thread \ {t} : phase'[u] = phase[u]
      /\ \A u \in Thread \ {t} : error'[u] = error[u]
      /\ \A u \in Thread : Client(u)' = Client(u)
  BY <1>1, <1>2, <1>3 DEF Client
<1>7. ASSUME NEW u \in Thread, Connected(u)', error'[u] = "Success"
      PROVE  Conversation(phase'[u], reply'[u], blockNum'[u], fds'[socket_'[Client(u)']],
                          stored')
  <2>1. CASE u = t
    BY <1>5, <1>6, <2>1 DEF Conversation
  <2>2. CASE u # t
    <3>1. Connected(u) /\ error[u] = "Success"
      BY <1>6, <1>7, <2>2 DEF Connected
    <3>2. /\ socket_[Client(u)] \in Fd
          /\ Client(u) \in Port \ {Client(t)}
      BY <1>2, <2>2, <3>1, OthersConnection
    <3>3. /\ socket_'[Client(u)] = socket_[Client(u)]
          /\ fds'[socket_[Client(u)]] = fds[socket_[Client(u)]]
      BY <1>4, <1>6, <3>2
    <3> QED
      BY <1>1, <1>6, <2>2, <3>1, <3>3 DEF TalkInv, Conn
  <2> QED
    BY <2>1, <2>2
<1>8. ASSUME NEW i \in Port, socket_'[i] \in Fd,
             \A u \in Thread : Client(u)' = i => phase'[u] = "none"
      PROVE  Quiet(fds'[socket_'[i]])
  <2>1. i # Client(t)
    BY <1>6, <1>8
  <2>2. socket_'[i] = socket_[i] /\ fds'[socket_[i]] = fds[socket_[i]]
    BY <1>4, <1>6, <1>8, <2>1
  <2>3. \A u \in Thread : Client(u) = i => phase[u] = "none"
    BY <1>6, <1>8, <2>1
  <2> QED
    BY <1>8, <2>2, <2>3 DEF TalkInv
<1>9. ASSUME NEW f \in Fd, \A i \in Port : socket_'[i] # f
      PROVE  ~fds'[f].peer /\ Quiet(fds'[f])
  <2>1. f # g
    BY <1>2, <1>6, <1>9
  <2>2. \A i \in Port : socket_[i] # f
    BY <1>2, <1>6, <1>9, Constants
  <2> QED
    BY <1>6, <2>1, <2>2 DEF TalkInv
<1>10. \A u \in Thread : /\ pc'[u] # "release" => status'[u] = NoStatus
                         /\ Confirmed(status'[u], blockNum'[u], stored')
  BY <1>1 DEF TalkInv
<1> QED
  BY <1>7, <1>8, <1>9, <1>10 DEF TalkInv, Conn

LEMMA NoSocketTalk ==
  ASSUME HttpInv, TalkInv, NEW t \in Thread, NoSocket(t)
  PROVE  TalkInv'
<1>1. /\ UNCHANGED <<clientPort, blockNum, socket_, fds, stored>>
      /\ phase[t] = "socket" /\ phase' = [phase EXCEPT ![t] = "none"]
      /\ status' = [status EXCEPT ![t] = NoStatus]
  BY DEF NoSocket, Return, Post, Go
<1>2. Alone(t) /\ Client(t) \in Port /\ socket_[Client(t)] = INVALID_SOCKET
  BY <1>1, AloneInside DEF HttpInv, PhaseOK
<1>3. \A u \in Thread \ {t} : /\ pc'[u] = pc[u] /\ reply'[u] = reply[u]
                              /\ error'[u] = error[u] /\ status'[u] = status[u]
  BY DEF NoSocket, Return, Post, HttpInv, HttpTypeOK, TypeOK
<1>4. \A i \in Port \ {Client(t)} : socket_[i] \in Fd =>
        /\ socket_'[Client(t)] # socket_[i]
        /\ fds'[socket_[i]] = fds[socket_[i]]
  BY <1>1, <1>2, Constants
<1>5. ASSUME NEW f \in Fd, \A i \in Port \ {Client(t)} : socket_[i] # f
      PROVE  socket_'[Client(t)] # f /\ ~fds'[f].peer /\ Quiet(fds'[f])
  <2>1. \A i \in Port : socket_[i] # f
    BY <1>2, <1>5, Constants
  <2>2. socket_'[Client(t)] # f
    BY <1>1, <1>2, <2>1
  <2> QED
    BY <1>1, <2>1, <2>2 DEF TalkInv
<1>6. status'[t] = NoStatus
  BY <1>1 DEF HttpInv, HttpTypeOK
<1>7. /\ pc'[t] # "release" => status'[t] = NoStatus
      /\ Confirmed(status'[t], blockNum[t], stored)
  BY <1>6 DEF Confirmed, NoStatus
<1> QED
  BY <1>1, <1>2, <1>3, <1>4, <1>5, <1>7, TalkOutside

(* A request that went well leaves a quiet socket, and the status of its   *)
(* own reply; any other has its socket closed and no status.               *)
LEMMA FinishTalk ==
  ASSUME HttpInv, TalkInv, NEW t \in Thread, Finish(t)
  PROVE  TalkInv'
<1> DEFINE ret == error[t] = "Success"
<1>1. /\ UNCHANGED <<clientPort, blockNum, error, stored>>
      /\ phase[t] = "exit" /\ phase' = [phase EXCEPT ![t] = "none"]
      /\ status' = [status EXCEPT ![t] = IF ret THEN reply[t].status ELSE NoStatus]
      /\ pc' = [pc EXCEPT ![t] = "release"]
      /\ close_socket(Client(t)) \/ (ret /\ UNCHANGED <<fds, socket_>>)
  BY DEF Finish, Return, Post, Go
<1>2. Connected(t)
  BY <1>1 DEF Connected
<1>3. /\ Alone(t) /\ Client(t) \in Port /\ socket_[Client(t)] \in Fd
      /\ Conn(t) = fds[socket_[Client(t)]]
      /\ ret => Conversation("exit", reply[t], blockNum[t], Conn(t), stored)
  BY <1>1, <1>2, TalkInside
<1>4. ret => Quiet(fds[socket_[Client(t)]]) /\ Confirmed(reply[t].status, blockNum[t], stored)
  BY <1>3 DEF Conversation
<1>5. \A u \in Thread \ {t} : /\ pc'[u] = pc[u] /\ reply'[u] = reply[u]
                              /\ error'[u] = error[u] /\ status'[u] = status[u]
  BY DEF Finish, Return, Post, HttpInv, HttpTypeOK, TypeOK
<1>6. /\ \A i \in Port \ {Client(t)} : socket_'[i] = socket_[i]
      /\ \A f \in Fd \ {socket_[Client(t)]} : fds'[f] = fds[f]
      /\ \/ /\ socket_'[Client(t)] = INVALID_SOCKET
            /\ fds'[socket_[Client(t)]] = NoConn
         \/ /\ socket_'[Client(t)] = socket_[Client(t)]
            /\ Quiet(fds'[socket_[Client(t)]])
  BY <1>1, <1>3, <1>4 DEF close_socket, HttpInv, HttpTypeOK
<1>7. \A i \in Port \ {Client(t)} : socket_[i] \in Fd =>
        /\ socket_'[Client(t)] # socket_[i]
        /\ fds'[socket_[i]] = fds[socket_[i]]
  BY <1>3, <1>6, Constants DEF HttpInv, Owned
<1>8. ASSUME NEW f \in Fd, \A i \in Port \ {Client(t)} : socket_[i] # f
      PROVE  IF socket_'[Client(t)] = f THEN Quiet(fds'[f])
                                        ELSE ~fds'[f].peer /\ Quiet(fds'[f])
  <2>1. CASE f = socket_[Client(t)]
    BY <1>6, <2>1, Constants DEF NoConn, Quiet
  <2>2. CASE f # socket_[Client(t)]
    <3>1. ~fds[f].peer /\ Quiet(fds[f])
      BY <1>8, <2>2 DEF TalkInv
    <3> QED
      BY <1>6, <2>2, <3>1
  <2> QED
    BY <2>1, <2>2
<1>9. status'[t] = IF ret THEN reply[t].status ELSE NoStatus
  BY <1>1 DEF HttpInv, HttpTypeOK
<1>10. /\ pc'[t] = "release"
       /\ Confirmed(status'[t], blockNum[t], stored)
  <2>1. pc'[t] = "release"
    BY <1>1 DEF HttpInv, HttpTypeOK, TypeOK
  <2>2. Confirmed(NoStatus, blockNum[t], stored)
    BY DEF Confirmed, NoStatus
  <2> QED
    BY <1>4, <1>9, <2>1, <2>2
<1> HIDE DEF ret
<1> QED
  BY <1>1, <1>3, <1>5, <1>6, <1>7, <1>8, <1>10, TalkOutside

LEMMA HttpNextTalk ==
  HttpInv /\ TalkInv /\ [HttpNext]_<<portVars, httpVars>> => TalkInv'
<1> SUFFICES ASSUME HttpInv, TalkInv, [HttpNext]_<<portVars, httpVars>>
             PROVE  TalkInv'
  OBVIOUS
<1>1. CASE UNCHANGED <<portVars, httpVars>>
  BY <1>1 DEF TalkInv, Connected, Client, Conn, portVars, httpVars, callVars
<1>2. ASSUME NEW f \in Fd, Server(f)
      PROVE  TalkInv'
  BY <1>2, ServerTalk
<1>3. ASSUME NEW t \in Thread, StartJob(t) \/ Step(t)
      PROVE  TalkInv'
  <2>1. CASE StartJob(t) \/ Scan(t) \/ EndJob(t)
    BY <2>1, AroundTalk
  <2>2. CASE Post_socket(t)
    BY <2>2, ReuseTalk, ResolveTalk, SocketTalk, ConnectTalk, NotConnectedTalk,
       NoSocketTalk DEF Post_socket
  <2>3. CASE Post_request(t)
    BY <2>3, WriteTalk, ReadTalk, ContentTalk, ReadFailsTalk, FinishTalk
    DEF Post_request
  <2> QED
    BY <1>3, <2>1, <2>2, <2>3 DEF Step
<1> QED
  BY <1>1, <1>2, <1>3 DEF HttpNext

(* A POST answered with 200 is stored: with any number of clients, kept    *)
(* alive or not, replies that come late, in part or unasked, and sockets   *)
(* closed and given out again, no thread takes the reply to another        *)
(* request for its own.                                                    *)
THEOREM AnsweredMeansStoredCorrect == HttpSpec => []AnsweredMeansStored
<1>1. TalkInv => AnsweredMeansStored
  BY DEF TalkInv, Confirmed, AnsweredMeansStored
<1>2. HttpInit => TalkInv
  BY HttpInitTalk
<1>3. HttpInv /\ TalkInv /\ [HttpNext]_<<portVars, httpVars>> => TalkInv'
  BY HttpNextTalk
<1> QED
  BY <1>1, <1>2, <1>3, HttpInvAlways, PTL DEF HttpSpec
=============================================================================
