---------------------------- MODULE HttpTransfer ----------------------------
(***************************************************************************)
(* The POST of PortTable, opened up: what httplib's ClientImpl does with   *)
(* the socket it keeps, from the connection to the Result that transfer    *)
(* looks at.                                                               *)
(*                                                                         *)
(* A socket is an entry of the process's descriptor table, reused as soon  *)
(* as it is closed.  A request is two writes, head and body; a reply is    *)
(* the tokens the client tells apart: an interim status 100, the status    *)
(* line, the headers, the content.  The servers are not part of the        *)
(* repository: each answers what it got whole, in whole or in part, late,  *)
(* or never, and closes when it likes.  A wait on a socket may end by its  *)
(* timeout at any time.  A request whose connection the client has closed  *)
(* is forgotten: storing it later would only help.                         *)
(***************************************************************************)
EXTENDS PortTable, Sequences

CONSTANTS
  BLOCK3_MAX_NUM,  \* the blocks to send
  Addresses,       \* how many addresses getaddrinfo gives for the server
  KeepAlive,       \* the settings of keep_alive_: main leaves it FALSE
  Replies          \* the replies a server may give

ASSUME HttpTransferAssumption ==
  /\ BLOCK3_MAX_NUM \in Nat \ {0}
  /\ Addresses \in Nat
  /\ KeepAlive \subseteq BOOLEAN
  /\ Replies \subseteq [status : Nat \ {0, 100}, framed : BOOLEAN, close : BOOLEAN]

Block == 0 .. BLOCK3_MAX_NUM - 1
NoStatus == 0
INVALID_SOCKET == 0
Fd == 1 .. THREAD_MAX_NUM3  \* one more is never open at once: OneOwner

Error == {"Success", "Connection", "ConnectionTimeout", "Read", "Write"}

Phase == {"none", "socket", "connect", "head", "body", "line",
          "headers", "content", "exit"}

VARIABLES
  keep_alive_,
  next,      \* blocks handed to transfer so far
  blockNum,  \* blockNum[t]: the block thread t sends
  socket_,   \* socket_[i]: the socket client i keeps
  fds,       \* fds[f]: the connection behind descriptor f
  phase,     \* phase[t]: how far the POST of t is
  address,   \* address[t]: the address create_socket tries
  sock,      \* sock[t]: the socket it tries with
  reply,     \* reply[t]: what t knows of the reply it reads
  error,     \* error[t], status[t]: the Result of the POST
  status,
  stored     \* the blocks the servers have stored

portVars == <<clientPort_flag, pc, clientPort>>
callVars == <<address, sock, reply, error, status>>
httpVars == <<keep_alive_, next, blockNum, socket_, fds, phase, callVars, stored>>

NoReply == [status |-> NoStatus, framed |-> TRUE, close |-> FALSE]

(* A connection: the request written so far, the reply not read yet, and   *)
(* whether the server's end is open.                                       *)
NoConn == [open |-> FALSE, peer |-> FALSE, out |-> <<>>, in |-> <<>>]

RequestToken == {"head", "body"} \X Block
ReplyToken == [kind : {"interim"}]
                \cup [kind : {"line", "headers", "content"}, of : Replies]
Connection == [open : BOOLEAN, peer : BOOLEAN,
               out : Seq(RequestToken), in : Seq(ReplyToken)]

Status == {NoStatus} \cup {r.status : r \in Replies}

HttpTypeOK ==
  /\ TypeOK
  /\ keep_alive_ \in BOOLEAN
  /\ next \in 0 .. BLOCK3_MAX_NUM
  /\ blockNum \in [Thread -> Block]
  /\ socket_ \in [Port -> Fd \cup {INVALID_SOCKET}]
  /\ fds \in [Fd -> Connection]
  /\ phase \in [Thread -> Phase]
  /\ address \in [Thread -> 0 .. Addresses + 1]
  /\ sock \in [Thread -> Fd \cup {INVALID_SOCKET}]
  /\ reply \in [Thread -> [status : Status, framed : BOOLEAN, close : BOOLEAN]]
  /\ error \in [Thread -> Error]
  /\ status \in [Thread -> Status]
  /\ stored \subseteq Block

HttpInit ==
  /\ Init
  /\ keep_alive_ \in KeepAlive
  /\ next = 0
  /\ blockNum = [t \in Thread |-> 0]
  /\ socket_ = [i \in Port |-> INVALID_SOCKET]
  /\ fds = [f \in Fd |-> NoConn]
  /\ phase = [t \in Thread |-> "none"]
  /\ address = [t \in Thread |-> 0]
  /\ sock = [t \in Thread |-> INVALID_SOCKET]
  /\ reply = [t \in Thread |-> NoReply]
  /\ error = [t \in Thread |-> "Success"]
  /\ status = [t \in Thread |-> NoStatus]
  /\ stored = {}
-----------------------------------------------------------------------------
Client(t) == clientPort[t]
Conn(t) == fds[socket_[Client(t)]]

Go(t, p) == phase' = [phase EXCEPT ![t] = p]

Fail(t, e) == /\ error' = [error EXCEPT ![t] = e]
              /\ Go(t, "exit")

(* Nothing to read, or something: a closed connection reads as its end.    *)
is_socket_alive(c) == c.in # <<>> \/ c.peer

(* The calls of main that are not in the POST. *)
StartJob(t) ==
  /\ next < BLOCK3_MAX_NUM
  /\ transfer(t)
  /\ next' = next + 1
  /\ blockNum' = [blockNum EXCEPT ![t] = next]
  /\ UNCHANGED <<keep_alive_, socket_, fds, phase, callVars, stored>>

(* send waits for request_mutex_, which it keeps until it returns. *)
MaySend(t) ==
  /\ pc[t] = "post"
  /\ \A u \in Thread : Client(u) = Client(t) => phase[u] = "none"

(* The locked part of send_ until create_and_connect_socket: keep a live   *)
(* socket, close a dead one; Resolve is getaddrinfo, which may fail.       *)
Reuse(t) ==
  /\ MaySend(t)
  /\ socket_[Client(t)] # INVALID_SOCKET
  /\ is_socket_alive(Conn(t))
  /\ Go(t, "head")
  /\ UNCHANGED <<portVars, keep_alive_, next, blockNum, socket_, fds, callVars, stored>>

close_socket(i) ==
  /\ fds' = [f \in Fd |-> IF f = socket_[i] THEN NoConn ELSE fds[f]]
  /\ socket_' = [socket_ EXCEPT ![i] = INVALID_SOCKET]

Resolve(t) ==
  /\ MaySend(t)
  /\ socket_[Client(t)] # INVALID_SOCKET => ~is_socket_alive(Conn(t))
  /\ close_socket(Client(t))
  /\ \E a \in {1, Addresses + 1} : address' = [address EXCEPT ![t] = a]
  /\ Go(t, "socket")
  /\ UNCHANGED <<portVars, keep_alive_, next, blockNum, sock, reply, error, status, stored>>
-----------------------------------------------------------------------------
(* How a connection may fail: refused or unreachable, or not in time. *)
wait_until_socket_is_ready == {"Connection", "ConnectionTimeout"}

(* create_socket: the loop over the addresses *)
More_OneTooMany(t) == address[t] \in 1 .. Addresses + 1  \* fault: off by one
More(t) == address[t] \in 1 .. Addresses

NextAddress(t) == address' = [address EXCEPT ![t] = @ + 1]

socket(t) ==
  /\ phase[t] = "socket"
  /\ More(t)
  /\ \/ /\ NextAddress(t)   \* INVALID_SOCKET, or fcntl failed and it is closed
        /\ UNCHANGED <<fds, phase, sock>>
     \/ \E f \in Fd :
          /\ ~fds[f].open
          /\ \A g \in Fd : ~fds[g].open => f <= g
          /\ fds' = [fds EXCEPT ![f].open = TRUE]
          /\ sock' = [sock EXCEPT ![t] = f]
          /\ Go(t, "connect")
          /\ UNCHANGED address
  /\ UNCHANGED <<portVars, keep_alive_, next, blockNum, socket_, reply, error, status, stored>>

connect(t) ==
  /\ phase[t] = "connect"
  /\ fds' = [fds EXCEPT ![sock[t]].peer = TRUE]
  /\ socket_' = [socket_ EXCEPT ![Client(t)] = sock[t]]
  /\ sock' = [sock EXCEPT ![t] = INVALID_SOCKET]
  /\ error' = [error EXCEPT ![t] = "Success"]
  /\ Go(t, "head")
  /\ UNCHANGED <<portVars, keep_alive_, next, blockNum, address, reply, status, stored>>

NotConnected_KeepSocket(t) ==  \* fault: the socket is not closed
  /\ phase[t] = "connect"
  /\ \E e \in wait_until_socket_is_ready : error' = [error EXCEPT ![t] = e]
  /\ sock' = [sock EXCEPT ![t] = INVALID_SOCKET]
  /\ NextAddress(t)
  /\ Go(t, "socket")
  /\ UNCHANGED <<portVars, keep_alive_, next, blockNum, socket_, fds, reply, status, stored>>

NotConnected(t) ==
  /\ phase[t] = "connect"
  /\ \E e \in wait_until_socket_is_ready : error' = [error EXCEPT ![t] = e]
  /\ fds' = [fds EXCEPT ![sock[t]] = NoConn]
  /\ sock' = [sock EXCEPT ![t] = INVALID_SOCKET]
  /\ NextAddress(t)
  /\ Go(t, "socket")
  /\ UNCHANGED <<portVars, keep_alive_, next, blockNum, socket_, reply, status, stored>>

Return_FailedEarly(t, ret) ==  \* fault: a failed POST leaves its port taken
  /\ pc' = [pc EXCEPT ![t] = IF ret THEN "release" ELSE "idle"]
  /\ status' = [status EXCEPT ![t] = IF ret THEN reply[t].status ELSE NoStatus]
  /\ Go(t, "none")
  /\ UNCHANGED <<clientPort_flag, clientPort, keep_alive_, next, blockNum,
                 address, reply, sock, stored>>

(* The Result reaches transfer; what belongs to the call dies with it. *)
Return(t, ret) ==
  /\ status' = [status EXCEPT ![t] = IF ret THEN reply[t].status ELSE NoStatus]
  /\ reply' = [reply EXCEPT ![t] = NoReply]
  /\ address' = [address EXCEPT ![t] = 0]
  /\ Go(t, "none")
  /\ Post(t)
  /\ UNCHANGED <<keep_alive_, next, blockNum, sock, stored>>

NoSocket_KeepSuccess(t) ==  \* fault: no error for a socket never tried
  /\ phase[t] = "socket"
  /\ ~More(t)
  /\ Return(t, FALSE)
  /\ UNCHANGED <<socket_, fds, error>>

NoSocket(t) ==
  /\ phase[t] = "socket"
  /\ ~More(t)
  /\ error' = [error EXCEPT ![t] = IF @ = "Success" THEN "Connection" ELSE @]
  /\ Return(t, FALSE)
  /\ UNCHANGED <<socket_, fds>>
-----------------------------------------------------------------------------
(* A write to a server that has gone may still go out while a reply waits. *)
is_writable(c) == is_socket_alive(c)

(* write_request: the head, then the body.  A write may always time out.   *)
Write(t, part, p) ==
  /\ phase[t] = part
  /\ \/ Fail(t, "Write") /\ UNCHANGED fds
     \/ /\ is_writable(Conn(t))
        /\ fds' = [fds EXCEPT ![socket_[Client(t)]].out =
                     IF Conn(t).peer THEN Append(@, <<part, blockNum[t]>>) ELSE @]
        /\ Go(t, p)
        /\ UNCHANGED error
  /\ UNCHANGED <<portVars, keep_alive_, next, blockNum, socket_, address, sock, reply, status, stored>>

write_request(t) == Write(t, "head", "body") \/ Write(t, "body", "line")

(* Take the next token of the reply, if it is of the kind k. *)
Read(t, k) ==
  /\ Conn(t).in # <<>>
  /\ Head(Conn(t).in).kind = k
  /\ fds' = [fds EXCEPT ![socket_[Client(t)]].in = Tail(@)]
  /\ UNCHANGED <<portVars, keep_alive_, next, blockNum, socket_, address, sock, status, stored>>

ReadInterim(t) ==
  /\ phase[t] = "line"
  /\ Read(t, "interim")
  /\ UNCHANGED <<phase, reply, error>>

read_response_line(t) ==
  /\ phase[t] = "line"
  /\ Read(t, "line")
  /\ reply' = [reply EXCEPT ![t].status = Head(Conn(t).in).of.status]
  /\ Go(t, "headers")
  /\ UNCHANGED error

read_headers(t) ==
  /\ phase[t] = "headers"
  /\ Read(t, "headers")
  /\ reply' = [reply EXCEPT ![t] = Head(Conn(t).in).of]
  /\ Go(t, IF reply[t].status = 204 THEN "exit" ELSE "content")
  /\ UNCHANGED error

(* A content with a length, or in chunks, ends with itself; any other with *)
(* the connection.                                                         *)
read_content_framed(t) ==
  /\ reply[t].framed
  /\ Read(t, "content")
  /\ Go(t, "exit")
  /\ UNCHANGED <<reply, error>>

EndOfContent(t) ==
  /\ Conn(t).in = <<>> /\ ~Conn(t).peer
  /\ Go(t, "exit")
  /\ UNCHANGED <<portVars, keep_alive_, next, blockNum, socket_, fds, callVars, stored>>

read_content_without_length(t) ==
  /\ ~reply[t].framed
  /\ \/ Read(t, "content") /\ UNCHANGED <<phase, reply, error>>
     \/ EndOfContent(t)

read_content(t) ==
  /\ phase[t] = "content"
  /\ read_content_framed(t) \/ read_content_without_length(t)

ReadFails_NoTimeout(t) ==  \* fault: the wait for the reply has no timeout
  /\ phase[t] \in {"line", "headers", "content"}
  /\ Conn(t).in = <<>> /\ ~Conn(t).peer
  /\ phase[t] = "content" => reply[t].framed
  /\ Fail(t, "Read")
  /\ UNCHANGED <<portVars, keep_alive_, next, blockNum, socket_, fds, address, sock, reply, status, stored>>

(* The server has closed, or nothing comes within the timeout. *)
ReadFails(t) ==
  /\ phase[t] \in {"line", "headers", "content"}
  /\ Conn(t).in = <<>>
  /\ phase[t] = "content" /\ ~Conn(t).peer => reply[t].framed
  /\ Fail(t, "Read")
  /\ UNCHANGED <<portVars, keep_alive_, next, blockNum, socket_, fds, address, sock, reply, status, stored>>

Finish_KeepFailed(t) ==  \* fault: the socket of a failed request is kept
  LET ret == error[t] = "Success" IN
  /\ phase[t] = "exit"
  /\ IF ret /\ (~keep_alive_ \/ reply[t].close)
       THEN close_socket(Client(t))
       ELSE UNCHANGED <<fds, socket_>>
  /\ Return(t, ret)
  /\ UNCHANGED error

(* The end of handle_request and the scope_exit of send_ *)
Finish(t) ==
  LET ret == error[t] = "Success" IN
  /\ phase[t] = "exit"
  /\ IF ~ret \/ ~keep_alive_ \/ reply[t].close
       THEN close_socket(Client(t))
       ELSE UNCHANGED <<fds, socket_>>
  /\ Return(t, ret)
  /\ UNCHANGED error

Post_socket(t) ==
  \/ Reuse(t) \/ Resolve(t)
  \/ socket(t) \/ connect(t) \/ NotConnected(t) \/ NoSocket(t)

Post_request(t) ==
  \/ write_request(t)
  \/ ReadInterim(t) \/ read_response_line(t) \/ read_headers(t)
  \/ read_content(t) \/ ReadFails(t)
  \/ Finish(t)

(* The steps of transfer before and after the POST; the Result is dropped. *)
Scan(t) ==
  /\ Take(t) \/ Skip(t)
  /\ UNCHANGED httpVars

EndJob(t) ==
  /\ Release(t)
  /\ error' = [error EXCEPT ![t] = "Success"]
  /\ status' = [status EXCEPT ![t] = NoStatus]
  /\ UNCHANGED <<keep_alive_, next, blockNum, socket_, fds, phase, address, sock, reply, stored>>

Step(t) == Scan(t) \/ Post_socket(t) \/ Post_request(t) \/ EndJob(t)
-----------------------------------------------------------------------------
(* The servers *)
Tokens(r) ==
  <<[kind |-> "line", of |-> r], [kind |-> "headers", of |-> r]>> \o
    (IF r.status = 204 THEN <<>> ELSE <<[kind |-> "content", of |-> r]>>)

Interim(f) ==
  /\ fds[f].peer
  /\ Len(fds[f].out) = 1
  /\ fds[f].in = <<>>
  /\ fds' = [fds EXCEPT ![f].in = <<[kind |-> "interim"]>>]
  /\ UNCHANGED stored

(* A whole request is served; the reply may break off, the server may close. *)
Serve(f) ==
  LET b == fds[f].out[1][2] IN
  /\ fds[f].peer
  /\ Len(fds[f].out) >= 2
  /\ \E r \in Replies, open \in BOOLEAN :
       \E n \in 1 .. Len(Tokens(r)) :
         /\ r.close => ~open
         /\ fds' = [fds EXCEPT ![f] =
                      [@ EXCEPT !.in = fds[f].in \o SubSeq(Tokens(r), 1, n),
                                !.out = SubSeq(fds[f].out, 3, Len(fds[f].out)),
                                !.peer = open]]
         /\ stored' = IF r.status = 200 THEN stored \cup {b} ELSE stored

PeerClose(f) ==
  /\ fds[f].peer
  /\ fds' = [fds EXCEPT ![f].peer = FALSE, ![f].out = <<>>]
  /\ UNCHANGED stored

Server(f) ==
  /\ Interim(f) \/ Serve(f) \/ PeerClose(f)
  /\ UNCHANGED <<portVars, keep_alive_, next, blockNum, socket_, phase, callVars>>

HttpNext ==
  \/ \E t \in Thread : StartJob(t) \/ Step(t)
  \/ \E f \in Fd : Server(f)

(* The threads go on: a wait ends by its timeout if not before. *)
HttpSpec ==
  /\ HttpInit
  /\ [][HttpNext]_<<portVars, httpVars>>
  /\ WF_<<portVars, httpVars>>(\E t \in Thread : Step(t))
-----------------------------------------------------------------------------
(* The jobs use the ports as PortTable has it: a POST begins with a port   *)
(* of its own and gives it back before the next, however the POST ends.    *)
ActsAsPortTable == Spec

(* A POST answered with 200 is stored by the server: no thread takes the   *)
(* late reply to an earlier request on the client's socket for its own.    *)
AnsweredMeansStored ==
  \A t \in Thread : status[t] = 200 => blockNum[t] \in stored

(* transfer looks at res.error() to report a failure, and at res->status   *)
(* only if res is there: a POST without a response has an error, one with  *)
(* a response has none, even if an address failed before another answered. *)
NullIffError ==
  \A t \in Thread :
    pc[t] = "release" => (status[t] = NoStatus <=> error[t] # "Success")

(* Every open descriptor is kept by one client, or held by the one thread  *)
(* that connects it: none is lost, and none is closed under its client and *)
(* given out again to another (the comment in ClientImpl::close_socket).   *)
OneOwner ==
  \A f \in Fd :
    Cardinality({i \in Port : socket_[i] = f})
      + Cardinality({t \in Thread : sock[t] = f}) = IF fds[f].open THEN 1 ELSE 0

(* The jobs all end, whatever the servers do. *)
JobsEnd == <>[](\A t \in Thread : pc[t] = "idle")
=============================================================================
