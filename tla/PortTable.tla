----------------------------- MODULE PortTable -----------------------------
(***************************************************************************)
(* How the jobs of the transfer stage share the HTTP clients: transfer     *)
(* takes the first port whose flag is down, and lowers it after the POST.  *)
(*                                                                         *)
(* A step is a critical section of one port_mutex, or the POST.            *)
(***************************************************************************)
EXTENDS Naturals, FiniteSets

CONSTANTS
  THREAD_MAX_NUM3,  \* the number of ports, and of transfer pools
  PoolsInUse        \* the pools that may run a job: pool k has k threads

ASSUME PortTableAssumption ==
  /\ THREAD_MAX_NUM3 \in Nat \ {0}
  /\ PoolsInUse \subseteq 1 .. THREAD_MAX_NUM3

Port == 0 .. THREAD_MAX_NUM3 - 1

Thread == {t \in PoolsInUse \X (1 .. THREAD_MAX_NUM3) : t[2] <= t[1]}

VARIABLES
  clientPort_flag,
  pc,          \* pc[t]: what thread t does
  clientPort   \* clientPort[t]: the port it looks at or uses

vars == <<clientPort_flag, pc, clientPort>>

ThreadPC == {"idle", "scan", "post", "release"}

TypeOK ==
  /\ clientPort_flag \in [Port -> BOOLEAN]
  /\ pc \in [Thread -> ThreadPC]
  /\ clientPort \in [Thread -> 0 .. THREAD_MAX_NUM3]

Init ==
  /\ clientPort_flag = [i \in Port |-> FALSE]
  /\ pc = [t \in Thread |-> "idle"]
  /\ clientPort = [t \in Thread |-> 0]

transfer(t) ==
  /\ pc[t] = "idle"
  /\ pc' = [pc EXCEPT ![t] = "scan"]
  /\ clientPort' = [clientPort EXCEPT ![t] = 0]
  /\ UNCHANGED clientPort_flag

Take_NoFlag(t) ==  \* fault: the flag is not raised
  /\ pc[t] = "scan"
  /\ clientPort[t] \in Port
  /\ ~clientPort_flag[clientPort[t]]
  /\ pc' = [pc EXCEPT ![t] = "post"]
  /\ UNCHANGED <<clientPort, clientPort_flag>>

Take(t) ==
  /\ pc[t] = "scan"
  /\ clientPort[t] \in Port
  /\ ~clientPort_flag[clientPort[t]]
  /\ clientPort_flag' = [clientPort_flag EXCEPT ![clientPort[t]] = TRUE]
  /\ pc' = [pc EXCEPT ![t] = "post"]
  /\ UNCHANGED clientPort

Skip_Free(t) ==  \* fault: a free port is passed over
  /\ pc[t] = "scan"
  /\ clientPort[t] \in Port
  /\ clientPort' = [clientPort EXCEPT ![t] = @ + 1]
  /\ UNCHANGED <<clientPort_flag, pc>>

Skip(t) ==
  /\ pc[t] = "scan"
  /\ clientPort[t] \in Port
  /\ clientPort_flag[clientPort[t]]
  /\ clientPort' = [clientPort EXCEPT ![t] = @ + 1]
  /\ UNCHANGED <<clientPort_flag, pc>>

(* The POST through clientSet[clientPort[t]], whatever comes of it. *)
Post(t) ==
  /\ pc[t] = "post"
  /\ pc' = [pc EXCEPT ![t] = "release"]
  /\ UNCHANGED <<clientPort_flag, clientPort>>

Release(t) ==
  /\ pc[t] = "release"
  /\ clientPort_flag' = [clientPort_flag EXCEPT ![clientPort[t]] = FALSE]
  /\ pc' = [pc EXCEPT ![t] = "idle"]
  /\ UNCHANGED clientPort

Next ==
  \E t \in Thread : transfer(t) \/ Take(t) \/ Skip(t) \/ Post(t) \/ Release(t)

Spec == Init /\ [][Next]_vars
-----------------------------------------------------------------------------
(* Two jobs never use the same client at once. *)
ExclusivePort ==
  \A t, u \in Thread :
    pc[t] \in {"post", "release"} /\ pc[u] \in {"post", "release"}
      /\ clientPort[t] = clientPort[u] => t = u

(* The scan looks at each port once, while other jobs take and lower       *)
(* flags behind it, and still never ends without a port: then clientPort   *)
(* would be THREAD_MAX_NUM3 and the POST go through clientSet beyond its   *)
(* end.                                                                    *)
AlwaysAPort ==
  \A t \in Thread : pc[t] = "scan" => clientPort[t] # THREAD_MAX_NUM3
=============================================================================
