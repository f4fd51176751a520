--------------------------- MODULE MCHttpTransfer ---------------------------
(* A pool of two threads on two ports; a plain 200, a 200 that announces   *)
(* the close and ends with the connection, and an empty 204.               *)
EXTENDS HttpTransfer

AnySetting == BOOLEAN
Pools == {2}
Reply(s, f, c) == [status |-> s, framed |-> f, close |-> c]

ServerReplies ==
  {Reply(200, TRUE, FALSE), Reply(200, FALSE, TRUE), Reply(204, TRUE, FALSE)}
=============================================================================
