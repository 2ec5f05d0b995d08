---------------------------- MODULE MCTcpServer ----------------------------
(***************************************************************************)
(* An instance of TcpServer for TLC: more connections than threads, one of *)
(* which may send two requests and one of which sends none.                *)
(***************************************************************************)
EXTENDS TcpServer, TLC

CONSTANTS c1, c2, c3

MCConnections == {c1, c2, c3}
MCMaxRequests == c1 :> 2 @@ c2 :> 1 @@ c3 :> 0
=============================================================================
