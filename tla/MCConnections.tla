---------------------------- MODULE MCConnections ----------------------------
(* A user with two sockets, another with one.                              *)
EXTENDS WsConnections, TLC

CONSTANTS u1, u2, s1, s2, s3

Owner == (s1 :> u1) @@ (s2 :> u1) @@ (s3 :> u2)
=============================================================================
