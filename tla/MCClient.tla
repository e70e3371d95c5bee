------------------------------ MODULE MCClient ------------------------------
(* Two sockets, two login requests and two reconnection attempts.  What an *)
(* invariant tells apart needs the socket in use and one other.            *)
EXTENDS ClientSession
=============================================================================
