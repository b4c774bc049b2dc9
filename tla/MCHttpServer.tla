---------------------------- MODULE MCHttpServer ----------------------------
(* Instances of HttpServer for TLC. *)
EXTENDS HttpServer, TLC

CONSTANTS c1, c2, c3

MCClients == {c1, c2, c3}
MCFds == 3..5
Symmetry == Permutations(MCClients)
=============================================================================
