---------------------------- MODULE MCApiServer ----------------------------
(* Model-checking instance of ApiServer and Session.                       *)
EXTENDS ApiServer, TLC

MCLogs == Streams \X (1..MaxNews)

Symmetry == Permutations(Streams)
=============================================================================
