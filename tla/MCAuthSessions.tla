--------------------------- MODULE MCAuthSessions ---------------------------
(* AuthSessions on a small instance: the token of one second expires       *)
(* within the run, and two requests overlap.                               *)
EXTENDS AuthSessions, TLC

Symmetry == Permutations(Requests)
=============================================================================
