--------------------------- MODULE MCLoginLockout ---------------------------
(* LoginLockout on a small instance.  The run checks liveness, so requests *)
(* are not declared interchangeable.                                       *)
EXTENDS LoginLockout
=============================================================================
