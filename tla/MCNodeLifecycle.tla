-------------------------- MODULE MCNodeLifecycle --------------------------
(* One node, started twice at most, and a caller of WaitReady. *)
EXTENDS NodeLifecycle

CONSTANT w1
=============================================================================
