-------------------------- MODULE MCBackgroundQueue --------------------------
(***************************************************************************)
(* An instance of BackgroundQueue for TLC: the audit log outgrows a batch. *)
(***************************************************************************)
EXTENDS BackgroundQueue

TwoAndThree == [l \in Log |-> IF l = "request" THEN 2 ELSE 3]
=============================================================================
