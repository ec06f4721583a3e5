--------------------------- MODULE MCDeployments ---------------------------
(* A small instance of Deployments.                                         *)
EXTENDS Deployments, TLC

MCKindOf == [c \in Candidates |-> c]
=============================================================================
