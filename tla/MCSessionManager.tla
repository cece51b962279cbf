-------------------------- MODULE MCSessionManager --------------------------
(* Model-checking instances of SessionManager. *)
EXTENDS SessionManager, TLC

\* Pods are only ever compared for equality.
PodSymmetry == Permutations(Pods)
=============================================================================
