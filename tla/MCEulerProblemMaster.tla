------------------------ MODULE MCEulerProblemMaster ------------------------
(***************************************************************************)
(* Small instances of EulerProblemMaster for TLC.                          *)
(***************************************************************************)
EXTENDS EulerProblemMaster, TLC

\* HTTP requests are told apart by nothing but their identity.
RequestSymmetry == Permutations(Requests)
=============================================================================
