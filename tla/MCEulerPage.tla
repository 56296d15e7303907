---------------------------- MODULE MCEulerPage ----------------------------
(***************************************************************************)
(* Small instances of EulerPage for TLC.                                   *)
(***************************************************************************)
EXTENDS EulerPage, TLC
=============================================================================
