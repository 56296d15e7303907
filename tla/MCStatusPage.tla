---------------------------- MODULE MCStatusPage ----------------------------
(***************************************************************************)
(* Small instances of StatusPage for TLC.                                  *)
(***************************************************************************)
EXTENDS StatusPage, TLC
=============================================================================
