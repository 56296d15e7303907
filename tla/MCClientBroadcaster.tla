------------------------ MODULE MCClientBroadcaster ------------------------
(***************************************************************************)
(* Small instances of ClientBroadcaster for TLC.                           *)
(***************************************************************************)
EXTENDS ClientBroadcaster, TLC
=============================================================================
