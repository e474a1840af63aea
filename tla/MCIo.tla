------------------------------- MODULE MCIo -------------------------------
(***************************************************************************)
(* Instances of Io for TLC.                                                *)
(***************************************************************************)
EXTENDS Io

CONSTANTS d1, d2
=============================================================================
