---------------------------- MODULE MCXidStream ----------------------------
(* Small instances of XidStream for TLC. *)
EXTENDS XidStream
=============================================================================
