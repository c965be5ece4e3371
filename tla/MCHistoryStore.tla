--------------------------- MODULE MCHistoryStore ---------------------------
(* Small instances of HistoryStore for TLC. *)
EXTENDS HistoryStore
=============================================================================
