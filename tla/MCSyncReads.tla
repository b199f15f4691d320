----------------------------- MODULE MCSyncReads -----------------------------
(* A small instance of SyncReads for TLC. *)
EXTENDS SyncReads

=============================================================================
