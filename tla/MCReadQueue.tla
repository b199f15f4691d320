----------------------------- MODULE MCReadQueue -----------------------------
(* A small instance of ReadQueue for TLC. *)
EXTENDS ReadQueue

=============================================================================
