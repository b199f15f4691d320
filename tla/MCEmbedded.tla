----------------------------- MODULE MCEmbedded -----------------------------
(* A small instance of Embedded for TLC. *)
EXTENDS Embedded, TLC

Symmetry == Permutations(Devices)
=============================================================================
