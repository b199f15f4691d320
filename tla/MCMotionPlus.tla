---------------------------- MODULE MCMotionPlus ----------------------------
(* A small instance of MotionPlus for TLC. *)
EXTENDS MotionPlus

=============================================================================
