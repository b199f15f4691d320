------------------------------ MODULE MCIrDots ------------------------------
(* A small instance of IrDots for TLC. *)
EXTENDS IrDots

\* A and B are at one height; A is left of the screen, and left of the image
\* once it is rotated by 45 degrees.
A == <<20, 690>>
B == <<600, 690>>
C == <<500, 330>>

\* Two dots that cross, and a third that comes and goes.
MCViews ==
    {[at |-> <<a, b, c>>, roll |-> 0] :
        a \in {A, B, <<>>}, b \in {A, B, <<>>}, c \in {C, <<>>}}
    \cup {[at |-> <<a, b, <<>> >>, roll |-> 45] : a \in {A, <<>>}, b \in {B, <<>>}}

\* The resolution of the other aspect ratio.
MCResolutions == {<<661, 371>>}
=============================================================================
