------------------------------- MODULE IrDots -------------------------------
(***************************************************************************)
(* The IR camera tracking of one remote (ir.c): the dots of a report, the  *)
(* order they are given from left to right, the middle between them, the   *)
(* estimate of a dot that has left the image, and the cursor on the        *)
(* application's screen.                                                   *)
(*                                                                         *)
(* A report is one step: calculate_basic_ir() or calculate_extended_ir()   *)
(* and interpret_ir_data().  Coordinates are whole numbers.  dot.x and     *)
(* dot.y are unsigned in C: a word that is negative here is the same bits  *)
(* read as a signed number.  The yaw angle is left out.                    *)
(***************************************************************************)
EXTENDS Integers, FiniteSets

CONSTANTS
    Dots,        \* number of dots that the camera reports, of its 4
    Views,       \* what the camera may see: the position of each dot, <<x, y>>,
                 \* or <<>>, and the roll of the remote (0 also if the
                 \* accelerometer is off)
    Aspects,     \* of "4:3" and "16:9"
    Positions,   \* of the sensor bar, of "ABOVE" and "BELOW"
    Resolutions  \* virtual screens, <<width, height>>

ASSUME IrAssumption ==
    /\ Dots \in 0 .. 4
    /\ \A view \in Views :
          /\ view.at \in [1 .. Dots -> {<<>>} \cup (0 .. 1023) \X (0 .. 767)]
          /\ view.roll \in {0, 45, 90, 180}
    /\ Aspects \subseteq {"4:3", "16:9"}
    /\ Positions \subseteq {"ABOVE", "BELOW"}
    /\ Resolutions \subseteq (Nat \ {0}) \X (Nat \ {0})

VARIABLES
    dot,       \* per dot: its position, or Hidden, and its order
    tracking,  \* ir.state = 2: two dots have been seen
    dist2,     \* ir.distance, squared
    middle,    \* ir.ax, ir.ay
    cursor,    \* ir.x, ir.y
    screen,    \* settings: aspect, position of the bar, offset, ir.vres
    drawn,     \* history: ir.vres when the cursor was last set
    swapped    \* history: since the last ordering, one report has both
               \* lost a dot and gained one

vars == <<dot, tracking, dist2, middle, cursor, screen, drawn, swapped>>

Slots  == 1 .. Dots
Hidden == <<>>
Origin == <<0, 0>>

\* The dots that are seen; ir.num_dots is their number after each report.
Seen(d) == {i \in Slots : d[i].at # Hidden}

-----------------------------------------------------------------------------
(* Arithmetic                                                              *)

\* Division and conversion of C, toward 0.
Quotient(a, b) == IF a >= 0 THEN a \div b ELSE -((-a) \div b)

\* sqrtf(), rounded down (first to hundreds, for TLC's sake) and up.  No two
\* dots are 2000 apart.
Square(n) == n * n
Hundreds(n) == CHOOSE h \in 0 .. 19 : Square(100 * h) <= n /\ n < Square(100 * h + 100)
RootDown(n) == CHOOSE r \in 100 * Hundreds(n) .. 100 * Hundreds(n) + 99 :
                  Square(r) <= n /\ n < Square(r + 1)
RootUp(n) == IF Square(RootDown(n)) = n THEN RootDown(n) ELSE RootDown(n) + 1

\* Unsigned comparison.
Less(a, b) == IF (a < 0) = (b < 0) THEN a < b ELSE b < 0

\* Sine and cosine, times 10000.
Cos(roll) == [r \in {0, 45, 90, 180} |->
                 IF r = 0 THEN 10000 ELSE IF r = 45 THEN 7071
                 ELSE IF r = 90 THEN 0 ELSE -10000][roll]
Sin(roll) == [r \in {0, 45, 90, 180} |->
                 IF r = 45 THEN 7071 ELSE IF r = 90 THEN 10000 ELSE 0][roll]

-----------------------------------------------------------------------------
(* Settings                                                                *)

Width(aspect)  == IF aspect = "16:9" THEN 660 ELSE 560
Height(aspect) == IF aspect = "16:9" THEN 370 ELSE 420

\* wiiuse_set_ir_position(): offset[1]; offset[0] is 0.
Offset(aspect, pos) ==
    IF pos = "ABOVE"
    THEN Height(aspect) \div 2 - (IF aspect = "16:9" THEN 70 ELSE 100)
    ELSE -(Height(aspect) \div 2) + (IF aspect = "16:9" THEN 100 ELSE 70)

SetPosition(pos) ==
    /\ screen' = [screen EXCEPT !.pos = pos, !.offset = Offset(screen.aspect, pos)]
    /\ UNCHANGED <<dot, tracking, dist2, middle, cursor, drawn, swapped>>

\* wiiuse_set_aspect_ratio(): the resolution is replaced, too.
SetAspect(aspect) ==
    /\ screen' = [screen EXCEPT !.aspect = aspect,
                                !.vres = <<Width(aspect), Height(aspect)>>,
                                !.offset = Offset(aspect, screen.pos)]
    /\ UNCHANGED <<dot, tracking, dist2, middle, cursor, drawn, swapped>>

\* wiiuse_set_ir_vres()
SetResolution(size) ==
    /\ screen' = [screen EXCEPT !.vres = <<size[1] - 1, size[2] - 1>>]
    /\ UNCHANGED <<dot, tracking, dist2, middle, cursor, drawn, swapped>>

-----------------------------------------------------------------------------
(* The dots of a report                                                    *)

\* A negative number converted to uint32_t is undefined: builds wrap it
\* around or make it 0.
Unsigned(v, wraps) == IF v >= 0 \/ wraps THEN v ELSE 0

\* fix_rotated_ir_dots(), for one dot that is seen.
Upright(p, roll, wraps) ==
    IF roll = 0 THEN p
    ELSE LET x == p[1] - 512
             y == p[2] - 384
             s == Sin(roll)
             c == Cos(roll)
         IN <<Unsigned(Quotient(c * x - s * y, 10000), wraps) + 512,
              Unsigned(Quotient(s * x + c * y, 10000), wraps) + 384>>

\* What a report can show.
Images ==
    {[i \in Slots |-> IF view.at[i] = Hidden THEN Hidden
                      ELSE Upright(view.at[i], view.roll, wraps)] :
        view \in Views, wraps \in BOOLEAN}

\* The dots of the report, with the orders they had.
Placed(image) == [i \in Slots |-> [at |-> image[i], order |-> dot[i].order]]

\* Dots on the left come first, and of two above each other the one with the
\* lower index.
IsBefore(d, i, j) ==
    \/ Less(d[i].at[1], d[j].at[1])
    \/ d[i].at[1] = d[j].at[1] /\ i < j

\* Planted bugs: two dots above each other are given the same order; the order
\* starts at 2.
BugReorderedTies(d) ==
    [i \in Slots |->
        [d[i] EXCEPT !.order =
            IF d[i].at = Hidden THEN 0
            ELSE 1 + Cardinality({j \in Seen(d) : Less(d[j].at[1], d[i].at[1])})]]

BugReorderedFrom2(d) ==
    [i \in Slots |->
        [d[i] EXCEPT !.order =
            IF d[i].at = Hidden THEN 0
            ELSE 2 + Cardinality({j \in Seen(d) : IsBefore(d, j, i)})]]

\* reorder_ir_dots()
Reordered(d) ==
    [i \in Slots |->
        [d[i] EXCEPT !.order =
            IF d[i].at = Hidden THEN 0
            ELSE 1 + Cardinality({j \in Seen(d) : IsBefore(d, j, i)})]]

\* ir_distance(), squared: of the first two dots by index.
Distance2(d) ==
    LET first  == CHOOSE i \in Seen(d) : \A j \in Seen(d) : i <= j
        second == CHOOSE i \in Seen(d) \ {first} : \A j \in Seen(d) \ {first} : i <= j
        dx == d[second].at[1] - d[first].at[1]
        dy == d[second].at[2] - d[first].at[2]
    IN Square(dx) + Square(dy)

\* get_ir_dot_avg()
Average(d) ==
    LET n == Cardinality(Seen(d))
        Part(i, k) == IF i \in Seen(d) THEN d[i].at[k] ELSE 0
        Sum(k) == Part(1, k) + Part(2, k) + Part(3, k) + Part(4, k)
    IN <<Quotient(Sum(1), n), Quotient(Sum(2), n)>>

-----------------------------------------------------------------------------
(* The cursor                                                              *)

\* ir_correct_for_bounds()
InBounds(p) ==
    LET x0 == (1024 - Width(screen.aspect)) \div 2
        y0 == (768 - Height(screen.aspect)) \div 2 + screen.offset
    IN /\ p[1] \in x0 .. x0 + Width(screen.aspect)
       /\ p[2] \in y0 .. y0 + Height(screen.aspect)

Corrected(p) == <<p[1], p[2] - screen.offset>>

\* ir_convert_to_vres()
OnScreen(p) ==
    LET w == Width(screen.aspect)
        h == Height(screen.aspect)
    IN <<Quotient((p[1] - (1024 - w) \div 2) * screen.vres[1], w),
         Quotient((p[2] - (768 - h) \div 2) * screen.vres[2], h)>>

\* The cursor follows p inside the bounds, and stays at c outside of them.
Follows(p, c) ==
    /\ middle' = p
    /\ IF InBounds(p)
       THEN cursor' = OnScreen(Corrected(p)) /\ drawn' = screen.vres
       ELSE cursor' = c /\ UNCHANGED drawn

-----------------------------------------------------------------------------
(* Reports (interpret_ir_data)                                             *)

\* A swap: one report has both lost a dot and gained one.
Swaps(d) == /\ Seen(dot) \ Seen(d) # {}
            /\ Seen(d) \ Seen(dot) # {}

NoDots(d) ==
    /\ Seen(d) = {}
    /\ dot' = [i \in Slots |-> [d[i] EXCEPT !.order = 0]]
    /\ tracking' = FALSE
    /\ cursor' = Origin
    /\ drawn' = screen.vres
    /\ swapped' = FALSE
    /\ UNCHANGED <<dist2, middle, screen>>

\* One dot, and no other before: the cursor is there, inside the bounds or not.
FirstDot(d) ==
    /\ ~tracking
    /\ \E i \in Slots :
          /\ Seen(d) = {i}
          /\ middle' = d[i].at
          /\ cursor' = OnScreen(d[i].at)
    /\ drawn' = screen.vres
    /\ dot' = d
    /\ swapped' = (swapped \/ Swaps(d))
    /\ UNCHANGED <<tracking, dist2, screen>>

\* A word that is negative is far too large to be converted to int: the result
\* is undefined.
Far == 1073741824

\* Planted bug: the other dot is sought on the wrong side.
BugGuesses(x, order) ==
    IF order \notin {1, 2} THEN {Quotient(x, 2)}
    ELSE IF x < 0 THEN {-Far, Far}
    ELSE IF order = 2 THEN {Quotient(x + (x + RootDown(dist2)), 2)}
    ELSE {Quotient(x + (x - RootUp(dist2)), 2)}

\* The middle between the dot at x and where the other one is guessed to be:
\* on its right if it was the left one.
Guesses(x, order) ==
    IF order \notin {1, 2} THEN {Quotient(x, 2)}
    ELSE IF x < 0 THEN {-Far, Far}
    ELSE IF order = 1 THEN {Quotient(x + (x + RootDown(dist2)), 2)}
    ELSE IF Square(x) >= dist2 THEN {Quotient(x + (x - RootUp(dist2)), 2)}
    ELSE {Quotient(x + (x - RootDown(dist2)), 2)}

\* One of two dots: the other is guessed.
LoneDot(d) ==
    /\ tracking
    /\ \E i \in Slots :
          /\ Seen(d) = {i}
          /\ \E x \in Guesses(d[i].at[1], d[i].order) :
                Follows(<<x, d[i].at[2]>>, cursor)
    /\ dot' = d
    /\ swapped' = (swapped \/ Swaps(d))
    /\ UNCHANGED <<tracking, dist2, screen>>

\* Planted bug: the cursor is not reset.
BugManyDotsCursor(d) ==
    /\ Cardinality(Seen(d)) >= 2
    /\ tracking' = TRUE
    /\ LET more == Cardinality(Seen(d)) > Cardinality(Seen(dot)) IN
          /\ dot' = IF more THEN Reordered(d) ELSE d
          /\ swapped' = (~more /\ (swapped \/ Swaps(d)))
          /\ Follows(Average(d), cursor)
    /\ dist2' = Distance2(d)
    /\ UNCHANGED screen

\* Two or more: with more of them than before, they are ordered anew.
ManyDots(d) ==
    /\ Cardinality(Seen(d)) >= 2
    /\ tracking' = TRUE
    /\ LET more == Cardinality(Seen(d)) > Cardinality(Seen(dot)) IN
          /\ dot' = IF more THEN Reordered(d) ELSE d
          /\ swapped' = (~more /\ (swapped \/ Swaps(d)))
          /\ Follows(Average(d), IF more THEN Origin ELSE cursor)
    /\ dist2' = Distance2(d)
    /\ UNCHANGED screen

Report ==
    \E image \in Images : \E d \in {Placed(image)} :
        NoDots(d) \/ FirstDot(d) \/ LoneDot(d) \/ ManyDots(d)

-----------------------------------------------------------------------------
Init ==
    /\ dot = [i \in Slots |-> [at |-> Hidden, order |-> 0]]
    /\ tracking = FALSE
    /\ dist2 = 0
    /\ middle = Origin
    /\ cursor = Origin
    /\ screen = [aspect |-> "4:3", pos |-> "ABOVE",
                 offset |-> Offset("4:3", "ABOVE"),
                 vres |-> <<Width("4:3"), Height("4:3")>>]
    /\ drawn = screen.vres
    /\ swapped = FALSE

Next ==
    \/ Report
    \/ \E pos \in Positions : SetPosition(pos)
    \/ \E aspect \in Aspects : SetAspect(aspect)
    \/ \E size \in Resolutions : SetResolution(size)

Spec == Init /\ [][Next]_vars

-----------------------------------------------------------------------------
(* Properties                                                              *)

IrTypeOK ==
    /\ dot \in [Slots -> [at : {Hidden} \cup (Int \X Int), order : 0 .. Dots]]
    /\ tracking \in BOOLEAN
    /\ dist2 \in Nat
    /\ middle \in Int \X Int
    /\ cursor \in Int \X Int
    /\ screen \in [aspect : {"4:3", "16:9"}, pos : {"ABOVE", "BELOW"},
                   offset : Int, vres : Nat \X Nat]
    /\ drawn \in Nat \X Nat
    /\ swapped \in BOOLEAN

\* No two dots ever have the same place in the order, over any sequence of
\* dots that come, go, cross and lie above each other.  Once two dots have been
\* seen, every dot in the image has a place (the estimate of its partner needs
\* it), unless a report has both lost and gained one.
DotsAreOrdered ==
    /\ \A i, j \in Slots : i # j /\ dot[i].order # 0 => dot[i].order # dot[j].order
    /\ tracking /\ ~swapped => \A i \in Seen(dot) : dot[i].order # 0

\* While two dots are known, the cursor is on the screen it was drawn for, both
\* ends included, although one dot alone may put it outside.
CursorIsOnScreen ==
    tracking => /\ 0 <= cursor[1] /\ cursor[1] <= drawn[1]
                /\ 0 <= cursor[2] /\ cursor[2] <= drawn[2]

\* When one of two dots of equal height leaves the image and the other stays
\* where it is, the middle between them stays, too, if the order is still
\* that from left to right.
LeavesBehind(i, j) ==
    /\ Seen(dot) = {i, j} /\ Seen(dot') = {i}
    /\ dot'[i].at = dot[i].at
    /\ dot[i].at[2] = dot[j].at[2]
    /\ {dot[i].order, dot[j].order} = {1, 2}
    /\ dot[i].at[1] >= 0 /\ dot[j].at[1] >= 0
    /\ dot[i].order < dot[j].order <=> dot[i].at[1] < dot[j].at[1]

LostDotKeepsMiddle ==
    [][\A i \in Seen(dot) : \A j \in Seen(dot) \ {i} :
          LeavesBehind(i, j) => middle' = middle]_vars
=============================================================================
