----------------------------- MODULE MCReports -----------------------------
(* A small instance of Reports for TLC. *)
EXTENDS Reports, TLC

\* The IR positions are interchangeable.
SpotSymmetry == Permutations(Spots)

\* Buttons and angles meet in state_changed() only, where a press leaves an
\* angle unsaved, as the camera and the accelerometer do.  The run follows the
\* angles from a state in which no button is down, or the buttons with the
\* camera off, or the load of a board without either.
NoButtons == now.core = NoKeys /\ now.pad = NoKeys /\ pressed = {} /\ lost = {}
NoBoard == wm.kind # "BOARD"
NoAngles ==
    /\ now.accel = 0 /\ now.angle = 0 /\ now.tilt = 0
    /\ lastAngle = 0 /\ lastTilt = 0

OneAtATime ==
    \/ NoButtons /\ NoBoard /\ wm.thresh
    \/ NoAngles /\ NoBoard /\ wm.thresh /\ ~wm.ir
    \/ NoButtons /\ NoAngles /\ ~wm.ir
=============================================================================
