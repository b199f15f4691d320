------------------------------- MODULE Reports -------------------------------
(***************************************************************************)
(* What the application learns of one remote from its reports: buttons     *)
(* and their edges (wiiuse_pressed_buttons), the data of accelerometer,    *)
(* camera and expansion, the decision whether a report is an event         *)
(* (save_state, state_changed), and the callback of wiiuse_update.         *)
(*                                                                         *)
(* A step is one call of wiiuse_update, with the callback it makes, or one *)
(* call of the application.  One button set, one axis and one IR position  *)
(* stand for those of the remote, one "PAD", which has buttons and an      *)
(* angle, for the expansions with buttons, and one sensor for those of a   *)
(* balance board.  The joysticks and accelerometer of an expansion, saved  *)
(* and compared by every report as the remote's accelerometer is, are left *)
(* out.                                                                    *)
(***************************************************************************)
EXTENDS Integers

CONSTANTS
    Buttons,         \* of the remote
    PadButtons,      \* of the pad
    Expansions,      \* what may be plugged in
    Accels,          \* raw readings of an axis, 0 at rest
    OneG,            \* the reading of 1 g: beyond it no angle is computed
    AngleStep,       \* degrees for one unit of the reading
    AccelThreshold,  \* wm->accel_threshold
    OrientThreshold, \* wm->orient_threshold, which a nunchuk copies; with a
                     \* threshold of 0 every report is an event
    Tilts,           \* angles of the pad, 0 before its first report
    Loads,           \* raw readings of the board's sensor
    RawPerKilo,      \* of these, how many make a kilogram
    Spots            \* what the camera may see

ASSUME ReportsAssumption ==
    /\ Buttons \cap PadButtons = {}
    /\ Expansions \subseteq {"PAD", "BOARD"}
    /\ Accels \subseteq Nat /\ 0 \in Accels
    /\ OneG \in Nat
    /\ AngleStep \in Nat
    /\ AccelThreshold \in Nat \ {0}
    /\ OrientThreshold \in Nat \ {0}
    /\ Tilts \subseteq Nat /\ 0 \in Tilts
    /\ Loads \subseteq Nat /\ 0 \in Loads
    /\ RawPerKilo \in Nat \ {0}
    /\ Spots # {}

VARIABLES
    wm,         \* the flags, and exp.type
    now,        \* the data of the last report
    lastAngle,  \* lstate.orient and
    lastTilt,   \* lstate.exp_orient; every report sets the rest of lstate
    event,      \* wm->event
    remote,     \* the format of reports asked for, and that of the next one
    pressed,    \* the application: buttons it has seen pressed, not released
    lost,       \* history: buttons that have changed in a step that did not
                \* tell the application, of which no edge has come since
    still       \* history: reports in a row that changed no data, up to 3

vars == <<wm, now, lastAngle, lastTilt, event, remote, pressed, lost, still>>

\* exp.type
Kinds == Expansions \cup {"NONE"}

Wm == [conn : BOOLEAN, acc : BOOLEAN, ir : BOOLEAN, exp : BOOLEAN,
       kind : Kinds, thresh : BOOLEAN]

\* A format is the set of what its reports hold; with none of it the remote
\* sends status reports only.
Formats == SUBSET {"BTN", "ACC", "IR", "EXP"}
Silent == {}

Events == {"NONE", "EVENT", "STATUS", "READ_DATA", "DISCONNECT", "INSERTED",
           "REMOVED"}

\* btns, btns_held and btns_released.
KeysOf(B) == [down : SUBSET B, held : SUBSET B, released : SUBSET B]
NoKeys == [down |-> {}, held |-> {}, released |-> {}]

-----------------------------------------------------------------------------
(* Data                                                                    *)

\* wiiuse_pressed_buttons() and its copies for the expansions.
Keys(keys, down) ==
    [down |-> down, held |-> down \cap keys.down, released |-> keys.down \ down]

\* Planted bug: an angle is computed from any reading.
BugAim(accel) == AngleStep * accel

\* orient.a_roll and a_pitch: a reading beyond 1 g leaves them as they are.
Aim(accel) == IF accel > OneG THEN now.aim ELSE AngleStep * accel

\* orient.roll: the aim; with WIIUSE_SMOOTHING an angle between the aim and
\* the last smoothed one (st_roll), which may be older than the last one.
Angle == 0 .. AngleStep * OneG

Diff(a, b) == IF a < b THEN b - a ELSE a - b

\* CROSS_THRESH and CROSS_THRESH_XYZ: with WIIUSE_ORIENT_THRESH a difference
\* counts from the threshold on, without it every one does.
Crosses(last, new, threshold) ==
    IF wm.thresh THEN Diff(last, new) >= threshold ELSE last # new

\* do_interpolate(): what a sensor of the board weighs, with one slope for the
\* two of its calibration.
Weight(load) == load \div RawPerKilo

\* Without an expansion the camera's data comes with the accelerometer only.
ReportFormat(w) ==
    {"BTN"} \cup (IF w.acc \/ (w.ir /\ ~w.exp) THEN {"ACC"} ELSE {})
            \cup (IF w.ir THEN {"IR"} ELSE {})
            \cup (IF w.exp THEN {"EXP"} ELSE {})

\* wiiuse_set_report_type()
Ask(w) ==
    remote' = IF w.conn THEN [remote EXCEPT !.asked = ReportFormat(w)] ELSE remote

-----------------------------------------------------------------------------
(* Events                                                                  *)

\* The tests of state_changed(), in its order; new is the data after the
\* report, now that before it, which save_state() has kept.
SpotMoved(new)  == wm.ir /\ new.spot # now.spot
AccelMoved(new) == wm.acc /\ Crosses(now.accel, new.accel, AccelThreshold)
AngleMoved(new) == wm.acc /\ Crosses(lastAngle, new.angle, OrientThreshold)
PressedPad(new) == wm.kind = "PAD" /\ new.pad.down # now.pad.down
TiltMoved(new)  == wm.kind = "PAD" /\ Crosses(lastTilt, new.tilt, OrientThreshold)

\* What is saved of the board is the raw reading, what is compared the weight.
LoadMoved(new)  == wm.kind = "BOARD" /\ now.load # Weight(new.load)

PadChanged(new) == PressedPad(new) \/ TiltMoved(new) \/ LoadMoved(new)

\* Planted bug: only a press counts as a change.
BugCoreChanged(new) == ~ (new.core.down \subseteq now.core.down)
CoreChanged(new) == new.core.down # now.core.down

\* Planted bug: the angle an event was raised for is not kept.
BugKeepAngle(new) == UNCHANGED lastAngle

\* The first test that holds ends the function: an angle is kept only if
\* none of the tests before has raised the event.
KeepAngle(new) ==
    lastAngle' =
        IF wm.thresh /\ ~SpotMoved(new) /\ ~AccelMoved(new) /\ AngleMoved(new)
        THEN new.angle ELSE lastAngle

KeepTilt(new) ==
    lastTilt' =
        IF /\ wm.thresh /\ TiltMoved(new)
           /\ ~SpotMoved(new) /\ ~AccelMoved(new) /\ ~AngleMoved(new)
           /\ ~PressedPad(new)
        THEN new.tilt ELSE lastTilt

\* state_changed()
StateChanged(new) ==
    /\ event' = IF \/ SpotMoved(new) \/ AccelMoved(new) \/ AngleMoved(new)
                   \/ PadChanged(new) \/ CoreChanged(new)
                THEN "EVENT" ELSE "NONE"
    /\ KeepAngle(new)
    /\ KeepTilt(new)

\* IS_JUST_PRESSED and IS_RELEASED, as an application uses them.
Follow(held, keys) == (held \cup (keys.down \ keys.held)) \ keys.released
Edges(keys) == (keys.down \ keys.held) \cup keys.released

Toggled(old, new) == (new \ old) \cup (old \ new)
Changed(new) == Toggled(now.core.down, new.core.down)
                \cup Toggled(now.pad.down, new.pad.down)

\* The application's callback for the data new.  The pad's buttons are read
\* if exp.type says that there is one, and forgotten if an expansion comes or
\* goes; all buttons are if the remote goes.
Callback(new) ==
    \/ /\ event' = "DISCONNECT"
       /\ pressed' = {}
       /\ lost' = new.pad.down
    \/ /\ event' \in {"INSERTED", "REMOVED"}
       /\ pressed' = Follow(pressed \cap Buttons, new.core)
       /\ lost' = (lost \cup Changed(new)) \ (Edges(new.core) \cup PadButtons)
    \/ /\ event' \in {"EVENT", "STATUS", "READ_DATA"}
       /\ wm'.kind = "PAD"
       /\ pressed' = Follow(pressed \cap Buttons, new.core)
                     \cup Follow(pressed \cap PadButtons, new.pad)
       /\ lost' = (lost \cup Changed(new)) \ (Edges(new.core) \cup Edges(new.pad))
    \/ /\ event' \in {"EVENT", "STATUS", "READ_DATA"}
       /\ wm'.kind # "PAD"
       /\ pressed' = Follow(pressed \cap Buttons, new.core) \cup (pressed \cap PadButtons)
       /\ lost' = (lost \cup Changed(new)) \ Edges(new.core)

\* A step of which the application is not told.
Untold(new) ==
    /\ lost' = lost \cup Changed(new)
    /\ UNCHANGED pressed

\* wiiuse_update(), after a poll that has put the data through
\* state_changed().
Update(new) ==
    \/ /\ event' # "NONE"
       /\ Callback(new)
    \/ /\ event' = "NONE"
       /\ UNCHANGED <<pressed, lost>>

-----------------------------------------------------------------------------
(* Reports (propagate_event)                                               *)

Same(new) ==
    /\ new.core.down = now.core.down
    /\ new.pad.down = now.pad.down
    /\ new.accel = now.accel
    /\ new.angle = now.angle
    /\ new.spot = now.spot
    /\ new.tilt = now.tilt
    /\ new.load = now.load

Has(part) == part \in remote.format
HasExp(kind) == Has("EXP") /\ wm.kind = kind

\* The data after a report that has the buttons b, the reading a (whence the
\* angle t), the spot s, and of an expansion the buttons p, the angle r or
\* the load l.
Decoded(b, a, t, s, p, r, l) ==
    [core |-> Keys(now.core, b),
     accel |-> IF Has("ACC") THEN a ELSE now.accel,
     aim |-> IF Has("ACC") THEN Aim(a) ELSE now.aim,
     angle |-> IF Has("ACC") THEN t ELSE now.angle,
     spot |-> IF Has("IR") THEN s ELSE now.spot,
     pad |-> IF HasExp("PAD") THEN Keys(now.pad, p) ELSE now.pad,
     tilt |-> IF HasExp("PAD") THEN r ELSE now.tilt,
     load |-> IF HasExp("BOARD") THEN l ELSE now.load]

DataReport(new) ==
    /\ UNCHANGED <<wm, remote>>
    /\ now' = new
    /\ StateChanged(new)
    /\ Update(new)
    /\ still' = IF ~Same(new) THEN 0 ELSE IF still = 3 THEN 3 ELSE still + 1

\* The reports 0x30 to 0x37.
PollData ==
    /\ wm.conn
    /\ remote.format # Silent
    /\ \E b \in SUBSET Buttons,
          a \in IF Has("ACC") THEN Accels ELSE {0},
          t \in IF Has("ACC") THEN Angle ELSE {0},
          s \in IF Has("IR") THEN Spots ELSE {now.spot},
          p \in IF HasExp("PAD") THEN SUBSET PadButtons ELSE {{}},
          r \in IF HasExp("PAD") THEN Tilts ELSE {0},
          l \in IF HasExp("BOARD") THEN Loads ELSE {0} :
             DataReport(Decoded(b, a, t, s, p, r, l))

\* Buttons alone, in a report that is no "event".
Press(b) == [now EXCEPT !.core = Keys(now.core, b)]

\* A read report: buttons are taken, and the application is called only if
\* it is the last one of a read without callback.
PollRead ==
    /\ wm.conn
    /\ UNCHANGED <<wm, lastAngle, lastTilt, remote>>
    /\ \E b \in SUBSET Buttons :
          /\ now' = Press(b)
          /\ \/ event' = "READ_DATA" /\ Callback(now')
             \/ event' = "NONE" /\ Untold(now')
    /\ still' = 0

\* An acknowledgement: its buttons are not looked at, the change of state is.
PollAck ==
    /\ wm.conn
    /\ UNCHANGED <<wm, now, remote, still>>
    /\ StateChanged(now)
    /\ Update(now)

\* A status report, and no change of the expansion.
PollStatus ==
    /\ wm.conn
    /\ UNCHANGED <<wm, lastAngle, lastTilt>>
    /\ event' = "STATUS"
    /\ \E b \in SUBSET Buttons :
          now' = Press(b) /\ Callback(now')
    /\ Ask(wm)
    /\ still' = 0

\* Planted bug: the expansion's buttons are not reset.
BugPadReset(new) == new

\* nunchuk_handshake() and nunchuk_disconnected(), and their like: the former
\* leaves the angle as it is.
PadReset(new) == [new EXCEPT !.pad = NoKeys, !.load = 0]
PadResets(new) == {PadReset(new), [PadReset(new) EXCEPT !.tilt = 0]}

\* handshake_expansion() on the flags w and the data new: the expansion is
\* identified; or it is not, and exp.type is what it was before, or none if
\* a second attempt had to remove it first.  EXP is set in each case.
Inserts(w, new, ev) ==
    \/ /\ \E kind \in Expansions : wm' = [w EXCEPT !.exp = TRUE, !.kind = kind]
       /\ now' \in PadResets(new)
       /\ event' = "INSERTED"
    \/ /\ wm' = [w EXCEPT !.exp = TRUE]
       /\ now' = new
       /\ event' = ev
    \/ /\ wm' = [w EXCEPT !.exp = TRUE, !.kind = "NONE"]
       /\ now' \in PadResets(new)
       /\ event' = IF w.kind = "NONE" THEN ev ELSE "REMOVED"

\* A status report that says an expansion has come.  The remote is silent
\* until a report type is set.
PollInserted ==
    /\ wm.conn /\ ~wm.exp
    /\ \E b \in SUBSET Buttons : Inserts(wm, Press(b), "STATUS")
    /\ Callback(now')
    /\ remote' = [asked |-> ReportFormat(wm'), format |-> Silent]
    /\ still' = 0
    /\ UNCHANGED <<lastAngle, lastTilt>>

\* The read report for which nunchuk_handshake() has asked because the
\* calibration was invalid: EXP is set, so that the expansion is removed
\* before it is identified.
PollReread ==
    /\ wm.conn /\ wm.exp
    /\ \E b \in SUBSET Buttons : Inserts(wm, Press(b), "NONE")
    /\ event' \in {"INSERTED", "REMOVED"}
    /\ Callback(now')
    /\ Ask(wm')
    /\ still' = 0
    /\ UNCHANGED <<lastAngle, lastTilt>>

\* A status report that says the expansion has gone; only wiiuse_set_ir()
\* sets a report type then.
PollRemoved ==
    /\ wm.conn /\ wm.exp
    /\ wm' = [wm EXCEPT !.exp = FALSE, !.kind = "NONE"]
    /\ event' = IF wm.kind = "NONE" THEN "STATUS" ELSE "REMOVED"
    /\ \E b \in SUBSET Buttons : now' \in PadResets(Press(b))
    /\ Callback(now')
    /\ remote' = [asked |-> IF wm.ir THEN ReportFormat(wm') ELSE Silent,
                  format |-> Silent]
    /\ still' = 0
    /\ UNCHANGED <<lastAngle, lastTilt>>

\* No report, or an error of select(): every event is cleared, and
\* idle_cycle() may smooth the angle.
PollNothing ==
    /\ event' = "NONE"
    /\ \/ UNCHANGED <<now, still>>
       \/ /\ wm.conn /\ wm.acc
          /\ \E t \in Angle : now' = [now EXCEPT !.angle = t]
          /\ still' = 0
    /\ UNCHANGED <<wm, lastAngle, lastTilt, remote, pressed, lost>>

\* wiiuse_disconnected() clears the flags.
Gone(w) == [w EXCEPT !.conn = FALSE, !.acc = FALSE, !.ir = FALSE, !.exp = FALSE]

\* The link is lost: at once, with the event ev, or in a handler that has
\* removed or identified an expansion already, or does so from then on with
\* what it finds in its buffer.  Such a handler may leave EXP set.
LosesLink(core, ev) ==
    /\ \E exp \in BOOLEAN :
          \/ /\ wm' = [Gone(wm) EXCEPT !.exp = exp]
             /\ now' = [now EXCEPT !.core = core]
             /\ event' = ev
          \/ /\ \E kind \in Kinds : wm' = [Gone(wm) EXCEPT !.exp = exp, !.kind = kind]
             /\ \E data \in PadResets(now) : now' = [data EXCEPT !.core = core]
             /\ event' \in {ev, "INSERTED", "REMOVED"}
    /\ still' = 0
    /\ UNCHANGED <<lastAngle, lastTilt, remote>>

\* A loss that is told: it is met in wiiuse_update(), by the poll of the
\* remote, a handler, or the callback of a remote before it.
PollLost ==
    /\ wm.conn
    /\ LosesLink(NoKeys, "DISCONNECT")
    /\ Callback(now')

-----------------------------------------------------------------------------
(* The application and the remote                                          *)

\* A command cannot be sent.  Whatever the call was meant for, the next poll
\* clears the event, and the application is not told.
CommandFails ==
    /\ wm.conn
    /\ LosesLink(NoKeys, "DISCONNECT")
    /\ Untold(now')

\* wiiuse_connect() and, of a remote in any state, wiiuse_resync(): the
\* handshake ends with a status report and the insertion of an expansion
\* that is attached.  No callback tells of it, and the next poll clears the
\* event.  If none is attached, exp.type stays what it was.
Handshake(attached) ==
    LET w == [wm EXCEPT !.conn = TRUE, !.acc = FALSE, !.ir = FALSE, !.exp = FALSE]
    IN /\ \E b \in SUBSET Buttons :
             \/ attached /\ Inserts(w, Press(b), "STATUS")
             \/ ~attached /\ wm' = w /\ now' = Press(b) /\ event' = "STATUS"
       /\ \E format \in {{"BTN"}, ReportFormat(wm')} :
             remote' = [asked |-> ReportFormat(wm'), format |-> format]
       /\ Untold(now')
       /\ still' = 0
       /\ UNCHANGED <<lastAngle, lastTilt>>

\* The link breaks on the way, and the status, of which buttons are taken,
\* is that of a buffer without a report.
HandshakeFails ==
    \E b \in SUBSET Buttons, ev \in {"DISCONNECT", "STATUS"} :
       LosesLink(Keys(NoKeys, b), ev) /\ Untold(now')

\* wiiuse_motion_sensing(), which sets the flag of a remote that is not
\* connected, too.
MotionSensing(on) ==
    /\ wm' = [wm EXCEPT !.acc = on]
    /\ Ask(wm')
    /\ still' = 0
    /\ UNCHANGED <<now, lastAngle, lastTilt, event, pressed, lost>>

\* wiiuse_set_ir(); before the handshake the flag can only be set.
SetIr(on) ==
    /\ wm.ir # on
    /\ wm.conn \/ on
    /\ wm' = [wm EXCEPT !.ir = on]
    /\ Ask(wm')
    /\ still' = 0
    /\ UNCHANGED <<now, lastAngle, lastTilt, event, pressed, lost>>

\* wiiuse_set_flags(), WIIUSE_ORIENT_THRESH.
SetThresh(on) ==
    /\ wm' = [wm EXCEPT !.thresh = on]
    /\ still' = 0
    /\ UNCHANGED <<now, lastAngle, lastTilt, event, remote, pressed, lost>>

\* From now on reports have the format asked for; those before were on
\* their way.
Adopt ==
    /\ remote.format # remote.asked
    /\ remote' = [remote EXCEPT !.format = remote.asked]
    /\ UNCHANGED <<wm, now, lastAngle, lastTilt, event, pressed, lost, still>>

-----------------------------------------------------------------------------
Init ==
    /\ wm = [conn |-> FALSE, acc |-> FALSE, ir |-> FALSE, exp |-> FALSE,
             kind |-> "NONE", thresh |-> TRUE]
    /\ now \in [core : {NoKeys}, pad : {NoKeys}, accel : {0}, aim : {0},
                angle : {0}, spot : Spots, tilt : {0}, load : {0}]
    /\ lastAngle = 0
    /\ lastTilt = 0
    /\ event = "NONE"
    /\ remote = [asked |-> Silent, format |-> Silent]
    /\ pressed = {}
    /\ lost = {}
    /\ still = 0

Poll == \/ PollData \/ PollRead \/ PollAck \/ PollStatus \/ PollInserted
        \/ PollReread \/ PollRemoved \/ PollNothing \/ PollLost

Application ==
    \/ CommandFails
    \/ HandshakeFails
    \/ \E on \in BOOLEAN :
          Handshake(on) \/ MotionSensing(on) \/ SetIr(on) \/ SetThresh(on)

Next == Poll \/ Application \/ Adopt

Spec == Init /\ [][Next]_vars

-----------------------------------------------------------------------------
(* Properties                                                              *)

Data == [core : KeysOf(Buttons), pad : KeysOf(PadButtons), accel : Accels, aim : Angle,
         angle : Angle, spot : Spots, tilt : Tilts, load : Loads]

ReportsTypeOK ==
    /\ wm \in Wm
    /\ now \in Data
    /\ lastAngle \in Angle
    /\ lastTilt \in Tilts
    /\ event \in Events
    /\ remote \in [asked : Formats, format : Formats]
    /\ pressed \in SUBSET (Buttons \cup PadButtons)
    /\ lost \in SUBSET (Buttons \cup PadButtons)
    /\ still \in 0 .. 3

\* An application that follows the edges it is called with (IS_JUST_PRESSED,
\* IS_RELEASED) knows which buttons of the remote are down, through any mix
\* of reports, events that repeat old edges, losses and reconnections.  A
\* change that comes without a callback (in a read report, a handshake, or
\* with a loss that a command meets) misleads it about that button only, and
\* only until an edge of the button comes.
EdgesFollowButtons ==
    (pressed \cap Buttons) \ lost = now.core.down \ lost

\* The same for the buttons of an expansion, which its insertion and removal
\* reset.
EdgesFollowPad ==
    (pressed \cap PadButtons) \ lost = now.pad.down \ lost

\* With WIIUSE_ORIENT_THRESH a remote that lies still stops raising events,
\* alone or with an expansion that has buttons: of three reports without any
\* new data the last is none, even if earlier events have left lstate.orient
\* and lstate.exp_orient behind.  This is less than "differs significantly from
\* the previous" (line 989 of events.c) promises: a balance board with a load
\* goes on raising events, and so does any remote without the flag.
StillRemoteIsQuiet ==
    wm.thresh /\ wm.kind # "BOARD" /\ still = 3 => event # "EVENT"
=============================================================================
