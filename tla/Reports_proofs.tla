---------------------------- MODULE Reports_proofs ----------------------------
(***************************************************************************)
(* Proofs about Reports, for any sets of buttons, expansions and readings  *)
(* and any thresholds.                                                     *)
(***************************************************************************)
EXTENDS Reports, TLAPS

\* A button that is down has not just been released.
Agree(keys) == keys.released \cap keys.down = {}
KeysAgree == Agree(now.core) /\ Agree(now.pad)

\* One report without new data is enough for lstate.orient to catch up, two
\* are for lstate.exp_orient, which is looked at later.
AngleCaughtUp ==
    wm.thresh /\ wm.acc /\ still >= 1 => Diff(lastAngle, now.angle) < OrientThreshold
TiltCaughtUp ==
    wm.thresh /\ wm.kind = "PAD" /\ still >= 2
        => Diff(lastTilt, now.tilt) < OrientThreshold

IInv == /\ ReportsTypeOK
        /\ KeysAgree
        /\ EdgesFollowButtons
        /\ EdgesFollowPad
        /\ AngleCaughtUp
        /\ TiltCaughtUp
        /\ StillRemoteIsQuiet

-----------------------------------------------------------------------------
(* Data                                                                    *)

LEMMA KeysAreKeys ==
  ASSUME NEW B, NEW k \in KeysOf(B), NEW d \in SUBSET B
  PROVE  Keys(k, d) \in KeysOf(B) /\ Agree(Keys(k, d))
BY DEF Keys, KeysOf, Agree

LEMMA NoKeysAreKeys ==
  ASSUME NEW B
  PROVE  NoKeys \in KeysOf(B) /\ Agree(NoKeys) /\ NoKeys.down = {}
BY DEF NoKeys, KeysOf, Agree

LEMMA Multiply ==
  ASSUME NEW s \in Nat, NEW x \in Nat, NEW y \in Nat, x <= y
  PROVE  /\ s * x \in Nat
         /\ s * y \in Nat
         /\ s * x <= s * y
<1>1. PICK z \in Nat : y = x + z
  <2>1. y - x \in Nat /\ y = x + (y - x)
    OBVIOUS
  <2> QED
    BY <2>1
<1>2. s * y = s * x + s * z
  BY <1>1
<1>3. s * x \in Nat /\ s * z \in Nat
  OBVIOUS
<1> QED
  BY <1>2, <1>3

\* An angle is computed inside the range of angles.
LEMMA AimIsAngle ==
  ASSUME ReportsTypeOK, NEW a \in Accels
  PROVE  Aim(a) \in Angle
<1> DEFINE top == AngleStep * OneG
           aimed == AngleStep * a
<1>1. /\ now.aim \in Angle
      /\ a \in Nat /\ OneG \in Nat /\ AngleStep \in Nat
  BY ReportsAssumption DEF ReportsTypeOK, Data
<1>2. CASE a <= OneG
  <2>1. aimed \in Nat /\ top \in Nat /\ aimed <= top
    BY <1>1, <1>2, Multiply
  <2>2. Aim(a) = aimed /\ Angle = 0 .. top
    BY <1>1, <1>2 DEF Aim, Angle
  <2> HIDE DEF top, aimed
  <2> QED
    BY <2>1, <2>2
<1>3. CASE ~(a <= OneG)
  BY <1>1, <1>3 DEF Aim
<1> QED
  BY <1>2, <1>3

LEMMA ZeroIsAngle == 0 \in Angle
<1>1. AngleStep * OneG \in Nat
  BY ReportsAssumption
<1> QED
  BY <1>1 DEF Angle

LEMMA CoreIsData ==
  ASSUME NEW new \in Data, NEW core \in KeysOf(Buttons)
  PROVE  LET data == [new EXCEPT !.core = core]
         IN data \in Data /\ data.core = core /\ data.pad = new.pad
BY DEF Data

LEMMA PressIsData ==
  ASSUME IInv, NEW b \in SUBSET Buttons
  PROVE  Press(b) \in Data /\ Agree(Press(b).core) /\ Agree(Press(b).pad)
<1>1. now \in Data /\ now.core \in KeysOf(Buttons) /\ Agree(now.pad)
  BY DEF IInv, ReportsTypeOK, Data, KeysAgree
<1>2. Keys(now.core, b) \in KeysOf(Buttons) /\ Agree(Keys(now.core, b))
  BY <1>1, KeysAreKeys
<1> QED
  BY <1>1, <1>2, CoreIsData DEF Press

LEMMA ResetIsData ==
  ASSUME NEW new \in Data, NEW data \in PadResets(new)
  PROVE  data \in Data /\ data.core = new.core /\ data.pad = NoKeys
<1>1. NoKeys \in KeysOf(PadButtons) /\ 0 \in Tilts /\ 0 \in Loads
  BY NoKeysAreKeys, ReportsAssumption
<1> QED
  BY <1>1 DEF PadResets, PadReset, Data

-----------------------------------------------------------------------------
(* The application                                                         *)

\* What the application has seen pressed, apart from what it has lost.
Follows(held, gone, down, B) == (held \cap B) \ gone = down \ gone

\* Following the edges of the new keys leads to their level, but for buttons
\* that changed when no edge was seen.
LEMMA FollowTracks ==
  ASSUME NEW B, NEW old \in SUBSET B, NEW keys \in KeysOf(B), Agree(keys),
         NEW held, NEW gone, Follows(held, gone, old, B),
         NEW gone2, NEW more,
         gone2 \cap B = ((gone \cup Toggled(old, keys.down)) \ Edges(keys)) \cap B,
         more \cap B = {}
  PROVE  /\ Follow(held \cap B, keys) \in SUBSET B
         /\ Follows(Follow(held \cap B, keys) \cup more, gone2, keys.down, B)
<1>1. keys.down \in SUBSET B /\ keys.released \in SUBSET B
  BY DEF KeysOf
<1> QED
  BY <1>1 DEF Follow, Follows, Edges, Toggled, Agree

\* Buttons whose edges are not looked at.
LEMMA IgnoreTracks ==
  ASSUME NEW B, NEW old \in SUBSET B, NEW down \in SUBSET B,
         NEW held, NEW gone, Follows(held, gone, old, B),
         NEW held2, held2 \cap B = held \cap B,
         NEW gone2, gone2 \cap B = (gone \cup Toggled(old, down)) \cap B
  PROVE  Follows(held2, gone2, down, B)
BY DEF Follows, Toggled

\* The properties in the next state.
Followed(new) ==
    /\ pressed' \in SUBSET (Buttons \cup PadButtons)
    /\ lost' \in SUBSET (Buttons \cup PadButtons)
    /\ Follows(pressed', lost', new.core.down, Buttons)
    /\ Follows(pressed', lost', new.pad.down, PadButtons)

LEMMA KnownBefore ==
  ASSUME IInv
  PROVE  /\ pressed \in SUBSET (Buttons \cup PadButtons)
         /\ lost \in SUBSET (Buttons \cup PadButtons)
         /\ now.core.down \in SUBSET Buttons
         /\ now.pad.down \in SUBSET PadButtons
         /\ Follows(pressed, lost, now.core.down, Buttons)
         /\ Follows(pressed, lost, now.pad.down, PadButtons)
BY DEF IInv, ReportsTypeOK, Data, KeysOf, EdgesFollowButtons, EdgesFollowPad, Follows

LEMMA UntoldFollows ==
  ASSUME IInv, NEW new \in Data, Untold(new)
  PROVE  Followed(new)
<1>1. /\ new.core.down \in SUBSET Buttons /\ new.pad.down \in SUBSET PadButtons
      /\ pressed' = pressed /\ lost' = lost \cup Changed(new)
      /\ Buttons \cap PadButtons = {}
  BY ReportsAssumption DEF Data, KeysOf, Untold
<1>2. /\ Toggled(now.core.down, new.core.down) \in SUBSET Buttons
      /\ Toggled(now.pad.down, new.pad.down) \in SUBSET PadButtons
  BY <1>1, KnownBefore DEF Toggled
<1>3. /\ lost' \cap Buttons = (lost \cup Toggled(now.core.down, new.core.down)) \cap Buttons
      /\ lost' \cap PadButtons
           = (lost \cup Toggled(now.pad.down, new.pad.down)) \cap PadButtons
      /\ lost' \in SUBSET (Buttons \cup PadButtons)
  BY <1>1, <1>2, KnownBefore DEF Changed
<1>4. Follows(pressed', lost', new.core.down, Buttons)
  BY <1>1, <1>3, KnownBefore, IgnoreTracks
<1>5. Follows(pressed', lost', new.pad.down, PadButtons)
  BY <1>1, <1>3, KnownBefore, IgnoreTracks
<1> QED
  BY <1>1, <1>3, <1>4, <1>5, KnownBefore DEF Followed

\* A callback after which the pad's keys are reset when an expansion comes or
\* goes, and the remote's when it goes.
Tells(new) ==
    /\ Callback(new)
    /\ event' \in {"INSERTED", "REMOVED"} => new.pad = NoKeys
    /\ event' = "DISCONNECT" => new.core = NoKeys

LEMMA CallbackFollows ==
  ASSUME IInv, NEW new \in Data, Agree(new.core), Agree(new.pad), Tells(new)
  PROVE  Followed(new)
<1> DEFINE core == Follow(pressed \cap Buttons, new.core)
           pad == Follow(pressed \cap PadButtons, new.pad)
<1>1. /\ new.core \in KeysOf(Buttons) /\ new.pad \in KeysOf(PadButtons)
      /\ Buttons \cap PadButtons = {}
  BY ReportsAssumption DEF Data
<1>2. /\ new.core.down \in SUBSET Buttons /\ new.pad.down \in SUBSET PadButtons
      /\ Edges(new.core) \in SUBSET Buttons /\ Edges(new.pad) \in SUBSET PadButtons
  BY <1>1 DEF KeysOf, Edges
<1>3. /\ Toggled(now.core.down, new.core.down) \in SUBSET Buttons
      /\ Toggled(now.pad.down, new.pad.down) \in SUBSET PadButtons
  BY <1>2, KnownBefore DEF Toggled
<1>4. \A more \in SUBSET PadButtons :
         /\ pressed' = core \cup more
         /\ lost' \cap Buttons
              = ((lost \cup Toggled(now.core.down, new.core.down)) \ Edges(new.core))
                  \cap Buttons
         => Follows(pressed', lost', new.core.down, Buttons)
  <2> SUFFICES ASSUME NEW more \in SUBSET PadButtons, pressed' = core \cup more,
                      lost' \cap Buttons
                        = ((lost \cup Toggled(now.core.down, new.core.down))
                             \ Edges(new.core)) \cap Buttons
               PROVE  Follows(pressed', lost', new.core.down, Buttons)
    OBVIOUS
  <2>1. more \cap Buttons = {}
    BY <1>1
  <2> QED
    BY <1>1, <2>1, KnownBefore, FollowTracks
<1>5. core \in SUBSET Buttons /\ pad \in SUBSET PadButtons
  BY <1>1 DEF KeysOf, Follow
<1>6. CASE event' = "DISCONNECT"
  <2>1. pressed' = {} /\ lost' = new.pad.down /\ new.core.down = {}
    BY <1>6, NoKeysAreKeys DEF Tells, Callback
  <2> QED
    BY <1>2, <2>1 DEF Followed, Follows
<1>7. CASE event' \in {"INSERTED", "REMOVED"}
  <2>1. /\ pressed' = core
        /\ lost' = (lost \cup Changed(new)) \ (Edges(new.core) \cup PadButtons)
        /\ new.pad.down = {}
    BY <1>7, NoKeysAreKeys DEF Tells, Callback
  <2>2. lost' \cap Buttons
          = ((lost \cup Toggled(now.core.down, new.core.down)) \ Edges(new.core))
              \cap Buttons
    BY <1>1, <1>3, <2>1 DEF Changed
  <2>3. pressed' = core \cup {}
    BY <2>1
  <2>4. {} \in SUBSET PadButtons
    OBVIOUS
  <2>5. Follows(pressed', lost', new.core.down, Buttons)
    BY <1>4, <2>2, <2>3, <2>4
  <2>6. lost' \in SUBSET Buttons
    BY <1>3, <2>1, KnownBefore DEF Changed
  <2> HIDE DEF core
  <2>7. Follows(pressed', lost', new.pad.down, PadButtons)
    BY <1>1, <1>5, <2>1 DEF Follows
  <2> QED
    BY <1>5, <2>1, <2>5, <2>6, <2>7 DEF Followed
<1>8. CASE event' \in {"EVENT", "STATUS", "READ_DATA"} /\ wm'.kind = "PAD"
  <2>1. /\ pressed' = core \cup pad
        /\ lost' = (lost \cup Changed(new)) \ (Edges(new.core) \cup Edges(new.pad))
    BY <1>8 DEF Tells, Callback
  <2>2. lost' \cap Buttons
          = ((lost \cup Toggled(now.core.down, new.core.down)) \ Edges(new.core))
              \cap Buttons
    BY <1>1, <1>2, <1>3, <2>1 DEF Changed
  <2>3. lost' \cap PadButtons
          = ((lost \cup Toggled(now.pad.down, new.pad.down)) \ Edges(new.pad))
              \cap PadButtons
    BY <1>1, <1>2, <1>3, <2>1 DEF Changed
  <2>4. Follows(pressed', lost', new.core.down, Buttons)
    BY <1>4, <1>5, <2>1, <2>2
  <2>5. Follows(pressed', lost', new.pad.down, PadButtons)
    <3>1. core \cap PadButtons = {} /\ pressed' = pad \cup core
      BY <1>1, <1>5, <2>1
    <3> HIDE DEF core
    <3> QED
      BY <1>1, <2>3, <3>1, KnownBefore, FollowTracks
  <2>6. lost' \in SUBSET (Buttons \cup PadButtons)
    BY <1>3, <2>1, KnownBefore DEF Changed
  <2> QED
    BY <1>5, <2>1, <2>4, <2>5, <2>6 DEF Followed
<1>9. CASE event' \in {"EVENT", "STATUS", "READ_DATA"} /\ wm'.kind # "PAD"
  <2>1. /\ pressed' = core \cup (pressed \cap PadButtons)
        /\ lost' = (lost \cup Changed(new)) \ Edges(new.core)
    BY <1>9 DEF Tells, Callback
  <2>2. lost' \cap Buttons
          = ((lost \cup Toggled(now.core.down, new.core.down)) \ Edges(new.core))
              \cap Buttons
    BY <1>1, <1>3, <2>1 DEF Changed
  <2>3. lost' \cap PadButtons
          = (lost \cup Toggled(now.pad.down, new.pad.down)) \cap PadButtons
    BY <1>1, <1>2, <1>3, <2>1 DEF Changed
  <2>4. pressed \cap PadButtons \in SUBSET PadButtons
    OBVIOUS
  <2>5. Follows(pressed', lost', new.core.down, Buttons)
    BY <1>4, <2>1, <2>2, <2>4
  <2> HIDE DEF core
  <2>6. pressed' \cap PadButtons = pressed \cap PadButtons
    BY <1>1, <1>5, <2>1
  <2>7. Follows(pressed', lost', new.pad.down, PadButtons)
    BY <1>2, <2>3, <2>6, KnownBefore, IgnoreTracks
  <2>8. lost' \in SUBSET (Buttons \cup PadButtons)
    BY <1>3, <2>1, KnownBefore DEF Changed
  <2> QED
    BY <1>5, <2>1, <2>5, <2>7, <2>8 DEF Followed
<1> QED
  BY <1>6, <1>7, <1>8, <1>9 DEF Tells, Callback

-----------------------------------------------------------------------------
(* The steps                                                               *)

LEMMA InitOK == Init => IInv
<1> SUFFICES ASSUME Init PROVE IInv
  OBVIOUS
<1>1. /\ now.core = NoKeys /\ now.pad = NoKeys
      /\ now.accel = 0 /\ now.aim = 0 /\ now.angle = 0 /\ now.spot \in Spots
      /\ now.tilt = 0 /\ now.load = 0
      /\ now = [core |-> now.core, pad |-> now.pad, accel |-> now.accel,
                aim |-> now.aim, angle |-> now.angle, spot |-> now.spot,
                tilt |-> now.tilt, load |-> now.load]
  BY DEF Init
<1>2. now \in Data
  BY <1>1, NoKeysAreKeys, ZeroIsAngle, ReportsAssumption DEF Data
<1>3. ReportsTypeOK
  BY <1>2, ZeroIsAngle, ReportsAssumption
     DEF Init, ReportsTypeOK, Wm, Kinds, Events, Formats, Silent
<1>4. KeysAgree
  BY <1>1, NoKeysAreKeys DEF KeysAgree
<1>5. EdgesFollowButtons /\ EdgesFollowPad
  BY <1>1, NoKeysAreKeys DEF Init, EdgesFollowButtons, EdgesFollowPad
<1>6. AngleCaughtUp /\ TiltCaughtUp /\ StillRemoteIsQuiet
  BY DEF Init, AngleCaughtUp, TiltCaughtUp, StillRemoteIsQuiet
<1> QED
  BY <1>3, <1>4, <1>5, <1>6 DEF IInv

\* All steps that bring new data and no decision about it.
LEMMA MovingKeeps ==
  ASSUME IInv, wm' \in Wm, now' \in Data, Agree(now.core'), Agree(now.pad'),
         event' \in Events, remote' \in [asked : Formats, format : Formats],
         still' = 0, lastAngle' = lastAngle, lastTilt' = lastTilt,
         Tells(now') \/ Untold(now')
  PROVE  IInv'
<1>1. Followed(now')
  BY CallbackFollows, UntoldFollows
<1>2. ReportsTypeOK'
  BY <1>1 DEF IInv, ReportsTypeOK, Followed
<1>3. KeysAgree'
  BY DEF KeysAgree
<1>4. EdgesFollowButtons' /\ EdgesFollowPad'
  BY <1>1 DEF Followed, Follows, EdgesFollowButtons, EdgesFollowPad
<1>5. AngleCaughtUp' /\ TiltCaughtUp' /\ StillRemoteIsQuiet'
  BY DEF AngleCaughtUp, TiltCaughtUp, StillRemoteIsQuiet
<1> QED
  BY <1>2, <1>3, <1>4, <1>5 DEF IInv

LEMMA FormatsAreFormats ==
  ASSUME NEW w
  PROVE  ReportFormat(w) \in Formats /\ Silent \in Formats /\ {"BTN"} \in Formats
BY DEF ReportFormat, Silent, Formats

LEMMA AskIsFormat ==
  ASSUME IInv, NEW w, Ask(w)
  PROVE  remote' \in [asked : Formats, format : Formats]
<1>1. ReportFormat(w) \in Formats /\ remote \in [asked : Formats, format : Formats]
  BY FormatsAreFormats DEF IInv, ReportsTypeOK
<1> QED
  BY <1>1 DEF Ask

LEMMA InsertsOK ==
  ASSUME NEW w \in Wm, NEW new \in Data, Agree(new.core), Agree(new.pad),
         NEW ev \in {"STATUS", "NONE"}, Inserts(w, new, ev)
  PROVE  /\ wm' \in Wm /\ now' \in Data
         /\ Agree(now.core') /\ Agree(now.pad')
         /\ event' \in {"STATUS", "NONE", "INSERTED", "REMOVED"}
         /\ event' \in {"INSERTED", "REMOVED"} => now'.pad = NoKeys
<1>1. \A data \in PadResets(new) :
        data \in Data /\ data.core = new.core /\ data.pad = NoKeys
  BY ResetIsData
<1>2. CASE /\ \E kind \in Expansions : wm' = [w EXCEPT !.exp = TRUE, !.kind = kind]
           /\ now' \in PadResets(new)
           /\ event' = "INSERTED"
  BY <1>1, <1>2, NoKeysAreKeys DEF Wm, Kinds
<1>3. CASE wm' = [w EXCEPT !.exp = TRUE] /\ now' = new /\ event' = ev
  BY <1>3 DEF Wm
<1>4. CASE /\ wm' = [w EXCEPT !.exp = TRUE, !.kind = "NONE"]
           /\ now' \in PadResets(new)
           /\ event' = IF w.kind = "NONE" THEN ev ELSE "REMOVED"
  BY <1>1, <1>4, NoKeysAreKeys DEF Wm, Kinds
<1> QED
  BY <1>2, <1>3, <1>4 DEF Inserts

LEMMA LosesOK ==
  ASSUME IInv, NEW core \in KeysOf(Buttons), Agree(core),
         NEW ev \in {"DISCONNECT", "STATUS"}, LosesLink(core, ev)
  PROVE  /\ wm' \in Wm /\ now' \in Data
         /\ Agree(now.core') /\ Agree(now.pad') /\ now'.core = core
         /\ event' \in {ev, "INSERTED", "REMOVED"}
         /\ event' \in {"INSERTED", "REMOVED"} => now'.pad = NoKeys
         /\ remote' \in [asked : Formats, format : Formats]
         /\ still' = 0 /\ lastAngle' = lastAngle /\ lastTilt' = lastTilt
<1>1. /\ wm \in Wm /\ now \in Data /\ Agree(now.pad)
      /\ remote \in [asked : Formats, format : Formats]
  BY DEF IInv, ReportsTypeOK, KeysAgree
<1>2. /\ still' = 0 /\ lastAngle' = lastAngle /\ lastTilt' = lastTilt
      /\ remote' = remote
  BY DEF LosesLink
<1>3. /\ \A exp \in BOOLEAN : [Gone(wm) EXCEPT !.exp = exp] \in Wm
      /\ \A exp \in BOOLEAN, kind \in Kinds :
            [Gone(wm) EXCEPT !.exp = exp, !.kind = kind] \in Wm
  BY <1>1 DEF Wm, Gone
<1>4. PICK exp \in BOOLEAN :
         \/ /\ wm' = [Gone(wm) EXCEPT !.exp = exp]
            /\ now' = [now EXCEPT !.core = core]
            /\ event' = ev
         \/ /\ \E kind \in Kinds : wm' = [Gone(wm) EXCEPT !.exp = exp, !.kind = kind]
            /\ \E data \in PadResets(now) : now' = [data EXCEPT !.core = core]
            /\ event' \in {ev, "INSERTED", "REMOVED"}
  BY DEF LosesLink
<1>5. CASE /\ wm' = [Gone(wm) EXCEPT !.exp = exp]
           /\ now' = [now EXCEPT !.core = core]
           /\ event' = ev
  <2>1. now' \in Data /\ now'.core = core /\ now'.pad = now.pad
    BY <1>1, <1>5, CoreIsData
  <2>2. wm' \in Wm
    BY <1>3, <1>5
  <2>3. Agree(now.core') /\ Agree(now.pad')
    BY <1>1, <2>1
  <2>4. event' = ev /\ ~(ev \in {"INSERTED", "REMOVED"})
    BY <1>5
  <2>5. remote' \in [asked : Formats, format : Formats]
    BY <1>1, <1>2
  <2> QED
    BY <1>2, <2>1, <2>2, <2>3, <2>4, <2>5
<1>6. CASE /\ \E kind \in Kinds : wm' = [Gone(wm) EXCEPT !.exp = exp, !.kind = kind]
           /\ \E data \in PadResets(now) : now' = [data EXCEPT !.core = core]
           /\ event' \in {ev, "INSERTED", "REMOVED"}
  <2>1. PICK data \in PadResets(now) : now' = [data EXCEPT !.core = core]
    BY <1>6
  <2>2. data \in Data /\ data.pad = NoKeys
    BY <1>1, ResetIsData
  <2>3. now' \in Data /\ now'.core = core /\ now'.pad = NoKeys
    BY <2>1, <2>2, CoreIsData
  <2>4. wm' \in Wm
    BY <1>3, <1>6
  <2>5. Agree(now.core') /\ Agree(now.pad')
    BY <2>3, NoKeysAreKeys
  <2>6. event' \in {ev, "INSERTED", "REMOVED"}
    BY <1>6
  <2>7. remote' \in [asked : Formats, format : Formats]
    BY <1>1, <1>2
  <2> QED
    BY <1>2, <2>3, <2>4, <2>5, <2>6, <2>7
<1> QED
  BY <1>4, <1>5, <1>6

\* What state_changed() decides, for the parts the invariants speak of.
LEMMA StateChangedDecides ==
  ASSUME IInv, NEW new \in Data, StateChanged(new)
  PROVE  /\ event' \in {"NONE", "EVENT"}
         /\ lastAngle' \in Angle
         /\ lastTilt' \in Tilts
         /\ event' = "NONE" => /\ new.core.down = now.core.down
                               /\ wm.kind = "PAD" => new.pad.down = now.pad.down
<1>1. event' \in {"NONE", "EVENT"} /\ (event' = "NONE" => ~CoreChanged(new)
                                            /\ ~PressedPad(new))
  BY DEF StateChanged, PadChanged
<1>2. lastAngle' \in Angle /\ lastTilt' \in Tilts
  BY DEF StateChanged, KeepAngle, KeepTilt, IInv, ReportsTypeOK, Data
<1> QED
  BY <1>1, <1>2 DEF CoreChanged, PressedPad

\* After a report without new data lstate.orient has caught up; if it had
\* before, lstate.exp_orient has too; and if both had, the report is no event.
LEMMA SameIsQuiet ==
  ASSUME IInv, NEW new \in Data, StateChanged(new), Same(new), wm.thresh
  PROVE  /\ wm.acc => Diff(lastAngle', new.angle) < OrientThreshold
         /\ wm.kind = "PAD" /\ still >= 1 => Diff(lastTilt', new.tilt) < OrientThreshold
         /\ wm.kind # "BOARD" /\ still >= 2 => event' = "NONE"
<1> DEFINE late == Diff(lastAngle, now.angle) >= OrientThreshold
           lateTilt == Diff(lastTilt, now.tilt) >= OrientThreshold
<1>1. /\ now.accel \in Nat /\ now.angle \in Int /\ lastAngle \in Int
      /\ now.tilt \in Int /\ lastTilt \in Int /\ still \in Int
      /\ AccelThreshold \in Nat \ {0} /\ OrientThreshold \in Nat \ {0}
      /\ new.angle = now.angle /\ new.accel = now.accel /\ new.tilt = now.tilt
  <2>1. /\ now.accel \in Accels /\ now.angle \in Angle /\ lastAngle \in Angle
        /\ now.tilt \in Tilts /\ lastTilt \in Tilts /\ still \in 0 .. 3
    BY DEF IInv, ReportsTypeOK, Data
  <2>2. AngleStep * OneG \in Nat
    BY ReportsAssumption
  <2>3. now.angle \in Int /\ lastAngle \in Int
    BY <2>1, <2>2 DEF Angle
  <2>4. now.accel \in Nat /\ now.tilt \in Nat /\ lastTilt \in Nat
    <3>1. Accels \subseteq Nat /\ Tilts \subseteq Nat
      BY ReportsAssumption
    <3> QED
      BY <2>1, <3>1
  <2>5. still \in Int
    BY <2>1
  <2>6. new.angle = now.angle /\ new.accel = now.accel /\ new.tilt = now.tilt
    BY DEF Same
  <2> QED
    BY <2>3, <2>4, <2>5, <2>6, ReportsAssumption
<1>2. ~SpotMoved(new) /\ ~PressedPad(new) /\ ~CoreChanged(new)
  BY DEF Same, SpotMoved, PressedPad, CoreChanged
<1>3. ~AccelMoved(new)
  <2>1. Diff(now.accel, new.accel) = 0
    BY <1>1 DEF Diff
  <2> QED
    BY <1>1, <2>1 DEF AccelMoved, Crosses
<1>4. /\ AngleMoved(new) <=> wm.acc /\ late
      /\ TiltMoved(new) <=> wm.kind = "PAD" /\ lateTilt
  BY <1>1 DEF AngleMoved, TiltMoved, Crosses
<1>5. /\ lastAngle' = IF AngleMoved(new) THEN now.angle ELSE lastAngle
      /\ lastTilt' = IF TiltMoved(new) /\ ~AngleMoved(new) THEN now.tilt ELSE lastTilt
  BY <1>1, <1>2, <1>3 DEF StateChanged, KeepAngle, KeepTilt
<1>6. ~AngleMoved(new) /\ ~TiltMoved(new) /\ ~LoadMoved(new) => event' = "NONE"
  BY <1>2, <1>3 DEF StateChanged, PadChanged
<1>7. /\ Diff(now.angle, now.angle) = 0 /\ Diff(lastAngle, now.angle) \in Int
      /\ Diff(now.tilt, now.tilt) = 0 /\ Diff(lastTilt, now.tilt) \in Int
  BY <1>1 DEF Diff
<1>8. /\ wm.acc /\ still >= 1 => Diff(lastAngle, now.angle) < OrientThreshold
      /\ wm.kind = "PAD" /\ still >= 2 => Diff(lastTilt, now.tilt) < OrientThreshold
  BY DEF IInv, AngleCaughtUp, TiltCaughtUp
<1>9. /\ ~late => Diff(lastAngle, now.angle) < OrientThreshold
      /\ ~lateTilt => Diff(lastTilt, now.tilt) < OrientThreshold
      /\ Diff(lastAngle, now.angle) < OrientThreshold => ~late
      /\ Diff(lastTilt, now.tilt) < OrientThreshold => ~lateTilt
      /\ 0 < OrientThreshold
      /\ still >= 2 => still >= 1
  BY <1>1, <1>7
<1> HIDE DEF late, lateTilt
<1>10. wm.acc => Diff(lastAngle', new.angle) < OrientThreshold
  <2>1. CASE AngleMoved(new)
    BY <1>1, <1>5, <1>7, <1>9, <2>1
  <2>2. CASE ~AngleMoved(new) /\ wm.acc
    BY <1>1, <1>4, <1>5, <1>9, <2>2
  <2> QED
    BY <2>1, <2>2
<1>11. still >= 1 => ~AngleMoved(new)
  BY <1>4, <1>8, <1>9
<1>12. wm.kind = "PAD" /\ still >= 1 => Diff(lastTilt', new.tilt) < OrientThreshold
  <2>1. CASE TiltMoved(new) /\ still >= 1
    BY <1>1, <1>5, <1>7, <1>9, <1>11, <2>1
  <2>2. CASE ~TiltMoved(new) /\ wm.kind = "PAD"
    BY <1>1, <1>4, <1>5, <1>9, <2>2
  <2> QED
    BY <2>1, <2>2
<1>13. wm.kind # "BOARD" /\ still >= 2 => event' = "NONE"
  <2> SUFFICES ASSUME wm.kind # "BOARD", still >= 2 PROVE event' = "NONE"
    OBVIOUS
  <2>1. ~AngleMoved(new)
    BY <1>9, <1>11
  <2>2. ~TiltMoved(new)
    BY <1>4, <1>8, <1>9
  <2>3. ~LoadMoved(new)
    BY DEF LoadMoved
  <2> QED
    BY <1>6, <2>1, <2>2, <2>3
<1> QED
  BY <1>10, <1>12, <1>13

\* Reports that go through state_changed().
LEMMA DecidedKeeps ==
  ASSUME IInv, NEW new \in Data, Agree(new.core), Agree(new.pad),
         now' = new, wm' = wm, remote' = remote, StateChanged(new), Update(new),
         wm.kind # "PAD" => new.pad = now.pad,
         still' \in 0 .. 3,
         still' # 0 => Same(new) /\ still + 1 >= still'
  PROVE  IInv'
<1>1. /\ event' \in {"NONE", "EVENT"} /\ lastAngle' \in Angle /\ lastTilt' \in Tilts
      /\ event' = "NONE" => /\ new.core.down = now.core.down
                            /\ new.pad.down = now.pad.down
  BY StateChangedDecides
<1>2. Followed(new)
  <2>1. CASE event' = "NONE"
    <3>1. pressed' = pressed /\ lost' = lost
      BY <2>1 DEF Update
    <3> QED
      BY <1>1, <2>1, <3>1, KnownBefore DEF Followed
  <2>2. CASE event' = "EVENT"
    <3>1. Tells(new)
      BY <2>2 DEF Update, Tells
    <3> QED
      BY <3>1, CallbackFollows
  <2> QED
    BY <1>1, <2>1, <2>2
<1>3. ReportsTypeOK'
  BY <1>1, <1>2 DEF IInv, ReportsTypeOK, Followed, Events
<1>4. KeysAgree'
  BY DEF KeysAgree
<1>5. EdgesFollowButtons' /\ EdgesFollowPad'
  BY <1>2 DEF Followed, Follows, EdgesFollowButtons, EdgesFollowPad
<1>6. AngleCaughtUp' /\ TiltCaughtUp' /\ StillRemoteIsQuiet'
  <2>1. CASE still' = 0
    BY <2>1 DEF AngleCaughtUp, TiltCaughtUp, StillRemoteIsQuiet
  <2>2. CASE ~wm.thresh
    BY <2>2 DEF AngleCaughtUp, TiltCaughtUp, StillRemoteIsQuiet
  <2>3. CASE still' # 0 /\ wm.thresh
    <3>1. /\ wm.acc => Diff(lastAngle', new.angle) < OrientThreshold
          /\ wm.kind = "PAD" /\ still >= 1 => Diff(lastTilt', new.tilt) < OrientThreshold
          /\ wm.kind # "BOARD" /\ still >= 2 => event' = "NONE"
      BY <2>3, SameIsQuiet
    <3>2. still \in Int /\ (still' >= 2 => still >= 1) /\ (still' = 3 => still >= 2)
      BY <2>3 DEF IInv, ReportsTypeOK
    <3>3. AngleCaughtUp'
      BY <3>1 DEF AngleCaughtUp, Diff
    <3>4. TiltCaughtUp'
      BY <3>1, <3>2 DEF TiltCaughtUp, Diff
    <3>5. StillRemoteIsQuiet'
      BY <3>1, <3>2 DEF StillRemoteIsQuiet
    <3> QED
      BY <3>3, <3>4, <3>5
  <2> QED
    BY <2>1, <2>2, <2>3
<1> QED
  BY <1>3, <1>4, <1>5, <1>6 DEF IInv

LEMMA DataKeeps ==
  ASSUME IInv, PollData
  PROVE  IInv'
<1>1. PICK b \in SUBSET Buttons,
           a \in IF Has("ACC") THEN Accels ELSE {0},
           t \in IF Has("ACC") THEN Angle ELSE {0},
           s \in IF Has("IR") THEN Spots ELSE {now.spot},
           p \in IF HasExp("PAD") THEN SUBSET PadButtons ELSE {{}},
           r \in IF HasExp("PAD") THEN Tilts ELSE {0},
           l \in IF HasExp("BOARD") THEN Loads ELSE {0} :
        DataReport(Decoded(b, a, t, s, p, r, l))
  BY DEF PollData
<1> DEFINE new == Decoded(b, a, t, s, p, r, l)
<1>2. now \in Data /\ now.core \in KeysOf(Buttons) /\ now.pad \in KeysOf(PadButtons)
  BY DEF IInv, ReportsTypeOK, Data
<1>3. Keys(now.core, b) \in KeysOf(Buttons) /\ Agree(Keys(now.core, b))
  BY <1>2, KeysAreKeys
<1>4. p \in SUBSET PadButtons
  OBVIOUS
<1>5. Keys(now.pad, p) \in KeysOf(PadButtons) /\ Agree(Keys(now.pad, p))
  BY <1>2, <1>4, KeysAreKeys
<1>6. Has("ACC") => a \in Accels /\ Aim(a) \in Angle /\ t \in Angle
  BY AimIsAngle DEF IInv
<1>7. /\ new.core = Keys(now.core, b)
      /\ new.pad = IF HasExp("PAD") THEN Keys(now.pad, p) ELSE now.pad
  BY DEF Decoded
<1>8. new \in Data
  <2>1. new.core \in KeysOf(Buttons) /\ new.pad \in KeysOf(PadButtons)
    BY <1>2, <1>3, <1>5, <1>7
  <2>2. /\ new.accel \in Accels /\ new.aim \in Angle /\ new.angle \in Angle
    BY <1>2, <1>6 DEF Decoded, Data
  <2>3. new.spot \in Spots /\ new.tilt \in Tilts /\ new.load \in Loads
    BY <1>2 DEF Decoded, Data
  <2>4. new = [core |-> new.core, accel |-> new.accel, aim |-> new.aim,
               angle |-> new.angle, spot |-> new.spot, pad |-> new.pad,
               tilt |-> new.tilt, load |-> new.load]
    BY DEF Decoded
  <2> HIDE DEF new
  <2> QED
    BY <2>1, <2>2, <2>3, <2>4 DEF Data
<1>9. Agree(new.core) /\ Agree(new.pad)
  BY <1>3, <1>5, <1>7 DEF IInv, KeysAgree
<1>10. wm.kind # "PAD" => new.pad = now.pad
  BY <1>7 DEF HasExp
<1> HIDE DEF new
<1>11. /\ now' = new /\ wm' = wm /\ remote' = remote
       /\ StateChanged(new) /\ Update(new)
       /\ still' = IF ~Same(new) THEN 0 ELSE IF still = 3 THEN 3 ELSE still + 1
  BY <1>1 DEF DataReport, new
<1>12. still \in 0 .. 3
  BY DEF IInv, ReportsTypeOK
<1>13. still' \in 0 .. 3 /\ (still' # 0 => Same(new) /\ still + 1 >= still')
  BY <1>11, <1>12
<1> QED
  BY <1>8, <1>9, <1>10, <1>11, <1>13, DecidedKeeps

LEMMA AckKeeps ==
  ASSUME IInv, PollAck
  PROVE  IInv'
<1>1. /\ now \in Data /\ Agree(now.core) /\ Agree(now.pad)
      /\ still \in 0 .. 3
  BY DEF IInv, ReportsTypeOK, KeysAgree
<1>2. /\ now' = now /\ wm' = wm /\ remote' = remote /\ still' = still
      /\ StateChanged(now) /\ Update(now)
  BY DEF PollAck
<1>3. Same(now)
  BY DEF Same
<1>4. still + 1 >= still'
  BY <1>1, <1>2
<1> QED
  BY <1>1, <1>2, <1>3, <1>4, DecidedKeeps

\* Reports of buttons that are no "event", with and without a callback.
LEMMA PressKeeps ==
  ASSUME IInv, PollRead \/ PollStatus
  PROVE  IInv'
<1>1. /\ still' = 0 /\ lastAngle' = lastAngle /\ lastTilt' = lastTilt
      /\ wm' = wm /\ wm \in Wm
      /\ event' \in {"NONE", "READ_DATA", "STATUS"}
  BY DEF IInv, ReportsTypeOK, PollRead, PollStatus
<1>2. remote' \in [asked : Formats, format : Formats]
  <2>1. CASE PollRead
    BY <2>1 DEF IInv, ReportsTypeOK, PollRead
  <2>2. CASE PollStatus
    BY <2>2, AskIsFormat DEF PollStatus
  <2> QED
    BY <2>1, <2>2
<1>3. PICK b \in SUBSET Buttons :
        now' = Press(b) /\ (Callback(now') \/ Untold(now'))
  BY DEF PollRead, PollStatus
<1>4. now' \in Data /\ Agree(now.core') /\ Agree(now.pad')
  BY <1>3, PressIsData
<1>5. Tells(now') \/ Untold(now')
  BY <1>1, <1>3 DEF Tells
<1>6. event' \in Events
  BY <1>1 DEF Events
<1> QED
  BY <1>1, <1>2, <1>4, <1>5, <1>6, MovingKeeps

LEMMA InsertedKeeps ==
  ASSUME IInv, PollInserted \/ PollReread
  PROVE  IInv'
<1>1. /\ still' = 0 /\ lastAngle' = lastAngle /\ lastTilt' = lastTilt
      /\ Callback(now') /\ wm \in Wm
  BY DEF IInv, ReportsTypeOK, PollInserted, PollReread
<1>2. PICK b \in SUBSET Buttons, ev \in {"STATUS", "NONE"} : Inserts(wm, Press(b), ev)
  BY DEF PollInserted, PollReread
<1>3. Press(b) \in Data /\ Agree(Press(b).core) /\ Agree(Press(b).pad)
  BY PressIsData
<1>4. /\ wm' \in Wm /\ now' \in Data
      /\ Agree(now.core') /\ Agree(now.pad')
      /\ event' \in {"STATUS", "NONE", "INSERTED", "REMOVED"}
      /\ event' \in {"INSERTED", "REMOVED"} => now'.pad = NoKeys
  BY <1>1, <1>2, <1>3, InsertsOK
<1>5. remote' \in [asked : Formats, format : Formats]
  <2>1. CASE PollInserted
    BY <2>1, FormatsAreFormats DEF PollInserted
  <2>2. CASE PollReread
    <3>1. Ask(wm')
      BY <2>2 DEF PollReread
    <3> QED
      BY <3>1, AskIsFormat
  <2> QED
    BY <2>1, <2>2
<1>6. Tells(now') /\ event' \in Events
  BY <1>1, <1>4 DEF Tells, Events
<1> QED
  BY <1>1, <1>4, <1>5, <1>6, MovingKeeps

LEMMA RemovedKeeps ==
  ASSUME IInv, PollRemoved
  PROVE  IInv'
<1>1. /\ still' = 0 /\ lastAngle' = lastAngle /\ lastTilt' = lastTilt
      /\ Callback(now') /\ event' \in {"STATUS", "REMOVED"}
      /\ wm' = [wm EXCEPT !.exp = FALSE, !.kind = "NONE"] /\ wm \in Wm
  BY DEF IInv, ReportsTypeOK, PollRemoved
<1>2. PICK b \in SUBSET Buttons : now' \in PadResets(Press(b))
  BY DEF PollRemoved
<1>3. Press(b) \in Data /\ Agree(Press(b).core)
  BY PressIsData
<1>4. now' \in Data /\ now'.core = Press(b).core /\ now'.pad = NoKeys
  BY <1>2, <1>3, ResetIsData
<1>5. wm' \in Wm /\ event' \in Events
  BY <1>1 DEF Wm, Kinds, Events
<1>6. remote' \in [asked : Formats, format : Formats]
  BY FormatsAreFormats DEF PollRemoved
<1>7. Tells(now')
  BY <1>1, <1>4 DEF Tells
<1> QED
  BY <1>1, <1>3, <1>4, <1>5, <1>6, <1>7, NoKeysAreKeys, MovingKeeps

\* A loss, told or not.
LEMMA LossKeeps ==
  ASSUME IInv, PollLost \/ CommandFails \/ HandshakeFails
  PROVE  IInv'
<1>1. CASE PollLost \/ CommandFails
  <2>1. LosesLink(NoKeys, "DISCONNECT") /\ (Callback(now') \/ Untold(now'))
    BY <1>1 DEF PollLost, CommandFails
  <2>2. NoKeys \in KeysOf(Buttons) /\ Agree(NoKeys)
    BY NoKeysAreKeys
  <2>3. /\ wm' \in Wm /\ now' \in Data
        /\ Agree(now.core') /\ Agree(now.pad') /\ now'.core = NoKeys
        /\ event' \in {"DISCONNECT", "INSERTED", "REMOVED"}
        /\ event' \in {"INSERTED", "REMOVED"} => now'.pad = NoKeys
        /\ remote' \in [asked : Formats, format : Formats]
        /\ still' = 0 /\ lastAngle' = lastAngle /\ lastTilt' = lastTilt
    BY <2>1, <2>2, LosesOK
  <2>4. (Tells(now') \/ Untold(now')) /\ event' \in Events
    BY <2>1, <2>3 DEF Tells, Events
  <2> QED
    BY <2>3, <2>4, MovingKeeps
<1>2. CASE HandshakeFails
  <2>1. PICK b \in SUBSET Buttons, ev \in {"DISCONNECT", "STATUS"} :
          LosesLink(Keys(NoKeys, b), ev) /\ Untold(now')
    BY <1>2 DEF HandshakeFails
  <2>2. Keys(NoKeys, b) \in KeysOf(Buttons) /\ Agree(Keys(NoKeys, b))
    BY NoKeysAreKeys, KeysAreKeys
  <2>3. /\ wm' \in Wm /\ now' \in Data
        /\ Agree(now.core') /\ Agree(now.pad')
        /\ event' \in {ev, "INSERTED", "REMOVED"}
        /\ remote' \in [asked : Formats, format : Formats]
        /\ still' = 0 /\ lastAngle' = lastAngle /\ lastTilt' = lastTilt
    BY <2>1, <2>2, LosesOK
  <2>4. event' \in Events
    BY <2>3 DEF Events
  <2> QED
    BY <2>1, <2>3, <2>4, MovingKeeps
<1> QED
  BY <1>1, <1>2

LEMMA HandshakeKeeps ==
  ASSUME IInv, NEW attached \in BOOLEAN, Handshake(attached)
  PROVE  IInv'
<1> DEFINE w == [wm EXCEPT !.conn = TRUE, !.acc = FALSE, !.ir = FALSE, !.exp = FALSE]
<1>1. PICK b \in SUBSET Buttons :
        \/ Inserts(w, Press(b), "STATUS")
        \/ wm' = w /\ now' = Press(b) /\ event' = "STATUS"
  BY DEF Handshake
<1>2. w \in Wm
  BY DEF IInv, ReportsTypeOK, Wm
<1>3. Press(b) \in Data /\ Agree(Press(b).core) /\ Agree(Press(b).pad)
  BY PressIsData
<1>4. /\ wm' \in Wm /\ now' \in Data
      /\ Agree(now.core') /\ Agree(now.pad')
      /\ event' \in Events
  <2> HIDE DEF w
  <2>1. CASE Inserts(w, Press(b), "STATUS")
    BY <1>2, <1>3, <2>1, InsertsOK DEF Events
  <2>2. CASE wm' = w /\ now' = Press(b) /\ event' = "STATUS"
    BY <1>2, <1>3, <2>2 DEF Events
  <2> QED
    BY <1>1, <2>1, <2>2
<1>5. remote' \in [asked : Formats, format : Formats]
  <2>1. PICK format \in {{"BTN"}, ReportFormat(wm')} :
          remote' = [asked |-> ReportFormat(wm'), format |-> format]
    BY DEF Handshake
  <2> QED
    BY <2>1, FormatsAreFormats
<1>6. /\ still' = 0 /\ lastAngle' = lastAngle /\ lastTilt' = lastTilt
      /\ Untold(now')
  BY DEF Handshake
<1> QED
  BY <1>4, <1>5, <1>6, MovingKeeps

\* Settings leave the data and the application alone.
LEMMA SettingKeeps ==
  ASSUME IInv, NEW on \in BOOLEAN, MotionSensing(on) \/ SetIr(on) \/ SetThresh(on)
  PROVE  IInv'
<1>1. /\ now' = now /\ lastAngle' = lastAngle /\ lastTilt' = lastTilt
      /\ event' = event /\ pressed' = pressed /\ lost' = lost /\ still' = 0
      /\ wm' \in {[wm EXCEPT !.acc = on], [wm EXCEPT !.ir = on],
                  [wm EXCEPT !.thresh = on]}
  BY DEF MotionSensing, SetIr, SetThresh
<1>2. wm' \in Wm
  BY <1>1 DEF IInv, ReportsTypeOK, Wm
<1>3. remote' \in [asked : Formats, format : Formats]
  <2>1. CASE SetThresh(on)
    BY <2>1 DEF IInv, ReportsTypeOK, SetThresh
  <2>2. CASE MotionSensing(on) \/ SetIr(on)
    <3>1. Ask(wm')
      BY <2>2 DEF MotionSensing, SetIr
    <3> QED
      BY <3>1, AskIsFormat
  <2> QED
    BY <2>1, <2>2
<1>4. ReportsTypeOK'
  BY <1>1, <1>2, <1>3 DEF IInv, ReportsTypeOK
<1>5. KeysAgree' /\ EdgesFollowButtons' /\ EdgesFollowPad'
  BY <1>1 DEF IInv, KeysAgree, EdgesFollowButtons, EdgesFollowPad
<1>6. AngleCaughtUp' /\ TiltCaughtUp' /\ StillRemoteIsQuiet'
  BY <1>1 DEF AngleCaughtUp, TiltCaughtUp, StillRemoteIsQuiet
<1> QED
  BY <1>4, <1>5, <1>6 DEF IInv

LEMMA QuietKeeps ==
  ASSUME IInv, PollNothing \/ Adopt \/ UNCHANGED vars
  PROVE  IInv'
<1>1. /\ wm' = wm /\ lastAngle' = lastAngle /\ lastTilt' = lastTilt
      /\ pressed' = pressed /\ lost' = lost /\ event' \in {event, "NONE"}
  BY DEF PollNothing, Adopt, vars
<1>2. remote' \in [asked : Formats, format : Formats]
  BY DEF IInv, ReportsTypeOK, PollNothing, Adopt, vars
<1>3. \/ now' = now /\ still' = still
      \/ /\ \E t \in Angle : now' = [now EXCEPT !.angle = t]
         /\ still' = 0
  BY DEF PollNothing, Adopt, vars
<1>4. now' \in Data /\ now'.core = now.core /\ now'.pad = now.pad /\ still' \in 0 .. 3
  BY <1>3 DEF IInv, ReportsTypeOK, Data
<1>5. ReportsTypeOK'
  BY <1>1, <1>2, <1>4 DEF IInv, ReportsTypeOK, Events
<1>6. KeysAgree' /\ EdgesFollowButtons' /\ EdgesFollowPad'
  BY <1>1, <1>4 DEF IInv, KeysAgree, EdgesFollowButtons, EdgesFollowPad
<1>7. AngleCaughtUp' /\ TiltCaughtUp' /\ StillRemoteIsQuiet'
  <2>1. CASE now' = now /\ still' = still
    BY <1>1, <2>1 DEF IInv, AngleCaughtUp, TiltCaughtUp, StillRemoteIsQuiet, Diff
  <2>2. CASE still' = 0
    BY <2>2 DEF AngleCaughtUp, TiltCaughtUp, StillRemoteIsQuiet
  <2> QED
    BY <1>3, <2>1, <2>2
<1> QED
  BY <1>5, <1>6, <1>7 DEF IInv

-----------------------------------------------------------------------------
(* The theorems                                                            *)

\* The inductive invariant: besides the properties themselves, what the
\* edges and the kept angles have in common at every step.
THEOREM ReportsInvariance == Spec => []IInv
<1>1. Init => IInv
  BY InitOK
<1>2. IInv /\ [Next]_vars => IInv'
  <2> SUFFICES ASSUME IInv, [Next]_vars PROVE IInv'
    OBVIOUS
  <2>1. CASE PollData
    BY <2>1, DataKeeps
  <2>2. CASE PollAck
    BY <2>2, AckKeeps
  <2>3. CASE PollRead \/ PollStatus
    BY <2>3, PressKeeps
  <2>4. CASE PollInserted \/ PollReread
    BY <2>4, InsertedKeeps
  <2>5. CASE PollRemoved
    BY <2>5, RemovedKeeps
  <2>6. CASE PollLost \/ CommandFails \/ HandshakeFails
    BY <2>6, LossKeeps
  <2>7. CASE \E on \in BOOLEAN : Handshake(on)
    BY <2>7, HandshakeKeeps
  <2>8. CASE \E on \in BOOLEAN : MotionSensing(on) \/ SetIr(on) \/ SetThresh(on)
    BY <2>8, SettingKeeps
  <2>9. CASE PollNothing \/ Adopt \/ UNCHANGED vars
    BY <2>9, QuietKeeps
  <2> QED
    BY <2>1, <2>2, <2>3, <2>4, <2>5, <2>6, <2>7, <2>8, <2>9
       DEF Next, Poll, Application
<1> QED
  BY <1>1, <1>2, PTL DEF Spec

\* Type correctness; every angle stays inside the range that 1 g allows.
THEOREM ReportsTypeCorrect == Spec => []ReportsTypeOK
<1>1. IInv => ReportsTypeOK
  BY DEF IInv
<1> QED
  BY <1>1, ReportsInvariance, PTL

\* An application that follows the edges knows the buttons of a remote, but
\* for those that have changed without a callback and of which no edge has
\* been told since.
THEOREM ButtonsAreFollowed == Spec => []EdgesFollowButtons
<1>1. IInv => EdgesFollowButtons
  BY DEF IInv
<1> QED
  BY <1>1, ReportsInvariance, PTL

\* It knows the buttons of an expansion, with the same exceptions.
THEOREM PadIsFollowed == Spec => []EdgesFollowPad
<1>1. IInv => EdgesFollowPad
  BY DEF IInv
<1> QED
  BY <1>1, ReportsInvariance, PTL

\* With WIIUSE_ORIENT_THRESH a remote that lies still, alone or with an
\* expansion with buttons, raises no events.
THEOREM StillnessIsQuiet == Spec => []StillRemoteIsQuiet
<1>1. IInv => StillRemoteIsQuiet
  BY DEF IInv
<1> QED
  BY <1>1, ReportsInvariance, PTL
===============================================================================
