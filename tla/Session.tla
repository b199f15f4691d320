------------------------------- MODULE Session -------------------------------
(***************************************************************************)
(* One remote between connection and loss: the handshake                   *)
(* (wiiuse_handshake), its status reports (event_status), the expansion in *)
(* its port (handshake_expansion, disable_expansion), the IR camera        *)
(* (wiiuse_set_ir) and the format of its reports (wiiuse_set_report_type). *)
(*                                                                         *)
(* These handlers block: they sleep, wait for reports, and read memory     *)
(* with wiiuse_read_data_sync.  A step ends where one of them blocks;      *)
(* expansions come and go, and the link breaks, between two steps.  A call *)
(* that only sends is one step.                                            *)
(*                                                                         *)
(* The remote has no Motion+ (wiiuse_probe_motion_plus finds none and      *)
(* wiiuse_set_motion_plus returns at its first test).                      *)
(***************************************************************************)
EXTENDS Integers, Sequences

CONSTANTS
    MaxTries,   \* attempts to read an expansion's identifier (10 in C)
    MaxStatus,  \* status requests of the handshake (3 in C)
    MaxReports, \* bound on the status reports not yet received
    Levels,     \* sensitivities of the IR camera (1 .. 5 in C)
    Default     \* the one of WIIMOTE_INIT_STATES (3 in C)

ASSUME SessionAssumption ==
    /\ Default \in Levels
    /\ MaxTries \in Nat \ {0}
    /\ MaxStatus \in Nat \ {0}
    /\ MaxReports \in Nat \ {0}

VARIABLES
    host,     \* wm: the state flags, exp.type, and whether a read with the
              \* callback handshake_expansion is queued ("retry")
    pc,       \* the handler in progress, and its local variables
    remote,   \* the remote: link, expansion, report format, IR camera
    reports,  \* status reports not yet received, by their attachment bit
    quiet     \* history: since the handshake began, no blocking read has
              \* dropped a status report, no wait has timed out, and no late
              \* answer has started the identification of an expansion

vars == <<host, pc, remote, reports, quiet>>

\* PAD stands for the expansions the library knows, OTHER for one it does
\* not; BAD is an identifier that is all zeros or ones.
Plugs == {"NONE", "PAD", "OTHER"}
Ids   == {"PAD", "OTHER", "BAD"}

Host == [conn : BOOLEAN, hs : BOOLEAN, complete : BOOLEAN, acc : BOOLEAN,
         ir : BOOLEAN, exp : BOOLEAN, type : {"NONE", "PAD"},
         retry : BOOLEAN, level : Levels]

Format == [acc : BOOLEAN, ir : BOOLEAN, exp : BOOLEAN]

\* silent: it sends status reports only.
Remote == [up : BOOLEAN, plug : Plugs, silent : BOOLEAN, format : Format,
           camera : {"OFF", "BASIC", "EXTENDED"}, level : Levels]

\* tries counts attempts, att is the attachment bit of the report in work,
\* id the identifier read last.
Steps == {"idle", "calibrate", "ask", "probe", "expand", "identify"}
Pc == [step : Steps, tries : {n \in Nat : n <= MaxTries \/ n <= MaxStatus},
       att : BOOLEAN, id : Ids]

NoPc == [step |-> "idle", tries |-> 0, att |-> FALSE, id |-> "BAD"]
At(step) == pc.step = step
Goto(step) == pc' = [NoPc EXCEPT !.step = step]

-----------------------------------------------------------------------------
(* Sending                                                                 *)

\* wiiuse_disconnected(): WIIMOTE_INIT_STATES.  exp.type is not reset.
Lost(h) == [conn |-> FALSE, hs |-> FALSE, complete |-> FALSE, acc |-> FALSE,
            ir |-> FALSE, exp |-> FALSE, type |-> h.type, retry |-> FALSE,
            level |-> Default]

\* A command that is sent only while connected; the command of a blocking
\* read is sent whatever the flags are.
AfterSend(h) == IF remote.up \/ ~h.conn THEN h ELSE Lost(h)
AfterRead(h) == IF remote.up THEN h ELSE Lost(h)

\* With the flags h, something is sent that makes r of the remote.
Sends(h, r) ==
    /\ host' = AfterSend(h)
    /\ remote' = IF remote.up THEN r ELSE remote

\* The report type for the flags; the camera's full data (IR without an
\* expansion) comes with the accelerometer only.
ReportFormat(h) == [acc |-> h.acc \/ (h.ir /\ ~h.exp), ir |-> h.ir, exp |-> h.exp]

\* wiiuse_set_report_type()
Reporting(h, r) == [r EXCEPT !.silent = FALSE, !.format = ReportFormat(h)]

CameraMode(h) == IF h.exp THEN "BASIC" ELSE "EXTENDED"

\* wiiuse_set_ir_mode()
Filming(h, r) == IF h.ir THEN [r EXCEPT !.camera = CameraMode(h)] ELSE r

\* How a handler ends that sets the camera and the report type.  (The
\* sensitivity that is written again is the same.)
Ends(h) == Sends(h, Reporting(h, Filming(h, remote))) /\ Goto("idle")

\* A blocking wait drops the reports that come before the answer, or times
\* out.
Drops(timeout) ==
    /\ reports' = <<>>
    /\ quiet' = (quiet /\ reports = <<>> /\ ~timeout)

-----------------------------------------------------------------------------
(* The handshake                                                           *)

\* Step 0 resets the flags and the report type.
Reset(h) == [h EXCEPT !.hs = TRUE, !.conn = TRUE, !.acc = FALSE,
                      !.ir = FALSE, !.exp = FALSE]

\* wiiuse_connect(), with whatever is in the port of the remote.  (The report
\* type it sets after the handshake is the one that event_status() has set
\* last, there with the same flags.)
Connect ==
    /\ At("idle")
    /\ ~host.conn
    /\ host' = Reset(host)
    /\ \E p \in Plugs :
          \E level \in Levels :
             remote' = [up |-> TRUE, plug |-> p, silent |-> FALSE, level |-> level,
                        format |-> ReportFormat(host'), camera |-> "OFF"]
    /\ reports' = <<>>
    /\ quiet' = TRUE
    /\ Goto("calibrate")

\* wiiuse_resync()
Resync ==
    /\ At("idle")
    /\ LET h == Reset(host) IN Sends(h, Reporting(h, remote))
    /\ quiet' = TRUE
    /\ Goto("calibrate")
    /\ UNCHANGED reports

\* Step 1 reads the calibration; step 2 begins.  (IR, which step 0 has
\* switched off, is never on here.)
Calibrate ==
    /\ At("calibrate")
    /\ host' = [AfterRead(host) EXCEPT !.complete = TRUE, !.hs = FALSE]
    /\ \E timeout \in BOOLEAN : Drops(timeout)
    /\ Goto("ask")
    /\ UNCHANGED remote

StatusBit == remote.plug # "NONE"

\* The answer to wiiuse_status(), if it is sent.
Asked == IF remote.up /\ host.conn THEN Append(reports, StatusBit) ELSE reports

AskAgain ==
    /\ pc.tries + 1 < MaxStatus
    /\ pc' = [pc EXCEPT !.tries = @ + 1]

\* Step 2 asks for a status report, and again if the one it gets has no bit
\* set (a LED is one, too).  An earlier report may be taken for the answer.
AskStatus ==
    /\ At("ask")
    /\ Asked # <<>>
    /\ host' = AfterSend(host)
    /\ reports' = Tail(Asked)
    /\ \/ pc' = [NoPc EXCEPT !.step = "probe", !.att = Head(Asked)]
       \/ ~Head(Asked) /\ AskAgain
    /\ UNCHANGED <<remote, quiet>>

\* No report in time, which counts as one: the buffer holds anything.  The
\* answer may come later, and recv() may notice that the link is dead.
AskTimeout ==
    /\ At("ask")
    /\ reports = <<>>
    /\ host' \in {AfterSend(host), AfterRead(host)}
    /\ quiet' = FALSE
    /\ reports' \in {<<>>, Asked}
    /\ \/ \E att \in BOOLEAN : pc' = [NoPc EXCEPT !.step = "probe", !.att = att]
       \/ AskAgain
    /\ UNCHANGED remote

-----------------------------------------------------------------------------
(* Status reports                                                          *)

\* event_status() up to the probe for Motion+.
PollStatus ==
    /\ At("idle")
    /\ host.conn
    /\ reports # <<>>
    /\ reports' = Tail(reports)
    /\ pc' = [NoPc EXCEPT !.step = "probe", !.att = Head(reports)]
    /\ UNCHANGED <<host, remote, quiet>>

\* Planted bug: the flag stays.
BugNoExpansion(h) == [h EXCEPT !.type = "NONE"]

\* disable_expansion()
NoExpansion(h) == IF h.exp THEN [h EXCEPT !.exp = FALSE, !.type = "NONE"] ELSE h

\* The rest of event_status(): an expansion has come ...
Inserted(h) ==
    /\ pc.att /\ ~h.exp
    /\ host' = h
    /\ Goto("expand")
    /\ UNCHANGED remote

\* Planted bug: IR keeps its mode.
BugRemoved(h) ==
    /\ ~pc.att /\ h.exp
    /\ host' = NoExpansion(h)
    /\ Goto("idle")
    /\ UNCHANGED remote

\* ... or gone: only if IR is on are the camera and the report type set ...
Removed(h) ==
    /\ ~pc.att /\ h.exp
    /\ \/ h.ir /\ Ends(NoExpansion(h))
       \/ /\ ~h.ir
          /\ host' = NoExpansion(h)
          /\ Goto("idle")
          /\ UNCHANGED remote

\* ... or neither: only the report type is.
Unchanged(h) ==
    /\ pc.att = h.exp
    /\ Sends(h, Reporting(h, remote))
    /\ Goto("idle")

\* Planted bug: the probe notices nothing of a dead link.
BugProbe ==
    /\ At("probe")
    /\ Inserted(host) \/ Removed(host) \/ Unchanged(host)
    /\ \E timeout \in BOOLEAN : Drops(timeout)

\* wiiuse_probe_motion_plus() is a blocking read.
Probe ==
    /\ At("probe")
    /\ LET h == AfterRead(host) IN Inserted(h) \/ Removed(h) \/ Unchanged(h)
    /\ \E timeout \in BOOLEAN : Drops(timeout)

-----------------------------------------------------------------------------
(* Expansions                                                              *)

\* Identifiers the blocking read may find: that of the expansion, unless it
\* is half connected, or, unfilled, anything the memory held before.
IdsRead(timeout) ==
    IF timeout THEN Ids ELSE {"BAD"} \cup (IF StatusBit THEN {remote.plug} ELSE {})

\* One attempt: the reset of an expansion that is set, the blocking read, and
\* what it finds.
Attempt(timeout, id) ==
    /\ host' = AfterRead([NoExpansion(AfterSend(host)) EXCEPT !.exp = TRUE])
    /\ Drops(timeout)
    /\ id \in IdsRead(timeout \/ ~remote.up)
    /\ UNCHANGED remote

\* Planted bugs: one attempt too many; attempts that are not counted.
BugExpandOnceMore ==
    /\ At("expand")
    /\ \E timeout \in BOOLEAN, id \in Ids :
          /\ Attempt(timeout, id)
          /\ LET again == id = "BAD" /\ pc.tries < MaxTries IN
             pc' = [pc EXCEPT !.step = IF again THEN "expand" ELSE "identify",
                              !.tries = @ + 1, !.id = id]

BugExpandForever ==
    /\ At("expand")
    /\ \E timeout \in BOOLEAN, id \in Ids :
          /\ Attempt(timeout, id)
          /\ pc' = [pc EXCEPT !.step = IF id = "BAD" THEN "expand" ELSE "identify",
                              !.id = id]

\* handshake_expansion(), one round of its loop.
Expand ==
    /\ At("expand")
    /\ \E timeout \in BOOLEAN, id \in Ids :
          /\ Attempt(timeout, id)
          /\ LET again == id = "BAD" /\ pc.tries + 1 < MaxTries IN
             pc' = [pc EXCEPT !.step = IF again THEN "expand" ELSE "identify",
                              !.tries = @ + 1, !.id = id]

Known(h) == [h EXCEPT !.type = "PAD", !.exp = TRUE]

\* Its phase 3, and what event_status() does after it (the camera and the
\* report type once more).  The calibration of a known one may be invalid:
\* it asks for the whole handshake again, with an asynchronous read.
Identify ==
    /\ At("identify")
    /\ \/ pc.id # "PAD" /\ Ends(host)
       \/ pc.id = "PAD" /\ Ends(Known(host))
       \/ pc.id = "PAD" /\ Ends([host EXCEPT !.retry = host.conn])
    /\ UNCHANGED <<reports, quiet>>

\* The answer to that read: handshake_expansion() as its callback, or an
\* error, which nobody is told.
PollRetry ==
    /\ At("idle")
    /\ host.conn
    /\ host.retry
    /\ host' = [host EXCEPT !.retry = FALSE]
    /\ \/ Goto("expand") /\ quiet' = FALSE
       \/ UNCHANGED <<pc, quiet>>
    /\ UNCHANGED <<remote, reports>>

-----------------------------------------------------------------------------
(* The application                                                         *)

\* wiiuse_set_ir(): before the handshake only the wish is noted; no change
\* ends the call.
SetIrWish ==
    /\ At("idle")
    /\ ~host.complete
    /\ host' = [host EXCEPT !.ir = TRUE]
    /\ UNCHANGED <<pc, remote, reports, quiet>>

\* Planted bug: the sensitivity is left to wiiuse_set_ir_sensitivity().
BugCamera(on, h) ==
    IF on THEN [remote EXCEPT !.camera = CameraMode(h)]
    ELSE [remote EXCEPT !.camera = "OFF"]

\* The camera is switched off, or on with its sensitivity and its mode.
Camera(on, h) ==
    IF on THEN [remote EXCEPT !.camera = CameraMode(h), !.level = h.level]
    ELSE [remote EXCEPT !.camera = "OFF"]

SetIr(on) ==
    /\ At("idle")
    /\ host.complete
    /\ host.ir # on
    /\ LET h == [host EXCEPT !.ir = on] IN Sends(h, Reporting(h, Camera(on, h)))
    /\ UNCHANGED <<pc, reports, quiet>>

\* wiiuse_set_ir_sensitivity(), of a level that is clamped to Levels; the
\* camera keeps it, on or off.
SetIrSensitivity(level) ==
    /\ At("idle")
    /\ LET h == [host EXCEPT !.level = level] IN
       Sends(h, IF h.conn THEN [remote EXCEPT !.level = level] ELSE remote)
    /\ UNCHANGED <<pc, reports, quiet>>

\* Planted bug: the report type is not set.
BugMotionSensing(on) ==
    /\ At("idle")
    /\ host' = [host EXCEPT !.acc = on]
    /\ UNCHANGED <<pc, remote, reports, quiet>>

\* wiiuse_motion_sensing()
MotionSensing(on) ==
    /\ At("idle")
    /\ LET h == [host EXCEPT !.acc = on] IN Sends(h, Reporting(h, remote))
    /\ UNCHANGED <<pc, reports, quiet>>

\* wiiuse_status(): the answer will be handled by a poll.
Status ==
    /\ At("idle")
    /\ host.conn
    /\ Len(reports) < MaxReports
    /\ host' = AfterSend(host)
    /\ reports' = Asked
    /\ UNCHANGED <<pc, remote, quiet>>

\* wiiuse_poll() finds the link closed.
PollClosed ==
    /\ At("idle")
    /\ host.conn
    /\ ~remote.up
    /\ reports = <<>>
    /\ host' = Lost(host)
    /\ UNCHANGED <<pc, remote, reports, quiet>>

-----------------------------------------------------------------------------
(* The remote (outside the library)                                        *)

\* An expansion is plugged in or pulled out: the remote reports it, and
\* nothing else until a report type is set.
PlugChanges ==
    /\ remote.up
    /\ Len(reports) < MaxReports
    /\ \E p \in Plugs \ {remote.plug} :
          /\ "NONE" \in {p, remote.plug}
          /\ remote' = [remote EXCEPT !.plug = p, !.silent = TRUE]
          /\ reports' = Append(reports, p # "NONE")
    /\ UNCHANGED <<host, pc, quiet>>

LinkBreaks ==
    /\ remote.up
    /\ remote' = [remote EXCEPT !.up = FALSE]
    /\ \E n \in 0 .. Len(reports) : reports' = SubSeq(reports, 1, n)
    /\ UNCHANGED <<host, pc, quiet>>

-----------------------------------------------------------------------------
NoFormat == [acc |-> FALSE, ir |-> FALSE, exp |-> FALSE]

Init ==
    /\ host = [conn |-> FALSE, hs |-> FALSE, complete |-> FALSE, acc |-> FALSE,
               ir |-> FALSE, exp |-> FALSE, type |-> "NONE", retry |-> FALSE,
               level |-> Default]
    /\ pc = NoPc
    /\ remote = [up |-> FALSE, plug |-> "NONE", silent |-> FALSE,
                 format |-> NoFormat, camera |-> "OFF", level |-> Default]
    /\ reports = <<>>
    /\ quiet = TRUE

\* A handler that blocks goes on.
Continue == Calibrate \/ AskStatus \/ AskTimeout \/ Probe \/ Expand \/ Identify

Application ==
    \/ Connect \/ Resync \/ Status \/ SetIrWish
    \/ \E on \in BOOLEAN : SetIr(on) \/ MotionSensing(on)
    \/ \E level \in Levels : SetIrSensitivity(level)

Poll == PollStatus \/ PollRetry \/ PollClosed

Next == Continue \/ Application \/ Poll \/ PlugChanges \/ LinkBreaks

\* Sleeps end, and waits are answered or time out.
Spec == Init /\ [][Next]_vars /\ WF_vars(Continue)

-----------------------------------------------------------------------------
(* Properties                                                              *)

SessionTypeOK ==
    /\ host \in Host
    /\ pc \in Pc
    /\ remote \in Remote
    /\ reports \in Seq(BOOLEAN)
    /\ quiet \in BOOLEAN

Settled == At("idle") /\ host.conn /\ remote.up

\* Whatever fails half way through the handshake, a remote that counts as
\* connected has completed it, and no other has: the flags that
\* wiiuse_handshake() sets after a loss are gone when it returns.
HandshakeIsWhole == At("idle") => ~host.hs /\ host.complete = host.conn

\* A remote that sends data reports sends the ones its flags ask for; the
\* only difference is that of event_status(): without IR, the bytes of an
\* expansion that has gone are still there.
ReportsMatchFlags ==
    Settled /\ ~remote.silent =>
        \/ remote.format = ReportFormat(host)
        \/ /\ ~host.ir /\ ~host.exp
           /\ remote.format = ReportFormat([host EXCEPT !.exp = TRUE])

\* With IR on, the camera delivers what fits into the reports: the basic
\* format beside expansion data, the extended one without; and its sensitivity
\* is the one that counts as set, however the two were switched.
CameraMatchesReports ==
    Settled /\ host.ir =>
        /\ remote.camera = IF host.exp THEN "BASIC" ELSE "EXTENDED"
        /\ remote.level = host.level

\* With IR on, a change of the expansion never leaves the remote silent
\* once its report has been handled.
IrIsNeverSilent == Settled /\ host.ir /\ remote.silent => reports # <<>>

\* If no blocking read has dropped a status report, and no late answer to the
\* repeated read of a calibration has found the port empty, the flag is right
\* as soon as every status report has been handled.
ExpansionIsNoticed ==
    quiet /\ Settled /\ reports = <<>> => host.exp = (remote.plug # "NONE")

\* Every handler returns, over a dead link and with an expansion that never
\* answers too.
HandlersReturn == pc.step # "idle" ~> pc.step = "idle"

\* "From now on the remote will only send status packets.  We need to send a
\* WIIMOTE_CMD_REPORT_TYPE packet to reenable other incoming reports."
\* (event_status): once its report has been handled, no change leaves the
\* remote silent.
ReportsAreReenabled == Settled /\ remote.silent => reports # <<>>
=============================================================================
