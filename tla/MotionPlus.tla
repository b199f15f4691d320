----------------------------- MODULE MotionPlus -----------------------------
(***************************************************************************)
(* Motion+ on and off (motion_plus.c): a remote with a built-in Motion+,   *)
(* through which an expansion is passed or not.  wiiuse_set_motion_plus()  *)
(* turns it on and asks for the new identifier with an asynchronous read;  *)
(* until that is answered WIIMOTE_STATE_EXP_HANDSHAKE keeps event_status() *)
(* from starting the handshake of an expansion.  Turned off, the remote is *)
(* asked for its status, and whatever is in its port is set up again.      *)
(*                                                                         *)
(* IR and the accelerometer are off: how event_status(), the handshake and *)
(* handshake_expansion() treat them, and a remote without Motion+, are in  *)
(* Session.  Nothing else reads asynchronously, so that at most one such   *)
(* read is under way; queues of reads are in ReadQueue.                    *)
(***************************************************************************)
EXTENDS Naturals, Sequences

CONSTANTS
    MaxTries,   \* attempts of handshake_expansion()
    MaxStatus,  \* status reports asked for in a row
    MaxReports  \* bound on reports not yet handled, for those that are asked
                \* for or that the remote sends by itself

ASSUME MotionPlusAssumption ==
    /\ MaxTries \in Nat \ {0}
    /\ MaxStatus \in Nat \ {0}
    /\ MaxReports \in Nat \ {0}

VARIABLES
    host,    \* flags of the library's structure, and its asynchronous read
    pc,      \* where the running handler is
    remote,  \* the remote: link, port, mode of its Motion+, report type
    reports, \* status reports and answers to asynchronous reads, not yet handled
    quiet    \* history, since the last handshake: that began without a read
             \* or EXP_HANDSHAKE, no wait has timed out or dropped anything, no
             \* read has failed, no identifier was bad

vars == <<host, pc, remote, reports, quiet>>

Plugs  == {"NONE", "PAD"}
Active == {"MP", "MP_PAD"}
Bits   == {"attached", "empty"}  \* status reports
Answers == Active \cup {"PAD", "BAD", "ERROR"}

Host == [conn : BOOLEAN, exp : BOOLEAN, handshake : BOOLEAN, present : BOOLEAN,
         type : {"NONE", "PAD"} \cup Active, read : {"none", "id", "pad"}]

\* sends: only status reports, reports without or with expansion bytes.
Remote == [up : BOOLEAN, plug : Plugs, mode : {"off"} \cup Active,
           sends : {"status", "core", "exp"}]

\* As in Session: tries counts attempts, att is the attachment bit of the
\* status report in work, id the identifier read last.
Pc == [step : {"idle", "ask", "off", "probe", "expand", "identify"},
       tries : {n \in Nat : n <= MaxTries \/ n <= MaxStatus},
       att : BOOLEAN, id : {"PAD", "BAD"}]

NoPc == [step |-> "idle", tries |-> 0, att |-> FALSE, id |-> "BAD"]
At(step) == pc.step = step
Goto(step) == pc' = [NoPc EXCEPT !.step = step]

-----------------------------------------------------------------------------
(* Sending                                                                 *)

\* wiiuse_disconnected(): exp.type is not reset.
Lost(h) == [conn |-> FALSE, exp |-> FALSE, handshake |-> FALSE, present |-> FALSE,
            type |-> h.type, read |-> "none"]

AfterSend(h) == IF remote.up \/ ~h.conn THEN h ELSE Lost(h)
AfterRead(h) == IF remote.up THEN h ELSE Lost(h)

\* What is written arrives.
Arrives(h) == remote.up /\ h.conn

\* wiiuse_set_report_type(), of a remote r
Reporting(h, r) ==
    IF Arrives(h) THEN [r EXCEPT !.sends = IF h.exp THEN "exp" ELSE "core"] ELSE r

Bit(r) == IF r.mode # "off" \/ r.plug # "NONE" THEN "attached" ELSE "empty"

\* What the remote sends when its Motion+ goes to a mode: the expansion may
\* seem to be gone and to be back.
Switches(r, mode) ==
    IF r.mode = mode THEN {<<>>}
    ELSE LET bit == Bit([r EXCEPT !.mode = mode]) IN {<<>>, <<bit>>, <<"empty", bit>>}

Switched(r, mode, sent) ==
    [r EXCEPT !.mode = mode, !.sends = IF sent = <<>> THEN @ ELSE "status"]

\* What the remote has at the address of a read, or an error, if the Motion+
\* is not yet ready or nothing is there.
AnswersTo(read, r) ==
    {"ERROR"} \cup IF r.mode # "off" THEN {IF read = "id" THEN r.mode ELSE "BAD"}
                   ELSE IF r.plug = "PAD" THEN {"PAD"} ELSE {}

\* wiiuse_read_data_cb(), of a remote r with reports s not yet handled.
Reads(h, read, r, s) ==
    IF ~h.conn THEN host' = h /\ reports' = s
    ELSE IF ~remote.up THEN host' = Lost(h) /\ reports' = s
    ELSE /\ host' = [h EXCEPT !.read = read]
         /\ \E answer \in AnswersTo(read, r) : reports' = Append(s, answer)

\* A blocking read drops what comes before its answer, or times out.  While
\* there is an asynchronous read, the two may take each other's answers.
Drops(timeout) ==
    /\ reports' \in {<<>>} \cup IF host.read = "none" THEN {} ELSE {<<"BAD">>, <<"PAD">>}
    /\ quiet' = (quiet /\ reports = <<>> /\ ~timeout /\ host.read = "none"
                       /\ remote.mode = "off")

-----------------------------------------------------------------------------
(* Status reports                                                          *)

FirstStatus(s, i) == s[i] \in Bits /\ \A j \in 1 .. i - 1 : s[j] \notin Bits

\* The answer to wiiuse_status(), if it is sent.
Asked == IF Arrives(host) THEN Append(reports, Bit(remote)) ELSE reports

\* The handshake and wiiuse_set_motion_plus() ask for a status report, and
\* again if the one they get has no bit set (a LED is one, too): it may be an
\* earlier one.
AskStatus ==
    /\ At("ask") \/ At("off")
    /\ \E i \in DOMAIN Asked :
          /\ FirstStatus(Asked, i)
          /\ LET att == Asked[i] = "attached" IN
             \/ pc' = [NoPc EXCEPT !.step = "probe", !.att = att]
             \/ ~att /\ pc.tries + 1 < MaxStatus /\ pc' = [pc EXCEPT !.tries = @ + 1]
          /\ reports' = SubSeq(Asked, i + 1, Len(Asked))
          /\ quiet' = (quiet /\ i = 1)
    /\ host' = AfterSend(host)
    /\ UNCHANGED remote

\* Planted bug: a time-out is not counted.
BugAskCounts == pc' = pc

\* The handshake counts a time-out as a report, whatever is in the buffer.
AskCounts ==
    \/ \E att \in BOOLEAN : pc' = [NoPc EXCEPT !.step = "probe", !.att = att]
    \/ pc.tries + 1 < MaxStatus /\ pc' = [pc EXCEPT !.tries = @ + 1]

\* No report in time, it may come later; recv() may notice that the link is
\* dead.  wiiuse_set_motion_plus() asks again until there is one.
AskTimeout ==
    /\ At("ask") \/ At("off")
    /\ \A i \in DOMAIN reports : reports[i] \notin Bits
    /\ IF At("ask") THEN AskCounts ELSE UNCHANGED pc
    /\ host' \in {AfterSend(host), AfterRead(host)}
    /\ reports' \in {<<>>, IF Arrives(host) THEN <<Bit(remote)>> ELSE <<>>}
    /\ quiet' = FALSE
    /\ UNCHANGED remote

\* event_status() up to the probe, from wiiuse_poll()
PollStatus ==
    /\ At("idle")
    /\ host.conn
    /\ reports # <<>>
    /\ Head(reports) \in Bits
    /\ reports' = Tail(reports)
    /\ pc' = [NoPc EXCEPT !.step = "probe", !.att = Head(reports) = "attached"]
    /\ UNCHANGED <<host, remote, quiet>>

\* disable_expansion()
NoExpansion(h) == IF h.exp THEN [h EXCEPT !.exp = FALSE, !.type = "NONE"] ELSE h

\* Planted bug: EXP_HANDSHAKE is not looked at.
BugInserted(h, r) ==
    /\ pc.att /\ ~h.exp
    /\ host' = h /\ remote' = r
    /\ Goto("expand")

\* The rest of event_status(), for the flags h and the remote r.
Inserted(h, r) ==
    /\ pc.att /\ ~h.exp /\ ~h.handshake
    /\ host' = h /\ remote' = r
    /\ Goto("expand")

Removed(h, r) ==
    /\ ~pc.att /\ h.exp
    /\ host' = NoExpansion(h) /\ remote' = r
    /\ Goto("idle")

Unchanged(h, r) ==
    /\ IF pc.att THEN h.exp \/ h.handshake ELSE ~h.exp
    /\ host' = AfterSend(h) /\ remote' = Reporting(h, r)
    /\ Goto("idle")

Goes(h, r) == Inserted(h, r) \/ Removed(h, r) \/ Unchanged(h, r)

\* wiiuse_probe_motion_plus(): a blocking read, whose buffer may hold
\* anything if it fails.  What is found is initialised.
Probe ==
    /\ At("probe")
    /\ \/ /\ host.present
          /\ Goes(host, remote)
          /\ UNCHANGED <<reports, quiet>>
       \/ /\ ~host.present
          /\ \E timeout \in BOOLEAN, present \in BOOLEAN :
                /\ timeout \/ ~remote.up \/ present = (remote.mode = "off")
                /\ LET h == [AfterRead(host) EXCEPT !.present = present]
                       r == IF present /\ Arrives(h)
                            THEN Reporting(h, [remote EXCEPT !.mode = "off"]) ELSE remote
                   IN Goes(h, r)
                /\ Drops(timeout)

-----------------------------------------------------------------------------
(* Expansions                                                              *)

\* Planted bug: one round too many.
BugAgain(id) == id = "BAD" /\ pc.tries < MaxTries

\* The identifier is read again as long as it is not known.
Again(id) == id = "BAD" /\ pc.tries + 1 < MaxTries

\* handshake_expansion(), one round of its loop.  The write that begins it
\* turns Motion+ off.
Expand ==
    /\ At("expand")
    /\ \E timeout \in BOOLEAN, id \in {"PAD", "BAD"} :
          /\ id = "BAD" \/ timeout \/ ~remote.up \/ remote.plug = "PAD"
          /\ pc' = [pc EXCEPT !.step = IF Again(id) THEN "expand" ELSE "identify",
                              !.tries = @ + 1, !.id = id]
          /\ Drops(timeout)
    /\ host' = AfterRead([NoExpansion(AfterSend(host)) EXCEPT !.exp = TRUE])
    /\ remote' = IF Arrives(host) THEN [remote EXCEPT !.mode = "off"] ELSE remote

\* Its phase 3: the calibration of a known expansion may be invalid, and is
\* read again, asynchronously.
Identify ==
    /\ At("identify")
    /\ LET h == IF pc.id = "PAD"
                THEN [host EXCEPT !.type = "PAD", !.exp = TRUE, !.handshake = FALSE] ELSE host
       IN \/ /\ host' = AfterSend(h)
             /\ remote' = Reporting(h, remote)
             /\ quiet' = (quiet /\ pc.id = "PAD")
             /\ UNCHANGED reports
          \/ /\ pc.id = "PAD"
             /\ host.read = "none"
             /\ Reads(host, "pad", remote, reports)
             /\ remote' = Reporting(host, remote)
             /\ quiet' = FALSE
    /\ Goto("idle")

-----------------------------------------------------------------------------
(* Motion+                                                                 *)

\* wiiuse_set_motion_plus(), on: alone, or passing an expansion through.
SetMotionPlus(mode) ==
    /\ At("idle")
    /\ host.present /\ ~host.handshake
    /\ host.read = "none"
    /\ Len(reports) < MaxReports
    /\ \E sent \in Switches(remote, mode) :
          LET h == [host EXCEPT !.handshake = TRUE]
              r == Switched(remote, mode, sent)
          IN IF Arrives(host)
             THEN remote' = r /\ Reads(h, "id", r, reports \o sent)
             ELSE host' = AfterSend(h) /\ UNCHANGED <<remote, reports>>
    /\ UNCHANGED <<pc, quiet>>

\* Planted bug: the expansion stays.
BugMotionPlusOff ==
    /\ At("idle")
    /\ host.present /\ ~host.handshake
    /\ Len(reports) < MaxReports
    /\ host' = AfterSend(host)
    /\ \E sent \in Switches(remote, "off") :
          IF Arrives(host)
          THEN remote' = Switched(remote, "off", sent) /\ reports' = reports \o sent
          ELSE UNCHANGED <<remote, reports>>
    /\ Goto("off")
    /\ UNCHANGED quiet

\* ... and off, up to the status.
MotionPlusOff ==
    /\ At("idle")
    /\ host.present /\ ~host.handshake
    /\ Len(reports) < MaxReports
    /\ host' = AfterSend(NoExpansion(host))
    /\ \E sent \in Switches(remote, "off") :
          IF Arrives(host)
          THEN remote' = Switched(remote, "off", sent) /\ reports' = reports \o sent
          ELSE UNCHANGED <<remote, reports>>
    /\ Goto("off")
    /\ UNCHANGED quiet

\* wiiuse_motion_plus_handshake(), called back: whatever the identifier is,
\* the remote is to send expansion bytes.
Identified(h, answer) ==
    LET g == [h EXCEPT !.exp = TRUE, !.handshake = FALSE] IN
    IF answer \in Active
    THEN /\ host' = AfterSend([g EXCEPT !.type = answer])
         /\ remote' = Reporting(g, remote)
    ELSE host' = g /\ UNCHANGED remote

\* event_data_read(): nobody is told of an error, and handshake_expansion()
\* starts all over again.
PollRead ==
    /\ At("idle")
    /\ host.conn
    /\ reports # <<>>
    /\ Head(reports) \in Answers
    /\ reports' = Tail(reports)
    /\ LET h == [host EXCEPT !.read = "none"]
           answer == Head(reports)
       IN CASE host.read = "none" \/ answer = "ERROR" ->
                   host' = h /\ UNCHANGED <<pc, remote>>
            [] host.read = "id" /\ answer # "ERROR" ->
                   Identified(h, answer) /\ UNCHANGED pc
            [] host.read = "pad" /\ answer # "ERROR" ->
                   host' = h /\ Goto("expand") /\ UNCHANGED remote
    /\ quiet' = (quiet /\ Head(reports) \in Active)

-----------------------------------------------------------------------------
(* Connections                                                             *)

\* wiiuse_connect() with its handshake, up to the status: Motion+ may have
\* been left on, and is turned off.  EXP_HANDSHAKE and MPLUS_PRESENT stay as they
\* have been set since the link was lost.
Connect ==
    /\ At("idle")
    /\ ~host.conn
    /\ host' = [host EXCEPT !.conn = TRUE, !.exp = FALSE]
    /\ \E plug \in Plugs :
          remote' = [up |-> TRUE, plug |-> plug, mode |-> "off", sends |-> "core"]
    /\ reports' = <<>>
    /\ quiet' = (host.read = "none" /\ ~host.handshake)
    /\ Goto("ask")

\* wiiuse_resync(): EXP_HANDSHAKE and the asynchronous read stay, whose answer
\* the read of the calibration may take.
Resync ==
    /\ At("idle")
    /\ host.conn
    /\ LET h == [host EXCEPT !.exp = FALSE] IN
          /\ host' = AfterRead(h)
          /\ remote' = Reporting(h, IF Arrives(host) THEN [remote EXCEPT !.mode = "off"]
                                    ELSE remote)
    /\ reports' \in {<<>>} \cup IF host.read = "none" THEN {} ELSE {<<"BAD">>, <<"PAD">>}
    /\ quiet' = (host.read = "none" /\ ~host.handshake)
    /\ Goto("ask")

\* wiiuse_status()
Status ==
    /\ At("idle")
    /\ host.conn
    /\ Len(reports) < MaxReports
    /\ host' = AfterSend(host)
    /\ reports' = Asked
    /\ UNCHANGED <<pc, remote, quiet>>

\* wiiuse_poll() finds the link closed.
PollClosed ==
    /\ At("idle")
    /\ host.conn
    /\ ~remote.up
    /\ reports = <<>>
    /\ host' = Lost(host)
    /\ UNCHANGED <<pc, remote, reports, quiet>>

-----------------------------------------------------------------------------
(* The remote (outside the library)                                        *)

\* Behind an active Motion+ an expansion comes and goes without a report.
PlugChanges ==
    /\ remote.up
    /\ Len(reports) < MaxReports
    /\ \E plug \in Plugs \ {remote.plug} :
          LET r == [remote EXCEPT !.plug = plug] IN
          IF remote.mode = "off"
          THEN /\ remote' = [r EXCEPT !.sends = "status"]
               /\ reports' = Append(reports, Bit(r))
          ELSE remote' = r /\ UNCHANGED reports
    /\ UNCHANGED <<host, pc, quiet>>

LinkBreaks ==
    /\ remote.up
    /\ remote' = [remote EXCEPT !.up = FALSE]
    /\ \E n \in 0 .. Len(reports) : reports' = SubSeq(reports, 1, n)
    /\ UNCHANGED <<host, pc, quiet>>

-----------------------------------------------------------------------------
Init ==
    /\ host = [conn |-> FALSE, exp |-> FALSE, handshake |-> FALSE, present |-> FALSE,
               type |-> "NONE", read |-> "none"]
    /\ pc = NoPc
    /\ remote = [up |-> FALSE, plug |-> "NONE", mode |-> "off", sends |-> "core"]
    /\ reports = <<>>
    /\ quiet = TRUE

\* A handler that blocks goes on.
Continue == AskStatus \/ AskTimeout \/ Probe \/ Expand \/ Identify

Application ==
    \/ Connect \/ Resync \/ Status \/ MotionPlusOff
    \/ \E mode \in Active : SetMotionPlus(mode)

Poll == PollStatus \/ PollRead \/ PollClosed

Next == Continue \/ Application \/ Poll \/ PlugChanges \/ LinkBreaks

\* Sleeps end, waits are answered or time out, and a status report that is
\* asked for again and again comes in time some day, if the link is up.
Spec == Init /\ [][Next]_vars /\ WF_vars(Continue) /\ SF_vars(AskStatus)

-----------------------------------------------------------------------------
(* Properties                                                              *)

MotionPlusTypeOK ==
    /\ host \in Host
    /\ pc \in Pc
    /\ remote \in Remote
    /\ reports \in Seq(Bits \cup Answers)
    /\ quiet \in BOOLEAN

Settled == At("idle") /\ host.conn /\ remote.up

\* If nothing was dropped, failed or timed out since the last handshake, and
\* that began without EXP_HANDSHAKE, the library has understood the port as soon
\* as it has handled every report: whatever is passed through, switched or
\* plugged in meanwhile, the flag is that of the remote's status, the bytes of
\* an expansion are sent, and decoded as what they are, and EXP_HANDSHAKE, which
\* keeps expansions from being set up and Motion+ from being turned on or off,
\* is over.
PortIsUnderstood ==
    quiet /\ Settled /\ reports = <<>> =>
        /\ host.exp = (Bit(remote) = "attached")
        /\ host.exp => /\ host.type = IF remote.mode = "off" THEN remote.plug ELSE remote.mode
                       /\ remote.sends = "exp"
        /\ ~host.handshake

\* The status reports that come with turning Motion+ on do not make a handler
\* turn it off again: it writes to the expansion (as a probe, or to set one up)
\* only if a wait has failed before, or Motion+ is off.
ActiveStaysActive ==
    [][quiet /\ remote.mode # "off" /\ ~At("idle") => remote'.mode # "off"]_vars

\* Turning Motion+ off, like every other handler, comes to an end, but for a
\* link that is dead: then nothing is asked for any more, no report can come,
\* and the loop of line 227 of motion_plus.c never ends.
HandlersReturn ==
    pc.step # "idle" ~> pc.step = "idle" \/ (pc.step = "off" /\ ~remote.up)
=============================================================================
