---------------------------- MODULE Session_proofs ----------------------------
(***************************************************************************)
(* Proofs about Session, for any number of attempts, status requests,      *)
(* reports and sensitivities.                                              *)
(***************************************************************************)
EXTENDS Session, SequenceTheorems, TLAPS

\* Where a handler may stop and leave the modes of the remote as they are.
Before == {"idle", "calibrate", "ask", "probe"}

\* The library does not believe a link gone that is there.
UpIsConnected == remote.up => host.conn

\* HANDSHAKE_COMPLETE goes with CONNECTED, but for the part of a handshake
\* or of event_status() in which a loss has not been noticed.
FlagsAgree ==
    /\ host.hs => At("calibrate")
    /\ At("ask") \/ At("probe") => (host.conn => host.complete)
    /\ At("idle") \/ At("expand") \/ At("identify") => host.complete = host.conn
    /\ At("identify") /\ remote.up => host.exp
    /\ At("expand") => pc.tries < MaxTries

\* ReportsMatchFlags, of h and r.
Fits(h, r) ==
    \/ r.format = ReportFormat(h)
    \/ ~h.ir /\ ~h.exp /\ r.format = ReportFormat([h EXCEPT !.exp = TRUE])

\* The modes fit until an expansion is set up, and then the sensitivity does.
ModesFit ==
    /\ remote.up /\ ~remote.silent /\ pc.step \in Before => Fits(host, remote)
    /\ remote.up /\ host.ir => remote.level = host.level
    /\ remote.up /\ host.ir /\ pc.step \in Before => remote.camera = CameraMode(host)

\* The last report on the way is about the port as it is, and the one in work
\* if there is none, unless it was dropped.
NewsIsTrue ==
    /\ remote.up /\ reports # <<>> => reports[Len(reports)] = StatusBit
    /\ remote.up /\ reports = <<>> /\ quiet =>
          /\ At("idle") => host.exp = StatusBit
          /\ At("probe") => pc.att = StatusBit
          /\ At("expand") \/ At("identify") => StatusBit

IInv == /\ SessionTypeOK
        /\ UpIsConnected
        /\ FlagsAgree
        /\ ModesFit
        /\ IrIsNeverSilent
        /\ NewsIsTrue

-----------------------------------------------------------------------------
(* Data                                                                    *)

LEMMA AppendNews ==
  ASSUME NEW s \in Seq(BOOLEAN), NEW b \in BOOLEAN
  PROVE  /\ Append(s, b) \in Seq(BOOLEAN)
         /\ Append(s, b) # <<>>
         /\ Append(s, b)[Len(Append(s, b))] = b
OBVIOUS

LEMMA TailNews ==
  ASSUME NEW s \in Seq(BOOLEAN), s # <<>>
  PROVE  /\ Tail(s) \in Seq(BOOLEAN)
         /\ Head(s) \in BOOLEAN
         /\ Tail(s) = <<>> => Head(s) = s[Len(s)]
         /\ Tail(s) # <<>> => Tail(s)[Len(Tail(s))] = s[Len(s)]
<1>1. Len(s) \in Nat /\ Len(s) # 0
  OBVIOUS
<1>2. /\ Tail(s) \in Seq(BOOLEAN)
      /\ Len(Tail(s)) = Len(s) - 1
      /\ \A i \in 1 .. Len(s) - 1 : Tail(s)[i] = s[i + 1]
  BY <1>1
<1>3. Tail(s) = <<>> <=> Len(s) = 1
  <2>1. Tail(s) = <<>> <=> Len(Tail(s)) = 0
    BY <1>2, EmptySeq, Zenon
  <2> QED
    BY <1>1, <1>2, <2>1
<1>4. Head(s) = s[1] /\ s[1] \in BOOLEAN
  BY <1>1
<1> QED
  BY <1>1, <1>2, <1>3, <1>4

LEMMA PartNews ==
  ASSUME NEW s \in Seq(BOOLEAN), NEW n \in 0 .. Len(s)
  PROVE  SubSeq(s, 1, n) \in Seq(BOOLEAN)
OBVIOUS

LEMMA EmptyNews == <<>> \in Seq(BOOLEAN)
OBVIOUS

LEMMA StepsAreSteps ==
  ASSUME NEW step \in Steps, NEW att \in BOOLEAN
  PROVE  /\ [NoPc EXCEPT !.step = step] \in Pc
         /\ [NoPc EXCEPT !.step = step].step = step
         /\ [NoPc EXCEPT !.step = step].tries = 0
         /\ [NoPc EXCEPT !.step = step, !.att = att] \in Pc
         /\ [NoPc EXCEPT !.step = step, !.att = att].step = step
         /\ [NoPc EXCEPT !.step = step, !.att = att].att = att
<1>1. 0 \in {n \in Nat : n <= MaxTries \/ n <= MaxStatus}
  BY SessionAssumption
<1> QED
  BY <1>1 DEF NoPc, Pc, Ids

\* Flags stay flags, and a link that is there changes nothing.
LEMMA SendKeeps ==
  ASSUME SessionTypeOK, NEW h \in Host
  PROVE  /\ AfterSend(h) \in Host
         /\ AfterRead(h) \in Host
         /\ remote.up => AfterSend(h) = h /\ AfterRead(h) = h
         /\ ~remote.up => AfterRead(h) = Lost(h)
         /\ ~remote.up => AfterSend(h) = IF h.conn THEN Lost(h) ELSE h
         /\ NoExpansion(h) \in Host
         /\ Lost(h) \in Host
BY SessionAssumption DEF AfterSend, AfterRead, NoExpansion, Lost, Host

LEMMA ReportingFits ==
  ASSUME NEW h \in Host, NEW r \in Remote
  PROVE  /\ Reporting(h, r) \in Remote
         /\ Reporting(h, r).up = r.up
         /\ Reporting(h, r).plug = r.plug
         /\ Reporting(h, r).level = r.level
         /\ Reporting(h, r).camera = r.camera
         /\ ~Reporting(h, r).silent
         /\ Fits(h, Reporting(h, r))
BY DEF Reporting, ReportFormat, Format, Fits, Host, Remote

LEMMA FilmingFits ==
  ASSUME NEW h \in Host, NEW r \in Remote
  PROVE  /\ Filming(h, r) \in Remote
         /\ Filming(h, r).up = r.up
         /\ Filming(h, r).plug = r.plug
         /\ Filming(h, r).level = r.level
         /\ h.ir => Filming(h, r).camera = CameraMode(h)
BY DEF Filming, CameraMode, Host, Remote

LEMMA AskedNews ==
  ASSUME SessionTypeOK, UpIsConnected, NewsIsTrue
  PROVE  /\ Asked \in Seq(BOOLEAN)
         /\ remote.up => Asked # <<>> /\ Asked[Len(Asked)] = StatusBit
         /\ Len(Asked) = 0 <=> Asked = <<>>
<1>1. StatusBit \in BOOLEAN /\ reports \in Seq(BOOLEAN)
  BY DEF StatusBit, SessionTypeOK
<1>2. Append(reports, StatusBit) \in Seq(BOOLEAN)
  BY <1>1, AppendNews
<1>3. Asked \in Seq(BOOLEAN)
  BY <1>1, <1>2 DEF Asked
<1>4. remote.up => Asked # <<>> /\ Asked[Len(Asked)] = StatusBit
  BY <1>1, AppendNews DEF Asked, UpIsConnected
<1> QED
  BY <1>3, <1>4

-----------------------------------------------------------------------------
(* Steps                                                                   *)

LEMMA InitOK == Init => IInv
BY SessionAssumption, EmptyNews
   DEF Init, IInv, SessionTypeOK, Host, Pc, NoPc, Remote, Format, NoFormat, Ids, Plugs,
       Steps, UpIsConnected, FlagsAgree, ModesFit, IrIsNeverSilent, Settled, NewsIsTrue, At

LEMMA ConnectKeeps == ASSUME IInv, Connect PROVE IInv'
<1> USE DEF At, Goto
<1>0. SessionTypeOK
  BY DEF IInv
<1>1. SessionTypeOK'
  <2>1. host' \in Host
    BY <1>0 DEF SessionTypeOK, Connect, Reset, Host
  <2>2. ReportFormat(host') \in Format
    BY <2>1 DEF ReportFormat, Host, Format
  <2>3. remote' \in Remote
    BY <2>2 DEF Connect, Remote
  <2> QED
    BY <2>1, <2>3, EmptyNews, StepsAreSteps DEF SessionTypeOK, Connect, Steps
<1>2. remote'.up /\ host'.conn /\ host'.hs /\ ~host'.ir /\ pc'.step = "calibrate"
      /\ remote'.format = ReportFormat(host') /\ reports' = <<>>
  BY DEF IInv, SessionTypeOK, Connect, Reset, Host, NoPc
<1> QED
  BY <1>1, <1>2 DEF IInv, UpIsConnected, FlagsAgree, ModesFit, IrIsNeverSilent, Settled,
       NewsIsTrue, Fits

LEMMA ResyncKeeps == ASSUME IInv, Resync PROVE IInv'
<1> USE DEF At, Goto
<1> DEFINE h == Reset(host)
<1>0. SessionTypeOK
  BY DEF IInv
<1>1. h \in Host /\ h.conn /\ ~h.ir
  BY <1>0 DEF SessionTypeOK, Reset, Host
<1>2. host' = AfterSend(h) /\ remote' = IF remote.up THEN Reporting(h, remote) ELSE remote
  BY DEF Resync, Sends
<1>3. pc' = [NoPc EXCEPT !.step = "calibrate"] /\ reports' = reports /\ quiet' = TRUE
  BY DEF Resync
<1> HIDE DEF h
<1>4. remote \in Remote
  BY <1>0 DEF SessionTypeOK
<1>5. SessionTypeOK'
  <2>1. host' \in Host
    BY <1>0, <1>1, <1>2, SendKeeps
  <2>2. remote' \in Remote
    BY <1>1, <1>2, <1>4, ReportingFits
  <2> QED
    BY <1>0, <1>3, <2>1, <2>2, StepsAreSteps DEF SessionTypeOK, Steps
<1>6. remote'.up = remote.up /\ StatusBit' = StatusBit
  BY <1>1, <1>2, <1>4, ReportingFits DEF StatusBit
<1>7. CASE remote.up
  <2>1. host' = h /\ remote' = Reporting(h, remote)
    BY <1>0, <1>1, <1>2, <1>7, SendKeeps
  <2> QED
    BY <1>1, <1>3, <1>4, <1>5, <1>6, <1>7, <2>1, ReportingFits
    DEF IInv, UpIsConnected, FlagsAgree, ModesFit, IrIsNeverSilent, Settled, NewsIsTrue, NoPc
<1>8. CASE ~remote.up
  <2>1. host' = Lost(h)
    BY <1>0, <1>1, <1>2, <1>8, SendKeeps
  <2> QED
    BY <1>3, <1>5, <1>6, <1>8, <2>1
    DEF IInv, UpIsConnected, FlagsAgree, ModesFit, IrIsNeverSilent, Settled, NewsIsTrue, Lost, NoPc
<1> QED
  BY <1>7, <1>8

LEMMA CalibrateKeeps == ASSUME IInv, Calibrate PROVE IInv'
<1> USE DEF At, Goto
<1>0. SessionTypeOK /\ host \in Host
  BY DEF IInv, SessionTypeOK
<1>1. host' \in Host /\ ~host'.hs /\ host'.complete
  BY <1>0, SendKeeps DEF Calibrate, Host
<1>2. /\ pc' = [NoPc EXCEPT !.step = "ask"] /\ pc'.step = "ask"
      /\ remote' = remote /\ reports' = <<>> /\ quiet' \in BOOLEAN
      /\ pc.step = "calibrate"
  BY <1>0, StepsAreSteps DEF Calibrate, Drops, Steps, SessionTypeOK
<1>3. SessionTypeOK'
  BY <1>0, <1>1, <1>2, EmptyNews, StepsAreSteps DEF SessionTypeOK, Steps
<1>4. remote.up => host' = [host EXCEPT !.complete = TRUE, !.hs = FALSE]
  BY <1>0, SendKeeps DEF Calibrate
<1>5. remote.up => host'.conn = host.conn /\ host'.ir = host.ir /\ host'.exp = host.exp
                   /\ host'.acc = host.acc /\ host'.level = host.level
  BY <1>0, <1>4 DEF Host
<1>6. ModesFit'
  BY <1>0, <1>1, <1>2, <1>5
  DEF IInv, ModesFit, Before, Fits, ReportFormat, CameraMode, Host
<1> QED
  BY <1>1, <1>2, <1>3, <1>5, <1>6
  DEF IInv, UpIsConnected, FlagsAgree, IrIsNeverSilent, Settled, NewsIsTrue

\* The two ways to ask for a status report, with the reports that are left.
LEMMA AsksKeep ==
  ASSUME IInv, At("ask"), remote' = remote,
         host' \in {AfterSend(host), AfterRead(host)},
         pc' \in Pc, pc'.step \in {"ask", "probe"},
         quiet' \in BOOLEAN,
         reports' \in Seq(BOOLEAN),
         remote.up /\ reports' # <<>> => reports'[Len(reports')] = StatusBit,
         remote.up /\ reports' = <<>> /\ quiet' /\ pc'.step = "probe" => pc'.att = StatusBit
  PROVE  IInv'
<1> USE DEF At
<1>0. SessionTypeOK /\ host \in Host
  BY DEF IInv, SessionTypeOK
<1>1. host' \in Host /\ (remote.up => host' = host)
  BY <1>0, SendKeeps
<1>2. SessionTypeOK'
  BY <1>0, <1>1 DEF SessionTypeOK
<1>3. ~host.hs /\ (host.conn => host.complete)
  BY DEF IInv, FlagsAgree
<1>4. ~host'.hs /\ (host'.conn => host'.complete)
  <2>1. host' = host \/ host' = Lost(host)
    BY <1>0 DEF AfterSend, AfterRead
  <2> QED
    BY <1>3, <2>1 DEF Lost
<1>5. ModesFit'
  BY <1>1 DEF IInv, ModesFit, Before
<1>6. NewsIsTrue'
  BY <1>2 DEF NewsIsTrue, StatusBit
<1> QED
  BY <1>1, <1>2, <1>4, <1>5, <1>6
  DEF IInv, UpIsConnected, FlagsAgree, IrIsNeverSilent, Settled

LEMMA AskAgainIsStep ==
  ASSUME SessionTypeOK, AskAgain, At("ask")
  PROVE  pc' \in Pc /\ pc'.step = "ask"
BY SessionAssumption DEF SessionTypeOK, AskAgain, At, Pc

LEMMA AskStatusKeeps == ASSUME IInv, AskStatus PROVE IInv'
<1>0. SessionTypeOK /\ UpIsConnected /\ NewsIsTrue
  BY DEF IInv
<1>1. /\ Asked \in Seq(BOOLEAN) /\ Asked # <<>>
      /\ remote.up => Asked[Len(Asked)] = StatusBit
      /\ Head(Asked) \in BOOLEAN
  BY <1>0, AskedNews, TailNews DEF AskStatus
<1>2. /\ reports' = Tail(Asked) /\ remote' = remote /\ quiet' = quiet /\ At("ask")
      /\ host' = AfterSend(host)
  BY DEF AskStatus
<1>3. /\ reports' \in Seq(BOOLEAN)
      /\ remote.up /\ reports' # <<>> => reports'[Len(reports')] = StatusBit
      /\ remote.up /\ reports' = <<>> => Head(Asked) = StatusBit
  BY <1>1, <1>2, TailNews
<1>4. CASE pc' = [NoPc EXCEPT !.step = "probe", !.att = Head(Asked)]
  <2>1. pc' \in Pc /\ pc'.step = "probe" /\ pc'.att = Head(Asked)
    BY <1>1, <1>4, StepsAreSteps DEF Steps
  <2> QED
    BY <1>0, <1>2, <1>3, <2>1, AsksKeep DEF SessionTypeOK
<1>5. CASE AskAgain
  BY <1>0, <1>2, <1>3, <1>5, AskAgainIsStep, AsksKeep DEF SessionTypeOK
<1> QED
  BY <1>4, <1>5 DEF AskStatus

LEMMA AskTimeoutKeeps == ASSUME IInv, AskTimeout PROVE IInv'
<1>0. SessionTypeOK /\ UpIsConnected /\ NewsIsTrue
  BY DEF IInv
<1>1. /\ reports' \in {<<>>, Asked} /\ remote' = remote /\ quiet' = FALSE /\ At("ask")
      /\ host' \in {AfterSend(host), AfterRead(host)}
  BY DEF AskTimeout
<1>2. /\ reports' \in Seq(BOOLEAN)
      /\ remote.up /\ reports' # <<>> => reports'[Len(reports')] = StatusBit
  BY <1>0, <1>1, EmptyNews, AskedNews
<1>3. CASE \E att \in BOOLEAN : pc' = [NoPc EXCEPT !.step = "probe", !.att = att]
  <2>0. PICK att \in BOOLEAN : pc' = [NoPc EXCEPT !.step = "probe", !.att = att]
    BY <1>3
  <2>1. pc' \in Pc /\ pc'.step = "probe"
    BY <2>0, StepsAreSteps DEF Steps
  <2> QED
    BY <1>1, <1>2, <2>1, AsksKeep
<1>4. CASE AskAgain
  BY <1>0, <1>1, <1>2, <1>4, AskAgainIsStep, AsksKeep
<1> QED
  BY <1>3, <1>4 DEF AskTimeout

LEMMA PollStatusKeeps == ASSUME IInv, PollStatus PROVE IInv'
<1> USE DEF At
<1>0. SessionTypeOK /\ reports \in Seq(BOOLEAN) /\ reports # <<>>
  BY DEF IInv, SessionTypeOK, PollStatus
<1>1. /\ reports' = Tail(reports) /\ remote' = remote /\ quiet' = quiet /\ host' = host
      /\ pc' = [NoPc EXCEPT !.step = "probe", !.att = Head(reports)]
      /\ pc.step = "idle" /\ host.conn
  BY DEF PollStatus
<1>2. pc' \in Pc /\ pc'.step = "probe" /\ pc'.att = Head(reports)
  BY <1>0, <1>1, TailNews, StepsAreSteps DEF Steps
<1>3. SessionTypeOK'
  BY <1>0, <1>1, <1>2, TailNews DEF SessionTypeOK
<1>4. NewsIsTrue'
  BY <1>0, <1>1, <1>2, TailNews DEF IInv, NewsIsTrue, StatusBit
<1> QED
  BY <1>1, <1>2, <1>3, <1>4
  DEF IInv, UpIsConnected, FlagsAgree, ModesFit, Before, IrIsNeverSilent, Settled

LEMMA LostIs ==
  ASSUME NEW h
  PROVE  /\ Lost(h).conn = FALSE /\ Lost(h).hs = FALSE /\ Lost(h).complete = FALSE
         /\ Lost(h).exp = FALSE
BY DEF Lost

\* With the link gone, only the flags are left to agree.
LEMMA DownKeeps ==
  ASSUME SessionTypeOK', ~remote'.up, FlagsAgree'
  PROVE  IInv'
BY DEF IInv, UpIsConnected, ModesFit, IrIsNeverSilent, Settled, NewsIsTrue

\* What is sent arrives, or the link is gone.
LEMMA SendsEither ==
  ASSUME SessionTypeOK, NEW h \in Host, NEW r \in Remote, r.up = remote.up, Sends(h, r)
  PROVE  /\ host' \in Host /\ remote' \in Remote /\ remote'.up = remote.up
         /\ remote.up => host' = h /\ remote' = r
         /\ ~remote.up => host' = IF h.conn THEN Lost(h) ELSE h
<1>1. host' = AfterSend(h) /\ remote' = IF remote.up THEN r ELSE remote
  BY DEF Sends
<1>2. remote \in Remote
  BY DEF SessionTypeOK
<1> QED
  BY <1>1, <1>2, SendKeeps

\* A handler or a call that sets the report type last.
LEMMA SettingReportsKeeps ==
  ASSUME SessionTypeOK, NEW h \in Host, NEW r \in Remote, Sends(h, Reporting(h, r)),
         pc' \in Pc, pc'.step = "idle", reports' \in Seq(BOOLEAN), quiet' \in BOOLEAN,
         r.up = remote.up, r.plug = remote.plug,
         ~h.hs, h.complete = h.conn, remote.up => h.conn,
         remote.up /\ h.ir => r.camera = CameraMode(h) /\ r.level = h.level,
         remote.up /\ reports' # <<>> => reports'[Len(reports')] = StatusBit,
         remote.up /\ reports' = <<>> /\ quiet' => h.exp = StatusBit
  PROVE  IInv'
<1> USE DEF At
<1> DEFINE q == Reporting(h, r)
<1>1. /\ q \in Remote /\ q.up = remote.up /\ q.plug = remote.plug /\ q.level = r.level
      /\ q.camera = r.camera /\ ~q.silent /\ Fits(h, q)
  BY ReportingFits
<1> HIDE DEF q
<1>2. /\ host' \in Host /\ remote' \in Remote /\ remote'.up = remote.up
      /\ remote.up => host' = h /\ remote' = q
      /\ ~remote.up => host' = IF h.conn THEN Lost(h) ELSE h
  BY <1>1, SendsEither DEF q
<1>3. SessionTypeOK'
  BY <1>2 DEF SessionTypeOK
<1>4. CASE remote.up
  <2>1. host' = h /\ remote' = q
    BY <1>2, <1>4
  <2>2. FlagsAgree' /\ UpIsConnected'
    BY <1>4, <2>1 DEF FlagsAgree, UpIsConnected
  <2>3. ModesFit' /\ IrIsNeverSilent'
    BY <1>1, <1>4, <2>1 DEF ModesFit, IrIsNeverSilent, Settled
  <2>4. NewsIsTrue'
    BY <1>1, <1>4, <2>1 DEF NewsIsTrue, StatusBit
  <2> QED
    BY <1>3, <2>2, <2>3, <2>4 DEF IInv
<1>5. CASE ~remote.up
  <2>1. host' = h \/ host' = Lost(h)
    BY <1>2, <1>5
  <2>2. ~host'.hs /\ host'.complete = host'.conn
    <3>1. CASE host' = h
      BY <3>1
    <3>2. CASE host' = Lost(h)
      BY <3>2, LostIs
    <3> QED
      BY <2>1, <3>1, <3>2
  <2>3. FlagsAgree'
    BY <1>2, <1>5, <2>2 DEF FlagsAgree
  <2> QED
    BY <1>2, <1>3, <1>5, <2>3, DownKeeps
<1> QED
  BY <1>4, <1>5

LEMMA EndsKeeps ==
  ASSUME IInv, NEW h \in Host, Ends(h), reports' \in Seq(BOOLEAN), quiet' \in BOOLEAN,
         ~h.hs, h.complete = h.conn, remote.up => h.conn, h.level = host.level,
         remote.up /\ h.ir => host.ir,
         remote.up /\ reports' # <<>> => reports'[Len(reports')] = StatusBit,
         remote.up /\ reports' = <<>> /\ quiet' => h.exp = StatusBit
  PROVE  IInv'
<1> DEFINE r == Filming(h, remote)
<1>1. SessionTypeOK /\ remote \in Remote
  BY DEF IInv, SessionTypeOK
<1>2. /\ r \in Remote /\ r.up = remote.up /\ r.plug = remote.plug /\ r.level = remote.level
      /\ h.ir => r.camera = CameraMode(h)
  BY <1>1, FilmingFits
<1>3. Sends(h, Reporting(h, r)) /\ pc' = [NoPc EXCEPT !.step = "idle"]
  BY DEF Ends, Goto
<1>4. pc' \in Pc /\ pc'.step = "idle"
  BY <1>3, StepsAreSteps DEF Steps
<1>5. remote.up /\ h.ir => r.camera = CameraMode(h) /\ r.level = h.level
  BY <1>2 DEF IInv, ModesFit
<1> HIDE DEF r
<1> QED
  BY <1>1, <1>2, <1>3, <1>4, <1>5, SettingReportsKeeps

\* A blocking wait leaves no report on the way.
LEMMA DropsAll ==
  ASSUME SessionTypeOK, \E timeout \in BOOLEAN : Drops(timeout)
  PROVE  /\ reports' = <<>> /\ reports' \in Seq(BOOLEAN)
         /\ quiet' \in BOOLEAN
         /\ quiet' => quiet /\ reports = <<>>
BY EmptyNews DEF Drops, SessionTypeOK

LEMMA NoExpansionIs ==
  ASSUME NEW h \in Host
  PROVE  /\ NoExpansion(h) \in Host
         /\ NoExpansion(h).exp = FALSE
         /\ NoExpansion(h).conn = h.conn
         /\ NoExpansion(h).hs = h.hs
         /\ NoExpansion(h).complete = h.complete
         /\ NoExpansion(h).acc = h.acc
         /\ NoExpansion(h).ir = h.ir
         /\ NoExpansion(h).level = h.level
BY DEF NoExpansion, Host

LEMMA ProbeKeeps == ASSUME IInv, Probe PROVE IInv'
<1> USE DEF At
<1> DEFINE h == AfterRead(host)
<1>0. SessionTypeOK /\ host \in Host /\ remote \in Remote /\ pc.step = "probe"
  BY DEF IInv, SessionTypeOK, Probe
<1>1. /\ h \in Host
      /\ remote.up => h = host
      /\ ~remote.up => h = Lost(host)
  BY <1>0, SendKeeps
<1>2. ~h.hs /\ h.complete = h.conn /\ (remote.up => h.conn)
  BY <1>0, <1>1 DEF IInv, FlagsAgree, UpIsConnected, Lost, Host
<1>3. ~remote.up => ~h.exp /\ ~h.conn
  BY <1>1 DEF Lost
<1>4. /\ reports' = <<>> /\ reports' \in Seq(BOOLEAN) /\ quiet' \in BOOLEAN
      /\ quiet' => quiet /\ reports = <<>>
  BY <1>0, DropsAll DEF Probe
<1>5. remote.up /\ quiet' => pc.att = StatusBit
  BY <1>0, <1>4 DEF IInv, NewsIsTrue
<1>6. Inserted(h) \/ Removed(h) \/ Unchanged(h)
  BY DEF Probe
<1>7. host.level \in Levels /\ (remote.up => h.level = host.level)
  BY <1>0, <1>1 DEF Host
<1> HIDE DEF h
<1>8. CASE Inserted(h)
  <2>1. host' = h /\ remote' = remote /\ pc' = [NoPc EXCEPT !.step = "expand"] /\ pc.att
    BY <1>8 DEF Inserted, Goto
  <2>2. pc' \in Pc /\ pc'.step = "expand" /\ pc'.tries = 0
    BY <2>1, StepsAreSteps DEF Steps
  <2>3. SessionTypeOK'
    BY <1>0, <1>1, <1>4, <2>1, <2>2 DEF SessionTypeOK
  <2>4. FlagsAgree' /\ UpIsConnected'
    BY <1>2, <2>1, <2>2, SessionAssumption DEF FlagsAgree, UpIsConnected
  <2>5. ModesFit' /\ IrIsNeverSilent'
    BY <1>1, <2>1, <2>2 DEF IInv, ModesFit, Before, IrIsNeverSilent, Settled
  <2>6. NewsIsTrue'
    BY <1>4, <1>5, <2>1, <2>2 DEF NewsIsTrue, StatusBit
  <2> QED
    BY <2>3, <2>4, <2>5, <2>6 DEF IInv
<1>9. CASE Removed(h)
  <2>0. remote.up /\ h = host /\ h.exp /\ ~pc.att
    BY <1>1, <1>3, <1>9 DEF Removed
  <2> DEFINE g == NoExpansion(host)
  <2>1. /\ g \in Host /\ g.exp = FALSE /\ g.conn = host.conn /\ g.hs = host.hs /\ g.acc = host.acc
        /\ g.complete = host.complete /\ g.ir = host.ir /\ g.level = host.level
    BY <1>0, NoExpansionIs
  <2> HIDE DEF g
  <2>4. quiet' => StatusBit = FALSE
    BY <1>5, <2>0 DEF StatusBit
  <2>2. CASE Ends(g)
    BY <1>2, <1>4, <2>0, <2>1, <2>2, <2>4, EndsKeeps
  <2>3. CASE ~host.ir /\ host' = g /\ Goto("idle") /\ UNCHANGED remote
    <3>1. pc' \in Pc /\ pc'.step = "idle"
      BY <2>3, StepsAreSteps DEF Goto, Steps
    <3>2. SessionTypeOK'
      BY <1>0, <1>4, <2>1, <2>3, <3>1 DEF SessionTypeOK
    <3>3. FlagsAgree' /\ UpIsConnected'
      BY <1>2, <2>0, <2>1, <2>3, <3>1 DEF FlagsAgree, UpIsConnected
    <3>4. Fits(host, remote) => Fits(g, remote)
      BY <1>0, <2>0, <2>1, <2>3 DEF Fits, ReportFormat, Host
    <3>5. ModesFit'
      BY <1>0, <2>1, <2>3, <3>4 DEF IInv, ModesFit, Before
    <3>6. NewsIsTrue' /\ IrIsNeverSilent'
      BY <1>4, <2>1, <2>3, <2>4, <3>1
      DEF NewsIsTrue, StatusBit, IrIsNeverSilent, Settled
    <3> QED
      BY <3>2, <3>3, <3>5, <3>6 DEF IInv
  <2> QED
    BY <1>9, <2>0, <2>2, <2>3 DEF Removed, g
<1>10. CASE Unchanged(h)
  <2>1. Sends(h, Reporting(h, remote)) /\ pc.att = h.exp
        /\ pc' \in Pc /\ pc'.step = "idle"
    BY <1>10, StepsAreSteps DEF Unchanged, Goto, Steps
  <2>2. remote.up /\ h.ir => remote.camera = CameraMode(h) /\ remote.level = h.level
    BY <1>0, <1>1 DEF IInv, ModesFit, Before
  <2> QED
    BY <1>0, <1>1, <1>2, <1>4, <1>5, <2>1, <2>2, SettingReportsKeeps
<1> QED
  BY <1>6, <1>8, <1>9, <1>10

LEMMA ExpandKeeps == ASSUME IInv, Expand PROVE IInv'
<1> USE DEF At
<1> DEFINE h == NoExpansion(AfterSend(host))
<1>0. /\ SessionTypeOK /\ host \in Host /\ remote \in Remote
      /\ pc.step = "expand" /\ pc.tries < MaxTries /\ pc \in Pc
  BY DEF IInv, SessionTypeOK, FlagsAgree, Expand
<1>1. PICK timeout \in BOOLEAN, id \in Ids :
         /\ Attempt(timeout, id)
         /\ LET again == id = "BAD" /\ pc.tries + 1 < MaxTries IN
            pc' = [pc EXCEPT !.step = IF again THEN "expand" ELSE "identify",
                             !.tries = @ + 1, !.id = id]
  BY DEF Expand
<1>2. /\ pc' \in Pc
      /\ pc'.step \in {"expand", "identify"}
      /\ pc'.step = "expand" => pc'.tries < MaxTries
  <2>1. pc.tries + 1 \in {n \in Nat : n <= MaxTries \/ n <= MaxStatus}
    BY <1>0, SessionAssumption DEF Pc
  <2> QED
    BY <1>0, <1>1, <2>1 DEF Pc, Steps
<1>3. /\ host' = AfterRead([h EXCEPT !.exp = TRUE])
      /\ remote' = remote
  BY <1>1 DEF Attempt
<1>4. /\ reports' = <<>> /\ reports' \in Seq(BOOLEAN) /\ quiet' \in BOOLEAN
      /\ quiet' => quiet /\ reports = <<>>
  BY <1>0, <1>1, DropsAll DEF Attempt
<1>5. ~host.hs /\ host.complete = host.conn
  BY <1>0 DEF IInv, FlagsAgree
<1>6. AfterSend(host) \in Host /\ (remote.up => AfterSend(host) = host)
  BY <1>0, SendKeeps
<1>7. /\ h \in Host
      /\ remote.up => h.conn = host.conn /\ h.hs = host.hs /\ h.complete = host.complete
                      /\ h.ir = host.ir /\ h.level = host.level
  BY <1>0, <1>6, NoExpansionIs
<1> HIDE DEF h
<1> DEFINE g == [h EXCEPT !.exp = TRUE]
<1>8. /\ g \in Host /\ g.exp = TRUE /\ g.conn = h.conn /\ g.hs = h.hs
      /\ g.complete = h.complete /\ g.ir = h.ir /\ g.level = h.level
  BY <1>7 DEF Host
<1> HIDE DEF g
<1>9. /\ host' \in Host
      /\ remote.up => host' = g
      /\ ~remote.up => host' = Lost(g)
  BY <1>0, <1>3, <1>8, SendKeeps DEF g
<1>10. SessionTypeOK'
  BY <1>0, <1>2, <1>3, <1>4, <1>9 DEF SessionTypeOK
<1>11. CASE remote.up
  <2>1. host' = g
    BY <1>9, <1>11
  <2>2. FlagsAgree'
    BY <1>2, <1>5, <1>7, <1>8, <1>11, <2>1 DEF FlagsAgree
  <2>3. UpIsConnected'
    BY <1>7, <1>8, <1>11, <2>1 DEF IInv, UpIsConnected
  <2>4. ModesFit' /\ IrIsNeverSilent'
    BY <1>2, <1>3, <1>7, <1>8, <1>11, <2>1
    DEF IInv, ModesFit, Before, IrIsNeverSilent, Settled
  <2>5. NewsIsTrue'
    BY <1>0, <1>2, <1>3, <1>4 DEF IInv, NewsIsTrue, StatusBit
  <2> QED
    BY <1>10, <2>2, <2>3, <2>4, <2>5 DEF IInv
<1>12. CASE ~remote.up
  <2>1. host' = Lost(g)
    BY <1>9, <1>12
  <2>2. FlagsAgree'
    BY <1>2, <1>3, <1>12, <2>1, LostIs DEF FlagsAgree
  <2> QED
    BY <1>3, <1>10, <1>12, <2>2, DownKeeps
<1> QED
  BY <1>11, <1>12

LEMMA IdentifyKeeps == ASSUME IInv, Identify PROVE IInv'
<1> USE DEF At
<1>0. SessionTypeOK /\ host \in Host /\ pc.step = "identify"
  BY DEF IInv, SessionTypeOK, Identify
<1>1. ~host.hs /\ host.complete = host.conn /\ (remote.up => host.conn /\ host.exp)
  BY <1>0 DEF IInv, FlagsAgree, UpIsConnected
<1>2. /\ reports' = reports /\ quiet' = quiet
      /\ reports' \in Seq(BOOLEAN) /\ quiet' \in BOOLEAN
  BY <1>0 DEF Identify, SessionTypeOK
<1>3. /\ remote.up /\ reports' # <<>> => reports'[Len(reports')] = StatusBit
      /\ remote.up /\ reports' = <<>> /\ quiet' => StatusBit = TRUE
  BY <1>0, <1>2 DEF IInv, NewsIsTrue, StatusBit
<1>4. ASSUME NEW h \in Host, Ends(h), h.conn = host.conn, h.complete = host.complete,
             h.hs = host.hs, h.level = host.level, h.ir = host.ir,
             remote.up => h.exp = TRUE
      PROVE  IInv'
  BY <1>1, <1>2, <1>3, <1>4, EndsKeeps
<1>5. CASE Ends(host)
  <2>1. remote.up => host.exp = TRUE
    BY <1>0, <1>1 DEF Host
  <2> QED
    BY <1>0, <1>4, <1>5, <2>1
<1>6. CASE Ends(Known(host))
  <2> DEFINE h == Known(host)
  <2>1. h \in Host /\ h.conn = host.conn /\ h.complete = host.complete /\ h.hs = host.hs
        /\ h.level = host.level /\ h.ir = host.ir /\ h.exp = TRUE
    BY <1>0 DEF Known, Host
  <2> HIDE DEF h
  <2>2. Ends(h)
    BY <1>6 DEF h
  <2> QED
    BY <1>4, <2>1, <2>2
<1>7. CASE Ends([host EXCEPT !.retry = host.conn])
  <2> DEFINE h == [host EXCEPT !.retry = host.conn]
  <2>1. h \in Host /\ h.conn = host.conn /\ h.complete = host.complete /\ h.hs = host.hs
        /\ h.level = host.level /\ h.ir = host.ir /\ h.exp = host.exp
    BY <1>0 DEF Host
  <2>2. remote.up => host.exp = TRUE
    BY <1>0, <1>1 DEF Host
  <2> HIDE DEF h
  <2>3. Ends(h)
    BY <1>7 DEF h
  <2> QED
    BY <1>4, <2>1, <2>2, <2>3
<1> QED
  BY <1>5, <1>6, <1>7 DEF Identify

LEMMA PollRetryKeeps == ASSUME IInv, PollRetry PROVE IInv'
<1> USE DEF At
<1>0. SessionTypeOK /\ host \in Host /\ pc.step = "idle"
  BY DEF IInv, SessionTypeOK, PollRetry
<1>1. /\ host' = [host EXCEPT !.retry = FALSE]
      /\ remote' = remote /\ reports' = reports
  BY DEF PollRetry
<1>2. /\ host' \in Host /\ host'.conn = host.conn /\ host'.complete = host.complete
      /\ host'.hs = host.hs /\ host'.level = host.level /\ host'.ir = host.ir
      /\ host'.acc = host.acc /\ host'.exp = host.exp
  BY <1>0, <1>1 DEF Host
<1>3. CASE Goto("expand") /\ quiet' = FALSE
  <2>1. pc' \in Pc /\ pc'.step = "expand" /\ pc'.tries = 0
    BY <1>3, StepsAreSteps DEF Goto, Steps
  <2>2. SessionTypeOK'
    BY <1>0, <1>1, <1>2, <1>3, <2>1 DEF SessionTypeOK
  <2> QED
    BY <1>0, <1>1, <1>2, <1>3, <2>1, <2>2, SessionAssumption
    DEF IInv, UpIsConnected, FlagsAgree, ModesFit, Before, IrIsNeverSilent, Settled,
        NewsIsTrue, StatusBit
<1>4. CASE UNCHANGED <<pc, quiet>>
  <2>1. SessionTypeOK'
    BY <1>0, <1>1, <1>2, <1>4 DEF SessionTypeOK
  <2>2. Fits(host, remote) => Fits(host, remote)'
    BY <1>0, <1>1, <1>2 DEF Fits, ReportFormat, Host
  <2>3. ModesFit'
    BY <1>1, <1>2, <1>4, <2>2 DEF IInv, ModesFit, CameraMode
  <2> QED
    BY <1>0, <1>1, <1>2, <1>4, <2>1, <2>3
    DEF IInv, UpIsConnected, FlagsAgree, IrIsNeverSilent, Settled, NewsIsTrue, StatusBit
<1> QED
  BY <1>3, <1>4 DEF PollRetry

LEMMA SetIrWishKeeps == ASSUME IInv, SetIrWish PROVE IInv'
<1> USE DEF At
<1>0. SessionTypeOK /\ host \in Host /\ pc.step = "idle" /\ ~host.complete
  BY DEF IInv, SessionTypeOK, SetIrWish
<1>1. /\ host' = [host EXCEPT !.ir = TRUE]
      /\ remote' = remote /\ reports' = reports /\ pc' = pc /\ quiet' = quiet
  BY DEF SetIrWish
<1>2. /\ host' \in Host /\ host'.conn = host.conn /\ host'.complete = host.complete
      /\ host'.hs = host.hs
  BY <1>0, <1>1 DEF Host
<1>3. ~remote.up
  BY <1>0 DEF IInv, FlagsAgree, UpIsConnected
<1>4. SessionTypeOK'
  BY <1>0, <1>1, <1>2 DEF SessionTypeOK
<1>5. FlagsAgree'
  BY <1>0, <1>1, <1>2, <1>3 DEF IInv, FlagsAgree
<1> QED
  BY <1>1, <1>3, <1>4, <1>5, DownKeeps

LEMMA SetIrKeeps == ASSUME IInv, NEW on \in BOOLEAN, SetIr(on) PROVE IInv'
<1> USE DEF At
<1> DEFINE h == [host EXCEPT !.ir = on]
           r == Camera(on, h)
<1>0. /\ SessionTypeOK /\ host \in Host /\ remote \in Remote /\ pc.step = "idle"
      /\ pc' = pc /\ reports' = reports /\ quiet' = quiet
      /\ Sends(h, Reporting(h, r))
  BY DEF IInv, SessionTypeOK, SetIr
<1>1. /\ h \in Host /\ h.conn = host.conn /\ h.complete = host.complete
      /\ h.hs = host.hs /\ h.exp = host.exp /\ h.ir = on /\ h.level = host.level
  BY <1>0 DEF Host
<1> HIDE DEF h
<1>2. /\ r \in Remote /\ r.up = remote.up /\ r.plug = remote.plug
      /\ h.ir => r.camera = CameraMode(h) /\ r.level = h.level
  BY <1>0, <1>1 DEF Camera, CameraMode, Host, Remote
<1> HIDE DEF r
<1>3. ~h.hs /\ h.complete = h.conn /\ (remote.up => h.conn)
  BY <1>0, <1>1 DEF IInv, FlagsAgree, UpIsConnected
<1>4. /\ pc' \in Pc /\ pc'.step = "idle"
      /\ reports' \in Seq(BOOLEAN) /\ quiet' \in BOOLEAN
      /\ remote.up /\ reports' # <<>> => reports'[Len(reports')] = StatusBit
      /\ remote.up /\ reports' = <<>> /\ quiet' => h.exp = StatusBit
  BY <1>0, <1>1 DEF IInv, NewsIsTrue, SessionTypeOK
<1> QED
  BY <1>0, <1>1, <1>2, <1>3, <1>4, SettingReportsKeeps

LEMMA MotionSensingKeeps == ASSUME IInv, NEW on \in BOOLEAN, MotionSensing(on) PROVE IInv'
<1> USE DEF At
<1> DEFINE h == [host EXCEPT !.acc = on]
<1>0. /\ SessionTypeOK /\ host \in Host /\ remote \in Remote /\ pc.step = "idle"
      /\ pc' = pc /\ reports' = reports /\ quiet' = quiet
      /\ Sends(h, Reporting(h, remote))
  BY DEF IInv, SessionTypeOK, MotionSensing
<1>1. /\ h \in Host /\ h.conn = host.conn /\ h.complete = host.complete
      /\ h.hs = host.hs /\ h.exp = host.exp /\ h.ir = host.ir /\ h.level = host.level
  BY <1>0 DEF Host
<1> HIDE DEF h
<1>2. remote.up /\ h.ir => remote.camera = CameraMode(h) /\ remote.level = h.level
  BY <1>0, <1>1 DEF IInv, ModesFit, Before, CameraMode
<1>3. ~h.hs /\ h.complete = h.conn /\ (remote.up => h.conn)
  BY <1>0, <1>1 DEF IInv, FlagsAgree, UpIsConnected
<1>4. /\ pc' \in Pc /\ pc'.step = "idle"
      /\ reports' \in Seq(BOOLEAN) /\ quiet' \in BOOLEAN
      /\ remote.up /\ reports' # <<>> => reports'[Len(reports')] = StatusBit
      /\ remote.up /\ reports' = <<>> /\ quiet' => h.exp = StatusBit
  BY <1>0, <1>1 DEF IInv, NewsIsTrue, SessionTypeOK
<1> QED
  BY <1>0, <1>1, <1>2, <1>3, <1>4, SettingReportsKeeps

\* Only the sensitivity changes, of both sides, or the link is found gone.
LEMMA SetIrSensitivityKeeps ==
  ASSUME IInv, NEW level \in Levels, SetIrSensitivity(level)
  PROVE  IInv'
<1> USE DEF At
<1> DEFINE h == [host EXCEPT !.level = level]
           r == IF h.conn THEN [remote EXCEPT !.level = level] ELSE remote
<1>0. /\ SessionTypeOK /\ host \in Host /\ remote \in Remote /\ pc.step = "idle"
      /\ pc' = pc /\ reports' = reports /\ quiet' = quiet
      /\ Sends(h, r)
  BY DEF IInv, SessionTypeOK, SetIrSensitivity
<1>1. /\ h \in Host /\ h.conn = host.conn /\ h.complete = host.complete
      /\ h.hs = host.hs /\ h.exp = host.exp /\ h.ir = host.ir /\ h.acc = host.acc
      /\ h.level = level
  BY <1>0 DEF Host
<1> HIDE DEF h
<1>2. /\ r \in Remote /\ r.up = remote.up /\ r.plug = remote.plug /\ r.silent = remote.silent
      /\ r.format = remote.format /\ r.camera = remote.camera
      /\ h.conn => r.level = level
  BY <1>0 DEF Remote
<1> HIDE DEF r
<1>3. /\ host' \in Host /\ remote' \in Remote /\ remote'.up = remote.up
      /\ remote.up => host' = h /\ remote' = r
      /\ ~remote.up => host' = IF h.conn THEN Lost(h) ELSE h
  BY <1>0, <1>1, <1>2, SendsEither
<1>4. SessionTypeOK'
  BY <1>0, <1>3 DEF SessionTypeOK
<1>5. ~h.hs /\ h.complete = h.conn /\ (remote.up => h.conn)
  BY <1>0, <1>1 DEF IInv, FlagsAgree, UpIsConnected
<1>6. CASE remote.up
  <2>1. host' = h /\ remote' = r
    BY <1>3, <1>6
  <2>2. Fits(host, remote) => Fits(h, r)
    BY <1>0, <1>1, <1>2 DEF Fits, ReportFormat, Host
  <2>3. ModesFit' /\ IrIsNeverSilent'
    BY <1>0, <1>1, <1>2, <1>5, <1>6, <2>1, <2>2
    DEF IInv, ModesFit, CameraMode, IrIsNeverSilent, Settled
  <2>4. FlagsAgree' /\ UpIsConnected'
    BY <1>0, <1>5, <1>6, <2>1 DEF FlagsAgree, UpIsConnected
  <2>5. NewsIsTrue'
    BY <1>0, <1>1, <1>2, <1>6, <2>1 DEF IInv, NewsIsTrue, StatusBit
  <2> QED
    BY <1>4, <2>3, <2>4, <2>5 DEF IInv
<1>7. CASE ~remote.up
  <2>1. host' = h \/ host' = Lost(h)
    BY <1>3, <1>7
  <2>2. ~host'.hs /\ host'.complete = host'.conn
    <3>1. CASE host' = h
      BY <1>5, <3>1
    <3>2. CASE host' = Lost(h)
      BY <3>2, LostIs
    <3> QED
      BY <2>1, <3>1, <3>2
  <2>3. FlagsAgree'
    BY <1>0, <1>3, <1>7, <2>2 DEF FlagsAgree
  <2> QED
    BY <1>3, <1>4, <1>7, <2>3, DownKeeps
<1> QED
  BY <1>6, <1>7

LEMMA StatusKeeps == ASSUME IInv, Status PROVE IInv'
<1> USE DEF At
<1>0. /\ SessionTypeOK /\ UpIsConnected /\ NewsIsTrue
      /\ host \in Host /\ pc.step = "idle" /\ host.conn
      /\ pc' = pc /\ remote' = remote /\ quiet' = quiet /\ reports' = Asked
      /\ host' = AfterSend(host)
  BY DEF IInv, SessionTypeOK, Status
<1>1. /\ reports' \in Seq(BOOLEAN)
      /\ remote.up => reports' # <<>> /\ reports'[Len(reports')] = StatusBit
  BY <1>0, AskedNews
<1>2. /\ host' \in Host
      /\ remote.up => host' = host
      /\ ~remote.up => host' = Lost(host)
  BY <1>0, SendKeeps
<1>3. SessionTypeOK'
  BY <1>0, <1>1, <1>2 DEF SessionTypeOK
<1>4. CASE remote.up
  BY <1>0, <1>1, <1>2, <1>3, <1>4
  DEF IInv, UpIsConnected, FlagsAgree, ModesFit, IrIsNeverSilent, Settled, NewsIsTrue, StatusBit
<1>5. CASE ~remote.up
  <2>1. FlagsAgree'
    BY <1>0, <1>2, <1>5, LostIs DEF FlagsAgree
  <2> QED
    BY <1>0, <1>3, <1>5, <2>1, DownKeeps
<1> QED
  BY <1>4, <1>5

LEMMA PollClosedKeeps == ASSUME IInv, PollClosed PROVE IInv'
<1> USE DEF At
<1>0. /\ SessionTypeOK /\ host \in Host /\ pc.step = "idle" /\ ~remote.up
      /\ pc' = pc /\ remote' = remote /\ quiet' = quiet /\ reports' = reports
      /\ host' = Lost(host)
  BY DEF IInv, SessionTypeOK, PollClosed
<1>1. host' \in Host
  BY <1>0, SendKeeps
<1>2. SessionTypeOK'
  BY <1>0, <1>1 DEF SessionTypeOK
<1>3. FlagsAgree'
  BY <1>0, LostIs DEF FlagsAgree
<1> QED
  BY <1>0, <1>2, <1>3, DownKeeps

LEMMA PlugChangesKeeps == ASSUME IInv, PlugChanges PROVE IInv'
<1> USE DEF At
<1>0. /\ SessionTypeOK /\ remote \in Remote /\ reports \in Seq(BOOLEAN) /\ remote.up
      /\ host' = host /\ pc' = pc /\ quiet' = quiet
  BY DEF IInv, SessionTypeOK, PlugChanges
<1>1. PICK p \in Plugs : /\ remote' = [remote EXCEPT !.plug = p, !.silent = TRUE]
                         /\ reports' = Append(reports, p # "NONE")
  BY DEF PlugChanges
<1>2. /\ remote' \in Remote /\ remote'.up /\ remote'.plug = p /\ remote'.silent
      /\ remote'.camera = remote.camera /\ remote'.level = remote.level
  BY <1>0, <1>1 DEF Remote
<1>3. /\ reports' \in Seq(BOOLEAN) /\ reports' # <<>>
      /\ reports'[Len(reports')] = StatusBit'
  BY <1>0, <1>1, <1>2, AppendNews DEF StatusBit
<1>4. SessionTypeOK'
  BY <1>0, <1>2, <1>3 DEF SessionTypeOK
<1> QED
  BY <1>0, <1>2, <1>3, <1>4
  DEF IInv, UpIsConnected, FlagsAgree, ModesFit, CameraMode, IrIsNeverSilent, NewsIsTrue

LEMMA LinkBreaksKeeps == ASSUME IInv, LinkBreaks PROVE IInv'
<1> USE DEF At
<1>0. /\ SessionTypeOK /\ remote \in Remote /\ reports \in Seq(BOOLEAN)
      /\ host' = host /\ pc' = pc /\ quiet' = quiet
      /\ remote' = [remote EXCEPT !.up = FALSE]
  BY DEF IInv, SessionTypeOK, LinkBreaks
<1>1. remote' \in Remote /\ ~remote'.up
  BY <1>0 DEF Remote
<1>2. reports' \in Seq(BOOLEAN)
  BY <1>0, PartNews DEF LinkBreaks
<1>3. SessionTypeOK'
  BY <1>0, <1>1, <1>2 DEF SessionTypeOK
<1>4. FlagsAgree'
  BY <1>0, <1>1 DEF IInv, FlagsAgree
<1> QED
  BY <1>1, <1>3, <1>4, DownKeeps

LEMMA StepKeeps == ASSUME IInv, [Next]_vars PROVE IInv'
<1>1. CASE Continue
  BY <1>1, CalibrateKeeps, AskStatusKeeps, AskTimeoutKeeps, ProbeKeeps, ExpandKeeps,
     IdentifyKeeps DEF Continue
<1>2. CASE Application
  BY <1>2, ConnectKeeps, ResyncKeeps, StatusKeeps, SetIrWishKeeps, SetIrKeeps,
     MotionSensingKeeps, SetIrSensitivityKeeps DEF Application
<1>3. CASE Poll
  BY <1>3, PollStatusKeeps, PollRetryKeeps, PollClosedKeeps DEF Poll
<1>4. CASE PlugChanges
  BY <1>4, PlugChangesKeeps
<1>5. CASE LinkBreaks
  BY <1>5, LinkBreaksKeeps
<1>6. CASE UNCHANGED vars
  BY <1>6
  DEF vars, IInv, SessionTypeOK, UpIsConnected, FlagsAgree, At, ModesFit, IrIsNeverSilent,
      Settled, NewsIsTrue, StatusBit
<1> QED
  BY <1>1, <1>2, <1>3, <1>4, <1>5, <1>6 DEF Next

-----------------------------------------------------------------------------
(* Theorems                                                                *)

\* The inductive invariant of a session: the flags of wiimote_t and the modes
\* of the remote agree at every point where a handler blocks.
THEOREM SessionInvariance == Spec => []IInv
<1>1. Init => IInv
  BY InitOK
<1>2. IInv /\ [Next]_vars => IInv'
  BY StepKeeps
<1> QED
  BY <1>1, <1>2, PTL DEF Spec

\* Every variable keeps its type, and the attempts to identify an expansion
\* and the requests of wiiuse_handshake() their bounds.
THEOREM SessionTypeCorrect == Spec => []SessionTypeOK
<1>1. IInv => SessionTypeOK
  BY DEF IInv
<1> QED
  BY <1>1, SessionInvariance, PTL

\* wiiuse_handshake() is completed by the remotes that count as connected, and
\* by no other, wherever the link breaks.
THEOREM HandshakeIsAlwaysWhole == Spec => []HandshakeIsWhole
<1>1. IInv => HandshakeIsWhole
  BY DEF IInv, FlagsAgree, HandshakeIsWhole, At
<1> QED
  BY <1>1, SessionInvariance, PTL

\* wiiuse_set_report_type() has been called with the flags as they are, or
\* only an expansion has gone since (event_status() without IR).
THEOREM ReportsAlwaysMatchFlags == Spec => []ReportsMatchFlags
<1>1. IInv => ReportsMatchFlags
  BY DEF IInv, ModesFit, Before, Fits, ReportsMatchFlags, Settled, At
<1> QED
  BY <1>1, SessionInvariance, PTL

\* The IR camera has the mode that fits beside the expansion, and the
\* sensitivity that counts as set.
THEOREM CameraAlwaysMatchesReports == Spec => []CameraMatchesReports
<1>1. IInv => CameraMatchesReports
  BY DEF IInv, ModesFit, Before, CameraMode, CameraMatchesReports, Settled, At
<1> QED
  BY <1>1, SessionInvariance, PTL

\* With IR on, event_status() wakes the remote after every change of the
\* expansion.
THEOREM IrStaysAwake == Spec => []IrIsNeverSilent
<1>1. IInv => IrIsNeverSilent
  BY DEF IInv
<1> QED
  BY <1>1, SessionInvariance, PTL

\* event_status() and handshake_expansion() leave the flag of the expansion as
\* the port is, if they have seen the last status report.
THEOREM ExpansionsAreNoticed == Spec => []ExpansionIsNoticed
<1>1. IInv => ExpansionIsNoticed
  BY DEF IInv, NewsIsTrue, StatusBit, ExpansionIsNoticed, Settled, At
<1> QED
  BY <1>1, SessionInvariance, PTL
===============================================================================
