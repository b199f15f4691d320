--------------------------- MODULE MotionPlus_proofs ---------------------------
(***************************************************************************)
(* Proofs about MotionPlus, for any number of attempts, status requests    *)
(* and reports.                                                            *)
(***************************************************************************)
EXTENDS MotionPlus, SequenceTheorems, TLAPS

News == Bits \cup Answers

\* Nothing has gone wrong on a link that is there.
Sound == quiet = TRUE /\ remote.up = TRUE

\* The library does not believe a link gone that is there.
UpIsConnected == remote.up = TRUE => host.conn = TRUE

TriesFit == At("expand") => pc.tries < MaxTries

\* EXP_HANDSHAKE is set as long as the identifier of an active Motion+ has
\* been asked for, and nothing else is ever asked for.
HandshakeIsRead ==
    \/ host.handshake = TRUE /\ host.read = "id" /\ remote.mode \in Active
    \/ host.handshake = FALSE /\ host.read = "none"

\* The answer for mode is on its way, or an error.  Behind it, no report says
\* that the port is empty.
AnswerComes(mode, s) ==
    \E k \in DOMAIN s :
        /\ s[k] \in {mode, "ERROR"}
        /\ \A i \in 1 .. k - 1 : s[i] \in Bits
        /\ \A i \in k + 1 .. Len(s) : s[i] = "attached"

\* Motion+ is off: the last report on the way is about the port as it is, the
\* one in work if there is none, and the flag if that has been handled.
PortIsNews ==
    /\ reports \in Seq(Bits)
    /\ pc.step \notin {"expand", "identify"} /\ host.exp = TRUE => host.type = "PAD"
    /\ pc.step \notin {"ask", "off"} /\ reports # <<>> => reports[Len(reports)] = Bit(remote)
    /\ reports = <<>> =>
          /\ At("idle") => /\ host.exp = TRUE <=> Bit(remote) = "attached"
                           /\ host.exp = TRUE => remote.sends = "exp"
          /\ At("probe") => (pc.att = TRUE <=> Bit(remote) = "attached")
          /\ At("expand") \/ At("identify") => remote.plug = "PAD"

\* Motion+ is active, and its identifier is on its way or has been read.
ActiveIsKnown ==
    /\ host.present = TRUE
    /\ pc.step \in {"idle", "probe"}
    /\ host.handshake = TRUE => AnswerComes(remote.mode, reports)
    /\ host.handshake = FALSE =>
          /\ host.exp = TRUE /\ host.type = remote.mode /\ remote.sends = "exp"
          /\ \A i \in DOMAIN reports : reports[i] = "attached"
          /\ At("probe") => pc.att = TRUE

SoundInv ==
    /\ HandshakeIsRead
    /\ remote.mode = "off" => PortIsNews
    /\ remote.mode # "off" => ActiveIsKnown

IInv == /\ MotionPlusTypeOK
        /\ UpIsConnected
        /\ TriesFit
        /\ Sound => SoundInv

-----------------------------------------------------------------------------
(* Data                                                                    *)

LEMMA LastFacts ==
  ASSUME NEW S, NEW s \in Seq(S), NEW b \in S
  PROVE  /\ Append(s, b) \in Seq(S) /\ Append(s, b) # <<>>
         /\ Append(s, b)[Len(Append(s, b))] = b
OBVIOUS

LEMMA TailFacts ==
  ASSUME NEW S, NEW s \in Seq(S), s # <<>>
  PROVE  /\ Tail(s) \in Seq(S) /\ Head(s) \in S /\ Head(s) = s[1]
         /\ Tail(s) = <<>> => Head(s) = s[Len(s)]
         /\ Tail(s) # <<>> => Tail(s)[Len(Tail(s))] = s[Len(s)]
         /\ Len(Tail(s)) = Len(s) - 1
         /\ \A i \in 1 .. Len(s) - 1 : i + 1 \in DOMAIN s /\ Tail(s)[i] = s[i + 1]
<1>1. Len(s) \in Nat /\ Len(s) # 0
  OBVIOUS
<1>2. /\ Tail(s) \in Seq(S)
      /\ Len(Tail(s)) = Len(s) - 1
      /\ \A i \in 1 .. Len(s) - 1 : i + 1 \in DOMAIN s /\ Tail(s)[i] = s[i + 1]
  BY <1>1
<1>3. Tail(s) = <<>> <=> Len(s) = 1
  <2>1. Tail(s) = <<>> <=> Len(Tail(s)) = 0
    BY <1>2, EmptySeq, Zenon
  <2> QED
    BY <1>1, <1>2, <2>1
<1>4. Head(s) = s[1] /\ s[1] \in S
  BY <1>1
<1> QED
  BY <1>1, <1>2, <1>3, <1>4

LEMMA EmptyNews == <<>> \in Seq(Bits) /\ <<>> \in Seq(News)
OBVIOUS

LEMMA BitsAreNews == Bits \subseteq News /\ Seq(Bits) \subseteq Seq(News)
BY DEF News

LEMMA ModesFacts ==
  /\ Active \subseteq Answers /\ "ERROR" \in Answers /\ "BAD" \in Answers /\ "PAD" \in Answers
  /\ Active = {"MP", "MP_PAD"} /\ "off" \notin Active
  /\ \A a \in Answers : a \notin Bits
BY DEF Answers, Active, Bits

LEMMA BitFacts ==
  ASSUME NEW r \in Remote
  PROVE  /\ Bit(r) \in Bits
         /\ r.mode # "off" => Bit(r) = "attached"
         /\ r.mode = "off" => (Bit(r) = "attached" <=> r.plug = "PAD")
         /\ r.mode # "off" => r.mode \in Active
<1>1. r.plug \in {"NONE", "PAD"} /\ (r.mode = "off" \/ r.mode \in Active)
  BY DEF Remote, Plugs
<1> QED
  BY <1>1 DEF Bit, Bits

LEMMA StepsAreSteps ==
  ASSUME NEW step \in {"idle", "ask", "off", "probe", "expand", "identify"}, NEW att \in BOOLEAN
  PROVE  /\ [NoPc EXCEPT !.step = step] \in Pc
         /\ [NoPc EXCEPT !.step = step].step = step
         /\ [NoPc EXCEPT !.step = step].tries = 0
         /\ [NoPc EXCEPT !.step = step, !.att = att] \in Pc
         /\ [NoPc EXCEPT !.step = step, !.att = att].step = step
         /\ [NoPc EXCEPT !.step = step, !.att = att].att = att
         /\ [NoPc EXCEPT !.step = step, !.att = att].tries = 0
<1>1. 0 \in {n \in Nat : n <= MaxTries \/ n <= MaxStatus}
  BY MotionPlusAssumption
<1> QED
  BY <1>1 DEF NoPc, Pc

LEMMA LostFacts ==
  ASSUME NEW h \in Host
  PROVE  /\ Lost(h) \in Host
         /\ Lost(h).conn = FALSE /\ Lost(h).exp = FALSE /\ Lost(h).handshake = FALSE
         /\ Lost(h).read = "none"
BY DEF Lost, Host

\* A link that is there changes nothing.
LEMMA SendKeeps ==
  ASSUME NEW h \in Host
  PROVE  /\ AfterSend(h) \in Host
         /\ AfterRead(h) \in Host
         /\ remote.up = TRUE => AfterSend(h) = h /\ AfterRead(h) = h
BY LostFacts DEF AfterSend, AfterRead

LEMMA NoExpansionFacts ==
  ASSUME NEW h \in Host
  PROVE  /\ NoExpansion(h) \in Host
         /\ NoExpansion(h).exp = FALSE
         /\ NoExpansion(h).conn = h.conn /\ NoExpansion(h).handshake = h.handshake
         /\ NoExpansion(h).present = h.present /\ NoExpansion(h).read = h.read
         /\ h.exp = FALSE => NoExpansion(h) = h
BY DEF NoExpansion, Host

LEMMA ReportingFacts ==
  ASSUME NEW h \in Host, NEW r \in Remote
  PROVE  /\ Reporting(h, r) \in Remote
         /\ Reporting(h, r).up = r.up /\ Reporting(h, r).plug = r.plug
         /\ Reporting(h, r).mode = r.mode
         /\ remote.up = TRUE /\ h.conn = TRUE /\ h.exp = TRUE => Reporting(h, r).sends = "exp"
<1>1. /\ [r EXCEPT !.sends = "exp"] \in Remote /\ [r EXCEPT !.sends = "core"] \in Remote
      /\ [r EXCEPT !.sends = "exp"].up = r.up /\ [r EXCEPT !.sends = "core"].up = r.up
      /\ [r EXCEPT !.sends = "exp"].plug = r.plug /\ [r EXCEPT !.sends = "core"].plug = r.plug
      /\ [r EXCEPT !.sends = "exp"].mode = r.mode /\ [r EXCEPT !.sends = "core"].mode = r.mode
      /\ [r EXCEPT !.sends = "exp"].sends = "exp"
  BY DEF Remote
<1>2. \/ Reporting(h, r) = r /\ ~(remote.up = TRUE /\ h.conn = TRUE)
      \/ Reporting(h, r) = [r EXCEPT !.sends = "exp"]
      \/ Reporting(h, r) = [r EXCEPT !.sends = "core"] /\ ~(h.exp = TRUE)
  BY DEF Reporting, Arrives
<1> QED
  BY <1>1, <1>2

LEMMA SwitchedFacts ==
  ASSUME NEW r \in Remote, NEW mode \in {"off"} \cup Active, NEW sent \in Switches(r, mode)
  PROVE  /\ Switched(r, mode, sent) \in Remote
         /\ Switched(r, mode, sent).up = r.up /\ Switched(r, mode, sent).plug = r.plug
         /\ Switched(r, mode, sent).mode = mode
         /\ sent \in Seq(Bits)
<1> DEFINE m == [r EXCEPT !.mode = mode]
           bit == Bit(m)
<1>1. m \in Remote /\ m.up = r.up /\ m.plug = r.plug /\ m.mode = mode
  BY DEF Remote
<1>2. bit \in Bits /\ "empty" \in Bits
  BY <1>1, BitFacts DEF Bits
<1>3. sent \in {<<>>, <<bit>>, <<"empty", bit>>}
  BY DEF Switches
<1> HIDE DEF bit
<1>4. sent \in Seq(Bits)
  <2>1. <<>> \in Seq(Bits) /\ <<bit>> \in Seq(Bits) /\ <<"empty", bit>> \in Seq(Bits)
    BY <1>2
  <2> QED
    BY <1>3, <2>1, Zenon
<1>5. Switched(r, mode, sent)
      = [r EXCEPT !.mode = mode, !.sends = IF sent = <<>> THEN @ ELSE "status"]
  BY DEF Switched
<1>6. (IF sent = <<>> THEN r.sends ELSE "status") \in {"status", "core", "exp"}
  BY DEF Remote
<1> QED
  BY <1>4, <1>5, <1>6 DEF Remote

LEMMA AskedFacts ==
  ASSUME MotionPlusTypeOK, UpIsConnected
  PROVE  /\ Asked \in Seq(News)
         /\ remote.up = TRUE => Asked = Append(reports, Bit(remote))
<1>1. reports \in Seq(News) /\ Bit(remote) \in News
  BY BitFacts, BitsAreNews DEF MotionPlusTypeOK, News
<1>2. Asked = Append(reports, Bit(remote)) \/ Asked = reports
  BY DEF Asked
<1>3. remote.up = TRUE => Asked = Append(reports, Bit(remote))
  BY DEF Asked, Arrives, UpIsConnected
<1> QED
  BY <1>1, <1>2, <1>3

-----------------------------------------------------------------------------
(* The answer on its way                                                   *)

LEMMA AnswerAppended ==
  ASSUME NEW s \in Seq(Bits), NEW mode, NEW a \in {mode, "ERROR"}
  PROVE  AnswerComes(mode, Append(s, a))
<1> DEFINE t == Append(s, a)
           k == Len(s) + 1
<1>1. Len(s) \in Nat /\ Len(t) = k /\ DOMAIN t = 1 .. k /\ t[k] = a
      /\ \A i \in 1 .. Len(s) : t[i] = s[i] /\ s[i] \in Bits
  OBVIOUS
<1> HIDE DEF t
<1>2. k \in DOMAIN t /\ t[k] \in {mode, "ERROR"}
  BY <1>1
<1>3. \A i \in 1 .. k - 1 : t[i] \in Bits
  BY <1>1
<1>4. \A i \in k + 1 .. Len(t) : t[i] = "attached"
  BY <1>1
<1> HIDE DEF k
<1>5. AnswerComes(mode, t)
  BY <1>2, <1>3, <1>4 DEF AnswerComes
<1> QED
  BY <1>5 DEF t

LEMMA AttachedAppended ==
  ASSUME NEW s \in Seq(News), NEW mode, AnswerComes(mode, s)
  PROVE  AnswerComes(mode, Append(s, "attached"))
<1> DEFINE t == Append(s, "attached")
<1>1. PICK k \in DOMAIN s :
        /\ s[k] \in {mode, "ERROR"}
        /\ \A i \in 1 .. k - 1 : s[i] \in Bits
        /\ \A i \in k + 1 .. Len(s) : s[i] = "attached"
  BY DEF AnswerComes
<1>2. Len(s) \in Nat /\ DOMAIN s = 1 .. Len(s)
  OBVIOUS
<1>3. /\ Len(t) = Len(s) + 1 /\ DOMAIN t = 1 .. Len(s) + 1
      /\ \A i \in 1 .. Len(s) : t[i] = s[i]
      /\ t[Len(s) + 1] = "attached"
  BY <1>2
<1> HIDE DEF t
<1>4. k \in DOMAIN t /\ t[k] \in {mode, "ERROR"}
  BY <1>1, <1>2, <1>3
<1>5. \A i \in 1 .. k - 1 : t[i] \in Bits
  BY <1>1, <1>2, <1>3
<1>6. \A i \in k + 1 .. Len(t) : t[i] = "attached"
  BY <1>1, <1>2, <1>3
<1>7. AnswerComes(mode, t)
  BY <1>4, <1>5, <1>6 DEF AnswerComes
<1> QED
  BY <1>7 DEF t

LEMMA AnswerTaken ==
  ASSUME NEW s \in Seq(News), NEW mode \in Active, AnswerComes(mode, s)
  PROVE  /\ s # <<>>
         /\ Head(s) \in Bits => AnswerComes(mode, Tail(s))
         /\ Head(s) \in Answers => /\ Head(s) \in {mode, "ERROR"}
                                   /\ \A i \in DOMAIN Tail(s) : Tail(s)[i] = "attached"
<1> DEFINE t == Tail(s)
           n == Len(s)
<1>1. PICK k \in DOMAIN s :
        /\ s[k] \in {mode, "ERROR"}
        /\ \A i \in 1 .. k - 1 : s[i] \in Bits
        /\ \A i \in k + 1 .. Len(s) : s[i] = "attached"
  BY DEF AnswerComes
<1>2. n \in Nat /\ DOMAIN s = 1 .. n /\ k \in 1 .. n /\ s # <<>>
  OBVIOUS
<1>3. /\ Head(s) = s[1] /\ t \in Seq(News) /\ Len(t) = n - 1
      /\ \A i \in 1 .. n - 1 : t[i] = s[i + 1]
  BY <1>2, TailFacts
<1>4. DOMAIN t = 1 .. n - 1
  BY <1>3
<1> HIDE DEF t, n
<1>5. ASSUME Head(s) \in Bits PROVE AnswerComes(mode, t)
  <2>1. k # 1
    <3>1. s[k] \in Answers
      BY <1>1, ModesFacts
    <3> QED
      BY <1>3, <1>5, <3>1, ModesFacts
  <2> DEFINE j == k - 1
  <2>2. j \in 1 .. n - 1 /\ j + 1 = k
    BY <1>2, <2>1
  <2>3. t[j] \in {mode, "ERROR"}
    BY <1>1, <1>3, <2>2
  <2>4. ASSUME NEW i \in 1 .. j - 1 PROVE t[i] \in Bits
    <3>1. i \in 1 .. n - 1 /\ i + 1 \in 1 .. k - 1
      BY <1>2, <2>2
    <3> QED
      BY <1>1, <1>3, <3>1
  <2>5. ASSUME NEW i \in j + 1 .. Len(t) PROVE t[i] = "attached"
    <3>1. i \in 1 .. n - 1 /\ i + 1 \in k + 1 .. n
      BY <1>2, <1>3, <2>2
    <3> QED
      BY <1>1, <1>3, <3>1 DEF n
  <2> HIDE DEF j
  <2> QED
    BY <1>4, <2>2, <2>3, <2>4, <2>5 DEF AnswerComes
<1>6. ASSUME Head(s) \in Answers
      PROVE  Head(s) \in {mode, "ERROR"} /\ \A i \in DOMAIN t : t[i] = "attached"
  <2>1. k = 1
    <3>1. CASE 1 \in 1 .. k - 1
      BY <1>1, <1>3, <1>6, <3>1, ModesFacts
    <3> QED
      BY <1>2, <3>1
  <2>2. ASSUME NEW i \in 1 .. n - 1 PROVE t[i] = "attached"
    <3>1. i + 1 \in k + 1 .. n
      BY <1>2, <2>1
    <3> QED
      BY <1>1, <1>3, <3>1 DEF n
  <2> QED
    BY <1>1, <1>3, <1>4, <2>1, <2>2
<1> QED
  BY <1>2, <1>5, <1>6 DEF t

-----------------------------------------------------------------------------
(* The invariant at the start, and its parts                               *)

LEMMA InitIInv == Init => IInv
<1> SUFFICES ASSUME Init PROVE IInv
  OBVIOUS
<1>1. NoPc \in Pc
  BY MotionPlusAssumption DEF NoPc, Pc
<1>2. host \in Host /\ remote \in Remote
  BY DEF Init, Host, Remote, Plugs
<1>3. reports \in Seq(Bits \cup Answers) /\ quiet \in BOOLEAN
  BY DEF Init
<1>4. MotionPlusTypeOK
  BY <1>1, <1>2, <1>3 DEF MotionPlusTypeOK, Init
<1>5. remote.up = FALSE /\ pc.step = "idle"
  BY DEF Init, NoPc
<1> QED
  BY <1>4, <1>5 DEF IInv, UpIsConnected, TriesFit, At, Sound

\* What a step that is over may not have done to the types.
LEMMA TypesMeet ==
  ASSUME host' \in Host, pc' \in Pc, remote' \in Remote, reports' \in Seq(News),
         quiet' \in BOOLEAN, remote'.up = TRUE => host'.conn = TRUE,
         pc'.step = "expand" => pc'.tries < MaxTries,
         quiet' = TRUE /\ remote'.up = TRUE => SoundInv'
  PROVE  IInv'
BY DEF IInv, MotionPlusTypeOK, News, UpIsConnected, TriesFit, At, Sound

LEMMA Types ==
  ASSUME IInv
  PROVE  /\ host \in Host /\ pc \in Pc /\ remote \in Remote /\ reports \in Seq(News)
         /\ quiet \in BOOLEAN /\ remote.up \in BOOLEAN
         /\ remote.up = TRUE => host.conn = TRUE
         /\ pc.step = "expand" => pc.tries < MaxTries
         /\ quiet = TRUE /\ remote.up = TRUE => SoundInv
         /\ MotionPlusTypeOK /\ UpIsConnected
BY DEF IInv, MotionPlusTypeOK, News, UpIsConnected, TriesFit, At, Sound, Remote

\* Where Motion+ is known to be off.
LEMMA OffFacts ==
  ASSUME SoundInv, remote \in Remote, pc.step \notin {"idle", "probe"} \/ remote.mode = "off"
  PROVE  /\ remote.mode = "off" /\ PortIsNews
         /\ host.handshake = FALSE /\ host.read = "none"
<1>1. remote.mode = "off"
  BY DEF SoundInv, ActiveIsKnown
<1> QED
  BY <1>1, ModesFacts DEF SoundInv, HandshakeIsRead

-----------------------------------------------------------------------------
(* Status reports                                                          *)

LEMMA AskStatusKeeps ==
  ASSUME IInv, AskStatus
  PROVE  IInv'
<1>1. PICK i \in DOMAIN Asked :
        /\ FirstStatus(Asked, i)
        /\ LET att == Asked[i] = "attached" IN
           \/ pc' = [NoPc EXCEPT !.step = "probe", !.att = att]
           \/ ~att /\ pc.tries + 1 < MaxStatus /\ pc' = [pc EXCEPT !.tries = @ + 1]
        /\ reports' = SubSeq(Asked, i + 1, Len(Asked))
        /\ quiet' = (quiet /\ i = 1)
  BY DEF AskStatus
<1>2. host' = AfterSend(host) /\ remote' = remote /\ pc.step \in {"ask", "off"}
  BY DEF AskStatus, At
<1>3. /\ host \in Host /\ pc \in Pc /\ remote \in Remote /\ quiet \in BOOLEAN
      /\ remote.up = TRUE => host.conn = TRUE
      /\ Asked \in Seq(News)
      /\ remote.up = TRUE => Asked = Append(reports, Bit(remote))
  BY Types, AskedFacts
<1>4. host' \in Host /\ (remote.up = TRUE => host' = host)
  BY <1>2, <1>3, SendKeeps
<1>5. DOMAIN Asked = 1 .. Len(Asked) /\ Len(Asked) \in Nat
  BY <1>3
<1>6. reports' \in Seq(News)
  <2>1. ASSUME NEW j \in i + 1 .. Len(Asked) PROVE Asked[j] \in News
    <3>1. j \in 1 .. Len(Asked)
      BY <1>5
    <3>2. \A k \in 1 .. Len(Asked) : Asked[k] \in News
      BY <1>3, ElementOfSeq
    <3> QED
      BY <3>1, <3>2
  <2> QED
    BY <1>1, <1>5, <2>1, SubSeqProperties
<1> DEFINE att == Asked[i] = "attached"
<1>7. att \in BOOLEAN
  OBVIOUS
<1>8. \/ /\ pc' \in Pc /\ pc'.step = "probe" /\ pc'.att = att
      \/ /\ pc' \in Pc /\ pc'.step = pc.step
  <2>1. CASE pc' = [NoPc EXCEPT !.step = "probe", !.att = att]
    <3> HIDE DEF att
    <3> QED
      BY <1>7, <2>1, StepsAreSteps
  <2>2. CASE pc.tries + 1 < MaxStatus /\ pc' = [pc EXCEPT !.tries = @ + 1]
    <3>1. pc.tries + 1 \in {n \in Nat : n <= MaxTries \/ n <= MaxStatus}
      BY <1>3, <2>2, MotionPlusAssumption DEF Pc
    <3> QED
      BY <1>3, <2>2, <3>1 DEF Pc
  <2> QED
    BY <1>1, <2>1, <2>2
<1>9. quiet' \in BOOLEAN
  BY <1>1
<1>10. ASSUME quiet' = TRUE, remote'.up = TRUE PROVE SoundInv'
  <2>1. quiet = TRUE /\ i = 1 /\ remote.up = TRUE
    BY <1>1, <1>2, <1>3, <1>10
  <2>2. SoundInv /\ host' = host
    BY <1>4, <2>1, Types
  <2>3. /\ remote.mode = "off" /\ PortIsNews
        /\ host.handshake = FALSE /\ host.read = "none"
    BY <1>2, <1>3, <2>2, OffFacts
  <2>4. Asked = Append(reports, Bit(remote)) /\ Bit(remote) \in Bits /\ reports \in Seq(Bits)
    BY <1>3, <2>1, <2>3, BitFacts DEF PortIsNews
  <2>5. Asked \in Seq(Bits) /\ Asked # <<>> /\ Asked[Len(Asked)] = Bit(remote)
    BY <2>4, LastFacts
  <2>6. reports' = Tail(Asked)
    BY <1>1, <2>1, <2>5
  <2>7. /\ reports' \in Seq(Bits)
        /\ reports' = <<>> => Asked[1] = Bit(remote)
        /\ reports' # <<>> => reports'[Len(reports')] = Bit(remote)
    <3>1. /\ Tail(Asked) \in Seq(Bits) /\ Head(Asked) = Asked[1]
          /\ Tail(Asked) = <<>> => Head(Asked) = Asked[Len(Asked)]
          /\ Tail(Asked) # <<>> => Tail(Asked)[Len(Tail(Asked))] = Asked[Len(Asked)]
      BY <2>5, TailFacts
    <3> QED
      BY <2>5, <2>6, <3>1
  <2>8. Bit(remote)' = Bit(remote) /\ remote'.mode = "off"
    BY <1>2, <2>3 DEF Bit
  <2>9. host.exp = TRUE => host.type = "PAD"
    BY <1>2, <2>3 DEF PortIsNews
  <2>10. pc'.step = "probe" /\ reports' = <<>> => (pc'.att = TRUE <=> Bit(remote) = "attached")
    BY <1>2, <1>8, <2>1, <2>7
  <2>11. pc'.step \in {"ask", "off", "probe"}
    BY <1>2, <1>8
  <2>12. PortIsNews'
    BY <2>2, <2>7, <2>8, <2>9, <2>10, <2>11 DEF PortIsNews, At
  <2>13. HandshakeIsRead'
    BY <2>2, <2>3 DEF HandshakeIsRead
  <2> QED
    BY <2>8, <2>12, <2>13 DEF SoundInv
<1>11. remote' \in Remote /\ (remote'.up = TRUE => host'.conn = TRUE)
  BY <1>2, <1>3, <1>4
<1>12. pc' \in Pc /\ pc'.step # "expand"
  BY <1>2, <1>8
<1> QED
  BY <1>4, <1>6, <1>9, <1>10, <1>11, <1>12, TypesMeet

LEMMA AskTimeoutKeeps ==
  ASSUME IInv, AskTimeout
  PROVE  IInv'
<1>1. /\ remote' = remote /\ quiet' = FALSE /\ pc.step \in {"ask", "off"}
      /\ host' \in {AfterSend(host), AfterRead(host)}
      /\ \/ reports' = <<>> \/ reports' = <<Bit(remote)>>
      /\ \/ pc' = pc
         \/ \E att \in BOOLEAN : pc' = [NoPc EXCEPT !.step = "probe", !.att = att]
         \/ pc.tries + 1 < MaxStatus /\ pc' = [pc EXCEPT !.tries = @ + 1]
  BY DEF AskTimeout, AskCounts, At
<1>2. /\ host \in Host /\ pc \in Pc /\ remote \in Remote
      /\ remote.up = TRUE => host.conn = TRUE
  BY Types
<1>3. host' \in Host /\ (remote.up = TRUE => host' = host)
  BY <1>1, <1>2, SendKeeps
<1>4. reports' \in Seq(News)
  <2>1. Bit(remote) \in News
    BY <1>2, BitFacts, BitsAreNews
  <2>2. <<>> \in Seq(News) /\ <<Bit(remote)>> \in Seq(News)
    BY <2>1
  <2> QED
    BY <1>1, <2>2
<1>5. pc' \in Pc /\ pc'.step # "expand"
  <2>1. CASE pc' = pc
    BY <1>1, <1>2, <2>1
  <2>2. CASE \E att \in BOOLEAN : pc' = [NoPc EXCEPT !.step = "probe", !.att = att]
    <3>1. PICK att \in BOOLEAN : pc' = [NoPc EXCEPT !.step = "probe", !.att = att]
      BY <2>2
    <3>2. pc' \in Pc /\ pc'.step = "probe"
      BY <3>1, StepsAreSteps
    <3> QED
      BY <3>2
  <2>3. CASE pc.tries + 1 < MaxStatus /\ pc' = [pc EXCEPT !.tries = @ + 1]
    <3>1. pc.tries + 1 \in {n \in Nat : n <= MaxTries \/ n <= MaxStatus}
      BY <1>2, <2>3, MotionPlusAssumption DEF Pc
    <3> QED
      BY <1>1, <1>2, <2>3, <3>1 DEF Pc
  <2> QED
    BY <1>1, <2>1, <2>2, <2>3
<1>6. quiet' \in BOOLEAN /\ quiet' # TRUE
  BY <1>1
<1> QED
  BY <1>1, <1>2, <1>3, <1>4, <1>5, <1>6, TypesMeet

LEMMA PollStatusKeeps ==
  ASSUME IInv, PollStatus
  PROVE  IInv'
<1> DEFINE att == Head(reports) = "attached"
<1>1. /\ pc.step = "idle" /\ reports # <<>> /\ Head(reports) \in Bits
      /\ reports' = Tail(reports) /\ UNCHANGED <<host, remote, quiet>>
      /\ pc' = [NoPc EXCEPT !.step = "probe", !.att = att]
  BY DEF PollStatus, At
<1>2. /\ host \in Host /\ remote \in Remote /\ reports \in Seq(News) /\ quiet \in BOOLEAN
      /\ remote.up = TRUE => host.conn = TRUE
  BY Types
<1>3. reports' \in Seq(News)
  BY <1>1, <1>2, TailFacts
<1>4. pc' \in Pc /\ pc'.step = "probe" /\ (pc'.att = TRUE <=> Head(reports) = "attached")
  <2>1. att \in BOOLEAN /\ (att = TRUE <=> Head(reports) = "attached")
    OBVIOUS
  <2> HIDE DEF att
  <2> QED
    BY <1>1, <2>1, StepsAreSteps
<1>5. ASSUME quiet' = TRUE, remote'.up = TRUE PROVE SoundInv'
  <2>1. SoundInv
    BY <1>1, <1>5, Types
  <2>2. HandshakeIsRead'
    BY <1>1, <2>1 DEF SoundInv, HandshakeIsRead
  <2>3. Bit(remote)' = Bit(remote)
    BY <1>1 DEF Bit
  <2>4. ASSUME remote.mode = "off" PROVE PortIsNews'
    <3>1. /\ reports \in Seq(Bits)
          /\ host.exp = TRUE => host.type = "PAD"
          /\ reports[Len(reports)] = Bit(remote)
      BY <1>1, <2>1, <2>4 DEF SoundInv, PortIsNews
    <3>2. /\ reports' \in Seq(Bits)
          /\ reports' # <<>> => reports'[Len(reports')] = Bit(remote)
          /\ reports' = <<>> => Head(reports) = Bit(remote)
      BY <1>1, <3>1, TailFacts
    <3> QED
      BY <1>1, <1>4, <2>3, <3>1, <3>2 DEF PortIsNews, At
  <2>5. ASSUME remote.mode # "off" PROVE ActiveIsKnown'
    <3>1. ActiveIsKnown /\ remote.mode \in Active
      BY <1>2, <2>1, <2>5, BitFacts DEF SoundInv
    <3>2. host.handshake = TRUE => AnswerComes(remote.mode, reports')
      BY <1>1, <1>2, <3>1, AnswerTaken DEF ActiveIsKnown
    <3>3. host.handshake = FALSE => /\ Head(reports) = "attached"
                                    /\ \A i \in DOMAIN reports' : reports'[i] = "attached"
      <4>1. SUFFICES ASSUME \A i \in DOMAIN reports : reports[i] = "attached"
                     PROVE  /\ Head(reports) = "attached"
                            /\ \A i \in DOMAIN reports' : reports'[i] = "attached"
        BY <3>1 DEF ActiveIsKnown
      <4>2. /\ Head(reports) = reports[1] /\ 1 \in DOMAIN reports
            /\ Len(Tail(reports)) = Len(reports) - 1
            /\ \A i \in 1 .. Len(reports) - 1 :
                  i + 1 \in DOMAIN reports /\ Tail(reports)[i] = reports[i + 1]
        BY <1>1, <1>2, TailFacts
      <4>3. DOMAIN reports' = 1 .. Len(reports) - 1
        BY <1>1, <1>3, <4>2
      <4> QED
        BY <1>1, <4>1, <4>2, <4>3
    <3> QED
      BY <1>1, <1>4, <3>1, <3>2, <3>3 DEF ActiveIsKnown, At
  <2> QED
    BY <1>1, <2>2, <2>4, <2>5 DEF SoundInv
<1> QED
  BY <1>1, <1>2, <1>3, <1>4, <1>5, TypesMeet

\* The rest of event_status(), whatever came before.
LEMMA GoesTypes ==
  ASSUME NEW h \in Host, NEW r \in Remote, Goes(h, r), pc \in Pc,
         r.up = remote.up, remote.up = TRUE => h.conn = TRUE
  PROVE  /\ host' \in Host /\ remote' \in Remote /\ pc' \in Pc
         /\ remote'.up = remote.up /\ (remote.up = TRUE => host'.conn = TRUE)
         /\ pc'.step = "expand" => pc'.tries < MaxTries
<1>1. 0 < MaxTries /\ FALSE \in BOOLEAN
  BY MotionPlusAssumption
<1>2. CASE Inserted(h, r)
  <2>1. host' = h /\ remote' = r /\ pc' = [NoPc EXCEPT !.step = "expand"]
    BY <1>2 DEF Inserted, Goto
  <2>2. pc' \in Pc /\ pc'.step = "expand" /\ pc'.tries = 0
    BY <1>1, <2>1, StepsAreSteps
  <2> QED
    BY <1>1, <2>1, <2>2
<1>3. CASE Removed(h, r)
  <2>1. host' = NoExpansion(h) /\ remote' = r /\ pc' = [NoPc EXCEPT !.step = "idle"]
    BY <1>3 DEF Removed, Goto
  <2>2. pc' \in Pc /\ pc'.step = "idle"
    BY <1>1, <2>1, StepsAreSteps
  <2> QED
    BY <2>1, <2>2, NoExpansionFacts
<1>4. CASE Unchanged(h, r)
  <2>1. host' = AfterSend(h) /\ remote' = Reporting(h, r) /\ pc' = [NoPc EXCEPT !.step = "idle"]
    BY <1>4 DEF Unchanged, Goto
  <2>2. pc' \in Pc /\ pc'.step = "idle"
    BY <1>1, <2>1, StepsAreSteps
  <2> QED
    BY <2>1, <2>2, SendKeeps, ReportingFacts
<1> QED
  BY <1>2, <1>3, <1>4 DEF Goes

\* ... and if Motion+ is off, for the bit of the port as it is, or with news
\* to come.
LEMMA GoesOff ==
  ASSUME NEW h \in Host, NEW r \in Remote, Goes(h, r), pc \in Pc,
         r.up = remote.up, remote.up = TRUE, h.conn = TRUE,
         h.handshake = FALSE, h.read = "none", r.mode = "off",
         h.exp = TRUE => h.type = "PAD",
         reports' \in Seq(Bits),
         reports' # <<>> => reports'[Len(reports')] = Bit(r),
         reports' = <<>> => (pc.att = TRUE <=> Bit(r) = "attached")
  PROVE  SoundInv'
<1>1. h.exp \in BOOLEAN /\ pc.att \in BOOLEAN /\ (Bit(r) = "attached" => r.plug = "PAD")
  BY BitFacts DEF Host, Pc
<1>2. FALSE \in BOOLEAN
  OBVIOUS
<1>3. CASE Inserted(h, r)
  <2>1. /\ host' = h /\ remote' = r /\ pc' = [NoPc EXCEPT !.step = "expand"]
        /\ pc.att = TRUE
    BY <1>1, <1>3 DEF Inserted, Goto
  <2>2. pc'.step = "expand"
    BY <1>2, <2>1, StepsAreSteps
  <2>3. PortIsNews'
    <3>1. Bit(remote)' = Bit(r)
      BY <2>1 DEF Bit
    <3> QED
      BY <1>1, <2>1, <2>2, <3>1 DEF PortIsNews, At
  <2> QED
    BY <2>1, <2>3 DEF SoundInv, HandshakeIsRead
<1>4. CASE Removed(h, r)
  <2>1. /\ host' = NoExpansion(h) /\ remote' = r /\ pc' = [NoPc EXCEPT !.step = "idle"]
        /\ pc.att = FALSE
    BY <1>1, <1>4 DEF Removed, Goto
  <2>2. pc'.step = "idle" /\ host'.exp = FALSE /\ host'.handshake = FALSE /\ host'.read = "none"
    BY <1>2, <2>1, StepsAreSteps, NoExpansionFacts
  <2>3. PortIsNews'
    <3>1. Bit(remote)' = Bit(r)
      BY <2>1 DEF Bit
    <3> QED
      BY <1>1, <2>1, <2>2, <3>1 DEF PortIsNews, At
  <2> QED
    BY <2>1, <2>2, <2>3 DEF SoundInv, HandshakeIsRead
<1>5. CASE Unchanged(h, r)
  <2>1. /\ host' = h /\ remote' = Reporting(h, r) /\ pc' = [NoPc EXCEPT !.step = "idle"]
        /\ pc.att = TRUE <=> h.exp = TRUE
    BY <1>1, <1>5, SendKeeps DEF Unchanged, Goto
  <2>2. pc'.step = "idle"
    BY <1>2, <2>1, StepsAreSteps
  <2>3. remote'.mode = "off" /\ remote'.plug = r.plug /\ (h.exp = TRUE => remote'.sends = "exp")
    BY <2>1, ReportingFacts
  <2>4. PortIsNews'
    <3>1. Bit(remote)' = Bit(r)
      BY <2>3 DEF Bit
    <3> QED
      BY <1>1, <2>1, <2>2, <2>3, <3>1 DEF PortIsNews, At
  <2> QED
    BY <2>1, <2>3, <2>4 DEF SoundInv, HandshakeIsRead
<1> QED
  BY <1>3, <1>4, <1>5 DEF Goes

\* If Motion+ is active, the expansion is not touched.
LEMMA GoesActive ==
  ASSUME IInv, SoundInv, Goes(host, remote), remote.up = TRUE, remote.mode # "off",
         pc.step = "probe", reports' = reports
  PROVE  SoundInv'
<1>1. /\ host \in Host /\ pc \in Pc /\ remote \in Remote /\ host.conn = TRUE
      /\ ActiveIsKnown /\ HandshakeIsRead /\ remote.mode \in Active
  BY Types, BitFacts DEF SoundInv
<1>2. host.exp \in BOOLEAN /\ host.handshake \in BOOLEAN /\ pc.att \in BOOLEAN /\ FALSE \in BOOLEAN
  BY <1>1 DEF Host, Pc
<1>3. CASE Inserted(host, remote)
  BY <1>1, <1>2, <1>3 DEF Inserted, ActiveIsKnown, At
<1>4. CASE Removed(host, remote)
  <2>1. /\ host' = NoExpansion(host) /\ remote' = remote
        /\ pc' = [NoPc EXCEPT !.step = "idle"] /\ pc.att = FALSE
    BY <1>2, <1>4 DEF Removed, Goto
  <2>2. /\ pc'.step = "idle" /\ host'.handshake = host.handshake /\ host'.read = host.read
        /\ host'.present = host.present
    BY <1>1, <1>2, <2>1, StepsAreSteps, NoExpansionFacts
  <2>3. host.handshake = TRUE
    BY <1>1, <1>2, <2>1 DEF ActiveIsKnown, At
  <2>4. ActiveIsKnown'
    BY <1>1, <2>1, <2>2, <2>3 DEF ActiveIsKnown
  <2> QED
    BY <1>1, <2>1, <2>2, <2>4 DEF SoundInv, HandshakeIsRead
<1>5. CASE Unchanged(host, remote)
  <2>1. /\ host' = host /\ remote' = Reporting(host, remote)
        /\ pc' = [NoPc EXCEPT !.step = "idle"]
    BY <1>1, <1>5, SendKeeps DEF Unchanged, Goto
  <2>2. pc'.step = "idle"
    BY <1>2, <2>1, StepsAreSteps
  <2>3. remote'.mode = remote.mode /\ (host.exp = TRUE => remote'.sends = "exp")
    BY <1>1, <2>1, ReportingFacts
  <2>4. ActiveIsKnown'
    BY <1>1, <2>1, <2>2, <2>3 DEF ActiveIsKnown, At
  <2> QED
    BY <1>1, <2>1, <2>3, <2>4 DEF SoundInv, HandshakeIsRead
<1> QED
  BY <1>3, <1>4, <1>5 DEF Goes

LEMMA DropsFacts ==
  ASSUME NEW timeout \in BOOLEAN, Drops(timeout), quiet \in BOOLEAN
  PROVE  /\ reports' \in Seq(News) /\ quiet' \in BOOLEAN
         /\ quiet' = TRUE => /\ quiet = TRUE /\ reports = <<>> /\ ~timeout
                             /\ host.read = "none" /\ remote.mode = "off" /\ reports' = <<>>
<1>1. reports' \in {<<>>, <<"BAD">>, <<"PAD">>}
  BY DEF Drops
<1>2. <<>> \in Seq(News) /\ <<"BAD">> \in Seq(News) /\ <<"PAD">> \in Seq(News)
  BY DEF News, Answers
<1>3. reports' \in Seq(News)
  BY <1>1, <1>2, Zenon
<1>4. quiet' = (quiet /\ reports = <<>> /\ ~timeout /\ host.read = "none" /\ remote.mode = "off")
  BY DEF Drops
<1>5. host.read = "none" => reports' = <<>>
  BY DEF Drops
<1> QED
  BY <1>3, <1>4, <1>5

LEMMA ProbeKeeps ==
  ASSUME IInv, Probe
  PROVE  IInv'
<1>1. /\ host \in Host /\ pc \in Pc /\ remote \in Remote /\ reports \in Seq(News)
      /\ quiet \in BOOLEAN /\ (remote.up = TRUE => host.conn = TRUE)
  BY Types
<1>2. pc.step = "probe"
  BY DEF Probe, At
<1>3. CASE Goes(host, remote) /\ UNCHANGED <<reports, quiet>>
  <2>1. /\ host' \in Host /\ remote' \in Remote /\ pc' \in Pc
        /\ remote'.up = remote.up /\ (remote.up = TRUE => host'.conn = TRUE)
        /\ pc'.step = "expand" => pc'.tries < MaxTries
    BY <1>1, <1>3, GoesTypes
  <2>2. ASSUME quiet' = TRUE, remote'.up = TRUE PROVE SoundInv'
    <3>1. SoundInv /\ remote.up = TRUE
      BY <1>3, <2>1, <2>2, Types
    <3>2. CASE remote.mode = "off"
      <4>1. PortIsNews /\ host.handshake = FALSE /\ host.read = "none"
        BY <1>1, <3>1, <3>2, OffFacts
      <4>2. /\ host.exp = TRUE => host.type = "PAD"
            /\ reports' \in Seq(Bits)
            /\ reports' # <<>> => reports'[Len(reports')] = Bit(remote)
            /\ reports' = <<>> => (pc.att = TRUE <=> Bit(remote) = "attached")
        BY <1>2, <1>3, <4>1 DEF PortIsNews, At
      <4> QED
        BY <1>1, <1>3, <3>1, <3>2, <4>1, <4>2, GoesOff
    <3>3. CASE remote.mode # "off"
      BY <1>2, <1>3, <3>1, <3>3, GoesActive
    <3> QED
      BY <3>2, <3>3
  <2> QED
    BY <1>1, <1>3, <2>1, <2>2, TypesMeet
<1>4. ASSUME NEW timeout \in BOOLEAN, NEW present \in BOOLEAN,
             NEW h, h = [AfterRead(host) EXCEPT !.present = present],
             NEW r, r = IF present /\ Arrives(h)
                        THEN Reporting(h, [remote EXCEPT !.mode = "off"]) ELSE remote,
             Goes(h, r), Drops(timeout)
      PROVE  IInv'
  <2>1. AfterRead(host) \in Host /\ (remote.up = TRUE => AfterRead(host) = host)
    BY <1>1, SendKeeps
  <2>2. h \in Host
    BY <1>4, <2>1 DEF Host
  <2>3. /\ remote.up = TRUE => /\ h.conn = host.conn /\ h.exp = host.exp /\ h.type = host.type
                               /\ h.handshake = host.handshake /\ h.read = host.read
    BY <1>1, <1>4, <2>1 DEF Host
  <2>4. /\ [remote EXCEPT !.mode = "off"] \in Remote
        /\ [remote EXCEPT !.mode = "off"].up = remote.up
        /\ [remote EXCEPT !.mode = "off"].plug = remote.plug
        /\ [remote EXCEPT !.mode = "off"].mode = "off"
    BY <1>1 DEF Remote
  <2>5. /\ r \in Remote /\ r.up = remote.up /\ r.plug = remote.plug
        /\ remote.mode = "off" => r.mode = "off"
    BY <1>1, <1>4, <2>2, <2>4, ReportingFacts
  <2>6. /\ host' \in Host /\ remote' \in Remote /\ pc' \in Pc
        /\ remote'.up = remote.up /\ (remote.up = TRUE => host'.conn = TRUE)
        /\ pc'.step = "expand" => pc'.tries < MaxTries
    BY <1>1, <1>4, <2>2, <2>3, <2>5, GoesTypes
  <2>7. /\ reports' \in Seq(News) /\ quiet' \in BOOLEAN
        /\ quiet' = TRUE => /\ quiet = TRUE /\ reports = <<>> /\ remote.mode = "off"
                            /\ reports' = <<>>
    BY <1>1, <1>4, DropsFacts
  <2>8. ASSUME quiet' = TRUE, remote'.up = TRUE PROVE SoundInv'
    <3>1. SoundInv /\ remote.up = TRUE /\ remote.mode = "off" /\ reports = <<>> /\ reports' = <<>>
      BY <2>6, <2>7, <2>8, Types
    <3>2. PortIsNews /\ host.handshake = FALSE /\ host.read = "none"
      BY <1>1, <3>1, OffFacts
    <3>3. Bit(r) = Bit(remote)
      BY <2>5, <3>1 DEF Bit
    <3>4. /\ h.exp = TRUE => h.type = "PAD"
          /\ reports' \in Seq(Bits)
          /\ reports' = <<>> => (pc.att = TRUE <=> Bit(r) = "attached")
      BY <1>2, <2>3, <3>1, <3>2, <3>3, EmptyNews DEF PortIsNews, At
    <3>5. h.conn = TRUE /\ h.handshake = FALSE /\ h.read = "none" /\ r.mode = "off"
      BY <1>1, <2>3, <2>5, <3>1, <3>2
    <3> QED
      BY <1>1, <1>4, <2>2, <2>5, <3>1, <3>4, <3>5, GoesOff
  <2> QED
    BY <2>6, <2>7, <2>8, TypesMeet
<1>5. ASSUME ~host.present PROVE IInv'
  <2>1. PICK timeout \in BOOLEAN, present \in BOOLEAN :
          /\ LET h == [AfterRead(host) EXCEPT !.present = present]
                 r == IF present /\ Arrives(h)
                      THEN Reporting(h, [remote EXCEPT !.mode = "off"]) ELSE remote
             IN Goes(h, r)
          /\ Drops(timeout)
    BY <1>5 DEF Probe
  <2> QED
    BY <1>4, <2>1
<1> QED
  BY <1>3, <1>5 DEF Probe

-----------------------------------------------------------------------------
(* Expansions                                                              *)

LEMMA ExpandKeeps ==
  ASSUME IInv, Expand
  PROVE  IInv'
<1> DEFINE g == NoExpansion(AfterSend(host))
           h == [g EXCEPT !.exp = TRUE]
<1>1. /\ host \in Host /\ pc \in Pc /\ remote \in Remote /\ reports \in Seq(News)
      /\ quiet \in BOOLEAN /\ (remote.up = TRUE => host.conn = TRUE)
      /\ pc.step = "expand" => pc.tries < MaxTries
  BY Types
<1>2. PICK timeout \in BOOLEAN, id \in {"PAD", "BAD"} :
        /\ pc' = [pc EXCEPT !.step = IF Again(id) THEN "expand" ELSE "identify",
                            !.tries = @ + 1, !.id = id]
        /\ Drops(timeout)
  BY DEF Expand
<1>3. /\ pc.step = "expand" /\ host' = AfterRead(h)
      /\ remote' = IF Arrives(host) THEN [remote EXCEPT !.mode = "off"] ELSE remote
  BY DEF Expand, At
<1>4. /\ reports' \in Seq(News) /\ quiet' \in BOOLEAN
      /\ quiet' = TRUE => quiet = TRUE /\ reports = <<>> /\ reports' = <<>>
  BY <1>1, <1>2, DropsFacts
<1>5. /\ g \in Host /\ (remote.up = TRUE => g.conn = TRUE /\ g.handshake = host.handshake
                                            /\ g.read = host.read)
  <2>1. AfterSend(host) \in Host /\ (remote.up = TRUE => AfterSend(host) = host)
    BY <1>1, SendKeeps
  <2> QED
    BY <1>1, <2>1, NoExpansionFacts
<1> HIDE DEF g
<1>6. h \in Host /\ h.conn = g.conn /\ h.handshake = g.handshake /\ h.read = g.read
  BY <1>5 DEF Host
<1> HIDE DEF h
<1>7. /\ host' \in Host
      /\ remote.up = TRUE => /\ host'.conn = TRUE /\ host'.handshake = host.handshake
                             /\ host'.read = host.read
  BY <1>3, <1>5, <1>6, SendKeeps
<1>8. /\ remote' \in Remote /\ remote'.up = remote.up /\ remote'.plug = remote.plug
      /\ remote.mode = "off" => remote'.mode = "off"
  <2>1. /\ [remote EXCEPT !.mode = "off"] \in Remote
        /\ [remote EXCEPT !.mode = "off"].up = remote.up
        /\ [remote EXCEPT !.mode = "off"].plug = remote.plug
        /\ [remote EXCEPT !.mode = "off"].mode = "off"
    BY <1>1 DEF Remote
  <2> QED
    BY <1>1, <1>3, <2>1
<1>9. /\ pc' \in Pc /\ pc'.step \in {"expand", "identify"}
      /\ pc'.step = "expand" => pc'.tries < MaxTries
  <2> DEFINE step == IF Again(id) THEN "expand" ELSE "identify"
             n == pc.tries + 1
  <2>1. step \in {"expand", "identify"} /\ (step = "expand" => n < MaxTries)
    BY DEF Again
  <2>2. pc' = [pc EXCEPT !.step = step, !.tries = n, !.id = id]
    BY <1>2
  <2>3. n \in {k \in Nat : k <= MaxTries \/ k <= MaxStatus}
    BY <1>1, <1>3, MotionPlusAssumption DEF Pc
  <2> HIDE DEF step, n
  <2>4. pc' \in Pc /\ pc'.step = step /\ pc'.tries = n
    BY <1>1, <2>1, <2>2, <2>3 DEF Pc
  <2> QED
    BY <2>1, <2>4
<1>10. ASSUME quiet' = TRUE, remote'.up = TRUE PROVE SoundInv'
  <2>1. SoundInv /\ remote.up = TRUE /\ reports = <<>> /\ reports' = <<>>
    BY <1>4, <1>8, <1>10, Types
  <2>2. remote.mode = "off" /\ PortIsNews /\ host.handshake = FALSE /\ host.read = "none"
    BY <1>1, <1>3, <2>1, OffFacts
  <2>3. remote.plug = "PAD"
    BY <1>3, <2>1, <2>2 DEF PortIsNews, At
  <2>4. PortIsNews'
    BY <1>8, <1>9, <2>1, <2>3, EmptyNews DEF PortIsNews, At
  <2>5. HandshakeIsRead'
    BY <1>7, <2>1, <2>2 DEF HandshakeIsRead
  <2> QED
    BY <1>8, <2>2, <2>4, <2>5 DEF SoundInv
<1> QED
  BY <1>4, <1>7, <1>8, <1>9, <1>10, TypesMeet

LEMMA IdentifyKeeps ==
  ASSUME IInv, Identify
  PROVE  IInv'
<1> DEFINE g == [host EXCEPT !.type = "PAD", !.exp = TRUE, !.handshake = FALSE]
           h == IF pc.id = "PAD" THEN g ELSE host
<1>1. /\ host \in Host /\ pc \in Pc /\ remote \in Remote /\ reports \in Seq(News)
      /\ quiet \in BOOLEAN /\ (remote.up = TRUE => host.conn = TRUE)
  BY Types
<1>2. pc.step = "identify" /\ pc' = [NoPc EXCEPT !.step = "idle"]
  BY DEF Identify, Goto, At
<1>3. pc' \in Pc /\ pc'.step = "idle"
  <2>1. FALSE \in BOOLEAN
    OBVIOUS
  <2> QED
    BY <1>2, <2>1, StepsAreSteps
<1>4. CASE /\ host' = AfterSend(h) /\ remote' = Reporting(h, remote)
           /\ quiet' = (quiet /\ pc.id = "PAD") /\ UNCHANGED reports
  <2>1. /\ g \in Host /\ g.conn = host.conn /\ g.type = "PAD" /\ g.exp = TRUE
        /\ g.handshake = FALSE /\ g.read = host.read
    BY <1>1 DEF Host
  <2> HIDE DEF g
  <2>2. h \in Host /\ h.conn = host.conn
    BY <1>1, <2>1
  <2> HIDE DEF h
  <2>3. host' \in Host /\ (remote.up = TRUE => host' = h)
    BY <1>4, <2>2, SendKeeps
  <2>4. /\ remote' \in Remote /\ remote'.up = remote.up /\ remote'.plug = remote.plug
        /\ remote'.mode = remote.mode
        /\ remote.up = TRUE /\ h.conn = TRUE /\ h.exp = TRUE => remote'.sends = "exp"
    BY <1>1, <1>4, <2>2, ReportingFacts
  <2>5. ASSUME quiet' = TRUE, remote'.up = TRUE PROVE SoundInv'
    <3>1. SoundInv /\ remote.up = TRUE /\ h = g
      BY <1>1, <1>4, <2>4, <2>5, Types DEF h
    <3>2. remote.mode = "off" /\ PortIsNews /\ host.handshake = FALSE /\ host.read = "none"
      BY <1>1, <1>2, <3>1, OffFacts
    <3>3. remote'.sends = "exp" /\ host'.exp = TRUE /\ host'.type = "PAD"
          /\ host'.handshake = FALSE /\ host'.read = "none"
      BY <1>1, <2>1, <2>2, <2>3, <2>4, <3>1, <3>2
    <3>4. Bit(remote)' = Bit(remote)
      BY <2>4 DEF Bit
    <3>5. reports = <<>> => Bit(remote) = "attached"
      BY <1>1, <1>2, <3>2, BitFacts DEF PortIsNews, At
    <3>6. /\ reports \in Seq(Bits)
          /\ reports # <<>> => reports[Len(reports)] = Bit(remote)
      BY <1>2, <3>2 DEF PortIsNews
    <3>7. PortIsNews'
      BY <1>3, <1>4, <3>3, <3>4, <3>5, <3>6 DEF PortIsNews, At
    <3> QED
      BY <2>4, <3>2, <3>3, <3>7 DEF SoundInv, HandshakeIsRead
  <2>6. quiet' \in BOOLEAN
    BY <1>1, <1>4
  <2> QED
    BY <1>1, <1>3, <1>4, <2>2, <2>3, <2>4, <2>5, <2>6, TypesMeet
<1>5. CASE /\ Reads(host, "pad", remote, reports) /\ remote' = Reporting(host, remote)
           /\ quiet' = FALSE
  <2>1. /\ host' \in Host /\ (remote.up = TRUE => host'.conn = TRUE) /\ reports' \in Seq(News)
    <3>1. CASE host' = host /\ reports' = reports
      BY <1>1, <3>1
    <3>2. CASE ~remote.up /\ host' = Lost(host) /\ reports' = reports
      BY <1>1, <3>2, LostFacts
    <3>3. CASE /\ host' = [host EXCEPT !.read = "pad"]
               /\ \E answer \in AnswersTo("pad", remote) : reports' = Append(reports, answer)
      <4>1. host' \in Host /\ host'.conn = host.conn
        BY <1>1, <3>3 DEF Host
      <4>2. AnswersTo("pad", remote) \subseteq News
        BY ModesFacts DEF AnswersTo, News
      <4>3. reports' \in Seq(News)
        BY <1>1, <3>3, <4>2, LastFacts
      <4> QED
        BY <1>1, <4>1, <4>3
    <3> QED
      BY <1>5, <3>1, <3>2, <3>3 DEF Reads
  <2>2. remote' \in Remote /\ remote'.up = remote.up
    BY <1>1, <1>5, ReportingFacts
  <2>3. quiet' \in BOOLEAN /\ quiet' # TRUE
    BY <1>5
  <2> QED
    BY <1>3, <2>1, <2>2, <2>3, TypesMeet
<1> QED
  BY <1>4, <1>5 DEF Identify

-----------------------------------------------------------------------------
(* Connections and the remote                                              *)

LEMMA ConnectKeeps ==
  ASSUME IInv, Connect
  PROVE  IInv'
<1>1. /\ host \in Host /\ remote \in Remote
  BY Types
<1>2. /\ host' = [host EXCEPT !.conn = TRUE, !.exp = FALSE] /\ reports' = <<>>
      /\ quiet' = (host.read = "none" /\ ~host.handshake)
      /\ pc' = [NoPc EXCEPT !.step = "ask"]
  BY DEF Connect, Goto
<1>3. PICK plug \in Plugs :
        remote' = [up |-> TRUE, plug |-> plug, mode |-> "off", sends |-> "core"]
  BY DEF Connect
<1>4. /\ host' \in Host /\ host'.conn = TRUE /\ host'.exp = FALSE
      /\ host'.handshake = host.handshake /\ host'.read = host.read
  BY <1>1, <1>2 DEF Host
<1>5. remote' \in Remote /\ remote'.mode = "off"
  BY <1>3 DEF Remote
<1>6. pc' \in Pc /\ pc'.step = "ask"
  <2>1. FALSE \in BOOLEAN
    OBVIOUS
  <2> QED
    BY <1>2, <2>1, StepsAreSteps
<1>7. ASSUME quiet' = TRUE PROVE SoundInv'
  <2>1. host.read = "none" /\ ~host.handshake /\ host.handshake \in BOOLEAN
    BY <1>1, <1>2, <1>7 DEF Host
  <2>2. host'.handshake = FALSE /\ host'.read = "none"
    BY <1>4, <2>1
  <2>3. PortIsNews'
    BY <1>2, <1>4, <1>6, EmptyNews DEF PortIsNews, At
  <2> QED
    BY <1>5, <2>2, <2>3 DEF SoundInv, HandshakeIsRead
<1>8. reports' \in Seq(News) /\ quiet' \in BOOLEAN
  BY <1>2, EmptyNews
<1> QED
  BY <1>4, <1>5, <1>6, <1>7, <1>8, TypesMeet

LEMMA ResyncKeeps ==
  ASSUME IInv, Resync
  PROVE  IInv'
<1> DEFINE h == [host EXCEPT !.exp = FALSE]
           r == IF Arrives(host) THEN [remote EXCEPT !.mode = "off"] ELSE remote
<1>1. /\ host \in Host /\ remote \in Remote /\ (remote.up = TRUE => host.conn = TRUE)
  BY Types
<1>2. /\ host' = AfterRead(h) /\ remote' = Reporting(h, r)
      /\ pc' = [NoPc EXCEPT !.step = "ask"]
      /\ reports' \in {<<>>} \cup IF host.read = "none" THEN {} ELSE {<<"BAD">>, <<"PAD">>}
      /\ quiet' = (host.read = "none" /\ ~host.handshake)
  BY DEF Resync, Goto
<1>3. /\ h \in Host /\ h.conn = host.conn /\ h.exp = FALSE
      /\ h.handshake = host.handshake /\ h.read = host.read
  BY <1>1 DEF Host
<1> HIDE DEF h
<1>4. /\ r \in Remote /\ r.up = remote.up
      /\ remote.up = TRUE => r.mode = "off"
  <2>1. /\ [remote EXCEPT !.mode = "off"] \in Remote
        /\ [remote EXCEPT !.mode = "off"].up = remote.up
        /\ [remote EXCEPT !.mode = "off"].mode = "off"
    BY <1>1 DEF Remote
  <2> QED
    BY <1>1, <2>1 DEF Arrives
<1> HIDE DEF r
<1>5. host' \in Host /\ (remote.up = TRUE => host' = h)
  BY <1>2, <1>3, SendKeeps
<1>6. remote' \in Remote /\ remote'.up = remote.up /\ remote'.mode = r.mode
  BY <1>2, <1>3, <1>4, ReportingFacts
<1>7. pc' \in Pc /\ pc'.step = "ask"
  <2>1. FALSE \in BOOLEAN
    OBVIOUS
  <2> QED
    BY <1>2, <2>1, StepsAreSteps
<1>8. reports' \in Seq(News)
  <2>1. <<>> \in Seq(News) /\ <<"BAD">> \in Seq(News) /\ <<"PAD">> \in Seq(News)
    BY DEF News, Answers
  <2>2. reports' \in {<<>>, <<"BAD">>, <<"PAD">>}
    BY <1>2
  <2> QED
    BY <2>1, <2>2, Zenon
<1>9. ASSUME quiet' = TRUE, remote'.up = TRUE PROVE SoundInv'
  <2>1. host.read = "none" /\ ~host.handshake /\ reports' = <<>>
    BY <1>2, <1>9
  <2>2. host.handshake \in BOOLEAN /\ remote.up = TRUE
    BY <1>1, <1>6, <1>9 DEF Host
  <2>3. host'.handshake = FALSE /\ host'.read = "none" /\ host'.exp = FALSE /\ remote'.mode = "off"
    BY <1>3, <1>4, <1>5, <1>6, <2>1, <2>2
  <2>4. PortIsNews'
    BY <1>7, <2>1, <2>3, EmptyNews DEF PortIsNews, At
  <2> QED
    BY <2>3, <2>4 DEF SoundInv, HandshakeIsRead
<1>10. quiet' \in BOOLEAN
  BY <1>2
<1> QED
  BY <1>1, <1>3, <1>5, <1>6, <1>7, <1>8, <1>9, <1>10, TypesMeet

LEMMA StatusKeeps ==
  ASSUME IInv, Status
  PROVE  IInv'
<1>1. /\ host \in Host /\ pc \in Pc /\ remote \in Remote /\ reports \in Seq(News)
      /\ quiet \in BOOLEAN /\ (remote.up = TRUE => host.conn = TRUE)
  BY Types
<1>2. /\ host' = AfterSend(host) /\ reports' = Asked /\ pc.step = "idle"
      /\ pc' = pc /\ remote' = remote /\ quiet' = quiet
  BY DEF Status, At
<1>3. host' \in Host /\ (remote.up = TRUE => host' = host)
  BY <1>1, <1>2, SendKeeps
<1>4. reports' \in Seq(News) /\ (remote.up = TRUE => reports' = Append(reports, Bit(remote)))
  BY <1>2, AskedFacts, Types
<1>5. ASSUME quiet' = TRUE, remote'.up = TRUE PROVE SoundInv'
  <2>1. SoundInv /\ host' = host /\ reports' = Append(reports, Bit(remote))
    BY <1>2, <1>3, <1>4, <1>5, Types
  <2>2. Bit(remote) \in Bits /\ Bit(remote)' = Bit(remote)
    BY <1>1, <1>2, BitFacts
  <2>3. HandshakeIsRead'
    BY <1>2, <2>1 DEF SoundInv, HandshakeIsRead
  <2>4. ASSUME remote.mode = "off" PROVE PortIsNews'
    <3>1. PortIsNews
      BY <2>1, <2>4 DEF SoundInv
    <3>2. /\ reports' \in Seq(Bits) /\ reports' # <<>>
          /\ reports'[Len(reports')] = Bit(remote)
      BY <2>1, <2>2, <3>1, LastFacts DEF PortIsNews
    <3> QED
      BY <1>2, <2>1, <2>2, <3>1, <3>2 DEF PortIsNews, At
  <2>5. ASSUME remote.mode # "off" PROVE ActiveIsKnown'
    <3>1. ActiveIsKnown
      BY <2>1, <2>5 DEF SoundInv
    <3>2. reports' = Append(reports, "attached")
      BY <1>1, <2>1, <2>5, BitFacts
    <3>3. host.handshake = TRUE => AnswerComes(remote.mode, reports')
      BY <1>1, <3>1, <3>2, AttachedAppended DEF ActiveIsKnown
    <3>4. ASSUME host.handshake = FALSE PROVE \A i \in DOMAIN reports' : reports'[i] = "attached"
      <4>1. \A i \in DOMAIN reports : reports[i] = "attached"
        BY <3>1, <3>4 DEF ActiveIsKnown
      <4> QED
        BY <1>1, <3>2, <4>1
    <3> QED
      BY <1>2, <2>1, <3>1, <3>3, <3>4 DEF ActiveIsKnown, At
  <2> QED
    BY <1>2, <2>3, <2>4, <2>5 DEF SoundInv
<1> QED
  BY <1>1, <1>2, <1>3, <1>4, <1>5, TypesMeet

LEMMA PollClosedKeeps ==
  ASSUME IInv, PollClosed
  PROVE  IInv'
<1>1. /\ host \in Host /\ pc \in Pc /\ remote \in Remote /\ reports \in Seq(News)
      /\ quiet \in BOOLEAN /\ remote.up \in BOOLEAN
      /\ pc.step = "expand" => pc.tries < MaxTries
  BY Types
<1>2. /\ host' = Lost(host) /\ ~remote.up
      /\ pc' = pc /\ remote' = remote /\ reports' = reports /\ quiet' = quiet
  BY DEF PollClosed
<1>3. remote'.up # TRUE
  BY <1>1, <1>2
<1> QED
  BY <1>1, <1>2, <1>3, LostFacts, TypesMeet

LEMMA LinkBreaksKeeps ==
  ASSUME IInv, LinkBreaks
  PROVE  IInv'
<1>1. /\ host \in Host /\ pc \in Pc /\ remote \in Remote /\ reports \in Seq(News)
      /\ quiet \in BOOLEAN
      /\ pc.step = "expand" => pc.tries < MaxTries
  BY Types
<1>2. /\ remote' = [remote EXCEPT !.up = FALSE]
      /\ host' = host /\ pc' = pc /\ quiet' = quiet
  BY DEF LinkBreaks
<1>3. remote' \in Remote /\ remote'.up # TRUE
  BY <1>1, <1>2 DEF Remote
<1>4. PICK n \in 0 .. Len(reports) : reports' = SubSeq(reports, 1, n)
  BY DEF LinkBreaks
<1>5. reports' \in Seq(News)
  BY <1>1, <1>4
<1> QED
  BY <1>1, <1>2, <1>3, <1>5, TypesMeet

LEMMA PlugChangesKeeps ==
  ASSUME IInv, PlugChanges
  PROVE  IInv'
<1>1. /\ host \in Host /\ pc \in Pc /\ remote \in Remote /\ reports \in Seq(News)
      /\ quiet \in BOOLEAN /\ (remote.up = TRUE => host.conn = TRUE)
      /\ pc.step = "expand" => pc.tries < MaxTries
  BY Types
<1>2. host' = host /\ pc' = pc /\ quiet' = quiet
  BY DEF PlugChanges
<1>3. PICK plug \in Plugs :
        LET r == [remote EXCEPT !.plug = plug] IN
        IF remote.mode = "off"
        THEN /\ remote' = [r EXCEPT !.sends = "status"]
             /\ reports' = Append(reports, Bit(r))
        ELSE remote' = r /\ UNCHANGED reports
  BY DEF PlugChanges
<1> DEFINE r == [remote EXCEPT !.plug = plug]
<1>4. r \in Remote /\ r.up = remote.up /\ r.mode = remote.mode /\ r.sends = remote.sends
  BY <1>1 DEF Remote
<1>5. CASE remote.mode = "off"
  <2>1. remote' = [r EXCEPT !.sends = "status"] /\ reports' = Append(reports, Bit(r))
    BY <1>3, <1>5
  <2> HIDE DEF r
  <2>2. /\ remote' \in Remote /\ remote'.up = remote.up /\ remote'.mode = "off"
        /\ remote'.plug = r.plug
    BY <1>4, <1>5, <2>1 DEF Remote
  <2>3. Bit(r) \in Bits /\ Bit(r) \in News /\ Bit(remote)' = Bit(r)
    BY <1>4, <1>5, <2>2, BitFacts, BitsAreNews DEF Bit
  <2>4. reports' \in Seq(News)
    BY <1>1, <2>1, <2>3, LastFacts
  <2>5. ASSUME quiet' = TRUE, remote'.up = TRUE PROVE SoundInv'
    <3>1. PortIsNews /\ HandshakeIsRead
      BY <1>2, <1>5, <2>2, <2>5, Types DEF SoundInv
    <3>2. /\ reports' \in Seq(Bits) /\ reports' # <<>>
          /\ reports'[Len(reports')] = Bit(r)
      BY <2>1, <2>3, <3>1, LastFacts DEF PortIsNews
    <3>3. PortIsNews'
      BY <1>2, <2>3, <3>1, <3>2 DEF PortIsNews, At
    <3> QED
      BY <1>2, <1>5, <2>2, <3>1, <3>3 DEF SoundInv, HandshakeIsRead
  <2> QED
    BY <1>1, <1>2, <2>2, <2>4, <2>5, TypesMeet
<1>6. CASE remote.mode # "off"
  <2>1. remote' = r /\ reports' = reports
    BY <1>3, <1>6
  <2> HIDE DEF r
  <2>2. ASSUME quiet' = TRUE, remote'.up = TRUE PROVE SoundInv'
    <3>1. ActiveIsKnown /\ HandshakeIsRead
      BY <1>2, <1>4, <1>6, <2>1, <2>2, Types DEF SoundInv
    <3> QED
      BY <1>2, <1>4, <1>6, <2>1, <3>1 DEF SoundInv, HandshakeIsRead, ActiveIsKnown, At
  <2> QED
    BY <1>1, <1>2, <1>4, <2>1, <2>2, TypesMeet
<1> QED
  BY <1>5, <1>6

-----------------------------------------------------------------------------
(* Motion+                                                                 *)

\* Between handlers, if nothing has failed and no identifier is awaited, only
\* status reports are on the way.
LEMMA OnlyBits ==
  ASSUME MotionPlusTypeOK, SoundInv, host.handshake = FALSE
  PROVE  reports \in Seq(Bits)
<1>1. reports \in Seq(News)
  BY DEF MotionPlusTypeOK, News
<1>2. CASE remote.mode = "off"
  BY <1>2 DEF SoundInv, PortIsNews
<1>3. CASE remote.mode # "off"
  <2>1. \A i \in DOMAIN reports : reports[i] = "attached"
    BY <1>3 DEF SoundInv, ActiveIsKnown
  <2> QED
    BY <1>1, <2>1 DEF Bits
<1> QED
  BY <1>2, <1>3

LEMMA SetMotionPlusKeeps ==
  ASSUME IInv, NEW mode \in Active, SetMotionPlus(mode)
  PROVE  IInv'
<1> DEFINE h == [host EXCEPT !.handshake = TRUE]
<1>1. /\ host \in Host /\ pc \in Pc /\ remote \in Remote /\ reports \in Seq(News)
      /\ quiet \in BOOLEAN /\ (remote.up = TRUE => host.conn = TRUE)
      /\ pc.step = "expand" => pc.tries < MaxTries
  BY Types
<1>2. /\ pc.step = "idle" /\ host.present /\ ~host.handshake /\ host.read = "none"
      /\ pc' = pc /\ quiet' = quiet
  BY DEF SetMotionPlus, At
<1>3. host.present \in BOOLEAN /\ host.handshake \in BOOLEAN
  BY <1>1 DEF Host
<1>4. /\ h \in Host /\ h.conn = host.conn /\ h.handshake = TRUE /\ h.present = host.present
      /\ [h EXCEPT !.read = "id"] \in Host
      /\ [h EXCEPT !.read = "id"].conn = host.conn
      /\ [h EXCEPT !.read = "id"].handshake = TRUE
      /\ [h EXCEPT !.read = "id"].present = host.present
      /\ [h EXCEPT !.read = "id"].read = "id"
  BY <1>1 DEF Host
<1>5. PICK sent \in Switches(remote, mode) :
        LET r == Switched(remote, mode, sent)
        IN IF Arrives(host)
           THEN remote' = r /\ Reads(h, "id", r, reports \o sent)
           ELSE host' = AfterSend(h) /\ UNCHANGED <<remote, reports>>
  BY DEF SetMotionPlus
<1> HIDE DEF h
<1>6. CASE Arrives(host)
  <2> DEFINE r == Switched(remote, mode, sent)
  <2>1. /\ r \in Remote /\ r.up = remote.up /\ r.mode = mode /\ sent \in Seq(Bits)
    <3>1. mode \in {"off"} \cup Active
      OBVIOUS
    <3> QED
      BY <1>1, <3>1, SwitchedFacts
  <2>2. remote' = r /\ Reads(h, "id", r, reports \o sent) /\ remote.up /\ host.conn
    BY <1>5, <1>6 DEF Arrives
  <2> HIDE DEF r
  <2>3. PICK answer \in AnswersTo("id", r) : reports' = Append(reports \o sent, answer)
    BY <1>4, <2>2 DEF Reads
  <2>4. host' = [h EXCEPT !.read = "id"]
    BY <1>4, <2>2 DEF Reads
  <2>5. answer \in {mode, "ERROR"} /\ answer \in News
    <3>1. mode # "off" /\ mode \in News /\ "ERROR" \in News
      BY ModesFacts DEF News
    <3> QED
      BY <2>1, <3>1 DEF AnswersTo
  <2>6. reports \o sent \in Seq(News)
    <3>1. sent \in Seq(News)
      BY <2>1, BitsAreNews
    <3> QED
      BY <1>1, <3>1
  <2>7. reports' \in Seq(News)
    BY <2>3, <2>5, <2>6, LastFacts
  <2>8. ASSUME quiet' = TRUE, remote'.up = TRUE PROVE SoundInv'
    <3>1. SoundInv /\ MotionPlusTypeOK
      BY <1>2, <2>1, <2>2, <2>8, Types
    <3>2. reports \in Seq(Bits)
      BY <1>2, <1>3, <3>1, OnlyBits
    <3>3. reports \o sent \in Seq(Bits)
      BY <2>1, <3>2
    <3>4. AnswerComes(mode, reports')
      BY <2>3, <2>5, <3>3, AnswerAppended
    <3>5. /\ host'.handshake = TRUE /\ host'.present = TRUE /\ host'.read = "id"
          /\ remote'.mode = mode
      BY <1>2, <1>3, <1>4, <2>1, <2>2, <2>4
    <3>6. ActiveIsKnown'
      BY <1>2, <3>4, <3>5 DEF ActiveIsKnown, At
    <3> QED
      BY <3>5, <3>6, ModesFacts DEF SoundInv, HandshakeIsRead
  <2> QED
    BY <1>1, <1>2, <1>4, <2>1, <2>2, <2>4, <2>7, <2>8, TypesMeet
<1>7. CASE ~Arrives(host)
  <2>1. host' = AfterSend(h) /\ remote' = remote /\ reports' = reports
    BY <1>5, <1>7
  <2>2. remote.up # TRUE
    BY <1>1, <1>7 DEF Arrives
  <2>3. host' \in Host
    BY <1>4, <2>1, SendKeeps
  <2> QED
    BY <1>1, <1>2, <2>1, <2>2, <2>3, TypesMeet
<1> QED
  BY <1>6, <1>7

LEMMA MotionPlusOffKeeps ==
  ASSUME IInv, MotionPlusOff
  PROVE  IInv'
<1> DEFINE h == NoExpansion(host)
<1>1. /\ host \in Host /\ pc \in Pc /\ remote \in Remote /\ reports \in Seq(News)
      /\ quiet \in BOOLEAN /\ (remote.up = TRUE => host.conn = TRUE)
  BY Types
<1>2. /\ ~host.handshake /\ host' = AfterSend(h)
      /\ pc' = [NoPc EXCEPT !.step = "off"] /\ quiet' = quiet
  BY DEF MotionPlusOff, Goto
<1>3. host.handshake \in BOOLEAN
  BY <1>1 DEF Host
<1>4. /\ h \in Host /\ h.conn = host.conn /\ h.exp = FALSE
      /\ h.handshake = host.handshake /\ h.read = host.read
  BY <1>1, NoExpansionFacts
<1> HIDE DEF h
<1>5. host' \in Host /\ (remote.up = TRUE => host' = h)
  BY <1>2, <1>4, SendKeeps
<1>6. pc' \in Pc /\ pc'.step = "off"
  <2>1. FALSE \in BOOLEAN
    OBVIOUS
  <2> QED
    BY <1>2, <2>1, StepsAreSteps
<1>7. PICK sent \in Switches(remote, "off") :
        IF Arrives(host)
        THEN remote' = Switched(remote, "off", sent) /\ reports' = reports \o sent
        ELSE UNCHANGED <<remote, reports>>
  BY DEF MotionPlusOff
<1>8. CASE Arrives(host)
  <2>1. remote' = Switched(remote, "off", sent) /\ reports' = reports \o sent
    BY <1>7, <1>8
  <2>2. /\ remote' \in Remote /\ remote'.up = remote.up /\ remote'.mode = "off"
        /\ sent \in Seq(Bits)
    BY <1>1, <2>1, SwitchedFacts
  <2>3. reports' \in Seq(News)
    <3>1. sent \in Seq(News)
      BY <2>2, BitsAreNews
    <3> QED
      BY <1>1, <2>1, <3>1
  <2>4. ASSUME quiet' = TRUE, remote'.up = TRUE PROVE SoundInv'
    <3>1. SoundInv /\ MotionPlusTypeOK /\ remote.up = TRUE
      BY <1>2, <2>2, <2>4, Types
    <3>2. reports \in Seq(Bits)
      BY <1>2, <1>3, <3>1, OnlyBits
    <3>3. reports' \in Seq(Bits)
      BY <2>1, <2>2, <3>2
    <3>4. host.handshake = FALSE /\ host.read = "none"
      BY <1>2, <1>3, <3>1 DEF SoundInv, HandshakeIsRead
    <3>5. host'.handshake = FALSE /\ host'.read = "none" /\ host'.exp = FALSE
      BY <1>4, <1>5, <3>1, <3>4
    <3>6. PortIsNews'
      BY <1>6, <3>3, <3>5 DEF PortIsNews, At
    <3> QED
      BY <2>2, <3>5, <3>6 DEF SoundInv, HandshakeIsRead
  <2> QED
    BY <1>1, <1>2, <1>4, <1>5, <1>6, <2>2, <2>3, <2>4, TypesMeet
<1>9. CASE ~Arrives(host)
  <2>1. remote' = remote /\ reports' = reports
    BY <1>7, <1>9
  <2>2. remote.up # TRUE
    BY <1>1, <1>9 DEF Arrives
  <2> QED
    BY <1>1, <1>2, <1>5, <1>6, <2>1, <2>2, TypesMeet
<1> QED
  BY <1>8, <1>9

LEMMA PollReadKeeps ==
  ASSUME IInv, PollRead
  PROVE  IInv'
<1> DEFINE h == [host EXCEPT !.read = "none"]
           answer == Head(reports)
           g == [h EXCEPT !.exp = TRUE, !.handshake = FALSE]
           t == [g EXCEPT !.type = answer]
<1>1. /\ host \in Host /\ pc \in Pc /\ remote \in Remote /\ reports \in Seq(News)
      /\ quiet \in BOOLEAN /\ (remote.up = TRUE => host.conn = TRUE)
      /\ pc.step = "expand" => pc.tries < MaxTries
  BY Types
<1>2. /\ pc.step = "idle" /\ reports # <<>> /\ answer \in Answers
      /\ reports' = Tail(reports) /\ quiet' = (quiet /\ answer \in Active)
  BY DEF PollRead, At
<1>3. \/ host' = h /\ pc' = pc /\ remote' = remote /\ (host.read = "none" \/ answer = "ERROR")
      \/ Identified(h, answer) /\ pc' = pc
      \/ /\ host' = h /\ pc' = [NoPc EXCEPT !.step = "expand"] /\ remote' = remote
         /\ host.read = "pad"
  BY <1>1 DEF PollRead, Goto, Host
<1>4. h \in Host /\ h.conn = host.conn
  BY <1>1 DEF Host
<1>5. /\ g \in Host /\ g.conn = host.conn /\ g.exp = TRUE /\ g.handshake = FALSE
      /\ g.read = "none" /\ g.present = host.present
  BY <1>1 DEF Host
<1>6. answer \in Active => /\ t \in Host /\ t.conn = host.conn /\ t.exp = TRUE
                           /\ t.handshake = FALSE /\ t.read = "none"
                           /\ t.present = host.present /\ t.type = answer
  BY <1>1 DEF Host
<1>7. reports' \in Seq(News) /\ quiet' \in BOOLEAN
  BY <1>1, <1>2, TailFacts
<1>8. Identified(h, answer) =>
        \/ answer \in Active /\ host' = AfterSend(t) /\ remote' = Reporting(g, remote)
        \/ answer \notin Active /\ host' = g /\ remote' = remote
  BY DEF Identified
<1> HIDE DEF t, g, h, answer
<1>9. /\ host' \in Host /\ remote' \in Remote /\ remote'.up = remote.up
      /\ remote.up = TRUE => host'.conn = TRUE
  <2>1. CASE host' = h /\ remote' = remote
    BY <1>1, <1>4, <2>1
  <2>2. CASE answer \in Active /\ host' = AfterSend(t) /\ remote' = Reporting(g, remote)
    BY <1>1, <1>5, <1>6, <2>2, SendKeeps, ReportingFacts
  <2>3. CASE host' = g /\ remote' = remote
    BY <1>1, <1>5, <2>3
  <2> QED
    BY <1>3, <1>8, <2>1, <2>2, <2>3
<1>10. pc' \in Pc /\ (pc'.step = "expand" => pc'.tries < MaxTries)
  <2>1. FALSE \in BOOLEAN /\ 0 < MaxTries
    BY MotionPlusAssumption
  <2>2. /\ [NoPc EXCEPT !.step = "expand"] \in Pc
        /\ [NoPc EXCEPT !.step = "expand"].tries = 0
    BY <2>1, StepsAreSteps
  <2> QED
    BY <1>1, <1>2, <1>3, <2>1, <2>2
<1>11. ASSUME quiet' = TRUE, remote'.up = TRUE PROVE SoundInv'
  <2>1. SoundInv /\ MotionPlusTypeOK /\ remote.up = TRUE /\ answer \in Active
    BY <1>1, <1>2, <1>9, <1>11, Types
  <2>2. answer \notin Bits /\ answer # "ERROR"
    BY <1>2, <2>1, ModesFacts
  <2>3. host.handshake # FALSE
    <3>1. reports \in Seq(Bits) => answer \in Bits
      BY <1>2, TailFacts DEF answer
    <3> QED
      BY <2>1, <2>2, <3>1, OnlyBits
  <2>4. host.handshake = TRUE /\ host.read = "id" /\ remote.mode \in Active
    BY <2>1, <2>3 DEF SoundInv, HandshakeIsRead
  <2>5. ActiveIsKnown
    BY <2>1, <2>4, ModesFacts DEF SoundInv
  <2>6. answer = remote.mode /\ \A i \in DOMAIN reports' : reports'[i] = "attached"
    <3>1. AnswerComes(remote.mode, reports)
      BY <2>4, <2>5 DEF ActiveIsKnown
    <3>2. answer \in {remote.mode, "ERROR"} /\ \A i \in DOMAIN reports' : reports'[i] = "attached"
      BY <1>1, <1>2, <2>4, <3>1, AnswerTaken DEF answer
    <3> QED
      BY <2>2, <3>2
  <2>7. host' = AfterSend(t) /\ remote' = Reporting(g, remote) /\ pc' = pc
    BY <1>3, <1>8, <2>1, <2>2, <2>4
  <2>8. host' = t
    BY <1>6, <2>1, <2>7, SendKeeps
  <2>9. remote'.mode = remote.mode /\ remote'.sends = "exp"
    BY <1>1, <1>5, <2>1, <2>7, ReportingFacts
  <2>10. /\ host'.handshake = FALSE /\ host'.exp = TRUE /\ host'.type = remote'.mode
         /\ host'.read = "none" /\ host'.present = TRUE
    BY <1>6, <2>1, <2>5, <2>6, <2>8, <2>9 DEF ActiveIsKnown
  <2>11. ActiveIsKnown'
    BY <1>2, <2>6, <2>7, <2>9, <2>10 DEF ActiveIsKnown, At
  <2> QED
    BY <2>4, <2>9, <2>10, <2>11, ModesFacts DEF SoundInv, HandshakeIsRead
<1> QED
  BY <1>7, <1>9, <1>10, <1>11, TypesMeet

-----------------------------------------------------------------------------
(* Results                                                                 *)

LEMMA NextIInv == IInv /\ [Next]_vars => IInv'
<1> SUFFICES ASSUME IInv, [Next]_vars PROVE IInv'
  OBVIOUS
<1>1. CASE Continue
  BY <1>1, AskStatusKeeps, AskTimeoutKeeps, ProbeKeeps, ExpandKeeps, IdentifyKeeps DEF Continue
<1>2. CASE Application
  BY <1>2, ConnectKeeps, ResyncKeeps, StatusKeeps, MotionPlusOffKeeps, SetMotionPlusKeeps
     DEF Application
<1>3. CASE Poll
  BY <1>3, PollStatusKeeps, PollReadKeeps, PollClosedKeeps DEF Poll
<1>4. CASE PlugChanges
  BY <1>4, PlugChangesKeeps
<1>5. CASE LinkBreaks
  BY <1>5, LinkBreaksKeeps
<1>6. CASE UNCHANGED vars
  <2>1. /\ host \in Host /\ pc \in Pc /\ remote \in Remote /\ reports \in Seq(News)
        /\ quiet \in BOOLEAN /\ (remote.up = TRUE => host.conn = TRUE)
        /\ pc.step = "expand" => pc.tries < MaxTries
        /\ quiet = TRUE /\ remote.up = TRUE => SoundInv
    BY Types
  <2>2. host' = host /\ pc' = pc /\ remote' = remote /\ reports' = reports /\ quiet' = quiet
    BY <1>6 DEF vars
  <2>3. SoundInv => SoundInv'
    BY <2>2 DEF SoundInv, HandshakeIsRead, PortIsNews, ActiveIsKnown, AnswerComes, Bit, At
  <2> QED
    BY <2>1, <2>2, <2>3, TypesMeet
<1> QED
  BY <1>1, <1>2, <1>3, <1>4, <1>5, <1>6 DEF Next

\* The inductive invariant holds of every behaviour.
THEOREM MotionPlusInvariance == Spec => []IInv
BY InitIInv, NextIInv, PTL DEF Spec

\* Flags, handlers, the remote and what is on its way have their types, for any
\* number of attempts and of reports.
THEOREM MotionPlusTypeCorrect == Spec => []MotionPlusTypeOK
<1>1. IInv => MotionPlusTypeOK
  BY DEF IInv
<1> QED
  BY <1>1, MotionPlusInvariance, PTL

\* Once every report is handled, and nothing was dropped or failed, what the
\* library knows of the port is so (wiiuse_set_motion_plus(), event_status()
\* and wiiuse_motion_plus_handshake()).
THEOREM PortAlwaysUnderstood == Spec => []PortIsUnderstood
<1>1. IInv => PortIsUnderstood
  <2> SUFFICES ASSUME IInv, quiet, Settled, reports = <<>>
               PROVE  /\ host.exp = (Bit(remote) = "attached")
                      /\ host.exp => /\ host.type = IF remote.mode = "off"
                                                    THEN remote.plug ELSE remote.mode
                                     /\ remote.sends = "exp"
                      /\ ~host.handshake
    BY DEF PortIsUnderstood
  <2>1. /\ host \in Host /\ remote \in Remote /\ reports \in Seq(News) /\ quiet \in BOOLEAN
        /\ remote.up \in BOOLEAN /\ (quiet = TRUE /\ remote.up = TRUE => SoundInv)
    BY Types
  <2>2. SoundInv /\ pc.step = "idle"
    BY <2>1 DEF Settled, At
  <2>3. host.exp \in BOOLEAN /\ (host.handshake = FALSE => ~host.handshake)
    BY <2>1 DEF Host
  <2>4. CASE remote.mode = "off"
    <3>1. PortIsNews /\ host.handshake = FALSE
      BY <2>1, <2>2, <2>4, OffFacts
    <3>2. /\ host.exp = TRUE => host.type = "PAD"
          /\ host.exp = TRUE <=> Bit(remote) = "attached"
          /\ host.exp = TRUE => remote.sends = "exp"
      BY <2>2, <3>1 DEF PortIsNews, At
    <3>3. Bit(remote) = "attached" => remote.plug = "PAD"
      BY <2>1, <2>4, BitFacts
    <3>4. host.exp = (Bit(remote) = "attached")
      BY <2>3, <3>2
    <3> QED
      BY <2>3, <2>4, <3>1, <3>2, <3>3, <3>4
  <2>5. CASE remote.mode # "off"
    <3>1. ActiveIsKnown /\ remote.mode \in Active /\ Bit(remote) = "attached"
      BY <2>1, <2>2, <2>5, BitFacts DEF SoundInv
    <3>2. host.handshake = FALSE
      <4>1. host.handshake # TRUE
        BY <2>1, <3>1, AnswerTaken DEF ActiveIsKnown
      <4> QED
        BY <2>2, <4>1 DEF SoundInv, HandshakeIsRead
    <3>3. host.exp = TRUE /\ host.type = remote.mode /\ remote.sends = "exp"
      BY <3>1, <3>2 DEF ActiveIsKnown
    <3> QED
      BY <2>3, <2>5, <3>1, <3>2, <3>3
  <2> QED
    BY <2>4, <2>5
<1> QED
  BY <1>1, MotionPlusInvariance, PTL

\* No handler turns an active Motion+ off by accident, whatever reports came
\* with turning it on (event_status(), wiiuse_probe_motion_plus() and
\* handshake_expansion()).
THEOREM ActiveAlwaysStays == Spec => ActiveStaysActive
<1> DEFINE Stays == quiet /\ remote.mode # "off" /\ ~At("idle") => remote'.mode # "off"
<1>1. IInv /\ [Next]_vars => [Stays]_vars
  <2> SUFFICES ASSUME IInv, Next, quiet, remote.mode # "off", pc.step # "idle"
               PROVE  remote'.mode = remote.mode
    BY DEF At
  <2>1. /\ host \in Host /\ pc \in Pc /\ remote \in Remote /\ quiet \in BOOLEAN
        /\ remote.up \in BOOLEAN /\ (remote.up = TRUE => host.conn = TRUE)
        /\ (quiet = TRUE /\ remote.up = TRUE => SoundInv)
    BY Types
  <2>2. remote.up = TRUE => pc.step = "probe" /\ host.present = TRUE
    <3>1. remote.up = TRUE => ActiveIsKnown
      BY <2>1 DEF SoundInv
    <3> QED
      BY <3>1 DEF ActiveIsKnown
  <2>3. ASSUME NEW h \in Host, Goes(h, remote) PROVE remote'.mode = remote.mode
    <3>1. remote' = remote \/ remote' = Reporting(h, remote)
      BY <2>3 DEF Goes, Inserted, Removed, Unchanged
    <3>2. Reporting(h, remote).mode = remote.mode
      BY <2>1, ReportingFacts
    <3> QED
      BY <3>1, <3>2
  <2>4. CASE Probe
    <3>1. CASE host.present
      BY <2>1, <2>3, <2>4, <3>1 DEF Probe
    <3>2. CASE ~host.present
      <4>1. remote.up = FALSE
        BY <2>1, <2>2, <3>2
      <4>2. AfterRead(host) \in Host
        BY <2>1, SendKeeps
      <4>3. PICK present \in BOOLEAN :
              LET h == [AfterRead(host) EXCEPT !.present = present]
                  r == IF present /\ Arrives(h)
                       THEN Reporting(h, [remote EXCEPT !.mode = "off"]) ELSE remote
              IN Goes(h, r)
        BY <2>4, <3>2 DEF Probe
      <4>4. [AfterRead(host) EXCEPT !.present = present] \in Host
        BY <4>2 DEF Host
      <4> QED
        BY <2>3, <4>1, <4>3, <4>4 DEF Arrives
    <3> QED
      BY <3>1, <3>2
  <2>5. CASE Expand
    BY <2>1, <2>2, <2>5 DEF Expand, Arrives, At
  <2>6. CASE Identify
    BY <2>1, <2>2, <2>6, ReportingFacts DEF Identify, Arrives, At, Reporting
  <2>7. CASE AskStatus \/ AskTimeout
    BY <2>7 DEF AskStatus, AskTimeout
  <2>8. CASE Application
    BY <2>8 DEF Application, At, Connect, Resync, Status, MotionPlusOff, SetMotionPlus
  <2>9. CASE Poll
    BY <2>9 DEF Poll, At, PollStatus, PollRead, PollClosed
  <2>10. CASE PlugChanges \/ LinkBreaks
    BY <2>1, <2>10 DEF PlugChanges, LinkBreaks, Remote
  <2> QED
    BY <2>4, <2>5, <2>6, <2>7, <2>8, <2>9, <2>10 DEF Next, Continue
<1>2. [][Stays]_vars => ActiveStaysActive
  BY DEF ActiveStaysActive
<1> HIDE DEF Stays
<1> QED
  BY <1>1, <1>2, MotionPlusInvariance, PTL DEF Spec
=============================================================================
