--------------------------- MODULE Embedded_proofs ---------------------------
(***************************************************************************)
(* Proofs about Embedded, for any number of remotes, any devices, and any  *)
(* number of parts of an answer.                                           *)
(***************************************************************************)
EXTENDS Embedded, SequenceTheorems, TLAPS

\* A channel that no connected remote has belongs to an attempt to connect.
\* left: the application has disconnected the remote.
Paired(w, pending, left) ==
    /\ w.connected = TRUE => w.intr = TRUE /\ (w.ctrl = TRUE \/ left)
    /\ w.connected = FALSE => w.intr = FALSE /\ (w.ctrl = TRUE => pending = "intr")
    /\ pending # "none" => w.connected = FALSE
    /\ pending = "intr" => w.ctrl = TRUE \/ left
    /\ pending = "ctrl" => w.ctrl = FALSE

Channels == \A r \in Remotes : Paired(wm[r], link[r].pending, r \in hist.left)

\* While connect waits without an old event, no event has ended its attempt.
Attempts ==
    call.kind = "connect" /\ call.stale = FALSE /\ link[call.remote].pending # "none" =>
        wm[call.remote].event # "UNEXPECTED"

Callers ==
    /\ call.kind \in {"connect", "handshake", "deliver"} => call.remote \in Remotes
    /\ Reading => call.kind \notin {"idle", "find"}

\* The answers among the unread reports u: one block, whose first is part k.
Rest(u, k) ==
    \A i \in DOMAIN u : u[i].kind = "ANSWER" =>
        /\ u[i].n >= k
        /\ u[i].n > k => i # 1 /\ u[i - 1].kind = "ANSWER"
        /\ \A j \in DOMAIN u : u[j].kind = "ANSWER" => u[j].n - u[i].n = j - i

\* A clean read has taken the first parts, its buffer may hold the next, and
\* the others are on their way.
Continues ==
    Reading /\ read.clean = TRUE =>
        /\ \A i \in DOMAIN read.got : read.got[i] = i
        /\ IF read.waits = TRUE /\ read.any = TRUE /\ read.buf # <<0>>
           THEN /\ read.buf = <<Len(read.got) + 1>>
                /\ Rest(link[read.remote].unread, Len(read.got) + 2)
           ELSE Rest(link[read.remote].unread, Len(read.got) + 1)

\* The released part of a queue is a part of it, and so is the place of a
\* delivery.
Places ==
    /\ \A r \in Remotes : wm[r].freed <= Len(wm[r].queue)
    /\ call.kind = "deliver" => call.at >= 1

IInv == EmbeddedTypeOK /\ Channels /\ Attempts /\ Callers /\ Places /\ Continues

-----------------------------------------------------------------------------
(* Shapes of the records                                                   *)

LEMMA RemoteFields ==
  ASSUME NEW w \in Wiimote
  PROVE  /\ w.address \in Devices \cup {NoDevice} /\ w.ctrl \in BOOLEAN /\ w.intr \in BOOLEAN
         /\ w.connected \in BOOLEAN /\ w.event \in {"UNEXPECTED", "OTHER"}
         /\ w.queue \in Seq(Message) /\ w.freed \in Nat /\ w.spoilt \in BOOLEAN
BY DEF Wiimote

\* The queue of w is that of v.
Store(v, w) == v.queue = w.queue /\ v.freed = w.freed /\ v.spoilt = w.spoilt

LEMMA EventSet ==
  ASSUME NEW w \in Wiimote, NEW e \in {"UNEXPECTED", "OTHER"},
         NEW v, v = [w EXCEPT !.event = e]
  PROVE  /\ v \in Wiimote /\ v.event = e /\ Store(v, w)
         /\ v.ctrl = w.ctrl /\ v.intr = w.intr /\ v.connected = w.connected
BY DEF Store, Wiimote

LEMMA QueueSet ==
  ASSUME NEW w \in Wiimote, NEW m \in Message, NEW v \in Queued(w, m)
  PROVE  /\ v \in Wiimote /\ v.event = w.event
         /\ v.ctrl = w.ctrl /\ v.intr = w.intr /\ v.connected = w.connected
         /\ v.freed = w.freed /\ Len(v.queue) >= Len(w.queue)
<1> DEFINE q == Append(w.queue, m)
           n == Len(w.queue)
<1>1. q \in Seq(Message) /\ n \in Nat /\ Len(q) = n + 1
  <2>1. w.queue \in Seq(Message)
    BY DEF Wiimote
  <2> QED
    BY <2>1
<1>2. \/ v = w
      \/ v = [w EXCEPT !.queue = q]
      \/ v = [w EXCEPT !.spoilt = TRUE, !.queue = q]
      \/ v = [w EXCEPT !.spoilt = TRUE]
  BY DEF Queued
<1> HIDE DEF q
<1>3. /\ v \in Wiimote /\ v.event = w.event
      /\ v.ctrl = w.ctrl /\ v.intr = w.intr /\ v.connected = w.connected
      /\ v.freed = w.freed /\ v.queue \in {w.queue, q}
  BY <1>1, <1>2 DEF Wiimote
<1>4. Len(v.queue) >= n
  BY <1>1, <1>3
<1> QED
  BY <1>3, <1>4

LEMMA FreedSet ==
  ASSUME NEW w \in Wiimote, NEW n \in Nat, NEW v, v = [w EXCEPT !.freed = n]
  PROVE  /\ v \in Wiimote /\ v.event = w.event
         /\ v.ctrl = w.ctrl /\ v.intr = w.intr /\ v.connected = w.connected
         /\ v.queue = w.queue /\ v.freed = n /\ v.spoilt = w.spoilt
BY DEF Wiimote

LEMMA SpoiltSet ==
  ASSUME NEW w \in Wiimote, NEW v, v = [w EXCEPT !.spoilt = TRUE]
  PROVE  /\ v \in Wiimote /\ v.event = w.event
         /\ v.ctrl = w.ctrl /\ v.intr = w.intr /\ v.connected = w.connected
         /\ v.queue = w.queue /\ v.freed = w.freed /\ v.spoilt = TRUE
BY DEF Wiimote

LEMMA AddressSet ==
  ASSUME NEW w \in Wiimote, NEW d \in Devices \cup {NoDevice}, NEW v, v = [w EXCEPT !.address = d]
  PROVE  /\ v \in Wiimote /\ v.event = w.event /\ Store(v, w)
         /\ v.ctrl = w.ctrl /\ v.intr = w.intr /\ v.connected = w.connected
BY DEF Store, Wiimote

LEMMA ControlSet ==
  ASSUME NEW w \in Wiimote, NEW v, v = [w EXCEPT !.ctrl = TRUE]
  PROVE  /\ v \in Wiimote /\ v.event = w.event /\ Store(v, w)
         /\ v.ctrl = TRUE /\ v.intr = w.intr /\ v.connected = w.connected
BY DEF Store, Wiimote

LEMMA InterruptSet ==
  ASSUME NEW w \in Wiimote, NEW v, v = [w EXCEPT !.intr = TRUE, !.connected = TRUE]
  PROVE  /\ v \in Wiimote /\ v.event = w.event /\ Store(v, w)
         /\ v.ctrl = w.ctrl /\ v.intr = TRUE /\ v.connected = TRUE
BY DEF Store, Wiimote

LEMMA ControlReset ==
  ASSUME NEW w \in Wiimote, NEW v, v = Fails([w EXCEPT !.ctrl = FALSE])
  PROVE  /\ v \in Wiimote /\ v.event = "UNEXPECTED" /\ Store(v, w)
         /\ v.ctrl = FALSE /\ v.intr = w.intr /\ v.connected = w.connected
BY DEF Store, Wiimote, Fails

LEMMA ReleasedSet ==
  ASSUME NEW w \in Wiimote,
         NEW v, v = [w EXCEPT !.ctrl = FALSE, !.intr = FALSE, !.event = "OTHER"]
  PROVE  /\ v \in Wiimote /\ v.event = "OTHER" /\ Store(v, w)
         /\ v.ctrl = FALSE /\ v.intr = FALSE /\ v.connected = w.connected
BY DEF Store, Wiimote

LEMMA PendingSet ==
  ASSUME NEW l \in Link, NEW p \in {"none", "ctrl", "intr"}, NEW v, v = [l EXCEPT !.pending = p]
  PROVE  v \in Link /\ v.pending = p /\ v.unread = l.unread /\ v.sent = l.sent
BY DEF Link

LEMMA UnreadSet ==
  ASSUME NEW l \in Link, NEW u \in Seq(Message), NEW v, v = [l EXCEPT !.unread = u]
  PROVE  v \in Link /\ v.pending = l.pending /\ v.unread = u /\ v.sent = l.sent
BY DEF Link

LEMMA AnswerFacts ==
  /\ Answer \in Seq(Message) /\ Len(Answer) = Parts /\ Parts \in Nat \ {0}
  /\ \A i \in 1 .. Parts : Answer[i].kind = "ANSWER" /\ Answer[i].n = i
<1>1. Parts \in Nat \ {0}
  BY EmbeddedAssumption
<1>2. \A i \in 1 .. Parts : [kind |-> "ANSWER", n |-> i] \in Message
  BY <1>1 DEF Message
<1> QED
  BY <1>1, <1>2 DEF Answer

LEMMA NoReadFacts ==
  /\ NoRead \in Read /\ NoRead.remote = Nobody /\ NoRead.waits = FALSE /\ NoRead.any = FALSE
  /\ NoRead.buf = <<>> /\ NoRead.got = <<>>
BY DEF NoRead, Read

LEMMA IdleFacts ==
  /\ Idle \in Call /\ Idle.kind = "idle" /\ Idle.remote = Nobody /\ Idle.at = 0
  /\ Idle.stale = FALSE
BY DEF Idle, Call

LEMMA NobodyIsNoRemote == Nobody \notin Remotes /\ Remotes \subseteq Nat
BY EmbeddedAssumption DEF Nobody, Remotes

\* What a read starts with.
Started(r, l) == [remote |-> r, waits |-> FALSE, any |-> FALSE, buf |-> <<>>, got |-> <<>>,
                  clean |-> ~Answers(l)]

LEMMA StartsReadFacts ==
  ASSUME NEW r \in Remotes, NEW l \in Link, StartsRead(r, l)
  PROVE  /\ read' = Started(r, l) /\ read' \in Read
         /\ \E v \in Link : /\ link' = [link EXCEPT ![r] = v]
                            /\ v.pending = l.pending /\ v.sent = l.sent
                            /\ v.unread = l.unread \/ v.unread = l.unread \o Answer
<1>1. read' = Started(r, l)
  BY DEF StartsRead, NoRead, Started
<1>2. Started(r, l) \in Read
  <2> DEFINE c == ~Answers(l)
  <2>1. c \in BOOLEAN
    OBVIOUS
  <2>2. <<>> \in Seq(Nat)
    OBVIOUS
  <2> HIDE DEF c
  <2>3. [remote |-> r, waits |-> FALSE, any |-> FALSE, buf |-> <<>>, got |-> <<>>,
         clean |-> c] \in Read
    BY <2>1, <2>2 DEF Read
  <2> QED
    BY <2>3 DEF Started, c
<1>3. l.unread \in Seq(Message)
  BY DEF Link
<1>4. CASE link' = [link EXCEPT ![r] = [l EXCEPT !.unread = l.unread \o Answer]]
  <2> DEFINE u == l.unread \o Answer
             v == [l EXCEPT !.unread = u]
  <2>1. u \in Seq(Message) /\ u = l.unread \o Answer
    BY <1>3, AnswerFacts
  <2>2. v = [l EXCEPT !.unread = u] /\ link' = [link EXCEPT ![r] = v]
    BY <1>4
  <2> HIDE DEF u, v
  <2>3. v \in Link /\ v.pending = l.pending /\ v.unread = u /\ v.sent = l.sent
    BY <2>1, <2>2, UnreadSet
  <2> QED
    BY <1>1, <1>2, <2>1, <2>2, <2>3
<1>5. CASE link' = [link EXCEPT ![r] = l]
  BY <1>1, <1>2, <1>5
<1> QED
  BY <1>4, <1>5 DEF StartsRead

-----------------------------------------------------------------------------
(* Steps that change one remote                                            *)

\* Remote r becomes w, its link l.
Change(r, w, l) == wm' = [wm EXCEPT ![r] = w] /\ link' = [link EXCEPT ![r] = l]

LEMMA ChangeFacts ==
  ASSUME IInv, NEW r \in Remotes, NEW w \in Wiimote, NEW l \in Link, Change(r, w, l)
  PROVE  /\ wm' \in [Remotes -> Wiimote] /\ link' \in [Remotes -> Link]
         /\ wm'[r] = w /\ link'[r] = l
         /\ \A s \in Remotes : s # r => wm'[s] = wm[s] /\ link'[s] = link[s]
BY DEF IInv, EmbeddedTypeOK, Change

\* Nothing changes for remote r.
LEMMA NoChange ==
  ASSUME IInv, NEW r \in Remotes
  PROVE  /\ wm[r] \in Wiimote /\ link[r] \in Link
         /\ wm = [wm EXCEPT ![r] = wm[r]] /\ link = [link EXCEPT ![r] = link[r]]
BY DEF IInv, EmbeddedTypeOK

LEMMA ChannelsSide ==
  ASSUME IInv, NEW r \in Remotes, NEW w \in Wiimote, NEW l \in Link, Change(r, w, l),
         Paired(w, l.pending, r \in hist'.left),
         \A s \in Remotes : s # r => (s \in hist'.left <=> s \in hist.left),
         call'.kind = "connect" => call' = call,
         l.pending # "none" => link[r].pending # "none" /\ w.event \in {wm[r].event, "OTHER"}
  PROVE  Channels' /\ Attempts'
<1>1. /\ wm'[r] = w /\ link'[r] = l
      /\ \A s \in Remotes : s # r => wm'[s] = wm[s] /\ link'[s] = link[s]
  BY ChangeFacts
<1>2. Channels'
  <2>1. ASSUME NEW s \in Remotes PROVE Paired(wm'[s], link'[s].pending, s \in hist'.left)
    <3>1. CASE s = r
      BY <1>1, <3>1
    <3>2. CASE s # r
      BY <1>1, <3>2 DEF IInv, Channels, Paired
    <3> QED
      BY <3>1, <3>2
  <2> QED
    BY <2>1 DEF Channels
<1>3. Attempts'
  <2> SUFFICES ASSUME call'.kind = "connect", call'.stale = FALSE,
                      link'[call'.remote].pending # "none"
               PROVE  wm'[call'.remote].event # "UNEXPECTED"
    BY DEF Attempts
  <2>1. call' = call /\ call.remote \in Remotes
    BY DEF IInv, Callers
  <2>2. CASE call.remote = r
    BY <1>1, <2>1, <2>2 DEF IInv, Attempts
  <2>3. CASE call.remote # r
    BY <1>1, <2>1, <2>3 DEF IInv, Attempts
  <2> QED
    BY <2>2, <2>3
<1> QED
  BY <1>2, <1>3

\* A report that is no answer joins the others.
LEMMA RestAppend ==
  ASSUME NEW u \in Seq(Message), NEW k \in Nat, Rest(u, k), NEW m \in Message, m.kind # "ANSWER"
  PROVE  Rest(Append(u, m), k)
<1> DEFINE a == Append(u, m)
<1>1. /\ Len(u) \in Nat /\ DOMAIN u = 1 .. Len(u) /\ DOMAIN a = 1 .. Len(u) + 1
      /\ \A i \in 1 .. Len(u) : a[i] = u[i]
      /\ a[Len(u) + 1] = m
  OBVIOUS
<1> HIDE DEF a
<1>2. \A i \in DOMAIN a : a[i].kind = "ANSWER" => i \in DOMAIN u /\ a[i] = u[i]
  BY <1>1
<1>3. ASSUME NEW i \in DOMAIN a, a[i].kind = "ANSWER"
      PROVE  /\ a[i].n >= k
             /\ a[i].n > k => i # 1 /\ a[i - 1].kind = "ANSWER"
             /\ \A j \in DOMAIN a : a[j].kind = "ANSWER" => a[j].n - a[i].n = j - i
  <2>1. i \in 1 .. Len(u) /\ a[i] = u[i]
    BY <1>1, <1>2, <1>3
  <2>2. /\ u[i].n >= k
        /\ u[i].n > k => i # 1 /\ u[i - 1].kind = "ANSWER"
        /\ \A j \in DOMAIN u : u[j].kind = "ANSWER" => u[j].n - u[i].n = j - i
    BY <1>1, <1>3, <2>1 DEF Rest
  <2>3. i # 1 => a[i - 1] = u[i - 1]
    BY <1>1, <2>1
  <2> QED
    BY <1>2, <2>1, <2>2, <2>3
<1> QED
  BY <1>3 DEF Rest, a

LEMMA ReadSide ==
  ASSUME IInv, NEW r \in Remotes, NEW w \in Wiimote, NEW l \in Link, Change(r, w, l),
         \/ read'.remote = Nobody
         \/ read'.clean = FALSE
         \/ /\ read' = read
            /\ \/ l.unread = link[r].unread
               \/ \E m \in Message : /\ m.kind # "ANSWER"
                                     /\ l.unread = Append(link[r].unread, m)
  PROVE  Continues'
<1>1. CASE read'.remote = Nobody
  BY <1>1 DEF Continues, Reading
<1>2. CASE read'.clean = FALSE
  BY <1>2 DEF Continues
<1>3. CASE /\ read' = read
           /\ \/ l.unread = link[r].unread
              \/ \E m \in Message : m.kind # "ANSWER" /\ l.unread = Append(link[r].unread, m)
  <2> SUFFICES ASSUME read.remote # Nobody, read.clean = TRUE
               PROVE  Continues'
    BY <1>3 DEF Continues, Reading
  <2> DEFINE u == link[read.remote].unread
             v == link'[read.remote].unread
  <2>1. read.remote \in Remotes /\ read \in Read /\ Len(read.got) \in Nat
    BY DEF IInv, EmbeddedTypeOK, Read
  <2>2. /\ \A i \in DOMAIN read.got : read.got[i] = i
        /\ IF read.waits = TRUE /\ read.any = TRUE /\ read.buf # <<0>>
           THEN read.buf = <<Len(read.got) + 1>> /\ Rest(u, Len(read.got) + 2)
           ELSE Rest(u, Len(read.got) + 1)
    BY DEF IInv, Continues, Reading
  <2>3. u \in Seq(Message)
    BY <2>1 DEF IInv, EmbeddedTypeOK, Link
  <2>4. v = u \/ \E m \in Message : m.kind # "ANSWER" /\ v = Append(u, m)
    BY <1>3, <2>1, ChangeFacts
  <2> HIDE DEF u, v
  <2>5. ASSUME NEW k \in Nat, Rest(u, k) PROVE Rest(v, k)
    BY <2>3, <2>4, <2>5, RestAppend
  <2>6. /\ Rest(u, Len(read.got) + 1) => Rest(v, Len(read.got) + 1)
        /\ Rest(u, Len(read.got) + 2) => Rest(v, Len(read.got) + 2)
    BY <2>1, <2>5
  <2>7. /\ \A i \in DOMAIN read.got : read.got[i] = i
        /\ IF read.waits = TRUE /\ read.any = TRUE /\ read.buf # <<0>>
           THEN read.buf = <<Len(read.got) + 1>> /\ Rest(v, Len(read.got) + 2)
           ELSE Rest(v, Len(read.got) + 1)
    BY <2>2, <2>6
  <2> QED
    BY <1>3, <2>7 DEF Continues, v
<1> QED
  BY <1>1, <1>2, <1>3

\* Steps that change no remote.
LEMMA StillFacts ==
  ASSUME IInv, wm' = wm, link' = link
  PROVE  \E r \in Remotes : wm[r] \in Wiimote /\ link[r] \in Link /\ Change(r, wm[r], link[r])
<1>1. 1 \in Remotes
  BY EmbeddedAssumption DEF Remotes
<1> QED
  BY <1>1, NoChange DEF Change

LEMMA StillKeeps ==
  ASSUME IInv, wm' = wm, link' = link, hist' = hist
  PROVE  /\ wm' \in [Remotes -> Wiimote] /\ link' \in [Remotes -> Link] /\ hist' \in Hist
         /\ (call'.kind = "connect" => call' = call) => Channels' /\ Attempts'
         /\ (call'.kind = "deliver" => call'.at >= 1) => Places'
         /\ (read'.remote = Nobody \/ read'.clean = FALSE \/ read' = read) => Continues'
<1>1. PICK r \in Remotes : wm[r] \in Wiimote /\ link[r] \in Link /\ Change(r, wm[r], link[r])
  BY StillFacts
<1>2. Paired(wm[r], link[r].pending, r \in hist.left)
  BY DEF IInv, Channels
<1>3. wm' \in [Remotes -> Wiimote] /\ link' \in [Remotes -> Link] /\ hist' \in Hist
  BY DEF IInv, EmbeddedTypeOK
<1>4. (call'.kind = "connect" => call' = call) => Channels' /\ Attempts'
  BY <1>1, <1>2, ChannelsSide
<1>5. (read'.remote = Nobody \/ read'.clean = FALSE \/ read' = read) => Continues'
  BY <1>1, ReadSide
<1>6. (call'.kind = "deliver" => call'.at >= 1) => Places'
  BY DEF IInv, Places
<1> QED
  BY <1>3, <1>4, <1>5, <1>6

-----------------------------------------------------------------------------
(* What keeps the channels paired, and the shapes of calls                 *)

LEMMA PairedSame ==
  ASSUME NEW w, NEW v, NEW p, NEW b, Paired(w, p, b),
         v.ctrl = w.ctrl, v.intr = w.intr, v.connected = w.connected
  PROVE  Paired(v, p, b)
BY DEF Paired

LEMMA CallFields ==
  ASSUME NEW c \in Call
  PROVE  /\ c.kind \in {"idle", "find", "connect", "handshake", "deliver", "poll"}
         /\ c.remote \in Remotes \cup {Nobody} /\ c.at \in Nat /\ c.stale \in BOOLEAN
BY DEF Call

Kinds == {"idle", "find", "connect", "handshake", "deliver", "poll"}

\* The calls that begin.
LEMMA CallBegins ==
  ASSUME NEW k \in Kinds, NEW c, c = [Idle EXCEPT !.kind = k]
  PROVE  c \in Call /\ c.kind = k
BY DEF Idle, Call, Kinds

LEMMA DeliveryBegins ==
  ASSUME NEW r \in Remotes, NEW c, c = [Idle EXCEPT !.kind = "deliver", !.remote = r, !.at = 1]
  PROVE  c \in Call /\ c.kind = "deliver" /\ c.remote = r /\ c.at = 1
BY DEF Idle, Call

LEMMA ReadFields ==
  ASSUME IInv
  PROVE  /\ read.remote \in Remotes \cup {Nobody} /\ read.waits \in BOOLEAN
         /\ read.any \in BOOLEAN /\ read.buf \in Seq(Nat) /\ read.got \in Seq(Nat)
         /\ read.clean \in BOOLEAN
         /\ call \in Call /\ search \in Search /\ read \in Read
         /\ Reading <=> read.remote # Nobody
         /\ call = Idle => ~Reading
         /\ call.kind = "deliver" => call.at >= 1
<1>1. call \in Call /\ search \in Search /\ read \in Read
  BY DEF IInv, EmbeddedTypeOK
<1>2. call = Idle => ~Reading
  BY IdleFacts DEF IInv, Callers
<1> QED
  BY <1>1, <1>2 DEF Read, Reading, IInv, Places

\* The parts of the invariant, put together.
LEMMA Together ==
  ASSUME wm' \in [Remotes -> Wiimote], link' \in [Remotes -> Link], call' \in Call,
         read' \in Read, search' \in Search, hist' \in Hist,
         Channels', Attempts', Callers', Places', Continues'
  PROVE  IInv'
BY DEF IInv, EmbeddedTypeOK

\* A change of one remote.
LEMMA ChangeKeeps ==
  ASSUME IInv, NEW r \in Remotes, NEW w \in Wiimote, NEW l \in Link, Change(r, w, l),
         hist' \in Hist, search' = search \/ search' \in Search,
         Store(w, wm[r]) \/ w.freed <= Len(w.queue),
         call' \in Call, call'.kind = "deliver" => call'.at >= 1,
         read' \in Read, Channels', Attempts', Callers', Continues'
  PROVE  IInv'
<1>1. wm' \in [Remotes -> Wiimote] /\ link' \in [Remotes -> Link]
  BY ChangeFacts
<1>2. /\ wm'[r] = w /\ \A s \in Remotes : s # r => wm'[s] = wm[s]
      /\ \A s \in Remotes : wm[s].freed <= Len(wm[s].queue)
  BY ChangeFacts DEF IInv, Places
<1>3. w.freed <= Len(w.queue)
  BY <1>2 DEF Store
<1>4. ASSUME NEW s \in Remotes PROVE wm'[s].freed <= Len(wm'[s].queue)
  <2>1. CASE s = r
    BY <1>2, <1>3, <2>1
  <2>2. CASE s # r
    BY <1>2, <2>2
  <2> QED
    BY <2>1, <2>2
<1>5. Places'
  BY <1>4 DEF Places
<1> QED
  BY <1>1, <1>5, ReadFields, Together

-----------------------------------------------------------------------------
(* Blocking reads                                                          *)

LEMMA InterruptsFacts ==
  ASSUME IInv, Interrupts
  PROVE  /\ read' \in Read /\ read'.remote = read.remote
         /\ read' = read \/ read'.clean = FALSE
<1>1. CASE read.waits = TRUE
  <2>1. read' = [read EXCEPT !.any = TRUE, !.clean = FALSE] /\ read \in Read
    BY <1>1, ReadFields DEF Interrupts
  <2> QED
    BY <2>1 DEF Read
<1>2. CASE read.waits = FALSE
  BY <1>2, ReadFields DEF Interrupts
<1> QED
  BY <1>1, <1>2, ReadFields

\* The same call goes on, with the same read or none.
LEMMA SameCallers ==
  ASSUME IInv, call' = call, read'.remote \in {read.remote, Nobody}
  PROVE  Callers'
<1>1. Reading' => Reading
  BY DEF Reading
<1> QED
  BY <1>1 DEF IInv, Callers

LEMMA OtherEventKeeps == ASSUME IInv, OtherEvent PROVE IInv'
<1>1. /\ wm' = wm /\ link' = link /\ hist' = hist /\ call' = call /\ search' = search
      /\ Interrupts
  BY DEF OtherEvent
<1>2. /\ read' \in Read /\ read'.remote = read.remote
      /\ read' = read \/ read'.clean = FALSE
  BY <1>1, InterruptsFacts
<1>3. Callers'
  BY <1>1, <1>2, SameCallers
<1> QED
  BY <1>1, <1>2, <1>3, StillKeeps, ReadFields, Together

\* The wait of a read begins: nothing has occurred in it.
LEMMA ReadWaitsKeeps == ASSUME IInv, ReadWaits PROVE IInv'
<1>1. /\ wm' = wm /\ link' = link /\ hist' = hist /\ call' = call /\ search' = search
      /\ read' = [read EXCEPT !.waits = TRUE, !.any = FALSE]
      /\ Reading /\ read.waits = FALSE
  BY ReadFields DEF ReadWaits
<1>2. /\ read' \in Read /\ read'.remote = read.remote /\ read'.any = FALSE
      /\ read'.got = read.got /\ read'.clean = read.clean
  <2>1. read \in Read
    BY ReadFields
  <2> QED
    BY <1>1, <2>1 DEF Read
<1>3. Callers'
  BY <1>1, <1>2, SameCallers
<1>4. Continues'
  <2>1. ASSUME read.clean = TRUE
        PROVE  /\ \A i \in DOMAIN read.got : read.got[i] = i
               /\ Rest(link[read.remote].unread, Len(read.got) + 1)
    BY <1>1, <2>1 DEF IInv, Continues
  <2> QED
    BY <1>1, <1>2, <2>1 DEF Continues
<1> QED
  BY <1>1, <1>2, <1>3, <1>4, StillKeeps, ReadFields, Together

LEMMA PartsFoundFacts ==
  ASSUME NEW part \in PartsFound, read \in Read
  PROVE  /\ part \in Seq(Nat)
         /\ read.any = FALSE \/ read.buf = <<0>> => part = <<>>
         /\ read.any = TRUE /\ read.buf # <<>> /\ read.buf # <<0>> => part = read.buf
<1>1. read.any \in BOOLEAN /\ read.buf \in Seq(Nat)
  BY DEF Read
<1>2. CASE ~read.any
  <2>1. part = <<>>
    BY <1>2 DEF PartsFound
  <2>2. read.any = FALSE
    BY <1>1, <1>2
  <2> QED
    BY <2>1, <2>2
<1>3. CASE read.any
  <2>1. part \in IF read.buf = <<>> THEN {<<>>, <<0>>}
                 ELSE IF read.buf = <<0>> THEN {<<>>} ELSE {read.buf}
    BY <1>3 DEF PartsFound
  <2>2. read.any = TRUE
    BY <1>1, <1>3
  <2>3. <<>> \in Seq(Nat) /\ <<0>> \in Seq(Nat) /\ <<0>> # <<>>
    OBVIOUS
  <2>4. CASE read.buf = <<>>
    BY <2>1, <2>2, <2>3, <2>4
  <2>5. CASE read.buf = <<0>>
    BY <2>1, <2>2, <2>3, <2>5
  <2>6. CASE read.buf # <<>> /\ read.buf # <<0>>
    BY <1>1, <2>1, <2>2, <2>6
  <2> QED
    BY <2>4, <2>5, <2>6
<1> QED
  BY <1>2, <1>3

\* In a clean read the buffer holds the next part, if an event has occurred.
LEMMA ReadReturnsKeeps == ASSUME IInv, ReadReturns PROVE IInv'
<1>1. /\ wm' = wm /\ link' = link /\ hist' = hist /\ call' = call /\ search' = search
      /\ read.waits = TRUE /\ read \in Read /\ read.got \in Seq(Nat)
  BY ReadFields DEF ReadReturns
<1>2. PICK part \in PartsFound : read' = [read EXCEPT !.waits = FALSE, !.got = @ \o part]
  BY DEF ReadReturns
<1>3. /\ part \in Seq(Nat)
      /\ read.any = FALSE \/ read.buf = <<0>> => part = <<>>
      /\ read.any = TRUE /\ read.buf # <<>> /\ read.buf # <<0>> => part = read.buf
  BY <1>1, <1>2, PartsFoundFacts
<1>4. /\ read' \in Read /\ read'.remote = read.remote /\ read'.waits = FALSE
      /\ read'.clean = read.clean /\ read'.got = read.got \o part
  <2> DEFINE g == read.got \o part
             v == [read EXCEPT !.waits = FALSE, !.got = g]
  <2>1. g \in Seq(Nat) /\ read \in Read
    BY <1>1, <1>3
  <2>4. g = read.got \o part
    OBVIOUS
  <2>2. v = [read EXCEPT !.waits = FALSE, !.got = g] /\ read' = v
    BY <1>2
  <2> HIDE DEF g, v
  <2>3. /\ v \in Read /\ v.remote = read.remote /\ v.waits = FALSE
        /\ v.clean = read.clean /\ v.got = g
    BY <2>1, <2>2 DEF Read
  <2> QED
    BY <2>2, <2>3, <2>4
<1>5. Callers'
  BY <1>1, <1>4, SameCallers
<1>6. Continues'
  <2> SUFFICES ASSUME Reading, read.clean = TRUE
               PROVE  /\ \A i \in DOMAIN read'.got : read'.got[i] = i
                      /\ Rest(link[read.remote].unread, Len(read'.got) + 1)
    BY <1>1, <1>4 DEF Continues, Reading
  <2>1. /\ \A i \in DOMAIN read.got : read.got[i] = i
        /\ IF read.any = TRUE /\ read.buf # <<0>>
           THEN /\ read.buf = <<Len(read.got) + 1>>
                /\ Rest(link[read.remote].unread, Len(read.got) + 2)
           ELSE Rest(link[read.remote].unread, Len(read.got) + 1)
    BY <1>1 DEF IInv, Continues
  <2>2. CASE read.any = TRUE /\ read.buf # <<0>>
    <3> DEFINE n == Len(read.got)
               g == read.got \o <<n + 1>>
    <3>1. n \in Nat /\ read.buf = <<n + 1>> /\ Rest(link[read.remote].unread, n + 2)
      BY <1>1, <2>1, <2>2
    <3>2. part = <<n + 1>> /\ read'.got = g
      <4>1. <<n + 1>> # <<>> /\ <<n + 1>> # <<0>>
        BY <3>1
      <4>2. part = read.buf
        BY <1>3, <2>2, <3>1, <4>1
      <4> QED
        BY <1>4, <3>1, <4>2
    <3>3. /\ Len(g) = n + 1 /\ DOMAIN g = 1 .. n + 1
          /\ \A i \in 1 .. n : g[i] = read.got[i] /\ i \in DOMAIN read.got
          /\ g[n + 1] = n + 1
      BY <1>1
    <3> HIDE DEF g
    <3>4. \A i \in DOMAIN g : g[i] = i
      <4> HIDE DEF n
      <4> QED
        BY <2>1, <3>1, <3>3
    <3>5. Rest(link[read.remote].unread, Len(g) + 1)
      <4>1. Len(g) + 1 = n + 2
        BY <3>1, <3>3
      <4> QED
        BY <3>1, <4>1
    <3> QED
      BY <3>2, <3>4, <3>5
  <2>3. CASE read.any = FALSE \/ read.buf = <<0>>
    <3>1. read'.got = read.got
      BY <1>1, <1>3, <1>4, <2>3
    <3> QED
      BY <2>1, <2>3, <3>1
  <2> QED
    BY <2>2, <2>3, ReadFields
<1> QED
  BY <1>1, <1>4, <1>5, <1>6, StillKeeps, ReadFields, Together

\* A handler returns, or the handshake with its call.
LEMMA ReadEndsKeeps == ASSUME IInv, ReadEnds PROVE IInv'
<1>1. /\ read' = NoRead /\ link' = link /\ search' = search /\ hist' = hist
      /\ call \in Call /\ search \in Search /\ hist \in Hist
  BY ReadFields DEF ReadEnds, IInv, EmbeddedTypeOK
<1>2. read' \in Read /\ read'.remote = Nobody /\ ~Reading'
  BY <1>1, NoReadFacts DEF Reading
<1>3. CASE call.kind # "handshake"
  <2>1. wm' = wm /\ call' = call
    BY <1>3 DEF ReadEnds
  <2>2. Callers'
    BY <1>2, <2>1, SameCallers
  <2> QED
    BY <1>1, <1>2, <2>1, <2>2, ReadFields, StillKeeps, Together
<1>4. CASE call.kind = "handshake"
  <2> DEFINE r == call.remote
             v == [wm[r] EXCEPT !.event = "OTHER"]
  <2>1. r \in Remotes
    BY <1>4 DEF IInv, Callers
  <2>2. wm' \in {wm, [wm EXCEPT ![r] = v]} /\ call' = Idle
    BY <1>4 DEF ReadEnds
  <2>3. call' \in Call /\ call'.kind = "idle" /\ Callers'
    BY <1>2, <2>2, IdleFacts DEF Callers
  <2>4. CASE wm' = wm
    BY <1>1, <1>2, <2>3, <2>4, StillKeeps, Together
  <2>5. CASE wm' = [wm EXCEPT ![r] = v]
    <3>1. /\ wm[r] \in Wiimote /\ link[r] \in Link
          /\ link = [link EXCEPT ![r] = link[r]]
          /\ v = [wm[r] EXCEPT !.event = "OTHER"]
      BY <2>1, NoChange
    <3> HIDE DEF v, r
    <3>2. /\ v \in Wiimote /\ v.event = "OTHER" /\ Store(v, wm[r])
          /\ v.ctrl = wm[r].ctrl /\ v.intr = wm[r].intr /\ v.connected = wm[r].connected
      BY <3>1, EventSet
    <3>3. Change(r, v, link[r])
      BY <1>1, <2>5, <3>1 DEF Change
    <3>4. Paired(v, link[r].pending, r \in hist.left)
      BY <2>1, <3>2, PairedSame DEF IInv, Channels
    <3>5. Channels' /\ Attempts'
      BY <1>1, <2>1, <2>3, <3>1, <3>2, <3>3, <3>4, ChannelsSide
    <3>6. Continues'
      BY <1>2, <2>1, <3>1, <3>2, <3>3, ReadSide
    <3> QED
      BY <1>1, <1>2, <2>1, <2>3, <3>1, <3>2, <3>3, <3>5, <3>6, ChangeKeeps
  <2> QED
    BY <2>2, <2>4, <2>5
<1> QED
  BY <1>3, <1>4

-----------------------------------------------------------------------------
(* Calls that begin or end, and the delivery                               *)

\* No read is in progress, and the call becomes another one.
LEMMA CallKeeps ==
  ASSUME IInv, wm' = wm, link' = link, hist' = hist, read' = read, ~Reading,
         search' \in Search, call' \in Call,
         call'.kind \notin {"connect", "handshake"},
         call'.kind = "deliver" => call'.remote \in Remotes /\ call'.at >= 1
  PROVE  IInv'
<1>1. Callers'
  BY DEF Callers, Reading
<1> QED
  BY <1>1, StillKeeps, ReadFields, Together

LEMMA CallsKeep ==
  ASSUME IInv, ConnectFails \/ Poll \/ PollReturns \/ Find \/ FindReturns
  PROVE  IInv'
<1>1. wm' = wm /\ link' = link /\ hist' = hist /\ read' = read
  BY DEF ConnectFails, Poll, PollReturns, Find, FindReturns
<1>2. ~Reading
  BY ReadFields DEF ConnectFails, Poll, PollReturns, Find, FindReturns, IInv, Callers
<1>3. NoSearch \in Search
  BY DEF NoSearch, Search
<1>4. search' \in Search
  BY <1>3, ReadFields DEF ConnectFails, Poll, PollReturns, Find, FindReturns
<1>5. 1 \in Remotes
  BY EmbeddedAssumption DEF Remotes
<1>6. CASE ConnectFails \/ PollReturns \/ FindReturns
  <2>1. call' = Idle
    BY <1>6 DEF ConnectFails, PollReturns, FindReturns
  <2> QED
    BY <1>1, <1>2, <1>4, <2>1, IdleFacts, CallKeeps
<1>7. CASE Poll
  <2> DEFINE c == [Idle EXCEPT !.kind = "deliver", !.remote = 1, !.at = 1]
  <2>1. call' = c
    BY <1>7 DEF Poll
  <2>2. c \in Call /\ c.kind = "deliver" /\ c.remote = 1 /\ c.at = 1
    BY <1>5, DeliveryBegins
  <2> HIDE DEF c
  <2> QED
    BY <1>1, <1>2, <1>4, <1>5, <2>1, <2>2, CallKeeps
<1>8. CASE Find
  <2> DEFINE c == [Idle EXCEPT !.kind = "find"]
  <2>1. call' = c
    BY <1>8 DEF Find
  <2>2. c \in Call /\ c.kind = "find"
    BY CallBegins DEF Kinds
  <2> HIDE DEF c
  <2> QED
    BY <1>1, <1>2, <1>4, <2>1, <2>2, CallKeeps
<1> QED
  BY <1>6, <1>7, <1>8

LEMMA NextRemote ==
  ASSUME NEW c \in Call, NEW r \in Remotes, NEW v, v = [c EXCEPT !.remote = r, !.at = 1]
  PROVE  v \in Call /\ v.kind = c.kind /\ v.remote = r /\ v.at = 1 /\ v.stale = c.stale
BY DEF Call

LEMMA DeliverNextKeeps == ASSUME IInv, DeliverNext PROVE IInv'
<1>1. /\ wm' = wm /\ link' = link /\ hist' = hist /\ read' = read
      /\ search' \in Search /\ ~Reading /\ call \in Call /\ call.kind = "deliver"
  BY ReadFields DEF DeliverNext
<1>2. call.remote \in Remotes
  BY <1>1 DEF IInv, Callers
<1>3. CASE call.remote < NumRemotes
  <2> DEFINE r == call.remote + 1
             c == [call EXCEPT !.remote = r, !.at = 1]
  <2>1. r \in Remotes
    BY <1>2, <1>3, EmbeddedAssumption DEF Remotes
  <2>2. call' = c /\ c = [call EXCEPT !.remote = r, !.at = 1]
    BY <1>3 DEF DeliverNext
  <2> HIDE DEF r, c
  <2>3. c \in Call /\ c.kind = "deliver" /\ c.remote = r /\ c.at = 1
    BY <1>1, <2>1, <2>2, NextRemote
  <2> QED
    BY <1>1, <2>1, <2>2, <2>3, CallKeeps
<1>4. CASE ~(call.remote < NumRemotes)
  <2> DEFINE c == [Idle EXCEPT !.kind = "poll"]
  <2>1. call' = c
    BY <1>4 DEF DeliverNext
  <2>2. c \in Call /\ c.kind = "poll"
    BY CallBegins DEF Kinds
  <2> HIDE DEF c
  <2> QED
    BY <1>1, <2>1, <2>2, CallKeeps
<1> QED
  BY <1>3, <1>4

-----------------------------------------------------------------------------
(* The search                                                              *)

LEMMA InquiryKeeps == ASSUME IInv, NEW d \in Devices, Inquiry(d) PROVE IInv'
<1>1. /\ wm' = wm /\ link' = link /\ hist' = hist /\ read' = read /\ call' = call
      /\ search \in Search /\ search' = [search EXCEPT !.asked = @ \cup {d}]
  BY ReadFields DEF Inquiry
<1>2. search' \in Search
  BY <1>1 DEF Search
<1>3. Callers'
  BY <1>1, SameCallers
<1> QED
  BY <1>1, <1>2, <1>3, StillKeeps, ReadFields, Together

LEMMA SearchSet ==
  ASSUME NEW n \in Nat, NEW a \in SUBSET Devices, NEW v, v = [found |-> n, asked |-> a]
  PROVE  v \in Search
BY DEF Search

LEMMA RemoteNameKeeps ==
  ASSUME IInv, NEW d \in Devices, NEW ok \in BOOLEAN, RemoteName(d, ok)
  PROVE  IInv'
<1> DEFINE found == ok /\ ~Known(d)
           r == search.found + 1
           n == IF found THEN r ELSE search.found
           a == search.asked \ {d}
           v == [wm[r] EXCEPT !.address = d]
<1>1. /\ link' = link /\ hist' = hist /\ read' = read /\ call' = call
      /\ search' = [found |-> n, asked |-> a]
      /\ wm' = IF found /\ r \in Remotes THEN [wm EXCEPT ![r] = v] ELSE wm
  BY DEF RemoteName
<1>2. search.found \in Nat /\ a \in SUBSET Devices /\ hist \in Hist
  BY ReadFields DEF Search, IInv, EmbeddedTypeOK
<1>3. n \in Nat
  BY <1>2
<1>4. search' \in Search
  <2> HIDE DEF n, a
  <2> QED
    BY <1>1, <1>2, <1>3, SearchSet
<1>5. Callers'
  BY <1>1, SameCallers
<1> HIDE DEF n, a
<1>6. CASE found /\ r \in Remotes
  <2>1. /\ wm[r] \in Wiimote /\ link[r] \in Link
        /\ link = [link EXCEPT ![r] = link[r]] /\ v = [wm[r] EXCEPT !.address = d]
    BY <1>6, NoChange
  <2>2. Change(r, v, link[r])
    BY <1>1, <1>6, <2>1 DEF Change
  <2> HIDE DEF found, r, v
  <2>3. /\ v \in Wiimote /\ v.event = wm[r].event /\ Store(v, wm[r])
        /\ v.ctrl = wm[r].ctrl /\ v.intr = wm[r].intr /\ v.connected = wm[r].connected
    BY <2>1, AddressSet
  <2>4. Paired(v, link[r].pending, r \in hist.left)
    BY <1>6, <2>3, PairedSame DEF IInv, Channels
  <2>5. Channels' /\ Attempts'
    BY <1>1, <1>6, <2>1, <2>2, <2>3, <2>4, ChannelsSide
  <2>6. Continues'
    BY <1>1, <1>6, <2>1, <2>2, <2>3, ReadSide
  <2> QED
    BY <1>1, <1>2, <1>4, <1>5, <1>6, <2>1, <2>2, <2>3, <2>5, <2>6, ReadFields, ChangeKeeps
<1>7. CASE ~(found /\ r \in Remotes)
  <2>1. wm' = wm
    BY <1>1, <1>7
  <2> HIDE DEF found
  <2> QED
    BY <1>1, <1>4, <1>5, <2>1, StillKeeps, ReadFields, Together
<1> QED
  BY <1>6, <1>7

-----------------------------------------------------------------------------
(* Connections                                                             *)

\* A callback of a connection: only the remote, its link and the read change.
LEMMA CallbackKeeps ==
  ASSUME IInv, NEW r \in Remotes, NEW w \in Wiimote, NEW l \in Link, Change(r, w, l),
         Store(w, wm[r]), Paired(w, l.pending, r \in hist.left),
         l.pending # "none" => link[r].pending # "none" /\ w.event = wm[r].event,
         l.unread = link[r].unread \/ ~Reading \/ read.waits = TRUE,
         Interrupts, hist' = hist, search' = search, call' = call
  PROVE  IInv'
<1>1. /\ read' \in Read /\ read'.remote = read.remote
      /\ read' = read \/ read'.clean = FALSE
  BY InterruptsFacts
<1>2. Channels' /\ Attempts'
  BY ChannelsSide
<1>3. Callers'
  BY <1>1, SameCallers
<1>4. Continues'
  <2>1. CASE l.unread = link[r].unread
    BY <1>1, <2>1, ReadSide
  <2>2. CASE ~Reading
    <3>1. read'.remote = Nobody
      BY <1>1, <2>2 DEF Reading
    <3> QED
      BY <3>1, ReadSide
  <2>3. CASE read.waits = TRUE
    <3>1. read'.clean = FALSE
      BY <2>3, ReadFields DEF Interrupts, Read
    <3> QED
      BY <3>1, ReadSide
  <2> QED
    BY <2>1, <2>2, <2>3
<1>5. hist' \in Hist
  BY DEF IInv, EmbeddedTypeOK
<1> QED
  BY <1>1, <1>2, <1>3, <1>4, <1>5, ReadFields, ChangeKeeps

LEMMA ControlConnectedKeeps ==
  ASSUME IInv, NEW r \in Remotes, NEW ok \in BOOLEAN, ControlConnected(r, ok)
  PROVE  IInv'
<1> DEFINE p == IF ok THEN "intr" ELSE "none"
           w == IF ok THEN [wm[r] EXCEPT !.ctrl = TRUE] ELSE Fails(wm[r])
           l == [link[r] EXCEPT !.pending = p]
<1>1. /\ wm[r] \in Wiimote /\ link[r] \in Link /\ link[r].pending = "ctrl"
      /\ hist' = hist /\ search' = search /\ call' = call /\ Interrupts
      /\ Change(r, w, l)
  BY NoChange DEF ControlConnected, Change
<1>2. l \in Link /\ l.pending = p /\ l.unread = link[r].unread
  <2>1. p \in {"none", "ctrl", "intr"} /\ l = [link[r] EXCEPT !.pending = p]
    OBVIOUS
  <2> HIDE DEF p, l
  <2> QED
    BY <1>1, <2>1, PendingSet
<1>3. Paired(wm[r], "ctrl", r \in hist.left)
  BY <1>1 DEF IInv, Channels
<1> HIDE DEF l
<1>4. CASE ok
  <2>1. w = [wm[r] EXCEPT !.ctrl = TRUE] /\ p = "intr"
    BY <1>4
  <2> HIDE DEF w, p
  <2>2. /\ w \in Wiimote /\ w.event = wm[r].event /\ Store(w, wm[r])
        /\ w.ctrl = TRUE /\ w.intr = wm[r].intr /\ w.connected = wm[r].connected
    BY <1>1, <2>1, ControlSet
  <2>3. Paired(w, p, r \in hist.left)
    BY <1>3, <2>1, <2>2 DEF Paired
  <2> QED
    BY <1>1, <1>2, <2>1, <2>2, <2>3, CallbackKeeps
<1>5. CASE ~ok
  <2>1. w = [wm[r] EXCEPT !.event = "UNEXPECTED"] /\ p = "none"
    BY <1>5 DEF Fails
  <2> HIDE DEF w, p
  <2>2. /\ w \in Wiimote /\ Store(w, wm[r])
        /\ w.ctrl = wm[r].ctrl /\ w.intr = wm[r].intr /\ w.connected = wm[r].connected
    BY <1>1, <2>1, EventSet
  <2>3. Paired(w, p, r \in hist.left)
    BY <1>3, <2>1, <2>2 DEF Paired
  <2> QED
    BY <1>1, <1>2, <2>1, <2>2, <2>3, CallbackKeeps
<1> QED
  BY <1>4, <1>5

LEMMA InterruptConnectedKeeps ==
  ASSUME IInv, NEW r \in Remotes, NEW ok \in BOOLEAN, InterruptConnected(r, ok)
  PROVE  IInv'
<1> DEFINE w == IF ok THEN [wm[r] EXCEPT !.intr = TRUE, !.connected = TRUE]
                ELSE Fails([wm[r] EXCEPT !.ctrl = FALSE])
           l == [link[r] EXCEPT !.pending = "none"]
<1>1. /\ wm[r] \in Wiimote /\ link[r] \in Link /\ link[r].pending = "intr"
      /\ hist' = hist /\ search' = search /\ call' = call /\ Interrupts
      /\ Change(r, w, l)
  BY NoChange DEF InterruptConnected, Change
<1>2. l \in Link /\ l.pending = "none" /\ l.unread = link[r].unread
  BY <1>1, PendingSet
<1>3. Paired(wm[r], "intr", r \in hist.left)
  BY <1>1 DEF IInv, Channels
<1> HIDE DEF l
<1>4. CASE ok
  <2>1. w = [wm[r] EXCEPT !.intr = TRUE, !.connected = TRUE]
    BY <1>4
  <2> HIDE DEF w
  <2>2. /\ w \in Wiimote /\ Store(w, wm[r])
        /\ w.ctrl = wm[r].ctrl /\ w.intr = TRUE /\ w.connected = TRUE
    BY <1>1, <2>1, InterruptSet
  <2>3. Paired(w, "none", r \in hist.left)
    BY <1>3, <2>2 DEF Paired
  <2> QED
    BY <1>1, <1>2, <2>2, <2>3, CallbackKeeps
<1>5. CASE ~ok
  <2>1. w = Fails([wm[r] EXCEPT !.ctrl = FALSE])
    BY <1>5
  <2> HIDE DEF w
  <2>2. /\ w \in Wiimote /\ Store(w, wm[r])
        /\ w.ctrl = FALSE /\ w.intr = wm[r].intr /\ w.connected = wm[r].connected
    BY <1>1, <2>1, ControlReset
  <2>3. Paired(w, "none", r \in hist.left)
    BY <1>1, <1>3, <2>2, RemoteFields DEF Paired
  <2> QED
    BY <1>1, <1>2, <2>2, <2>3, CallbackKeeps
<1> QED
  BY <1>4, <1>5

LEMMA DisconnectedKeeps ==
  ASSUME IInv, NEW r \in Remotes, Disconnected(r)
  PROVE  IInv'
<1>1. PICK event \in {"UNEXPECTED", "OTHER"} :
         wm' = [wm EXCEPT ![r] = [@ EXCEPT !.ctrl = FALSE, !.intr = FALSE,
                                           !.connected = FALSE, !.event = event]]
  BY DEF Disconnected
<1> DEFINE w == [wm[r] EXCEPT !.ctrl = FALSE, !.intr = FALSE,
                              !.connected = FALSE, !.event = event]
           l == [link[r] EXCEPT !.unread = <<>>]
<1>2. /\ wm[r] \in Wiimote /\ link[r] \in Link
      /\ hist' = hist /\ search' = search /\ call' = call /\ Interrupts
      /\ Change(r, w, l)
  BY <1>1, NoChange DEF Disconnected, Change
<1>3. wm[r].connected = TRUE /\ (~Reading \/ read.waits = TRUE)
  BY <1>2, ReadFields, RemoteFields DEF Disconnected, Waiting
<1>4. /\ <<>> \in Seq(Message) /\ l = [link[r] EXCEPT !.unread = <<>>]
      /\ w = [wm[r] EXCEPT !.ctrl = FALSE, !.intr = FALSE,
                           !.connected = FALSE, !.event = event]
  OBVIOUS
<1> HIDE DEF w, l
<1>5. l \in Link /\ l.pending = link[r].pending
  BY <1>2, <1>4 DEF Link
<1>6. /\ w \in Wiimote /\ Store(w, wm[r])
      /\ w.ctrl = FALSE /\ w.intr = FALSE /\ w.connected = FALSE
  BY <1>2, <1>4 DEF Store, Wiimote
<1>7. link[r].pending = "none"
  BY <1>3 DEF IInv, Channels, Paired
<1>8. Paired(w, "none", r \in hist.left)
  BY <1>6 DEF Paired
<1> QED
  BY <1>2, <1>3, <1>5, <1>6, <1>7, <1>8, CallbackKeeps

LEMMA LeftSet ==
  ASSUME hist \in Hist, NEW L \in SUBSET Remotes, NEW h, h = [hist EXCEPT !.left = L]
  PROVE  h \in Hist /\ h.left = L
BY DEF Hist

LEMMA DisconnectKeeps ==
  ASSUME IInv, NEW r \in Remotes, Disconnect(r)
  PROVE  IInv'
<1> DEFINE L == hist.left \cup {r}
           w == [wm[r] EXCEPT !.ctrl = FALSE, !.intr = FALSE, !.event = "OTHER"]
<1>1. /\ wm[r] \in Wiimote /\ link[r] \in Link /\ hist \in Hist
      /\ search' = search /\ read' = read /\ call' = call /\ call = Idle
      /\ hist' = [hist EXCEPT !.left = L]
      /\ Change(r, w, link[r])
  BY NoChange DEF Disconnect, Change, IInv, EmbeddedTypeOK
<1>2. wm[r].connected = FALSE /\ wm[r].ctrl \in BOOLEAN
  BY <1>1, RemoteFields DEF Disconnect
<1>3. /\ L \in SUBSET Remotes /\ r \in L /\ \A s \in Remotes : s # r => (s \in L <=> s \in hist.left)
      /\ w = [wm[r] EXCEPT !.ctrl = FALSE, !.intr = FALSE, !.event = "OTHER"]
  BY <1>1 DEF Hist
<1> HIDE DEF L, w
<1>4. hist' \in Hist /\ hist'.left = L
  BY <1>1, <1>3, LeftSet
<1>5. /\ w \in Wiimote /\ w.event = "OTHER" /\ Store(w, wm[r])
      /\ w.ctrl = FALSE /\ w.intr = FALSE /\ w.connected = wm[r].connected
  BY <1>1, <1>3, ReleasedSet
<1>6. Paired(w, link[r].pending, r \in hist'.left)
  BY <1>2, <1>3, <1>4, <1>5 DEF Paired
<1>7. Channels' /\ Attempts'
  BY <1>1, <1>3, <1>4, <1>5, <1>6, ChannelsSide
<1>8. Callers' /\ Continues'
  BY <1>1, <1>5, SameCallers, ReadSide
<1> QED
  BY <1>1, <1>4, <1>5, <1>7, <1>8, ReadFields, ChangeKeeps

LEMMA ConnectKeeps ==
  ASSUME IInv, NEW r \in Remotes, Connect(r)
  PROVE  IInv'
<1> DEFINE L == hist.left \ {r}
           b == wm[r].event = "UNEXPECTED"
           c == [Idle EXCEPT !.kind = "connect", !.remote = r, !.stale = b]
           l == [link[r] EXCEPT !.pending = "ctrl"]
<1>1. /\ wm[r] \in Wiimote /\ link[r] \in Link /\ link[r].pending = "none"
      /\ search' = search /\ read' = read /\ call' = c /\ call = Idle
      /\ hist \in Hist /\ hist' = [hist EXCEPT !.left = L]
      /\ Change(r, wm[r], l)
  BY NoChange DEF Connect, Change, IInv, EmbeddedTypeOK
<1>2. wm[r].connected = FALSE
  BY <1>1, RemoteFields DEF Connect
<1>3. b \in BOOLEAN /\ (b = FALSE => wm[r].event # "UNEXPECTED")
  OBVIOUS
<1>4. l = [link[r] EXCEPT !.pending = "ctrl"]
      /\ c = [Idle EXCEPT !.kind = "connect", !.remote = r, !.stale = b]
      /\ L \in SUBSET Remotes /\ \A s \in Remotes : s # r => (s \in L <=> s \in hist.left)
  BY <1>1 DEF Hist
<1> HIDE DEF L, b, c, l
<1>12. hist' \in Hist /\ hist'.left = L
  BY <1>1, <1>4, LeftSet
<1>5. l \in Link /\ l.pending = "ctrl" /\ l.unread = link[r].unread
  BY <1>1, <1>4, PendingSet
<1>6. c \in Call /\ c.kind = "connect" /\ c.remote = r /\ c.stale = b
  BY <1>3, <1>4 DEF Idle, Call
<1>7. /\ wm'[r] = wm[r] /\ link'[r] = l
      /\ \A s \in Remotes : s # r => wm'[s] = wm[s] /\ link'[s] = link[s]
  BY <1>1, <1>5, ChangeFacts
<1>8. Channels'
  <2>1. Paired(wm[r], "none", r \in hist.left)
    BY <1>1 DEF IInv, Channels
  <2>2. Paired(wm[r], "ctrl", r \in hist'.left)
    BY <1>2, <2>1, <1>1, RemoteFields DEF Paired
  <2>3. ASSUME NEW s \in Remotes PROVE Paired(wm'[s], link'[s].pending, s \in hist'.left)
    <3>1. CASE s = r
      BY <1>5, <1>7, <2>2, <3>1
    <3>2. CASE s # r
      BY <1>4, <1>7, <1>12, <3>2 DEF IInv, Channels, Paired
    <3> QED
      BY <3>1, <3>2
  <2> QED
    BY <2>3 DEF Channels
<1>9. Attempts'
  BY <1>1, <1>3, <1>6, <1>7 DEF Attempts
<1>10. Callers'
  BY <1>1, <1>6, ReadFields DEF Callers, Reading
<1>11. Continues'
  BY <1>1, <1>5, ReadSide
<1> QED
  BY <1>1, <1>5, <1>6, <1>8, <1>9, <1>10, <1>11, <1>12, ReadFields, ChangeKeeps DEF Store

\* A new report has its number and its place.
LEMMA ReportKeeps ==
  ASSUME IInv, NEW r \in Remotes, Report(r)
  PROVE  IInv'
<1>1. PICK kind \in {"DATA", "STATUS"} :
         link' = [link EXCEPT ![r] =
                    [link[r] EXCEPT !.sent = link[r].sent + 1,
                                    !.unread = Append(link[r].unread,
                                                      [kind |-> kind, n |-> link[r].sent + 1])]]
  BY DEF Report
<1> DEFINE n == link[r].sent + 1
           m == [kind |-> kind, n |-> n]
           u == Append(link[r].unread, m)
           l == [link[r] EXCEPT !.sent = n, !.unread = u]
<1>2. /\ wm[r] \in Wiimote /\ link[r] \in Link
      /\ hist' = hist /\ hist \in Hist
      /\ search' = search /\ read' = read /\ call' = call
      /\ Change(r, wm[r], l)
  <2>1. /\ wm[r] \in Wiimote /\ link[r] \in Link /\ wm = [wm EXCEPT ![r] = wm[r]]
        /\ hist' = hist /\ search' = search /\ read' = read /\ call' = call /\ wm' = wm
    BY NoChange DEF Report
  <2>2. link' = [link EXCEPT ![r] = l]
    BY <1>1
  <2> QED
    BY <2>1, <2>2 DEF Change, IInv, EmbeddedTypeOK
<1>3. n \in Nat /\ link[r].unread \in Seq(Message)
  BY <1>2 DEF Link
<1> HIDE DEF n
<1>4. m \in Message /\ m.kind # "ANSWER"
  BY <1>3 DEF Message
<1> HIDE DEF m
<1>5. u \in Seq(Message) /\ u = Append(link[r].unread, m)
      /\ l = [link[r] EXCEPT !.sent = n, !.unread = u]
  BY <1>3, <1>4
<1> HIDE DEF u, l
<1>6. l \in Link /\ l.pending = link[r].pending /\ l.unread = u
  BY <1>2, <1>3, <1>5 DEF Link
<1>7. Paired(wm[r], l.pending, r \in hist.left)
  BY <1>6 DEF IInv, Channels
<1>8. Channels' /\ Attempts'
  BY <1>2, <1>6, <1>7, ChannelsSide
<1>9. Callers'
  BY <1>2, SameCallers
<1>10. Continues'
  BY <1>2, <1>4, <1>5, <1>6, ReadSide
<1> QED
  BY <1>2, <1>6, <1>8, <1>9, <1>10, ReadFields, ChangeKeeps DEF Store

-----------------------------------------------------------------------------
(* Reads that start                                                        *)

LEMMA RestOfAnswer ==
  ASSUME NEW u \in Seq(Message), \A i \in 1 .. Len(u) : u[i].kind # "ANSWER"
  PROVE  Rest(u, 1) /\ Rest(u \o Answer, 1)
<1>1. Rest(u, 1)
  BY DEF Rest
<1> DEFINE a == u \o Answer
<1>2. /\ Len(u) \in Nat /\ Parts \in Nat \ {0} /\ DOMAIN a = 1 .. Len(u) + Parts
      /\ \A i \in 1 .. Len(u) : a[i] = u[i]
      /\ \A i \in 1 .. Parts : a[Len(u) + i] = Answer[i]
  BY AnswerFacts
<1> HIDE DEF a
<1>3. ASSUME NEW i \in DOMAIN a, a[i].kind = "ANSWER"
      PROVE  i - Len(u) \in 1 .. Parts /\ a[i].n = i - Len(u)
  <2>1. i \notin 1 .. Len(u)
    BY <1>2, <1>3
  <2>2. i - Len(u) \in 1 .. Parts /\ i = Len(u) + (i - Len(u))
    BY <1>2, <2>1
  <2> QED
    BY <1>2, <2>2, AnswerFacts
<1>4. \A i \in DOMAIN a : i - Len(u) \in 1 .. Parts => a[i].kind = "ANSWER"
  <2> SUFFICES ASSUME NEW i \in DOMAIN a, i - Len(u) \in 1 .. Parts
               PROVE  a[i].kind = "ANSWER"
    OBVIOUS
  <2>1. i = Len(u) + (i - Len(u))
    BY <1>2
  <2> QED
    BY <1>2, <2>1, AnswerFacts
<1>5. ASSUME NEW i \in DOMAIN a, a[i].kind = "ANSWER"
      PROVE  /\ a[i].n >= 1
             /\ a[i].n > 1 => i # 1 /\ a[i - 1].kind = "ANSWER"
             /\ \A j \in DOMAIN a : a[j].kind = "ANSWER" => a[j].n - a[i].n = j - i
  <2>1. i - Len(u) \in 1 .. Parts /\ a[i].n = i - Len(u)
    BY <1>3, <1>5
  <2>2. ASSUME a[i].n > 1 PROVE i # 1 /\ a[i - 1].kind = "ANSWER"
    <3>1. i - 1 \in DOMAIN a /\ (i - 1) - Len(u) \in 1 .. Parts /\ i # 1
      BY <1>2, <2>1, <2>2
    <3> QED
      BY <1>4, <3>1
  <2>3. ASSUME NEW j \in DOMAIN a, a[j].kind = "ANSWER" PROVE a[j].n - a[i].n = j - i
    <3>1. a[j].n = j - Len(u)
      BY <1>3, <2>3
    <3> QED
      BY <1>2, <2>1, <3>1
  <2>4. a[i].n >= 1
    BY <1>2, <2>1
  <2> QED
    BY <2>2, <2>3, <2>4
<1>6. Rest(a, 1)
  BY <1>5 DEF Rest
<1> QED
  BY <1>1, <1>6 DEF a

\* A read is clean only if no answer was on the way.
LEMMA StartedSide ==
  ASSUME IInv, NEW r \in Remotes, NEW l \in Link, StartsRead(r, l)
  PROVE  Continues'
<1> SUFFICES ASSUME read'.clean = TRUE
             PROVE  /\ \A i \in DOMAIN read'.got : read'.got[i] = i
                    /\ read'.waits = FALSE
                    /\ Rest(link'[read'.remote].unread, Len(read'.got) + 1)
  BY DEF Continues
<1>1. /\ read' = Started(r, l)
      /\ \E v \in Link : /\ link' = [link EXCEPT ![r] = v]
                         /\ v.unread = l.unread \/ v.unread = l.unread \o Answer
  BY StartsReadFacts
<1>2. PICK v \in Link : /\ link' = [link EXCEPT ![r] = v]
                        /\ v.unread = l.unread \/ v.unread = l.unread \o Answer
  BY <1>1
<1>3. read'.remote = r /\ read'.waits = FALSE /\ read'.got = <<>> /\ ~Answers(l)
  BY <1>1 DEF Started
<1>4. l.unread \in Seq(Message) /\ \A i \in 1 .. Len(l.unread) : l.unread[i].kind # "ANSWER"
  BY <1>3 DEF Link, Answers
<1>5. link'[r].unread = v.unread
  <2>1. link' = [link EXCEPT ![r] = v]
    BY <1>2
  <2>2. link \in [Remotes -> Link]
    BY DEF IInv, EmbeddedTypeOK
  <2> QED
    BY <2>1, <2>2
<1>6. Rest(v.unread, 1)
  BY <1>2, <1>4, RestOfAnswer
<1>7. Len(read'.got) + 1 = 1 /\ DOMAIN read'.got = {}
  BY <1>3
<1> QED
  BY <1>3, <1>5, <1>6, <1>7

LEMMA HandshakesKeeps ==
  ASSUME IInv, NEW r \in Remotes, Handshakes(r)
  PROVE  IInv'
<1> DEFINE c == [Idle EXCEPT !.kind = "handshake", !.remote = r]
<1>1. /\ wm[r] \in Wiimote /\ link[r] \in Link /\ wm = [wm EXCEPT ![r] = wm[r]]
      /\ wm' = wm /\ hist' = hist /\ search' = search /\ call' = c /\ StartsRead(r, link[r])
      /\ hist \in Hist
  BY NoChange DEF Handshakes, IInv, EmbeddedTypeOK
<1>2. c = [Idle EXCEPT !.kind = "handshake", !.remote = r]
  OBVIOUS
<1> HIDE DEF c
<1>3. c \in Call /\ c.kind = "handshake" /\ c.remote = r
  BY <1>2 DEF Idle, Call
<1>4. link[r] \in Link /\ StartsRead(r, link[r])
  BY <1>1
<1>5. /\ read' \in Read
      /\ \E v \in Link : link' = [link EXCEPT ![r] = v] /\ v.pending = link[r].pending
  BY <1>4, StartsReadFacts
<1>6. PICK v \in Link : link' = [link EXCEPT ![r] = v] /\ v.pending = link[r].pending
  BY <1>5
<1>7. Change(r, wm[r], v)
  BY <1>1, <1>6 DEF Change
<1>8. Paired(wm[r], v.pending, r \in hist.left)
  BY <1>6 DEF IInv, Channels
<1>9. Channels' /\ Attempts'
  BY <1>1, <1>3, <1>6, <1>7, <1>8, ChannelsSide
<1>10. Callers'
  BY <1>1, <1>3 DEF Callers
<1>11. Continues'
  BY <1>1, StartedSide
<1> QED
  BY <1>1, <1>3, <1>5, <1>7, <1>9, <1>10, <1>11, ChangeKeeps DEF Store

-----------------------------------------------------------------------------
(* Reports                                                                 *)

LEMMA RestOfTail ==
  ASSUME NEW u \in Seq(Message), u # <<>>, NEW k \in Nat, Rest(u, k)
  PROVE  /\ u[1].kind = "ANSWER" => u[1].n = k /\ Rest(Tail(u), k + 1)
         /\ u[1].kind # "ANSWER" => Rest(Tail(u), k)
<1> DEFINE t == Tail(u)
<1>1. /\ Len(u) \in Nat \ {0} /\ DOMAIN u = 1 .. Len(u) /\ DOMAIN t = 1 .. Len(u) - 1
      /\ \A i \in 1 .. Len(u) - 1 : t[i] = u[i + 1]
      /\ \A i \in 1 .. Len(u) : u[i].n \in Nat
  <2>1. Len(u) \in Nat \ {0} /\ DOMAIN u = 1 .. Len(u)
    OBVIOUS
  <2>2. DOMAIN t = 1 .. Len(u) - 1 /\ \A i \in 1 .. Len(u) - 1 : t[i] = u[i + 1]
    BY <2>1
  <2>3. \A i \in 1 .. Len(u) : u[i] \in Message
    BY <2>1
  <2>4. \A i \in 1 .. Len(u) : u[i].n \in Nat
    BY <2>3 DEF Message
  <2> QED
    BY <2>1, <2>2, <2>4
<1> HIDE DEF t
<1>2. \A i \in 1 .. Len(u) : u[i].kind = "ANSWER" =>
         /\ u[i].n >= k
         /\ u[i].n > k => i # 1 /\ u[i - 1].kind = "ANSWER"
         /\ \A j \in 1 .. Len(u) : u[j].kind = "ANSWER" => u[j].n - u[i].n = j - i
  BY <1>1 DEF Rest
<1>3. ASSUME NEW i \in DOMAIN t, t[i].kind = "ANSWER"
      PROVE  /\ i \in 1 .. Len(u) - 1 /\ i + 1 \in 1 .. Len(u) /\ t[i] = u[i + 1]
             /\ u[i + 1].n >= k /\ (u[i + 1].n > k => u[i].kind = "ANSWER")
             /\ i # 1 => t[i - 1] = u[i]
             /\ \A j \in DOMAIN t : t[j].kind = "ANSWER" => t[j].n - t[i].n = j - i
  <2>1. i \in 1 .. Len(u) - 1 /\ i + 1 \in 1 .. Len(u) /\ t[i] = u[i + 1]
    BY <1>1, <1>3
  <2>2. u[i + 1].n >= k /\ (u[i + 1].n > k => u[i].kind = "ANSWER")
    <3>1. (i + 1) - 1 = i
      BY <2>1
    <3> QED
      BY <1>2, <1>3, <2>1, <3>1
  <2>3. ASSUME i # 1 PROVE t[i - 1] = u[i]
    <3>1. i - 1 \in 1 .. Len(u) - 1 /\ (i - 1) + 1 = i
      BY <1>1, <2>1, <2>3
    <3> QED
      BY <1>1, <3>1
  <2>4. ASSUME NEW j \in DOMAIN t, t[j].kind = "ANSWER" PROVE t[j].n - t[i].n = j - i
    <3>1. j + 1 \in 1 .. Len(u) /\ t[j] = u[j + 1] /\ j \in Nat
      BY <1>1, <2>4
    <3>2. u[j + 1].n - u[i + 1].n = (j + 1) - (i + 1)
      BY <1>2, <1>3, <2>1, <2>4, <3>1
    <3> QED
      BY <2>1, <3>1, <3>2
  <2> QED
    BY <2>1, <2>2, <2>3, <2>4
<1>4. ASSUME u[1].kind = "ANSWER" PROVE u[1].n = k /\ Rest(t, k + 1)
  <2>1. 1 \in 1 .. Len(u) /\ u[1].n = k
    BY <1>1, <1>2, <1>4
  <2>2. ASSUME NEW i \in DOMAIN t, t[i].kind = "ANSWER"
        PROVE  /\ t[i].n >= k + 1
               /\ t[i].n > k + 1 => i # 1 /\ t[i - 1].kind = "ANSWER"
               /\ \A j \in DOMAIN t : t[j].kind = "ANSWER" => t[j].n - t[i].n = j - i
    <3>1. /\ i \in 1 .. Len(u) - 1 /\ i + 1 \in 1 .. Len(u) /\ t[i] = u[i + 1]
          /\ u[i + 1].n > k => u[i].kind = "ANSWER"
          /\ i # 1 => t[i - 1] = u[i]
          /\ \A j \in DOMAIN t : t[j].kind = "ANSWER" => t[j].n - t[i].n = j - i
      BY <1>3, <2>2
    <3>2. u[i + 1].n - k = (i + 1) - 1
      BY <1>2, <1>4, <2>1, <2>2, <3>1
    <3>3. t[i].n = k + i
      BY <1>1, <3>1, <3>2
    <3> QED
      BY <3>1, <3>3
  <2> QED
    BY <2>1, <2>2 DEF Rest
<1>5. ASSUME u[1].kind # "ANSWER" PROVE Rest(t, k)
  <2>1. ASSUME NEW i \in DOMAIN t, t[i].kind = "ANSWER"
        PROVE  /\ t[i].n >= k
               /\ t[i].n > k => i # 1 /\ t[i - 1].kind = "ANSWER"
               /\ \A j \in DOMAIN t : t[j].kind = "ANSWER" => t[j].n - t[i].n = j - i
    BY <1>3, <1>5, <2>1
  <2> QED
    BY <2>1 DEF Rest
<1> QED
  BY <1>4, <1>5 DEF t

LEMMA HandledSet ==
  ASSUME hist \in Hist, NEW r \in Remotes, NEW n \in Nat,
         hist' = [hist EXCEPT !.handled[r] = @ \cup {n}]
  PROVE  /\ hist' \in Hist /\ hist'.owed = hist.owed /\ hist'.left = hist.left
         /\ hist'.handled[r] = hist.handled[r] \cup {n}
         /\ \A s \in Remotes : s # r => hist'.handled[s] = hist.handled[s]
<1>1. hist.handled \in [Remotes -> SUBSET Nat] /\ hist.owed \in [Remotes -> SUBSET Nat]
  BY DEF Hist
<1> DEFINE g == [hist.handled EXCEPT ![r] = @ \cup {n}]
<1>2. /\ g \in [Remotes -> SUBSET Nat] /\ g[r] = hist.handled[r] \cup {n}
      /\ \A s \in Remotes : s # r => g[s] = hist.handled[s]
  BY <1>1
<1>3. hist' = [hist EXCEPT !.handled = g]
  BY <1>1 DEF Hist
<1> HIDE DEF g
<1> QED
  BY <1>1, <1>2, <1>3 DEF Hist

LEMMA OwedSet ==
  ASSUME hist \in Hist, NEW r \in Remotes, NEW n \in Nat,
         hist' = [hist EXCEPT !.owed[r] = @ \cup {n}]
  PROVE  /\ hist' \in Hist /\ hist'.handled = hist.handled /\ hist'.left = hist.left
         /\ hist'.owed[r] = hist.owed[r] \cup {n}
         /\ \A s \in Remotes : s # r => hist'.owed[s] = hist.owed[s]
<1>1. hist.handled \in [Remotes -> SUBSET Nat] /\ hist.owed \in [Remotes -> SUBSET Nat]
  BY DEF Hist
<1> DEFINE g == [hist.owed EXCEPT ![r] = @ \cup {n}]
<1>2. /\ g \in [Remotes -> SUBSET Nat] /\ g[r] = hist.owed[r] \cup {n}
      /\ \A s \in Remotes : s # r => g[s] = hist.owed[s]
  BY <1>1
<1>3. hist' = [hist EXCEPT !.owed = g]
  BY <1>1 DEF Hist
<1> HIDE DEF g
<1> QED
  BY <1>1, <1>2, <1>3 DEF Hist

\* Remote w as a handler may leave it.
Touched(w) == {w, [w EXCEPT !.event = "OTHER"]}

\* A handler without a read in progress: it may set another event, it notes
\* the report, and a status report starts a read.  w is the remote that it
\* finds, with the channels and the event it has had.
LEMMA HandlesFacts ==
  ASSUME IInv, ~Reading, NEW r \in Remotes, NEW m \in Message, NEW l \in Link,
         NEW w \in Wiimote, w.ctrl = wm[r].ctrl, w.intr = wm[r].intr,
         w.connected = wm[r].connected, w.event = wm[r].event,
         l.pending = link[r].pending, Handles(r, w, m, l)
  PROVE  /\ \E x \in Touched(w), v \in Link :
               /\ x \in Wiimote /\ Store(x, w) /\ Change(r, x, v)
               /\ x.event \in {wm[r].event, "OTHER"}
               /\ Paired(x, v.pending, r \in hist.left) /\ v.pending = link[r].pending
         /\ read' \in Read /\ Continues'
         /\ hist' \in Hist /\ hist'.left = hist.left
<1>1. /\ wm[r] \in Wiimote /\ read \in Read /\ hist \in Hist /\ m.n \in Nat
  BY NoChange, ReadFields DEF IInv, EmbeddedTypeOK, Message
<1>2. Paired(w, link[r].pending, r \in hist.left)
  BY PairedSame DEF IInv, Channels
<1>3. \E x \in Touched(w) : /\ x \in Wiimote /\ Store(x, w) /\ wm' = [wm EXCEPT ![r] = x]
                            /\ x.event \in {wm[r].event, "OTHER"}
                            /\ Paired(x, link[r].pending, r \in hist.left)
  <2>1. CASE wm' = [wm EXCEPT ![r] = w]
    BY <1>2, <2>1 DEF Touched, Store
  <2>2. CASE wm' = [wm EXCEPT ![r] = [w EXCEPT !.event = "OTHER"]]
    <3> DEFINE v == [w EXCEPT !.event = "OTHER"]
    <3>1. wm' = [wm EXCEPT ![r] = v] /\ v = [w EXCEPT !.event = "OTHER"] /\ v \in Touched(w)
      BY <2>2 DEF Touched
    <3> HIDE DEF v
    <3>2. /\ v \in Wiimote /\ v.event = "OTHER" /\ Store(v, w)
          /\ v.ctrl = w.ctrl /\ v.intr = w.intr /\ v.connected = w.connected
      BY <3>1, EventSet
    <3>3. Paired(v, link[r].pending, r \in hist.left)
      BY <1>2, <3>2, PairedSame
    <3> QED
      BY <3>1, <3>2, <3>3
  <2> QED
    BY <2>1, <2>2 DEF Handles
<1>4. /\ \E v \in Link : link' = [link EXCEPT ![r] = v] /\ v.pending = l.pending
      /\ read' \in Read /\ Continues'
  <2>1. CASE m.kind = "STATUS"
    <3>1. StartsRead(r, l)
      BY <2>1 DEF Handles
    <3> QED
      BY <3>1, StartsReadFacts, StartedSide
  <2>2. CASE m.kind # "STATUS"
    <3>1. link' = [link EXCEPT ![r] = l] /\ read' = read
      BY <2>2 DEF Handles
    <3>2. Continues'
      BY <3>1 DEF Continues, Reading
    <3> QED
      BY <1>1, <3>1, <3>2
  <2> QED
    BY <2>1, <2>2
<1>5. hist' \in Hist /\ hist'.left = hist.left
  <2>1. CASE m.kind = "ANSWER" \/ m.n = 0
    BY <1>1, <2>1 DEF Handles
  <2>2. CASE ~(m.kind = "ANSWER" \/ m.n = 0)
    <3>1. hist' = [hist EXCEPT !.handled[r] = @ \cup {m.n}]
      BY <2>2 DEF Handles
    <3> QED
      BY <1>1, <3>1, HandledSet
  <2> QED
    BY <2>1, <2>2
<1>6. PICK x \in Touched(w) : /\ x \in Wiimote /\ Store(x, w) /\ wm' = [wm EXCEPT ![r] = x]
                             /\ x.event \in {wm[r].event, "OTHER"}
                             /\ Paired(x, link[r].pending, r \in hist.left)
  BY <1>3
<1>7. PICK v \in Link : link' = [link EXCEPT ![r] = v] /\ v.pending = l.pending
  BY <1>4
<1>8. /\ Change(r, x, v) /\ Paired(x, v.pending, r \in hist.left)
      /\ v.pending = link[r].pending
  BY <1>6, <1>7 DEF Change
<1> QED
  BY <1>4, <1>5, <1>6, <1>8

\* The same while one call goes on, or its delivery does.
LEMMA HandlesKeeps ==
  ASSUME IInv, ~Reading, NEW r \in Remotes, NEW m \in Message, NEW l \in Link,
         NEW w \in Wiimote, w.ctrl = wm[r].ctrl, w.intr = wm[r].intr,
         w.connected = wm[r].connected, w.event = wm[r].event,
         l.pending = link[r].pending, Handles(r, w, m, l), search' = search,
         call' \in Call, call'.kind = call.kind, call'.remote = call.remote,
         call.kind = "connect" => call' = call,
         call.kind \in {"connect", "deliver", "poll"},
         w.freed <= Len(w.queue), call'.kind = "deliver" => call'.at >= 1
  PROVE  IInv'
<1>1. /\ \E x \in Touched(w), v \in Link :
            /\ x \in Wiimote /\ Store(x, w) /\ Change(r, x, v)
            /\ x.event \in {wm[r].event, "OTHER"}
            /\ Paired(x, v.pending, r \in hist.left) /\ v.pending = link[r].pending
      /\ read' \in Read /\ Continues'
      /\ hist' \in Hist /\ hist'.left = hist.left
  BY HandlesFacts
<1>2. PICK x \in Wiimote, v \in Link :
         /\ Change(r, x, v) /\ Store(x, w)
         /\ x.event \in {wm[r].event, "OTHER"}
         /\ Paired(x, v.pending, r \in hist.left) /\ v.pending = link[r].pending
  BY <1>1
<1>3. Channels' /\ Attempts'
  BY <1>1, <1>2, ChannelsSide
<1>4. Callers'
  BY DEF Callers, IInv
<1>5. x.freed <= Len(x.queue)
  BY <1>2 DEF Store
<1> QED
  BY <1>1, <1>2, <1>3, <1>4, <1>5, ChangeKeeps

LEMMA ToHandlerKeeps ==
  ASSUME IInv, NEW r \in Remotes, NEW m \in Message, NEW l \in Link,
         l.pending = link[r].pending, Waiting, ToHandler(r, m, l),
         call' = call, search' = search
  PROVE  IInv'
<1>1. ~Reading /\ call.kind \in {"connect", "poll"} /\ call' \in Call
  BY ReadFields DEF ToHandler, Target, Waiting
<1>2. Handles(r, wm[r], m, l) /\ wm[r] \in Wiimote /\ wm[r].freed <= Len(wm[r].queue)
  BY NoChange DEF ToHandler, IInv, Places
<1> QED
  BY <1>1, <1>2, HandlesKeeps

LEMMA ToReaderKeeps ==
  ASSUME IInv, NEW r \in Remotes, link[r].unread # <<>>, NEW m, m = Head(link[r].unread),
         NEW l \in Link, l.pending = link[r].pending, l.unread = Tail(link[r].unread),
         ToReader(r, m, l), call' = call, search' = search
  PROVE  IInv'
<1> DEFINE u == link[r].unread
           b == IF m.kind = "ANSWER" THEN m.n ELSE 0
           c == read.clean /\ ~read.any
           k == Len(read.got) + 1
<1>1. /\ read \in Read /\ read.waits = TRUE /\ read.remote = r /\ read.any \in BOOLEAN
      /\ read.clean \in BOOLEAN /\ read.got \in Seq(Nat) /\ Reading
  BY ReadFields, NobodyIsNoRemote DEF ToReader, Target
<1>2. /\ wm[r] \in Wiimote /\ link[r] \in Link /\ Change(r, wm[r], l)
      /\ hist' = hist /\ hist \in Hist
      /\ read' = [read EXCEPT !.buf = <<b>>, !.any = TRUE, !.clean = c]
  BY NoChange DEF ToReader, Change, IInv, EmbeddedTypeOK
<1>3. u \in Seq(Message) /\ m = u[1] /\ m \in Message
  BY <1>2 DEF Link
<1>4. b \in Nat /\ <<b>> \in Seq(Nat)
  BY <1>3 DEF Message
<1>5. c \in BOOLEAN /\ (c = TRUE => read.clean = TRUE /\ read.any = FALSE)
  BY <1>1
<1> HIDE DEF c
<1>6. /\ read' \in Read /\ read'.remote = r /\ read'.waits = TRUE /\ read'.any = TRUE
      /\ read'.buf = <<b>> /\ read'.got = read.got /\ read'.clean = c
  <2> HIDE DEF b
  <2> QED
    BY <1>1, <1>2, <1>4, <1>5 DEF Read
<1>7. Channels' /\ Attempts'
  BY <1>2, ChannelsSide DEF IInv, Channels
<1>8. Callers'
  BY <1>1, <1>6, SameCallers
<1>9. Continues'
  <2> SUFFICES ASSUME c = TRUE
               PROVE  /\ \A i \in DOMAIN read.got : read.got[i] = i
                      /\ IF b # 0 THEN b = k /\ Rest(l.unread, k + 1) ELSE Rest(l.unread, k)
    <3>1. link'[r] = l
      BY <1>2, ChangeFacts
    <3>2. k + 1 = Len(read.got) + 2
      BY <1>1
    <3>3. <<b>> # <<0>> <=> b # 0
      OBVIOUS
    <3> HIDE DEF b
    <3> QED
      BY <1>6, <3>1, <3>2, <3>3 DEF Continues
  <2>1. /\ \A i \in DOMAIN read.got : read.got[i] = i
        /\ Rest(u, k)
    BY <1>1, <1>5 DEF IInv, Continues
  <2>2. k \in Nat /\ k # 0
    BY <1>1
  <2>3. u # <<>>
    OBVIOUS
  <2> HIDE DEF u, k
  <2>4. /\ u[1].kind = "ANSWER" => u[1].n = k /\ Rest(Tail(u), k + 1)
        /\ u[1].kind # "ANSWER" => Rest(Tail(u), k)
    BY <1>3, <2>1, <2>2, <2>3, RestOfTail
  <2>5. l.unread = Tail(u)
    BY DEF u
  <2> QED
    BY <1>3, <2>1, <2>2, <2>4, <2>5
<1> QED
  BY <1>2, <1>6, <1>7, <1>8, <1>9, ReadFields, ChangeKeeps DEF Store

\* A report for a remote that is not read is put into its queue.
LEMMA ToQueueKeeps ==
  ASSUME IInv, NEW r \in Remotes, NEW m \in Message, NEW l \in Link,
         l.pending = link[r].pending, ToQueue(r, m, l), call' = call, search' = search
  PROVE  IInv'
<1>1. /\ read \in Read /\ hist \in Hist /\ wm[r] \in Wiimote /\ call \in Call
      /\ link' = [link EXCEPT ![r] = l]
      /\ read' = [read EXCEPT !.any = TRUE, !.clean = FALSE]
  BY ReadFields, NoChange DEF ToQueue, IInv, EmbeddedTypeOK
<1>2. read' \in Read /\ read'.remote = read.remote /\ read'.clean = FALSE
  BY <1>1 DEF Read
<1>3. PICK w \in Queued(wm[r], m) : wm' = [wm EXCEPT ![r] = w]
  BY DEF ToQueue
<1>4. /\ w \in Wiimote /\ w.event = wm[r].event
      /\ w.ctrl = wm[r].ctrl /\ w.intr = wm[r].intr /\ w.connected = wm[r].connected
      /\ w.freed = wm[r].freed /\ Len(w.queue) >= Len(wm[r].queue)
  BY <1>1, <1>3, QueueSet
<1>10. w.freed <= Len(w.queue)
  <2>1. /\ wm[r].freed <= Len(wm[r].queue) /\ Len(wm[r].queue) \in Nat
        /\ Len(w.queue) \in Nat /\ wm[r].freed \in Nat
    BY <1>1, <1>4, RemoteFields DEF IInv, Places
  <2> QED
    BY <1>4, <2>1
<1>5. Change(r, w, l)
  BY <1>1, <1>3 DEF Change
<1>6. hist' \in Hist /\ hist'.left = hist.left
  <2>1. CASE m.kind = "ANSWER"
    BY <1>1, <2>1 DEF ToQueue, Owed
  <2>2. CASE m.kind # "ANSWER"
    <3>1. hist' = [hist EXCEPT !.owed[r] = @ \cup {m.n}] /\ m.n \in Nat
      BY <2>2 DEF ToQueue, Owed, Message
    <3> QED
      BY <1>1, <3>1, OwedSet
  <2> QED
    BY <2>1, <2>2
<1>7. Paired(w, l.pending, r \in hist'.left)
  BY <1>4, <1>6, PairedSame DEF IInv, Channels
<1>8. Channels' /\ Attempts'
  BY <1>4, <1>5, <1>6, <1>7, ChannelsSide
<1>9. Callers' /\ Continues'
  BY <1>2, <1>4, <1>5, SameCallers, ReadSide
<1> QED
  BY <1>1, <1>2, <1>4, <1>5, <1>6, <1>8, <1>9, <1>10, ReadFields, ChangeKeeps

LEMMA MessageReceivedKeeps ==
  ASSUME IInv, NEW r \in Remotes, MessageReceived(r)
  PROVE  IInv'
<1> DEFINE u == Tail(link[r].unread)
           m == Head(link[r].unread)
           l == [link[r] EXCEPT !.unread = u]
<1>1. /\ link[r] \in Link /\ link[r].unread # <<>> /\ Waiting /\ call' = call /\ search' = search
      /\ ToReader(r, m, l) \/ ToQueue(r, m, l) \/ ToHandler(r, m, l)
  BY NoChange DEF MessageReceived
<1>2. link[r].unread \in Seq(Message)
  BY <1>1 DEF Link
<1>3. /\ u \in Seq(Message) /\ m \in Message /\ u = Tail(link[r].unread)
      /\ m = Head(link[r].unread) /\ l = [link[r] EXCEPT !.unread = u]
  BY <1>1, <1>2
<1> HIDE DEF u, m, l
<1>4. l \in Link /\ l.pending = link[r].pending /\ l.unread = u
  BY <1>1, <1>3 DEF Link
<1> QED
  BY <1>1, <1>3, <1>4, ToReaderKeeps, ToQueueKeeps, ToHandlerKeeps

LEMMA NextPlace ==
  ASSUME NEW c \in Call, NEW v, v = [c EXCEPT !.at = @ + 1]
  PROVE  v \in Call /\ v.kind = c.kind /\ v.remote = c.remote /\ v.at = c.at + 1
BY DEF Call

\* The report at the place of the delivery is handled, and the place moves on.
LEMMA DeliverKeeps == ASSUME IInv, Deliver PROVE IInv'
<1> DEFINE r == call.remote
           q == wm[r].queue
           m == q[call.at]
           w == [wm[r] EXCEPT !.freed = call.at]
<1>1. /\ call.kind = "deliver" /\ ~Reading /\ call \in Call /\ search' = search
      /\ call.at > wm[r].freed /\ call.at <= Len(q)
      /\ Handles(r, w, m, link[r]) /\ call' = [call EXCEPT !.at = @ + 1]
  BY ReadFields DEF Deliver
<1>2. r \in Remotes /\ call.at \in Nat
  BY <1>1, CallFields DEF IInv, Callers
<1>3. /\ wm[r] \in Wiimote /\ link[r] \in Link /\ q \in Seq(Message) /\ wm[r].freed \in Nat
      /\ w = [wm[r] EXCEPT !.freed = call.at]
  BY <1>2, NoChange, RemoteFields
<1>4. m \in Message
  BY <1>1, <1>2, <1>3, ReadFields
<1>5. /\ call' \in Call /\ call'.kind = "deliver" /\ call'.remote = r /\ call'.at >= 1
  BY <1>1, <1>2, NextPlace
<1> HIDE DEF r, m, w
<1>6. /\ w \in Wiimote /\ w.event = wm[r].event
      /\ w.ctrl = wm[r].ctrl /\ w.intr = wm[r].intr /\ w.connected = wm[r].connected
      /\ w.freed <= Len(w.queue)
  BY <1>1, <1>2, <1>3, FreedSet
<1> QED
  BY <1>1, <1>2, <1>3, <1>4, <1>5, <1>6, HandlesKeeps DEF r

LEMMA DeliverReleasedKeeps == ASSUME IInv, DeliverReleased PROVE IInv'
<1> DEFINE r == call.remote
           w == [wm[r] EXCEPT !.spoilt = TRUE]
<1>1. /\ call.kind = "deliver" /\ ~Reading /\ call \in Call /\ search' = search
      /\ r \in Remotes /\ call.at >= 1 /\ call.at <= wm[r].freed
      /\ wm[r].freed <= Len(wm[r].queue)
  BY ReadFields DEF DeliverReleased, IInv, Callers, Places
<1>2. /\ wm[r] \in Wiimote /\ link[r] \in Link /\ wm[r].queue \in Seq(Message)
      /\ wm[r].freed \in Nat /\ call.at \in Nat
      /\ w = [wm[r] EXCEPT !.spoilt = TRUE]
  BY <1>1, NoChange, RemoteFields, CallFields
<1>3. PICK next \in {call.at, Len(wm[r].queue)} : call' = [call EXCEPT !.at = next + 1]
  BY DEF DeliverReleased
<1>4. call' \in Call /\ call'.kind = "deliver" /\ call'.remote = r /\ call'.at >= 1
  <2>1. next \in Nat
    BY <1>1, <1>2, <1>3
  <2> QED
    BY <1>1, <1>3, <2>1 DEF Call
<1>5. PICK m \in Leftovers(wm[r].queue[call.at]) : Handles(r, w, m, link[r])
  BY DEF DeliverReleased
<1>7. m \in Message
  <2>1. wm[r].queue[call.at] \in Message
    BY <1>1, <1>2
  <2> HIDE DEF r
  <2> QED
    BY <1>5, <2>1 DEF Leftovers, Message
<1> HIDE DEF r, w
<1>6. /\ w \in Wiimote /\ w.event = wm[r].event
      /\ w.ctrl = wm[r].ctrl /\ w.intr = wm[r].intr /\ w.connected = wm[r].connected
      /\ w.freed <= Len(w.queue)
  BY <1>1, <1>2, SpoiltSet
<1> QED
  BY <1>1, <1>2, <1>4, <1>5, <1>6, <1>7, HandlesKeeps DEF r

-----------------------------------------------------------------------------
(* The theorems                                                            *)

LEMMA InitIsFine == ASSUME Init PROVE IInv
<1> DEFINE w == [address |-> NoDevice, ctrl |-> FALSE, intr |-> FALSE, connected |-> FALSE,
                 event |-> "OTHER", queue |-> <<>>, freed |-> 0, spoilt |-> FALSE]
           l == [pending |-> "none", unread |-> <<>>, sent |-> 0]
<1>1. /\ w \in Wiimote /\ w.ctrl = FALSE /\ w.intr = FALSE /\ w.connected = FALSE
      /\ w.queue = <<>> /\ w.freed = 0
  BY DEF Wiimote
<1>2. l \in Link /\ l.pending = "none"
  BY DEF Link
<1>3. /\ wm = [r \in Remotes |-> w] /\ link = [r \in Remotes |-> l]
      /\ call = Idle /\ read = NoRead /\ search = NoSearch
  BY DEF Init
<1> HIDE DEF w, l
<1>4. /\ wm \in [Remotes -> Wiimote] /\ link \in [Remotes -> Link]
      /\ \A r \in Remotes : wm[r] = w /\ link[r] = l
  BY <1>1, <1>2, <1>3
<1>5. search \in Search
  BY <1>3 DEF NoSearch, Search
<1>6. hist \in Hist
  BY DEF Init, Hist
<1>7. /\ call \in Call /\ call.kind = "idle" /\ read \in Read /\ ~Reading
  BY <1>3, IdleFacts, NoReadFacts DEF Reading
<1>8. EmbeddedTypeOK
  BY <1>4, <1>5, <1>6, <1>7 DEF EmbeddedTypeOK
<1>9. Channels
  BY <1>1, <1>2, <1>4 DEF Channels, Paired
<1>10. Attempts /\ Callers /\ Continues
  BY <1>7 DEF Attempts, Callers, Continues
<1>11. Places
  BY <1>1, <1>4, <1>7 DEF Places
<1> QED
  BY <1>5, <1>8, <1>9, <1>10, <1>11 DEF IInv

LEMMA NextKeeps == ASSUME IInv, [Next]_vars PROVE IInv'
<1>1. CASE UNCHANGED vars
  <2>1. /\ wm' = wm /\ link' = link /\ call' = call /\ read' = read /\ search' = search
        /\ hist' = hist
    BY <1>1 DEF vars
  <2>2. Callers'
    BY <2>1, SameCallers
  <2> QED
    BY <2>1, <2>2, StillKeeps, ReadFields, Together
<1>2. CASE Application
  <2>1. CASE Connected
    <3>1. call.remote \in Remotes /\ Handshakes(call.remote)
      BY <2>1 DEF Connected, IInv, Callers
    <3> QED
      BY <3>1, HandshakesKeeps
  <2>2. CASE \E r \in Remotes : Connect(r) \/ Resync(r) \/ Disconnect(r)
    BY <2>2, ConnectKeeps, HandshakesKeeps, DisconnectKeeps DEF Resync
  <2> QED
    BY <1>2, <2>1, <2>2, CallsKeep DEF Application
<1>3. CASE Callbacks
  BY <1>3, MessageReceivedKeeps, DisconnectedKeeps, ControlConnectedKeeps,
     InterruptConnectedKeeps, OtherEventKeeps, InquiryKeeps, RemoteNameKeeps DEF Callbacks
<1>4. CASE Polling
  BY <1>4, DeliverKeeps, DeliverReleasedKeeps, DeliverNextKeeps, CallsKeep DEF Polling
<1>5. CASE Reads
  BY <1>5, ReadWaitsKeeps, ReadReturnsKeeps, ReadEndsKeeps DEF Reads
<1>6. CASE \E r \in Remotes : Report(r)
  BY <1>6, ReportKeeps
<1> QED
  BY <1>1, <1>2, <1>3, <1>4, <1>5, <1>6 DEF Next

\* The inductive invariant.
THEOREM EmbeddedInvariance == Spec => []IInv
<1>1. Init => IInv
  BY InitIsFine
<1>2. IInv /\ [Next]_vars => IInv'
  BY NextKeeps
<1> QED
  BY <1>1, <1>2, PTL DEF Spec

\* EmbeddedTypeOK: type correctness for any number of remotes, any addresses
\* and any answers.
THEOREM EmbeddedTypeCorrect == Spec => []EmbeddedTypeOK
<1>1. IInv => EmbeddedTypeOK
  BY DEF IInv
<1> QED
  BY <1>1, EmbeddedInvariance, PTL

\* ChannelsMatch: whatever the callbacks and failures, in whichever wait, a
\* connected remote has both channels, but for one that was disconnected in the
\* middle of an attempt, and no other keeps one.
THEOREM ChannelsAlwaysMatch == Spec => []ChannelsMatch
<1>1. ASSUME IInv PROVE ChannelsMatch
  <2>1. ASSUME NEW r \in Remotes
        PROVE  IF wm[r].connected
               THEN wm[r].intr /\ (r \notin hist.left => wm[r].ctrl)
               ELSE ~wm[r].intr /\ (wm[r].ctrl => link[r].pending = "intr")
    <3>1. /\ Paired(wm[r], link[r].pending, r \in hist.left)
          /\ wm[r].ctrl \in BOOLEAN /\ wm[r].intr \in BOOLEAN /\ wm[r].connected \in BOOLEAN
      BY <1>1, NoChange, RemoteFields DEF IInv, Channels
    <3>2. CASE wm[r].connected = TRUE
      BY <3>1, <3>2 DEF Paired
    <3>3. CASE wm[r].connected = FALSE
      BY <3>1, <3>3 DEF Paired
    <3> QED
      BY <3>1, <3>2, <3>3
  <2> QED
    BY <2>1 DEF ChannelsMatch
<1> QED
  BY <1>1, EmbeddedInvariance, PTL

\* CleanReadIsWhole: a blocking read that nothing else interferes with takes
\* the parts of its answer in order, none twice.
THEOREM CleanReadsAreWhole == Spec => []CleanReadIsWhole
<1>1. ASSUME IInv PROVE CleanReadIsWhole
  <2> SUFFICES ASSUME Reading, read.clean PROVE \A i \in DOMAIN read.got : read.got[i] = i
    BY DEF CleanReadIsWhole
  <2>1. read.clean = TRUE
    BY <1>1, ReadFields
  <2> QED
    BY <1>1, <2>1 DEF IInv, Continues
<1> QED
  BY <1>1, EmbeddedInvariance, PTL

\* Callbacks, reads and remotes do not end a delivery or a connect.
LEMMA OthersKeepTheCall ==
  ASSUME call.kind \in {"connect", "deliver"},
         Callbacks \/ Reads \/ (\E r \in Remotes : Report(r)) \/ UNCHANGED vars
  PROVE  call' = call
<1>1. CASE Callbacks
  BY <1>1 DEF Callbacks, MessageReceived, Disconnected, ControlConnected, InterruptConnected,
              OtherEvent, Inquiry, RemoteName
<1>2. CASE Reads
  BY <1>2 DEF Reads, ReadWaits, ReadReturns, ReadEnds
<1>3. CASE \E r \in Remotes : Report(r)
  BY <1>3 DEF Report
<1>4. CASE UNCHANGED vars
  BY <1>4 DEF vars
<1> QED
  BY <1>1, <1>2, <1>3, <1>4

\* ConnectEndsItsAttempt: connect does not return while the connection it has
\* asked for may still come up, but for an event left over from before.
THEOREM ConnectAlwaysEndsItsAttempt == Spec => ConnectEndsItsAttempt
<1> DEFINE A == call.kind = "connect" /\ call' = Idle /\ ~call.stale =>
                   link[call.remote].pending = "none"
<1>1. ASSUME IInv, [Next]_vars PROVE [A]_vars
  <2> SUFFICES ASSUME call.kind = "connect", call' = Idle, ~call.stale
               PROVE  link[call.remote].pending = "none"
    OBVIOUS
  <2>1. ConnectFails
    <3>1. ~Polling /\ ~Poll /\ ~Find /\ ~FindReturns
          /\ \A r \in Remotes : ~Connect(r) /\ ~Resync(r) /\ ~Disconnect(r)
      BY IdleFacts DEF Polling, Deliver, DeliverReleased, DeliverNext, PollReturns, Poll, Find, FindReturns,
                       Connect, Resync, Disconnect
    <3>2. ~Connected
      <4>1. [Idle EXCEPT !.kind = "handshake", !.remote = call.remote].kind = "handshake"
        BY DEF Idle
      <4> QED
        BY <4>1, IdleFacts DEF Connected, Handshakes
    <3>3. call' # call
      BY IdleFacts
    <3> QED
      BY <1>1, <3>1, <3>2, <3>3, OthersKeepTheCall DEF Next, Application
  <2>2. wm[call.remote].event = "UNEXPECTED" /\ call.stale = FALSE
    BY <1>1, <2>1, ReadFields, CallFields DEF ConnectFails
  <2> QED
    BY <1>1, <2>2 DEF IInv, Attempts
<1>2. [][A]_vars => ConnectEndsItsAttempt
  BY DEF ConnectEndsItsAttempt
<1> HIDE DEF A
<1> QED
  BY <1>1, <1>2, EmbeddedInvariance, PTL DEF Spec

-----------------------------------------------------------------------------
(* The books of the reports: which are on their way, queued, and handled   *)

\* The places of u that hold a report, and the numbers of these.
Listed(u) == {i \in DOMAIN u : u[i].kind # "ANSWER"}
Numbers(u) == {u[i].n : i \in Listed(u)}
Distinct(u) == \A i, j \in Listed(u) : u[i].n = u[j].n => i = j

\* Kept, of a remote w.
KeptIn(w) == {w.queue[i].n : i \in {j \in DOMAIN w.queue :
                 j > w.freed /\ w.queue[j].kind # "ANSWER"}}

\* As long as no released buffer has been used, a report is in one place: on
\* its way, queued, or handled when it was neither.
Booked(w, l, owed, handled) ==
    w.spoilt = FALSE =>
        /\ Distinct(w.queue) /\ Distinct(l.unread)
        /\ Numbers(l.unread) \cap Numbers(w.queue) = {}
        /\ Numbers(l.unread) \cap handled = {}
        /\ Numbers(l.unread) \cup Numbers(w.queue) \cup handled \subseteq 1 .. l.sent
        /\ owed \subseteq handled \cup KeptIn(w)
        /\ handled \cap KeptIn(w) = {}

Books == \A r \in Remotes : Booked(wm[r], link[r], hist.owed[r], hist.handled[r])

\* A delivery does not pass over a buffer.
Reached ==
    call.kind = "deliver" =>
        (wm[call.remote].spoilt = FALSE => call.at <= wm[call.remote].freed + 1)

\* No report of v is new.
Fewer(v, u) == Numbers(v) \subseteq Numbers(u) /\ (Distinct(u) => Distinct(v))

LEMMA AppendAnswer ==
  ASSUME NEW u \in Seq(Message), NEW m \in Message, m.kind = "ANSWER"
  PROVE  Numbers(Append(u, m)) = Numbers(u) /\ (Distinct(u) => Distinct(Append(u, m)))
<1> DEFINE a == Append(u, m)
<1>1. /\ Len(u) \in Nat /\ DOMAIN u = 1 .. Len(u) /\ DOMAIN a = 1 .. Len(u) + 1
      /\ \A i \in 1 .. Len(u) : a[i] = u[i]
      /\ a[Len(u) + 1] = m
  OBVIOUS
<1> HIDE DEF a
<1>2. Listed(a) = Listed(u) /\ \A i \in Listed(u) : a[i] = u[i]
  BY <1>1 DEF Listed
<1> QED
  BY <1>2 DEF Numbers, Distinct, a

LEMMA AppendReport ==
  ASSUME NEW u \in Seq(Message), NEW m \in Message, m.kind # "ANSWER"
  PROVE  /\ Numbers(Append(u, m)) = Numbers(u) \cup {m.n}
         /\ Distinct(u) /\ m.n \notin Numbers(u) => Distinct(Append(u, m))
<1> DEFINE a == Append(u, m)
           k == Len(u) + 1
<1>1. /\ Len(u) \in Nat /\ DOMAIN u = 1 .. Len(u) /\ DOMAIN a = 1 .. Len(u) + 1
      /\ \A i \in 1 .. Len(u) : a[i] = u[i]
      /\ a[k] = m
  OBVIOUS
<1> HIDE DEF a
<1>2. /\ Listed(a) = Listed(u) \cup {k} /\ \A i \in Listed(u) : a[i] = u[i]
      /\ a[k] = m
  BY <1>1 DEF Listed
<1> HIDE DEF k
<1>3. Numbers(a) = Numbers(u) \cup {m.n}
  BY <1>2 DEF Numbers
<1>4. ASSUME Distinct(u), m.n \notin Numbers(u) PROVE Distinct(a)
  <2>1. \A i \in Listed(u) : a[i].n # m.n
    BY <1>2, <1>4 DEF Numbers
  <2> QED
    BY <1>2, <1>4, <2>1 DEF Distinct
<1> QED
  BY <1>3, <1>4 DEF a

LEMMA TailFewer ==
  ASSUME NEW u \in Seq(Message), u # <<>>
  PROVE  /\ Fewer(Tail(u), u)
         /\ Head(u).kind # "ANSWER" =>
               /\ Head(u).n \in Numbers(u)
               /\ Distinct(u) => Head(u).n \notin Numbers(Tail(u))
<1> DEFINE t == Tail(u)
<1>1. /\ Len(u) \in Nat \ {0} /\ DOMAIN u = 1 .. Len(u) /\ Head(u) = u[1]
      /\ DOMAIN t = 1 .. Len(u) - 1 /\ \A i \in 1 .. Len(u) - 1 : t[i] = u[i + 1]
  <2>1. Len(u) \in Nat \ {0} /\ DOMAIN u = 1 .. Len(u)
    OBVIOUS
  <2> QED
    BY <2>1
<1> HIDE DEF t
<1>2. \A i \in Listed(t) : i \in 1 .. Len(u) - 1 /\ i + 1 \in Listed(u) /\ t[i] = u[i + 1]
  BY <1>1 DEF Listed
<1>3. Numbers(t) \subseteq Numbers(u)
  BY <1>2 DEF Numbers
<1>4. ASSUME Distinct(u) PROVE Distinct(t)
  <2> SUFFICES ASSUME NEW i \in Listed(t), NEW j \in Listed(t), t[i].n = t[j].n
               PROVE  i = j
    BY DEF Distinct
  <2>1. i + 1 = j + 1
    BY <1>2, <1>4 DEF Distinct
  <2> QED
    BY <1>1, <1>2, <2>1
<1>5. ASSUME u[1].kind # "ANSWER"
      PROVE  u[1].n \in Numbers(u) /\ (Distinct(u) => u[1].n \notin Numbers(t))
  <2>1. 1 \in Listed(u)
    BY <1>1, <1>5 DEF Listed
  <2>2. ASSUME Distinct(u), NEW i \in Listed(t), t[i].n = u[1].n PROVE FALSE
    <3>1. i + 1 = 1
      BY <1>2, <2>1, <2>2 DEF Distinct
    <3> QED
      BY <1>1, <1>2, <2>2, <3>1
  <2> QED
    BY <2>1, <2>2 DEF Numbers
<1> QED
  BY <1>1, <1>3, <1>4, <1>5 DEF Fewer, t

LEMMA AnswerFewer == ASSUME NEW u \in Seq(Message) PROVE Fewer(u \o Answer, u)
<1> DEFINE a == u \o Answer
<1>1. /\ Len(u) \in Nat /\ Parts \in Nat \ {0} /\ DOMAIN a = 1 .. Len(u) + Parts
      /\ DOMAIN u = 1 .. Len(u)
      /\ \A i \in 1 .. Len(u) : a[i] = u[i]
      /\ \A i \in 1 .. Parts : a[Len(u) + i] = Answer[i]
  BY AnswerFacts
<1> HIDE DEF a
<1>2. ASSUME NEW i \in DOMAIN a, i \notin DOMAIN u PROVE a[i].kind = "ANSWER"
  <2>1. i - Len(u) \in 1 .. Parts /\ i = Len(u) + (i - Len(u))
    BY <1>1, <1>2
  <2> QED
    BY <1>1, <2>1, AnswerFacts
<1>3. Listed(a) = Listed(u) /\ \A i \in Listed(u) : a[i] = u[i]
  BY <1>1, <1>2 DEF Listed
<1> QED
  BY <1>3 DEF Fewer, Numbers, Distinct, a

LEMMA EmptyFewer == ASSUME NEW u PROVE Fewer(<<>>, u)
<1>1. Listed(<<>>) = {}
  BY DEF Listed
<1> QED
  BY <1>1 DEF Fewer, Numbers, Distinct

LEMMA KeptIsQueued == ASSUME NEW w PROVE KeptIn(w) \subseteq Numbers(w.queue)
BY DEF KeptIn, Numbers, Listed

\* A report that is queued is kept, too.
LEMMA KeptAppend ==
  ASSUME NEW w \in Wiimote, w.freed <= Len(w.queue), NEW m \in Message,
         NEW v, v.queue = Append(w.queue, m), v.freed = w.freed
  PROVE  /\ m.kind = "ANSWER" => KeptIn(v) = KeptIn(w)
         /\ m.kind # "ANSWER" => KeptIn(v) = KeptIn(w) \cup {m.n}
<1> DEFINE q == w.queue
           a == Append(q, m)
           k == Len(q) + 1
           P(s) == {j \in DOMAIN s : j > w.freed /\ s[j].kind # "ANSWER"}
<1>1. q \in Seq(Message) /\ w.freed \in Nat
  BY DEF Wiimote
<1>2. /\ Len(q) \in Nat /\ DOMAIN q = 1 .. Len(q) /\ DOMAIN a = 1 .. Len(q) + 1
      /\ \A i \in 1 .. Len(q) : a[i] = q[i]
      /\ a[k] = m
  BY <1>1
<1> HIDE DEF a
<1>3. \A i \in P(q) : a[i] = q[i]
  BY <1>2
<1>4. ASSUME m.kind = "ANSWER" PROVE P(a) = P(q)
  BY <1>2, <1>4
<1>5. ASSUME m.kind # "ANSWER" PROVE P(a) = P(q) \cup {k}
  BY <1>1, <1>2, <1>5
<1>6. KeptIn(w) = {q[i].n : i \in P(q)} /\ KeptIn(v) = {a[i].n : i \in P(a)}
  BY DEF KeptIn, a
<1> HIDE DEF P, q, k
<1>7. ASSUME m.kind = "ANSWER" PROVE KeptIn(v) = KeptIn(w)
  BY <1>3, <1>4, <1>6, <1>7
<1>8. ASSUME m.kind # "ANSWER" PROVE KeptIn(v) = KeptIn(w) \cup {m.n}
  BY <1>2, <1>3, <1>5, <1>6, <1>8
<1> QED
  BY <1>7, <1>8

\* The first buffer that is kept is released.
LEMMA KeptRelease ==
  ASSUME NEW w \in Wiimote, Distinct(w.queue), w.freed + 1 <= Len(w.queue),
         NEW v, v.queue = w.queue, v.freed = w.freed + 1,
         NEW m, m = w.queue[w.freed + 1]
  PROVE  /\ m.kind = "ANSWER" => KeptIn(v) = KeptIn(w)
         /\ m.kind # "ANSWER" => KeptIn(v) = KeptIn(w) \ {m.n} /\ m.n \in KeptIn(w)
<1> DEFINE q == w.queue
           k == w.freed + 1
           P(f) == {j \in DOMAIN q : j > f /\ q[j].kind # "ANSWER"}
<1>1. q \in Seq(Message) /\ w.freed \in Nat
  BY DEF Wiimote
<1>2. Len(q) \in Nat /\ DOMAIN q = 1 .. Len(q) /\ k \in DOMAIN q /\ q[k] = m
  BY <1>1
<1>3. ASSUME m.kind = "ANSWER" PROVE P(k) = P(w.freed)
  BY <1>1, <1>2, <1>3
<1>4. ASSUME m.kind # "ANSWER" PROVE P(k) = P(w.freed) \ {k} /\ k \in P(w.freed)
  BY <1>1, <1>2, <1>4
<1>5. P(w.freed) \subseteq Listed(q)
  BY DEF Listed
<1>6. KeptIn(w) = {q[i].n : i \in P(w.freed)} /\ KeptIn(v) = {q[i].n : i \in P(k)}
  BY DEF KeptIn
<1> HIDE DEF P
<1>7. ASSUME m.kind = "ANSWER" PROVE KeptIn(v) = KeptIn(w)
  BY <1>3, <1>6, <1>7
<1>8. ASSUME m.kind # "ANSWER" PROVE KeptIn(v) = KeptIn(w) \ {m.n} /\ m.n \in KeptIn(w)
  <2>1. \A i \in P(w.freed) : q[i].n = m.n => i = k
    BY <1>2, <1>4, <1>5, <1>8 DEF Distinct
  <2> HIDE DEF q, k
  <2> QED
    BY <1>2, <1>4, <1>6, <1>8, <2>1
<1> QED
  BY <1>7, <1>8

-----------------------------------------------------------------------------
(* Steps that keep the books                                               *)

LEMMA BookedLess ==
  ASSUME NEW w, NEW l, NEW v, NEW k, NEW o, NEW h, Booked(w, l, o, h),
         Store(v, w), k.sent = l.sent, Fewer(k.unread, l.unread)
  PROVE  Booked(v, k, o, h)
<1>1. KeptIn(v) = KeptIn(w)
  BY DEF Store, KeptIn
<1> QED
  BY <1>1 DEF Booked, Store, Fewer

\* Only remote r is concerned.
LEMMA OneBooked ==
  ASSUME Books, NEW r \in Remotes,
         Booked(wm'[r], link'[r], hist'.owed[r], hist'.handled[r]),
         \A s \in Remotes : s # r => /\ wm'[s] = wm[s] /\ link'[s] = link[s]
                                     /\ hist'.owed[s] = hist.owed[s]
                                     /\ hist'.handled[s] = hist.handled[s]
  PROVE  Books'
<1>1. ASSUME NEW s \in Remotes
      PROVE  Booked(wm'[s], link'[s], hist'.owed[s], hist'.handled[s])
  <2>1. CASE s = r
    BY <2>1
  <2>2. CASE s # r
    BY <2>2 DEF Books
  <2> QED
    BY <2>1, <2>2
<1> QED
  BY <1>1 DEF Books

\* Remote r becomes w, its link l, with the same queue and no new report.
LEMMA CalmChange ==
  ASSUME IInv, Books, NEW r \in Remotes, NEW w \in Wiimote, NEW l \in Link, Change(r, w, l),
         Store(w, wm[r]), l.sent = link[r].sent, Fewer(l.unread, link[r].unread),
         hist'.owed = hist.owed, hist'.handled = hist.handled
  PROVE  /\ Books'
         /\ \A s \in Remotes : Store(wm'[s], wm[s])
<1>1. /\ wm'[r] = w /\ link'[r] = l
      /\ \A s \in Remotes : s # r => wm'[s] = wm[s] /\ link'[s] = link[s]
  BY ChangeFacts
<1>2. Booked(wm[r], link[r], hist.owed[r], hist.handled[r])
  BY DEF Books
<1>3. Booked(w, l, hist.owed[r], hist.handled[r])
  BY <1>2, BookedLess
<1>4. Books'
  BY <1>1, <1>3, OneBooked
<1>5. ASSUME NEW s \in Remotes PROVE Store(wm'[s], wm[s])
  <2>1. CASE s = r
    BY <1>1, <2>1
  <2>2. CASE s # r
    BY <1>1, <2>2 DEF Store
  <2> QED
    BY <2>1, <2>2
<1> QED
  BY <1>4, <1>5

LEMMA SelfFewer == ASSUME NEW u PROVE Fewer(u, u)
BY DEF Fewer

LEMMA CalmStill ==
  ASSUME Books, wm' = wm, link' = link, hist' = hist
  PROVE  Books' /\ \A s \in Remotes : Store(wm'[s], wm[s])
BY DEF Books, Store

\* The read that starts adds the parts of an answer.
LEMMA StartedFewer ==
  ASSUME NEW r \in Remotes, NEW l \in Link, StartsRead(r, l)
  PROVE  \E v \in Link : /\ link' = [link EXCEPT ![r] = v]
                         /\ v.sent = l.sent /\ Fewer(v.unread, l.unread)
<1>1. PICK v \in Link : /\ link' = [link EXCEPT ![r] = v]
                        /\ v.pending = l.pending /\ v.sent = l.sent
                        /\ v.unread = l.unread \/ v.unread = l.unread \o Answer
  BY StartsReadFacts
<1>2. l.unread \in Seq(Message)
  BY DEF Link
<1>3. Fewer(v.unread, l.unread)
  BY <1>1, <1>2, SelfFewer, AnswerFewer
<1> QED
  BY <1>1, <1>3

Calm == Books' /\ \A s \in Remotes : Store(wm'[s], wm[s])

LEMMA CalmHandshakes == ASSUME IInv, Books, NEW r \in Remotes, Handshakes(r) PROVE Calm
<1>1. /\ wm[r] \in Wiimote /\ link[r] \in Link /\ wm = [wm EXCEPT ![r] = wm[r]]
      /\ wm' = wm /\ hist' = hist /\ StartsRead(r, link[r])
  BY NoChange DEF Handshakes
<1>2. PICK v \in Link : /\ link' = [link EXCEPT ![r] = v]
                        /\ v.sent = link[r].sent /\ Fewer(v.unread, link[r].unread)
  BY <1>1, StartedFewer
<1>3. Change(r, wm[r], v) /\ Store(wm[r], wm[r])
  BY <1>1, <1>2 DEF Change, Store
<1> QED
  BY <1>1, <1>2, <1>3, CalmChange DEF Calm

LEMMA CalmReadEnds == ASSUME IInv, Books, ReadEnds PROVE Calm
<1>1. CASE wm' = wm
  BY <1>1, CalmStill DEF ReadEnds, Calm
<1>2. CASE call.kind = "handshake" /\ wm' = [wm EXCEPT ![call.remote].event = "OTHER"]
  <2> DEFINE r == call.remote
             v == [wm[r] EXCEPT !.event = "OTHER"]
  <2>1. r \in Remotes
    BY <1>2 DEF IInv, Callers
  <2>2. /\ wm[r] \in Wiimote /\ link[r] \in Link /\ link = [link EXCEPT ![r] = link[r]]
        /\ wm' = [wm EXCEPT ![r] = v] /\ v = [wm[r] EXCEPT !.event = "OTHER"]
        /\ link' = link /\ hist' = hist
    BY <1>2, <2>1, NoChange DEF ReadEnds
  <2> HIDE DEF r, v
  <2>3. v \in Wiimote /\ Store(v, wm[r])
    BY <2>2, EventSet
  <2>4. Change(r, v, link[r])
    BY <2>2 DEF Change
  <2> QED
    BY <2>1, <2>2, <2>3, <2>4, SelfFewer, CalmChange DEF Calm
<1> QED
  BY <1>1, <1>2 DEF ReadEnds

LEMMA CalmControl ==
  ASSUME IInv, Books, NEW r \in Remotes, NEW ok \in BOOLEAN, ControlConnected(r, ok)
  PROVE  Calm
<1> DEFINE p == IF ok THEN "intr" ELSE "none"
           w == IF ok THEN [wm[r] EXCEPT !.ctrl = TRUE] ELSE Fails(wm[r])
           l == [link[r] EXCEPT !.pending = p]
<1>1. wm[r] \in Wiimote /\ link[r] \in Link /\ hist' = hist /\ Change(r, w, l)
  BY NoChange DEF ControlConnected, Change
<1>2. l \in Link /\ l.unread = link[r].unread /\ l.sent = link[r].sent
  <2>1. p \in {"none", "ctrl", "intr"} /\ l = [link[r] EXCEPT !.pending = p]
    OBVIOUS
  <2> HIDE DEF p, l
  <2> QED
    BY <1>1, <2>1, PendingSet
<1>3. w \in Wiimote /\ Store(w, wm[r])
  BY <1>1, ControlSet, EventSet DEF Fails
<1> HIDE DEF w, l
<1> QED
  BY <1>1, <1>2, <1>3, SelfFewer, CalmChange DEF Calm

LEMMA CalmInterrupt ==
  ASSUME IInv, Books, NEW r \in Remotes, NEW ok \in BOOLEAN, InterruptConnected(r, ok)
  PROVE  Calm
<1> DEFINE w == IF ok THEN [wm[r] EXCEPT !.intr = TRUE, !.connected = TRUE]
                ELSE Fails([wm[r] EXCEPT !.ctrl = FALSE])
           l == [link[r] EXCEPT !.pending = "none"]
<1>1. wm[r] \in Wiimote /\ link[r] \in Link /\ hist' = hist /\ Change(r, w, l)
  BY NoChange DEF InterruptConnected, Change
<1>2. l \in Link /\ l.unread = link[r].unread /\ l.sent = link[r].sent
  BY <1>1, PendingSet
<1>3. w \in Wiimote /\ Store(w, wm[r])
  BY <1>1, InterruptSet, ControlReset
<1> HIDE DEF w, l
<1> QED
  BY <1>1, <1>2, <1>3, SelfFewer, CalmChange DEF Calm

LEMMA CalmDisconnected == ASSUME IInv, Books, NEW r \in Remotes, Disconnected(r) PROVE Calm
<1>1. PICK event \in {"UNEXPECTED", "OTHER"} :
         wm' = [wm EXCEPT ![r] = [@ EXCEPT !.ctrl = FALSE, !.intr = FALSE,
                                           !.connected = FALSE, !.event = event]]
  BY DEF Disconnected
<1> DEFINE w == [wm[r] EXCEPT !.ctrl = FALSE, !.intr = FALSE,
                              !.connected = FALSE, !.event = event]
           l == [link[r] EXCEPT !.unread = <<>>]
<1>2. wm[r] \in Wiimote /\ link[r] \in Link /\ hist' = hist /\ Change(r, w, l)
  BY <1>1, NoChange DEF Disconnected, Change
<1>3. l \in Link /\ l.unread = <<>> /\ l.sent = link[r].sent
  <2>1. <<>> \in Seq(Message) /\ l = [link[r] EXCEPT !.unread = <<>>]
    OBVIOUS
  <2> HIDE DEF l
  <2> QED
    BY <1>2, <2>1 DEF Link
<1>4. w \in Wiimote /\ Store(w, wm[r])
  BY <1>2 DEF Store, Wiimote
<1> HIDE DEF w, l
<1> QED
  BY <1>2, <1>3, <1>4, EmptyFewer, CalmChange DEF Calm

LEMMA LeftKeeps ==
  ASSUME hist \in Hist, NEW L, hist' = [hist EXCEPT !.left = L]
  PROVE  hist'.owed = hist.owed /\ hist'.handled = hist.handled
BY DEF Hist

LEMMA CalmConnects ==
  ASSUME IInv, Books, NEW r \in Remotes, Connect(r) \/ Disconnect(r)
  PROVE  Calm
<1>1. /\ wm[r] \in Wiimote /\ link[r] \in Link /\ hist \in Hist
      /\ wm = [wm EXCEPT ![r] = wm[r]] /\ link = [link EXCEPT ![r] = link[r]]
  BY NoChange DEF IInv, EmbeddedTypeOK
<1>2. hist'.owed = hist.owed /\ hist'.handled = hist.handled
  BY <1>1, LeftKeeps DEF Connect, Disconnect
<1>3. CASE Connect(r)
  <2> DEFINE l == [link[r] EXCEPT !.pending = "ctrl"]
  <2>1. l \in Link /\ l.unread = link[r].unread /\ l.sent = link[r].sent
    BY <1>1, PendingSet
  <2>2. Change(r, wm[r], l) /\ Store(wm[r], wm[r])
    BY <1>1, <1>3 DEF Connect, Change, Store
  <2> HIDE DEF l
  <2> QED
    BY <1>1, <1>2, <2>1, <2>2, SelfFewer, CalmChange DEF Calm
<1>4. CASE Disconnect(r)
  <2> DEFINE w == [wm[r] EXCEPT !.ctrl = FALSE, !.intr = FALSE, !.event = "OTHER"]
  <2>1. w \in Wiimote /\ Store(w, wm[r])
    BY <1>1, ReleasedSet
  <2>2. Change(r, w, link[r])
    BY <1>1, <1>4 DEF Disconnect, Change
  <2> HIDE DEF w
  <2> QED
    BY <1>1, <1>2, <2>1, <2>2, SelfFewer, CalmChange DEF Calm
<1> QED
  BY <1>3, <1>4

LEMMA CalmName ==
  ASSUME IInv, Books, NEW d \in Devices, NEW ok \in BOOLEAN, RemoteName(d, ok)
  PROVE  Calm
<1> DEFINE r == search.found + 1
           v == [wm[r] EXCEPT !.address = d]
<1>1. link' = link /\ hist' = hist /\ (wm' = wm \/ (r \in Remotes /\ wm' = [wm EXCEPT ![r] = v]))
  BY DEF RemoteName
<1>2. CASE wm' = wm
  BY <1>1, <1>2, CalmStill DEF Calm
<1>3. CASE r \in Remotes /\ wm' = [wm EXCEPT ![r] = v]
  <2>1. /\ wm[r] \in Wiimote /\ link[r] \in Link /\ link = [link EXCEPT ![r] = link[r]]
        /\ v = [wm[r] EXCEPT !.address = d]
    BY <1>3, NoChange
  <2>2. Change(r, v, link[r])
    BY <1>1, <1>3, <2>1 DEF Change
  <2> HIDE DEF r, v
  <2>3. v \in Wiimote /\ Store(v, wm[r])
    BY <2>1, AddressSet
  <2> QED
    BY <1>1, <1>3, <2>1, <2>2, <2>3, SelfFewer, CalmChange DEF Calm
<1> QED
  BY <1>1, <1>2, <1>3

\* What the history notes of a report that is handled.
Seen(m) == IF m.kind = "ANSWER" \/ m.n = 0 THEN {} ELSE {m.n}

\* w and l are the remote and its link as the handler finds them.
LEMMA HandlesBooks ==
  ASSUME IInv, Books, NEW r \in Remotes, NEW m \in Message, NEW l \in Link, NEW w \in Wiimote,
         Handles(r, w, m, l),
         Booked(w, l, hist.owed[r], hist.handled[r] \cup Seen(m))
  PROVE  /\ Books'
         /\ Store(wm'[r], w)
         /\ \A s \in Remotes : s # r => wm'[s] = wm[s]
<1>1. hist \in Hist /\ m.n \in Nat
  BY DEF IInv, EmbeddedTypeOK, Message
<1>2. /\ hist'.owed = hist.owed /\ hist'.handled[r] = hist.handled[r] \cup Seen(m)
      /\ \A s \in Remotes : s # r => hist'.handled[s] = hist.handled[s]
  <2>1. CASE m.kind = "ANSWER" \/ m.n = 0
    BY <2>1 DEF Handles, Seen
  <2>2. CASE ~(m.kind = "ANSWER" \/ m.n = 0)
    <3>1. hist' = [hist EXCEPT !.handled[r] = @ \cup {m.n}] /\ Seen(m) = {m.n}
      BY <2>2 DEF Handles, Seen
    <3> QED
      BY <1>1, <3>1, HandledSet
  <2> QED
    BY <2>1, <2>2
<1>3. \E x \in Wiimote : wm' = [wm EXCEPT ![r] = x] /\ Store(x, w)
  <2>1. CASE wm' = [wm EXCEPT ![r] = w]
    BY <2>1 DEF Store
  <2>2. CASE wm' = [wm EXCEPT ![r] = [w EXCEPT !.event = "OTHER"]]
    BY <2>2, EventSet
  <2> QED
    BY <2>1, <2>2 DEF Handles
<1>4. PICK x \in Wiimote : wm' = [wm EXCEPT ![r] = x] /\ Store(x, w)
  BY <1>3
<1>5. \E v \in Link : /\ link' = [link EXCEPT ![r] = v]
                      /\ v.sent = l.sent /\ Fewer(v.unread, l.unread)
  <2>1. CASE m.kind = "STATUS"
    BY <2>1, StartedFewer DEF Handles
  <2>2. CASE m.kind # "STATUS"
    BY <2>2, SelfFewer DEF Handles
  <2> QED
    BY <2>1, <2>2
<1>6. PICK v \in Link : /\ link' = [link EXCEPT ![r] = v]
                        /\ v.sent = l.sent /\ Fewer(v.unread, l.unread)
  BY <1>5
<1>7. Change(r, x, v)
  BY <1>4, <1>6 DEF Change
<1>8. /\ wm'[r] = x /\ link'[r] = v
      /\ \A s \in Remotes : s # r => wm'[s] = wm[s] /\ link'[s] = link[s]
  BY <1>7, ChangeFacts
<1>9. Booked(x, v, hist.owed[r], hist.handled[r] \cup Seen(m))
  BY <1>4, <1>6, BookedLess
<1>10. Books'
  BY <1>2, <1>8, <1>9, OneBooked
<1> QED
  BY <1>4, <1>8, <1>10

\* A report leaves the wire for a handler ...
LEMMA BookedHandled ==
  ASSUME NEW w \in Wiimote, NEW k \in Link, NEW l \in Link, NEW o, NEW h,
         Booked(w, k, o, h), k.unread # <<>>,
         l.sent = k.sent, l.unread = Tail(k.unread),
         NEW m \in Message, m = Head(k.unread)
  PROVE  Booked(w, l, o, h \cup Seen(m))
<1> SUFFICES ASSUME w.spoilt = FALSE PROVE Booked(w, l, o, h \cup Seen(m))
  BY DEF Booked
<1>1. k.unread \in Seq(Message)
  BY DEF Link
<1>2. /\ Fewer(l.unread, k.unread)
      /\ m.kind # "ANSWER" => /\ m.n \in Numbers(k.unread)
                              /\ Distinct(k.unread) => m.n \notin Numbers(l.unread)
  BY <1>1, TailFewer
<1>3. Booked(w, l, o, h)
  BY <1>2, BookedLess DEF Store
<1>4. CASE m.kind = "ANSWER" \/ m.n = 0
  <2>1. h \cup Seen(m) = h
    BY <1>4 DEF Seen
  <2> QED
    BY <1>3, <2>1
<1>5. CASE m.kind # "ANSWER" /\ m.n # 0
  <2>1. Seen(m) = {m.n}
    BY <1>5 DEF Seen
  <2>2. KeptIn(w) \subseteq Numbers(w.queue)
    BY KeptIsQueued
  <2>3. /\ m.n \notin Numbers(l.unread) /\ m.n \notin Numbers(w.queue) /\ m.n \in 1 .. l.sent
    BY <1>2, <1>5 DEF Booked
  <2> QED
    BY <1>3, <2>1, <2>2, <2>3 DEF Booked
<1> QED
  BY <1>4, <1>5

\* ... or for the queue ...
LEMMA BookedQueued ==
  ASSUME NEW w \in Wiimote, w.freed <= Len(w.queue), NEW k \in Link, NEW l \in Link,
         NEW o, NEW h, Booked(w, k, o, h), k.unread # <<>>,
         l.sent = k.sent, l.unread = Tail(k.unread),
         NEW m \in Message, m = Head(k.unread), NEW v \in Queued(w, m),
         NEW p, p = IF m.kind = "ANSWER" THEN o ELSE o \cup {m.n}
  PROVE  Booked(v, l, p, h)
<1> DEFINE q == Append(w.queue, m)
<1> SUFFICES ASSUME v.spoilt = FALSE PROVE Booked(v, l, p, h)
  BY DEF Booked
<1>1. k.unread \in Seq(Message) /\ w.queue \in Seq(Message)
  BY DEF Link, Wiimote
<1>2. /\ Fewer(l.unread, k.unread)
      /\ m.kind # "ANSWER" => /\ m.n \in Numbers(k.unread)
                              /\ Distinct(k.unread) => m.n \notin Numbers(l.unread)
  BY <1>1, TailFewer
<1>3. Booked(w, l, o, h)
  BY <1>2, BookedLess DEF Store
<1>4. \/ v = w /\ m.kind = "ANSWER"
      \/ v.queue = q /\ v.freed = w.freed /\ v.spoilt = w.spoilt
  <2>1. \/ v = w /\ m.kind = "ANSWER"
        \/ v = [w EXCEPT !.queue = q]
        \/ v = [w EXCEPT !.spoilt = TRUE, !.queue = q]
        \/ v = [w EXCEPT !.spoilt = TRUE]
    BY DEF Queued
  <2> HIDE DEF q
  <2> QED
    BY <2>1 DEF Wiimote
<1>5. CASE v = w /\ m.kind = "ANSWER"
  BY <1>3, <1>5
<1>6. CASE v.queue = q /\ v.freed = w.freed /\ v.spoilt = w.spoilt
  <2>1. /\ m.kind = "ANSWER" => KeptIn(v) = KeptIn(w)
        /\ m.kind # "ANSWER" => KeptIn(v) = KeptIn(w) \cup {m.n}
    BY <1>6, KeptAppend
  <2>2. /\ m.kind = "ANSWER" => Numbers(q) = Numbers(w.queue)
        /\ m.kind = "ANSWER" => (Distinct(w.queue) => Distinct(q))
        /\ m.kind # "ANSWER" => Numbers(q) = Numbers(w.queue) \cup {m.n}
        /\ m.kind # "ANSWER" => (Distinct(w.queue) /\ m.n \notin Numbers(w.queue) => Distinct(q))
    BY <1>1, AppendAnswer, AppendReport
  <2> HIDE DEF q
  <2>3. CASE m.kind = "ANSWER"
    BY <1>3, <1>6, <2>1, <2>2, <2>3 DEF Booked
  <2>4. CASE m.kind # "ANSWER"
    <3>1. /\ m.n \notin Numbers(l.unread) /\ m.n \notin Numbers(w.queue) /\ m.n \in 1 .. l.sent
          /\ m.n \notin h
      BY <1>2, <1>6, <2>4 DEF Booked
    <3> QED
      BY <1>3, <1>6, <2>1, <2>2, <2>4, <3>1 DEF Booked
  <2> QED
    BY <2>3, <2>4
<1> QED
  BY <1>4, <1>5, <1>6

\* ... and the queue for a handler.
LEMMA BookedDelivered ==
  ASSUME NEW w \in Wiimote, NEW l \in Link, NEW o, NEW h, Booked(w, l, o, h),
         w.spoilt = FALSE, w.freed + 1 <= Len(w.queue),
         NEW v, v.queue = w.queue, v.freed = w.freed + 1, v.spoilt = w.spoilt,
         NEW m, m = w.queue[w.freed + 1]
  PROVE  Booked(v, l, o, h \cup Seen(m))
<1>1. /\ m.kind = "ANSWER" => KeptIn(v) = KeptIn(w)
      /\ m.kind # "ANSWER" => KeptIn(v) = KeptIn(w) \ {m.n} /\ m.n \in KeptIn(w)
  BY KeptRelease DEF Booked
<1>2. CASE m.kind = "ANSWER"
  <2>1. h \cup Seen(m) = h
    BY <1>2 DEF Seen
  <2> QED
    BY <1>1, <1>2, <2>1 DEF Booked
<1>3. CASE m.kind # "ANSWER"
  <2>1. m.n \in Numbers(w.queue)
    BY <1>1, <1>3, KeptIsQueued
  <2>2. m.n \in 1 .. l.sent
    BY <2>1 DEF Booked
  <2>3. Seen(m) = {m.n}
    BY <1>3, <2>2 DEF Seen
  <2> QED
    BY <1>1, <1>3, <2>1, <2>2, <2>3 DEF Booked
<1> QED
  BY <1>2, <1>3

-----------------------------------------------------------------------------
(* The invariant of the books                                              *)

\* The delivery has not moved, and no buffer has been released.
LEMMA SameReached ==
  ASSUME IInv, Reached, call'.kind = "deliver" => call' = call,
         \A s \in Remotes : /\ wm'[s].freed = wm[s].freed
                            /\ wm'[s].spoilt = FALSE => wm[s].spoilt = FALSE
  PROVE  Reached'
BY DEF IInv, Callers, Reached

LEMMA CalmReached ==
  ASSUME IInv, Reached, Calm, call'.kind = "deliver" => call' = call
  PROVE  Reached'
BY SameReached DEF Calm, Store

\* A delivery begins, for the first remote or the next.
LEMMA ReachedAgain ==
  ASSUME IInv, wm' = wm, call'.kind = "deliver" => call'.remote \in Remotes /\ call'.at = 1
  PROVE  Reached'
<1>1. \A s \in Remotes : wm[s].freed \in Nat
  BY RemoteFields DEF IInv, EmbeddedTypeOK
<1> QED
  BY <1>1 DEF Reached

LEMMA CallsKeepBooks ==
  ASSUME IInv, Books, Reached,
         ConnectFails \/ Poll \/ PollReturns \/ Find \/ FindReturns \/ DeliverNext
  PROVE  Books' /\ Reached'
<1>1. wm' = wm /\ link' = link /\ hist' = hist
  BY DEF ConnectFails, Poll, PollReturns, Find, FindReturns, DeliverNext
<1>2. Books'
  BY <1>1, CalmStill
<1>3. call'.kind = "deliver" => call'.remote \in Remotes /\ call'.at = 1
  <2>1. CASE ConnectFails \/ PollReturns \/ FindReturns
    BY <2>1, IdleFacts DEF ConnectFails, PollReturns, FindReturns
  <2>2. CASE Poll
    <3>1. call' = [Idle EXCEPT !.kind = "deliver", !.remote = 1, !.at = 1] /\ 1 \in Remotes
      BY <2>2, EmbeddedAssumption DEF Poll, Remotes
    <3> QED
      BY <3>1, DeliveryBegins
  <2>3. CASE Find
    BY <2>3, CallBegins DEF Find, Kinds
  <2>4. CASE DeliverNext
    <3>1. call \in Call /\ call.remote \in Remotes
      BY <2>4, ReadFields DEF DeliverNext, IInv, Callers
    <3>2. CASE call.remote < NumRemotes
      <4> DEFINE r == call.remote + 1
      <4>1. r \in Remotes
        BY <3>1, <3>2, EmbeddedAssumption DEF Remotes
      <4>2. call' = [call EXCEPT !.remote = r, !.at = 1]
        BY <2>4, <3>2 DEF DeliverNext
      <4> HIDE DEF r
      <4>3. call'.remote = r /\ call'.at = 1
        BY <3>1, <4>1, <4>2 DEF Call
      <4> QED
        BY <4>1, <4>3
    <3>3. CASE ~(call.remote < NumRemotes)
      <4>1. call' = [Idle EXCEPT !.kind = "poll"]
        BY <2>4, <3>3 DEF DeliverNext
      <4> QED
        BY <4>1, CallBegins DEF Kinds
    <3> QED
      BY <3>2, <3>3
  <2> QED
    BY <2>1, <2>2, <2>3, <2>4
<1> QED
  BY <1>1, <1>2, <1>3, ReachedAgain

LEMMA ReportKeepsBooks ==
  ASSUME IInv, Books, Reached, NEW r \in Remotes, Report(r)
  PROVE  Books' /\ Reached'
<1>1. PICK kind \in {"DATA", "STATUS"} :
         link' = [link EXCEPT ![r] =
                    [link[r] EXCEPT !.sent = link[r].sent + 1,
                                    !.unread = Append(link[r].unread,
                                                      [kind |-> kind, n |-> link[r].sent + 1])]]
  BY DEF Report
<1> DEFINE n == link[r].sent + 1
           m == [kind |-> kind, n |-> n]
           u == link[r].unread
           a == Append(u, m)
           l == [link[r] EXCEPT !.sent = n, !.unread = a]
<1>2. /\ wm[r] \in Wiimote /\ link[r] \in Link /\ wm' = wm /\ hist' = hist /\ call' = call
      /\ link' = [link EXCEPT ![r] = l] /\ link \in [Remotes -> Link]
  BY <1>1, NoChange DEF Report, IInv, EmbeddedTypeOK
<1>3. n \in Nat /\ link[r].sent \in Nat /\ n = link[r].sent + 1 /\ u \in Seq(Message)
  BY <1>2 DEF Link
<1> HIDE DEF n
<1>4. m \in Message /\ m.kind # "ANSWER" /\ m.n = n
  BY <1>3 DEF Message
<1> HIDE DEF m
<1>5. l.sent = n /\ l.unread = a
  BY <1>2 DEF Link
<1>6. /\ Numbers(a) = Numbers(u) \cup {n}
      /\ Distinct(u) /\ n \notin Numbers(u) => Distinct(a)
  BY <1>3, <1>4, AppendReport
<1>7. link'[r] = l /\ \A s \in Remotes : s # r => link'[s] = link[s]
  BY <1>2
<1>8. Booked(wm[r], link[r], hist.owed[r], hist.handled[r])
  BY DEF Books
<1> HIDE DEF a, l
<1>9. Booked(wm[r], l, hist.owed[r], hist.handled[r])
  <2> SUFFICES ASSUME wm[r].spoilt = FALSE
               PROVE  Booked(wm[r], l, hist.owed[r], hist.handled[r])
    BY DEF Booked
  <2>1. /\ n \notin 1 .. link[r].sent /\ n \in 1 .. n
        /\ 1 .. link[r].sent \subseteq 1 .. n
    BY <1>3
  <2> QED
    BY <1>5, <1>6, <1>8, <2>1 DEF Booked
<1>10. Books'
  BY <1>2, <1>7, <1>9, OneBooked
<1>11. Reached'
  BY <1>2, SameReached
<1> QED
  BY <1>10, <1>11

LEMMA MessageKeepsBooks ==
  ASSUME IInv, Books, Reached, NEW r \in Remotes, MessageReceived(r)
  PROVE  Books' /\ Reached'
<1> DEFINE u == Tail(link[r].unread)
           m == Head(link[r].unread)
           l == [link[r] EXCEPT !.unread = u]
<1>1. /\ wm[r] \in Wiimote /\ link[r] \in Link /\ link[r].unread # <<>> /\ call' = call
      /\ wm = [wm EXCEPT ![r] = wm[r]]
      /\ ToReader(r, m, l) \/ ToQueue(r, m, l) \/ ToHandler(r, m, l)
  BY NoChange DEF MessageReceived
<1>2. link[r].unread \in Seq(Message)
  BY <1>1 DEF Link
<1>3. /\ u \in Seq(Message) /\ m \in Message /\ u = Tail(link[r].unread)
      /\ m = Head(link[r].unread) /\ l = [link[r] EXCEPT !.unread = u]
  BY <1>1, <1>2
<1> HIDE DEF u, m, l
<1>4. l \in Link /\ l.unread = Tail(link[r].unread) /\ l.sent = link[r].sent
  BY <1>1, <1>3 DEF Link
<1>5. Booked(wm[r], link[r], hist.owed[r], hist.handled[r])
  BY DEF Books
<1>6. wm[r].freed <= Len(wm[r].queue)
  BY DEF IInv, Places
<1>7. CASE ToReader(r, m, l)
  <2>1. Change(r, wm[r], l) /\ Store(wm[r], wm[r]) /\ hist' = hist
    BY <1>1, <1>7 DEF ToReader, Change, Store
  <2>2. Fewer(l.unread, link[r].unread)
    BY <1>1, <1>2, <1>4, TailFewer
  <2>3. Calm
    BY <1>1, <1>4, <2>1, <2>2, CalmChange DEF Calm
  <2> QED
    BY <1>1, <2>3, CalmReached DEF Calm
<1>8. CASE ToHandler(r, m, l)
  <2>1. Booked(wm[r], l, hist.owed[r], hist.handled[r] \cup Seen(m))
    BY <1>1, <1>3, <1>4, <1>5, BookedHandled
  <2>2. Handles(r, wm[r], m, l)
    BY <1>8 DEF ToHandler
  <2>3. Books' /\ Store(wm'[r], wm[r]) /\ \A s \in Remotes : s # r => wm'[s] = wm[s]
    BY <1>1, <1>3, <1>4, <2>1, <2>2, HandlesBooks
  <2>4. \A s \in Remotes : Store(wm'[s], wm[s])
    BY <2>3 DEF Store
  <2> QED
    BY <1>1, <2>3, <2>4, CalmReached DEF Calm
<1>9. CASE ToQueue(r, m, l)
  <2>1. PICK w \in Queued(wm[r], m) : wm' = [wm EXCEPT ![r] = w]
    BY <1>9 DEF ToQueue
  <2>2. link' = [link EXCEPT ![r] = l] /\ hist \in Hist /\ hist' = Owed(r, m) /\ m.n \in Nat
    BY <1>3, <1>9 DEF ToQueue, IInv, EmbeddedTypeOK, Message
  <2>3. w \in Wiimote /\ w.freed = wm[r].freed
    BY <1>1, <1>3, <2>1, QueueSet
  <2>4. Change(r, w, l)
    BY <2>1, <2>2 DEF Change
  <2>5. /\ wm'[r] = w /\ link'[r] = l
        /\ \A s \in Remotes : s # r => wm'[s] = wm[s] /\ link'[s] = link[s]
    BY <1>4, <2>3, <2>4, ChangeFacts
  <2>6. /\ hist'.handled = hist.handled
        /\ hist'.owed[r] = IF m.kind = "ANSWER" THEN hist.owed[r] ELSE hist.owed[r] \cup {m.n}
        /\ \A s \in Remotes : s # r => hist'.owed[s] = hist.owed[s]
    <3>1. CASE m.kind = "ANSWER"
      BY <2>2, <3>1 DEF Owed
    <3>2. CASE m.kind # "ANSWER"
      <4>1. hist' = [hist EXCEPT !.owed[r] = @ \cup {m.n}]
        BY <2>2, <3>2 DEF Owed
      <4> QED
        BY <2>2, <3>2, <4>1, OwedSet
    <3> QED
      BY <3>1, <3>2
  <2>7. Booked(w, l, hist'.owed[r], hist.handled[r])
    <3> DEFINE x == wm[r]
               k == link[r]
               o == hist.owed[r]
               h == hist.handled[r]
               p == hist'.owed[r]
    <3>1. /\ x \in Wiimote /\ k \in Link /\ k.unread # <<>> /\ x.freed <= Len(x.queue)
          /\ Booked(x, k, o, h) /\ l.sent = k.sent /\ l.unread = Tail(k.unread)
          /\ m \in Message /\ m = Head(k.unread) /\ w \in Queued(x, m)
          /\ p = IF m.kind = "ANSWER" THEN o ELSE o \cup {m.n}
      BY <1>1, <1>3, <1>4, <1>5, <1>6, <2>1, <2>6
    <3> HIDE DEF x, k, o, h, p
    <3>2. Booked(w, l, p, h)
      BY <1>4, <3>1, BookedQueued
    <3> QED
      BY <3>2 DEF p, h
  <2>8. Books'
    BY <2>5, <2>6, <2>7, OneBooked
  <2>9. w.spoilt = FALSE => wm[r].spoilt = FALSE
    <3>1. \/ w = wm[r] \/ w = [wm[r] EXCEPT !.queue = Append(@, m)]
          \/ w = [wm[r] EXCEPT !.spoilt = TRUE, !.queue = Append(@, m)]
          \/ w = [wm[r] EXCEPT !.spoilt = TRUE]
      BY <2>1 DEF Queued
    <3> QED
      BY <1>1, <3>1 DEF Wiimote
  <2>10. Reached'
    BY <1>1, <2>3, <2>5, <2>9, SameReached
  <2> QED
    BY <2>8, <2>10
<1> QED
  BY <1>1, <1>7, <1>8, <1>9

LEMMA DeliverKeepsBooks ==
  ASSUME IInv, Books, Reached, Deliver
  PROVE  Books' /\ Reached'
<1> DEFINE r == call.remote
           q == wm[r].queue
           m == q[call.at]
           w == [wm[r] EXCEPT !.freed = call.at]
<1>1. /\ call.kind = "deliver" /\ call \in Call
      /\ call.at > wm[r].freed /\ call.at <= Len(q)
      /\ Handles(r, w, m, link[r]) /\ call' = [call EXCEPT !.at = @ + 1]
  BY ReadFields DEF Deliver
<1>2. r \in Remotes /\ call.at \in Nat /\ call.at >= 1
  BY <1>1, CallFields, ReadFields DEF IInv, Callers
<1>3. /\ wm[r] \in Wiimote /\ link[r] \in Link /\ q \in Seq(Message) /\ wm[r].freed \in Nat
      /\ w = [wm[r] EXCEPT !.freed = call.at]
  BY <1>2, NoChange, RemoteFields
<1>4. m \in Message
  BY <1>1, <1>2, <1>3
<1>5. call' \in Call /\ call'.kind = "deliver" /\ call'.remote = r /\ call'.at = call.at + 1
  BY <1>1, NextPlace
<1>6. wm[r].spoilt = FALSE => call.at = wm[r].freed + 1
  BY <1>1, <1>2, <1>3 DEF Reached
<1>7. Booked(wm[r], link[r], hist.owed[r], hist.handled[r])
  BY <1>2 DEF Books
<1>8. m = wm[r].queue[call.at]
  OBVIOUS
<1> HIDE DEF r, m, w
<1>9. w \in Wiimote /\ w.queue = wm[r].queue /\ w.freed = call.at /\ w.spoilt = wm[r].spoilt
  BY <1>2, <1>3, FreedSet
<1>10. Booked(w, link[r], hist.owed[r], hist.handled[r] \cup Seen(m))
  <2>1. CASE wm[r].spoilt = FALSE
    <3>1. /\ wm[r].freed + 1 <= Len(wm[r].queue) /\ w.freed = wm[r].freed + 1
          /\ m = wm[r].queue[wm[r].freed + 1]
      BY <1>1, <1>6, <1>8, <1>9, <2>1
    <3> QED
      BY <1>3, <1>7, <1>9, <2>1, <3>1, BookedDelivered
  <2>2. CASE wm[r].spoilt # FALSE
    BY <1>9, <2>2 DEF Booked
  <2> QED
    BY <2>1, <2>2
<1>11. Books' /\ Store(wm'[r], w)
  BY <1>1, <1>2, <1>3, <1>4, <1>9, <1>10, HandlesBooks
<1>12. wm'[r].freed = call.at
  BY <1>9, <1>11 DEF Store
<1>13. Reached'
  BY <1>2, <1>5, <1>12 DEF Reached
<1> QED
  BY <1>11, <1>13

LEMMA ReleasedKeepsBooks ==
  ASSUME IInv, Books, Reached, DeliverReleased
  PROVE  Books' /\ Reached'
<1> DEFINE r == call.remote
           w == [wm[r] EXCEPT !.spoilt = TRUE]
<1>1. /\ call.kind = "deliver" /\ call \in Call
      /\ r \in Remotes /\ call.at >= 1 /\ call.at <= wm[r].freed
      /\ wm[r].freed <= Len(wm[r].queue)
  BY ReadFields DEF DeliverReleased, IInv, Callers, Places
<1>2. /\ wm[r] \in Wiimote /\ link[r] \in Link /\ wm[r].queue \in Seq(Message)
      /\ wm[r].freed \in Nat /\ call.at \in Nat
      /\ w = [wm[r] EXCEPT !.spoilt = TRUE]
  BY <1>1, NoChange, RemoteFields, CallFields
<1>3. PICK next \in {call.at, Len(wm[r].queue)} : call' = [call EXCEPT !.at = next + 1]
  BY DEF DeliverReleased
<1>4. call'.remote = r
  BY <1>1, <1>3 DEF Call
<1>5. PICK m \in Leftovers(wm[r].queue[call.at]) : Handles(r, w, m, link[r])
  BY DEF DeliverReleased
<1>6. m \in Message
  <2>1. wm[r].queue[call.at] \in Message
    BY <1>1, <1>2
  <2> HIDE DEF r
  <2> QED
    BY <1>5, <2>1 DEF Leftovers, Message
<1> HIDE DEF r, w
<1>7. w \in Wiimote /\ w.spoilt = TRUE
  BY <1>2, SpoiltSet
<1>8. Booked(w, link[r], hist.owed[r], hist.handled[r] \cup Seen(m))
  BY <1>7 DEF Booked
<1>9. Books' /\ Store(wm'[r], w)
  BY <1>1, <1>2, <1>5, <1>6, <1>7, <1>8, HandlesBooks
<1>10. wm'[r].spoilt = TRUE
  BY <1>7, <1>9 DEF Store
<1> QED
  BY <1>4, <1>9, <1>10 DEF Reached

LEMMA BooksKeep == ASSUME IInv, Books, Reached, [Next]_vars PROVE Books' /\ Reached'
<1>1. ASSUME wm' = wm, link' = link, hist' = hist, call' = call PROVE Books' /\ Reached'
  BY <1>1, CalmStill, CalmReached DEF Calm
<1>2. ASSUME Calm, call' = call \/ call'.kind # "deliver" PROVE Books' /\ Reached'
  BY <1>2, CalmReached DEF Calm
<1>3. CASE UNCHANGED vars
  BY <1>1, <1>3 DEF vars
<1>4. CASE Application
  <2>1. ASSUME NEW r \in Remotes, Handshakes(r) PROVE Books' /\ Reached'
    <3>1. call' = [Idle EXCEPT !.kind = "handshake", !.remote = r]
      BY <2>1 DEF Handshakes
    <3>2. call'.kind # "deliver"
      BY <3>1 DEF Idle
    <3> QED
      BY <1>2, <2>1, <3>2, CalmHandshakes
  <2>2. CASE Connected
    BY <2>1, <2>2 DEF Connected, IInv, Callers
  <2>3. CASE \E r \in Remotes : Resync(r)
    BY <2>1, <2>3 DEF Resync
  <2>4. CASE \E r \in Remotes : Connect(r) \/ Disconnect(r)
    <3>1. Calm
      BY <2>4, CalmConnects
    <3>2. call' = call \/ call'.kind # "deliver"
      <4>1. \A r \in Remotes, b \in BOOLEAN :
               [Idle EXCEPT !.kind = "connect", !.remote = r, !.stale = b].kind = "connect"
        BY DEF Idle
      <4>2. \A r \in Remotes : (wm[r].event = "UNEXPECTED") \in BOOLEAN
        OBVIOUS
      <4> QED
        BY <2>4, <4>1, <4>2 DEF Connect, Disconnect
    <3> QED
      BY <1>2, <3>1, <3>2
  <2> QED
    BY <1>4, <2>2, <2>3, <2>4, CallsKeepBooks DEF Application
<1>5. CASE Callbacks
  <2>1. CASE \E r \in Remotes : MessageReceived(r)
    BY <2>1, MessageKeepsBooks
  <2>2. CASE \E r \in Remotes : Disconnected(r)
    BY <1>2, <2>2, CalmDisconnected DEF Disconnected
  <2>3. CASE \E r \in Remotes, ok \in BOOLEAN : ControlConnected(r, ok) \/ InterruptConnected(r, ok)
    <3>1. Calm
      BY <2>3, CalmControl, CalmInterrupt
    <3>2. call' = call
      BY <2>3 DEF ControlConnected, InterruptConnected
    <3> QED
      BY <1>2, <3>1, <3>2
  <2>4. CASE OtherEvent
    BY <1>1, <2>4 DEF OtherEvent
  <2>5. CASE \E d \in Devices : Inquiry(d)
    BY <1>1, <2>5 DEF Inquiry
  <2>6. CASE \E d \in Devices, ok \in BOOLEAN : RemoteName(d, ok)
    BY <1>2, <2>6, CalmName DEF RemoteName
  <2> QED
    BY <1>5, <2>1, <2>2, <2>3, <2>4, <2>5, <2>6 DEF Callbacks
<1>6. CASE Polling
  BY <1>6, DeliverKeepsBooks, ReleasedKeepsBooks, CallsKeepBooks DEF Polling
<1>7. CASE Reads
  <2>1. CASE ReadWaits \/ ReadReturns
    BY <1>1, <2>1 DEF ReadWaits, ReadReturns
  <2>2. CASE ReadEnds
    <3>1. call' = call \/ call'.kind # "deliver"
      BY <2>2, IdleFacts DEF ReadEnds
    <3> QED
      BY <1>2, <2>2, <3>1, CalmReadEnds
  <2> QED
    BY <1>7, <2>1, <2>2 DEF Reads
<1>8. CASE \E r \in Remotes : Report(r)
  BY <1>8, ReportKeepsBooks
<1> QED
  BY <1>3, <1>4, <1>5, <1>6, <1>7, <1>8 DEF Next

LEMMA BooksBegin == ASSUME Init PROVE Books /\ Reached
<1>1. Listed(<<>>) = {}
  BY DEF Listed
<1>2. Numbers(<<>>) = {} /\ Distinct(<<>>)
  BY <1>1 DEF Numbers, Distinct
<1>3. ASSUME NEW r \in Remotes
      PROVE  Booked(wm[r], link[r], hist.owed[r], hist.handled[r])
  <2>1. /\ wm[r].queue = <<>> /\ link[r].unread = <<>>
        /\ hist.owed[r] = {} /\ hist.handled[r] = {}
    BY DEF Init
  <2>2. KeptIn(wm[r]) = {}
    BY <1>2, <2>1, KeptIsQueued
  <2> QED
    BY <1>2, <2>1, <2>2 DEF Booked
<1>4. Reached
  BY IdleFacts DEF Init, Reached
<1> QED
  BY <1>3, <1>4 DEF Books

\* ReportsAreKept: until a released buffer is used, a report of one remote that
\* comes in a blocking read of another is in its queue until a handler sees it,
\* and not after that.
THEOREM ReportsAreAlwaysKept == Spec => []ReportsAreKept
<1>1. Init => Books /\ Reached
  BY BooksBegin
<1>2. IInv /\ Books /\ Reached /\ [Next]_vars => Books' /\ Reached'
  BY BooksKeep
<1>3. ASSUME IInv, Books PROVE ReportsAreKept
  <2> SUFFICES ASSUME \A s \in Remotes : ~wm[s].spoilt, NEW r \in Remotes
               PROVE  /\ hist.owed[r] \subseteq hist.handled[r] \cup Kept(r)
                      /\ hist.handled[r] \cap Kept(r) = {}
    BY DEF ReportsAreKept
  <2>1. wm[r].spoilt = FALSE
    BY <1>3, NoChange, RemoteFields
  <2>2. Kept(r) = KeptIn(wm[r])
    BY DEF Kept, KeptIn
  <2> QED
    BY <1>3, <2>1, <2>2 DEF Books, Booked
<1> QED
  BY <1>1, <1>2, <1>3, EmbeddedInvariance, PTL DEF Spec
=============================================================================
