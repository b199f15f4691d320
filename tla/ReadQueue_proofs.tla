--------------------------- MODULE ReadQueue_proofs ---------------------------
(***************************************************************************)
(* Proofs about ReadQueue, for any number of reads, any lengths, any       *)
(* packet size and any width of the counter.                               *)
(***************************************************************************)
EXTENDS ReadQueue, SequenceTheorems, TLAPS

\* Only the head is ever dirty; a finished request misses nothing, a waiting
\* one misses something, and all of it unless it is the first that waits.
QShape(q) ==
    /\ q \in Seq(Request)
    /\ \A i \in DOMAIN q : q[i].dirty => i = 1
    /\ \A i \in DOMAIN q : IF q[i].dirty THEN q[i].wait = 0
                                         ELSE q[i].wait \in 1 .. q[i].size
    /\ \A i, j \in DOMAIN q : i < j /\ ~q[i].dirty => q[j].wait = q[j].size

\* The commands dev and reports host are the rest of the answer to h: the
\* data in flight starts where the buffer of h ends, has no holes, and ends
\* with the request or with an error.
OnWire(h, dev, host) ==
    /\ Len(dev) <= 1
    /\ \A i \in DOMAIN dev :
          /\ dev[i].id = h.id
          /\ dev[i].size = h.size
          /\ dev[i].sent < h.size
          /\ dev[i].sent = IF host = <<>> THEN h.size - h.wait
                           ELSE host[Len(host)].off + host[Len(host)].len
    /\ \A i \in DOMAIN host :
          /\ host[i].id = h.id
          /\ host[i].err => i = Len(host) /\ dev = <<>>
          /\ ~host[i].err =>
                /\ host[i].off = IF i = 1 THEN h.size - h.wait
                                 ELSE host[i - 1].off + host[i - 1].len
                /\ host[i].off + host[i].len <= h.size
                /\ i # Len(host) => host[i].off + host[i].len < h.size

Flight ==
    /\ ~connected => event # "READ_DATA"
    /\ toDev # <<>> => linkUp
    /\ InFlight => /\ connected
                   /\ Live(queue) # {}
                   /\ OnWire(Waiting, toDev, toHost)

IInv == TypeOK /\ QShape(queue) /\ Flight /\ EventMeansBuffer

-----------------------------------------------------------------------------
(* The list of requests                                                    *)

LEMMA FirstLiveIsLive ==
  ASSUME NEW q, QShape(q), Live(q) # {}
  PROVE  /\ FirstLive(q) \in Live(q)
         /\ \A j \in Live(q) : FirstLive(q) <= j
<1>1. \E i \in Live(q) : \A j \in Live(q) : i <= j
  <2>1. CASE 1 \in Live(q)
    BY <2>1 DEF Live, QShape
  <2>2. CASE 1 \notin Live(q)
    <3>1. PICK i \in Live(q) : TRUE
      OBVIOUS
    <3>2. Len(q) >= 2
      BY <2>2, <3>1 DEF Live, QShape
    <3>3. 2 \in Live(q)
      BY <3>2 DEF Live, QShape
    <3>. QED
      BY <2>2, <3>3 DEF Live, QShape
  <2>. QED
    BY <2>1, <2>2
<1>. QED
  BY <1>1 DEF FirstLive

LEMMA SizeIsPositive ==
  ASSUME NEW n \in Sizes
  PROVE  n \in 1 .. Width - 1 /\ n \in Nat \ {0} /\ Width \in Nat \ {0}
BY SizeAssumption

\* A list without dirty requests.
Clean(q) == \A i \in DOMAIN q : ~q[i].dirty

LEMMA CleanFacts ==
  ASSUME NEW q, QShape(q), Clean(q)
  PROVE  /\ Live(q) = DOMAIN q
         /\ Live(q) = {} <=> q = <<>>
         /\ q # <<>> => FirstLive(q) = 1
<1>1. Live(q) = DOMAIN q
  BY DEF Live, Clean
<1>2. Live(q) = {} <=> q = <<>>
  BY <1>1 DEF QShape
<1>3. ASSUME q # <<>> PROVE FirstLive(q) = 1
  <2>1. 1 \in Live(q)
    BY <1>1, <1>3 DEF QShape
  <2>2. FirstLive(q) \in 1 .. Len(q) /\ FirstLive(q) <= 1
    BY <2>1, <1>1, FirstLiveIsLive DEF QShape
  <2>. QED
    BY <2>2
<1>. QED
  BY <1>1, <1>2, <1>3

LEMMA SuffixFacts ==
  ASSUME NEW S, NEW s \in Seq(S), NEW k \in 1 .. Len(s) + 1
  PROVE  /\ SubSeq(s, k, Len(s)) \in Seq(S)
         /\ Len(SubSeq(s, k, Len(s))) = Len(s) - k + 1
         /\ \A i \in 1 .. Len(s) - k + 1 :
               /\ i + k - 1 \in k .. Len(s)
               /\ SubSeq(s, k, Len(s))[i] = s[i + k - 1]
<1>1. k \in Int /\ Len(s) \in Int /\ \A i \in k .. Len(s) : s[i] \in S
  OBVIOUS
<1>2. /\ SubSeq(s, k, Len(s)) \in Seq(S)
      /\ Len(SubSeq(s, k, Len(s))) = IF k <= Len(s) THEN Len(s) - k + 1 ELSE 0
      /\ \A i \in 1 .. Len(s) - k + 1 : SubSeq(s, k, Len(s))[i] = s[k + i - 1]
  BY <1>1, SubSeqProperties
<1>3. \A i \in 1 .. Len(s) - k + 1 : i + k - 1 \in k .. Len(s) /\ k + i - 1 = i + k - 1
  BY <1>1
<1>. QED
  BY <1>1, <1>2, <1>3

LEMMA ClearDirtyFacts ==
  ASSUME NEW q, QShape(q)
  PROVE  /\ QShape(ClearDirty(q))
         /\ Clean(ClearDirty(q))
         /\ ClearDirty(q) = <<>> <=> Live(q) = {}
         /\ Live(q) # {} => ClearDirty(q)[1] = q[FirstLive(q)]
<1>1. CASE Live(q) = {}
  BY <1>1 DEF ClearDirty, QShape, Clean
<1>2. CASE Live(q) # {}
  <2>. DEFINE k == FirstLive(q)
              c == ClearDirty(q)
  <2>1. q \in Seq(Request) /\ Len(q) \in Nat /\ DOMAIN q = 1 .. Len(q)
    BY DEF QShape
  <2>2. k \in 1 .. Len(q) /\ ~q[k].dirty /\ (k # 1 => q[1].dirty)
    BY <1>2, <2>1, FirstLiveIsLive DEF Live, QShape
  <2>. HIDE DEF k
  <2>3. /\ c \in Seq(Request)
        /\ Len(c) = Len(q) - k + 1
        /\ \A i \in 1 .. Len(q) - k + 1 : i + k - 1 \in k .. Len(q) /\ c[i] = q[i + k - 1]
    <3>1. c = SubSeq(q, k, Len(q))
      BY <1>2 DEF ClearDirty, k
    <3>2. k \in 1 .. Len(q) + 1
      BY <2>1, <2>2
    <3>. HIDE DEF c
    <3>. QED
      BY <2>1, <3>1, <3>2, SuffixFacts
  <2>. HIDE DEF c
  <2>4. c # <<>> /\ c[1] = q[k]
    BY <2>1, <2>2, <2>3
  <2>5. ASSUME NEW i \in 1 .. Len(c)
        PROVE  /\ ~c[i].dirty
               /\ c[i].wait \in 1 .. c[i].size
               /\ i # 1 => c[i].wait = c[i].size
    <3>. DEFINE n == i + k - 1
    <3>1. n \in 1 .. Len(q) /\ c[i] = q[n] /\ (i # 1 => n # 1 /\ k < n) /\ (i = 1 => n = k)
      BY <2>1, <2>2, <2>3
    <3>. HIDE DEF n
    <3>2. ~q[n].dirty
      BY <2>1, <2>2, <3>1 DEF QShape
    <3>3. q[n].wait \in 1 .. q[n].size
      BY <2>1, <3>1, <3>2 DEF QShape
    <3>4. i # 1 => q[n].wait = q[n].size
      BY <2>1, <2>2, <3>1 DEF QShape
    <3>. QED
      BY <3>1, <3>2, <3>3, <3>4
  <2>6. DOMAIN c = 1 .. Len(c)
    BY <2>3
  <2>7. QShape(c) /\ Clean(c)
    BY <2>3, <2>5, <2>6 DEF QShape, Clean
  <2>. QED
    BY <1>2, <2>4, <2>7 DEF c, k
<1>. QED
  BY <1>1, <1>2

LEMMA AfterFacts ==
  ASSUME NEW q, QShape(q), Clean(q), q # <<>>
  PROVE  /\ QShape(After(q, 1))
         /\ Clean(After(q, 1))
         /\ \A i \in DOMAIN After(q, 1) : After(q, 1)[i].wait = After(q, 1)[i].size
<1>. DEFINE a == After(q, 1)
<1>1. q \in Seq(Request) /\ Len(q) \in Nat /\ DOMAIN q = 1 .. Len(q) /\ Len(q) # 0
  BY DEF QShape
<1>2. /\ a \in Seq(Request)
      /\ Len(a) = Len(q) - 1
      /\ \A i \in 1 .. Len(q) - 1 : i + 1 \in 2 .. Len(q) /\ a[i] = q[i + 1]
  <2>1. a = SubSeq(q, 2, Len(q))
    BY DEF After
  <2>2. 2 \in 1 .. Len(q) + 1 /\ Len(q) - 2 + 1 = Len(q) - 1
    BY <1>1
  <2>3. \A i \in 1 .. Len(q) - 1 : i + 2 - 1 = i + 1
    BY <1>1
  <2>. HIDE DEF a
  <2>. QED
    BY <1>1, <2>1, <2>2, <2>3, SuffixFacts
<1>. HIDE DEF a
<1>3. ASSUME NEW i \in 1 .. Len(a)
      PROVE  ~a[i].dirty /\ a[i].wait = a[i].size /\ a[i].wait \in 1 .. a[i].size
  <2>1. i + 1 \in 1 .. Len(q) /\ a[i] = q[i + 1] /\ 1 \in 1 .. Len(q) /\ 1 < i + 1
    BY <1>1, <1>2
  <2>. QED
    BY <1>1, <2>1 DEF QShape, Clean
<1>4. DOMAIN a = 1 .. Len(a)
  BY <1>2
<1>5. QShape(a) /\ Clean(a) /\ \A i \in DOMAIN a : a[i].wait = a[i].size
  BY <1>2, <1>3, <1>4 DEF QShape, Clean
<1>. QED
  BY <1>5 DEF a

LEMMA AppendFacts ==
  ASSUME NEW q, QShape(q), NEW r \in Request, ~r.dirty, r.wait = r.size
  PROVE  /\ QShape(Append(q, r))
         /\ Append(q, r) # <<>>
         /\ Live(Append(q, r)) # {}
         /\ Live(q) # {} => FirstLive(Append(q, r)) = FirstLive(q)
         /\ \A i \in DOMAIN q : Append(q, r)[i] = q[i]
<1>. DEFINE a == Append(q, r)
<1>1. /\ a \in Seq(Request) /\ Len(a) = Len(q) + 1 /\ Len(q) \in Nat
      /\ \A i \in 1 .. Len(q) : a[i] = q[i]
      /\ a[Len(q) + 1] = r
  BY DEF QShape
<1>2. r.size \in Nat \ {0}
  BY SizeAssumption DEF Request
<1>3. QShape(a)
  BY <1>1, <1>2 DEF QShape
<1>4. Live(a) = Live(q) \cup {Len(q) + 1}
  BY <1>1 DEF Live
<1>5. ASSUME Live(q) # {} PROVE FirstLive(a) = FirstLive(q)
  <2>1. FirstLive(q) \in Live(q) /\ \A j \in Live(q) : FirstLive(q) <= j
    BY <1>5, FirstLiveIsLive
  <2>2. FirstLive(a) \in Live(a) /\ \A j \in Live(a) : FirstLive(a) <= j
    BY <1>3, <1>4, FirstLiveIsLive
  <2>. QED
    BY <1>1, <1>4, <2>1, <2>2 DEF Live
<1>6. a # <<>> /\ Live(a) # {} /\ \A i \in DOMAIN q : a[i] = q[i]
  BY <1>1, <1>4
<1>. QED
  BY <1>3, <1>5, <1>6

-----------------------------------------------------------------------------
(* Steps of the handlers                                                   *)

LEMMA CommandIsTyped ==
  ASSUME NEW r \in Request
  PROVE  /\ CommandFor(r) \in Command
         /\ CommandFor(r).id = r.id
         /\ CommandFor(r).size = r.size
         /\ CommandFor(r).sent = 0
         /\ r.size \in Nat \ {0}
<1>1. 0 \in 0 .. Width - 1
  BY SizeAssumption
<1>2. r.size \in Sizes
  BY DEF Request
<1>3. r.size \in Nat \ {0}
  BY <1>2, SizeIsPositive
<1>. QED
  BY <1>1, <1>2, <1>3 DEF CommandFor, Command, Request

\* What a handler that may change the state of the queue has to establish.
QueueInv ==
    /\ connected \in BOOLEAN
    /\ linkUp \in BOOLEAN
    /\ event \in Events
    /\ QShape(queue)
    /\ toDev \in Seq(Command)
    /\ toHost \in Seq(Report)
    /\ Flight
    /\ EventMeansBuffer

HistoryInv ==
    /\ issued \in 0 .. MaxReads
    /\ log \in Seq([id : 1 .. MaxReads, outcome : Outcomes])

LEMMA IInvParts == IInv <=> QueueInv /\ HistoryInv
BY DEF IInv, QueueInv, HistoryInv, TypeOK, QShape

LEMMA EmptyKeeps ==
  ASSUME QueueInv, DisconnectedLeaving(<<>>)
  PROVE  QueueInv'
<1>1. QShape(<<>>)
  BY DEF QShape
<1>2. /\ connected' = FALSE /\ event' = "DISCONNECT" /\ queue' = <<>>
      /\ toDev' = <<>> /\ toHost' = <<>> /\ linkUp' = linkUp
  BY DEF DisconnectedLeaving
<1>3. Flight' /\ EventMeansBuffer'
  BY <1>2 DEF Flight, InFlight, EventMeansBuffer
<1>4. QShape(queue)'
  BY <1>1, <1>2
<1>5. connected' \in BOOLEAN /\ linkUp' \in BOOLEAN
  BY <1>2 DEF QueueInv
<1>6. event' \in Events
  BY <1>2 DEF Events
<1>7. toDev' \in Seq(Command) /\ toHost' \in Seq(Report)
  BY <1>2
<1>. QED
  BY <1>3, <1>4, <1>5, <1>6, <1>7 DEF QueueInv

LEMMA SendNextKeeps ==
  ASSUME QueueInv, connected, toDev = <<>>,
         NEW q, QShape(q), \A i \in Live(q) : q[i].wait = q[i].size,
         NEW e \in Events, e = "READ_DATA" <=> q # <<>> /\ q[1].dirty,
         SendNext(q, e, <<>>)
  PROVE  QueueInv'
<1>1. CASE Live(q) # {} /\ ~linkUp /\ Disconnected
  BY <1>1, EmptyKeeps DEF Disconnected
<1>2. CASE Live(q) = {} /\ queue' = q /\ event' = e /\ toHost' = <<>>
           /\ UNCHANGED <<connected, linkUp, toDev>>
  BY <1>2 DEF QueueInv, QShape, Flight, InFlight, EventMeansBuffer
<1>3. CASE /\ Live(q) # {} /\ linkUp /\ queue' = q /\ event' = e /\ toHost' = <<>>
           /\ toDev' = Append(toDev, CommandFor(q[FirstLive(q)]))
           /\ UNCHANGED <<connected, linkUp>>
  <2>. DEFINE k == FirstLive(q)
              cmd == CommandFor(q[k])
  <2>1. k \in Live(q) /\ q[k] \in Request
    BY <1>3, FirstLiveIsLive DEF Live, QShape
  <2>2. q[k].wait = q[k].size
    BY <2>1
  <2>3. cmd \in Command /\ cmd.id = q[k].id /\ cmd.size = q[k].size /\ cmd.sent = 0
        /\ q[k].size \in Nat \ {0}
    BY <2>1, CommandIsTyped
  <2>4. Waiting' = q[k] /\ (Live(queue) # {})'
    BY <1>3 DEF Waiting
  <2>. HIDE DEF k, cmd
  <2>5. toDev' = <<cmd>>
    BY <1>3 DEF cmd, k
  <2>6. OnWire(q[k], <<cmd>>, <<>>)
    BY <2>2, <2>3 DEF OnWire
  <2>7. OnWire(Waiting, toDev, toHost)'
    BY <1>3, <2>4, <2>5, <2>6
  <2>8. Flight'
    BY <1>3, <2>4, <2>7 DEF Flight
  <2>9. toDev' \in Seq(Command) /\ toHost' \in Seq(Report)
    BY <1>3, <2>3, <2>5
  <2>. QED
    BY <1>3, <2>8, <2>9 DEF QueueInv, QShape, EventMeansBuffer
<1>. QED
  BY <1>1, <1>2, <1>3 DEF SendNext

\* A report finds the request it answers at the head of the cleared list; an
\* error, or the data that completes the request, is the last thing in flight.
LEMMA ReportFacts ==
  ASSUME QueueInv, toHost # <<>>, NEW c, c = ClearDirty(queue),
         NEW r, r = Head(toHost), NEW w, w = WaitAfter(c[1], r.len)
  PROVE  /\ connected /\ c # <<>> /\ QShape(c) /\ Clean(c)
         /\ Live(c) # {} /\ FirstLive(c) = 1
         /\ c[1] = Waiting /\ c[1] \in Request /\ r \in Report
         /\ ~r.err => w = c[1].wait - r.len /\ w \in 0 .. Width - 1 /\ w < c[1].wait
         /\ r.err \/ w = 0 => Tail(toHost) = <<>> /\ toDev = <<>>
<1>1. QShape(queue) /\ connected /\ Live(queue) # {} /\ OnWire(Waiting, toDev, toHost)
  BY DEF QueueInv, Flight, InFlight
<1>2. QShape(c) /\ Clean(c) /\ c # <<>> /\ c[1] = Waiting
  BY <1>1, ClearDirtyFacts DEF Waiting
<1>3. Live(c) # {} /\ FirstLive(c) = 1
  BY <1>2, CleanFacts
<1>4. c[1] \in Request /\ 1 \in DOMAIN c /\ c[1].wait \in 1 .. c[1].size
  BY <1>2 DEF QShape, Clean
<1>5. r = toHost[1] /\ 1 \in DOMAIN toHost /\ r \in Report /\ Len(toHost) \in Nat \ {0}
  BY DEF QueueInv
<1>6. r.err => Len(toHost) = 1 /\ toDev = <<>>
  BY <1>1, <1>5 DEF OnWire
<1>7. ~r.err => r.off = c[1].size - c[1].wait /\ r.off + r.len <= c[1].size
  BY <1>1, <1>2, <1>5 DEF OnWire
<1>8. c[1].size \in 1 .. Width - 1 /\ c[1].wait \in Nat /\ r.len \in Nat \ {0} /\ Width \in Nat
  <2>1. c[1].size \in Sizes /\ c[1].wait \in 0 .. Width - 1 /\ r.len \in 1 .. Chunk
    BY <1>4, <1>5 DEF Request, Report
  <2>2. Chunk \in Nat
    BY SizeAssumption
  <2>. QED
    BY <2>1, <2>2, SizeIsPositive
<1>9. ASSUME ~r.err PROVE w = c[1].wait - r.len /\ w \in 0 .. Width - 1 /\ w < c[1].wait
  <2>1. c[1].wait - r.len \in 0 .. Width - 1 /\ c[1].wait - r.len < c[1].wait
    BY <1>7, <1>8, <1>9, <1>4
  <2>2. (c[1].wait - r.len) % Width = c[1].wait - r.len
    BY <1>8, <2>1
  <2>3. c[1].wait - r.len < c[1].size
    BY <1>4, <1>8, <2>1
  <2>4. w = IF (c[1].wait - r.len) % Width >= c[1].size THEN 0
            ELSE (c[1].wait - r.len) % Width
    BY DEF WaitAfter
  <2>5. w = c[1].wait - r.len
    BY <1>8, <2>2, <2>3, <2>4
  <2>. QED
    BY <2>1, <2>5
<1>10. ASSUME ~r.err, w = 0 PROVE Len(toHost) = 1 /\ toDev = <<>>
  <2>1. r.off + r.len = c[1].size
    BY <1>7, <1>8, <1>9, <1>10
  <2>2. Len(toHost) = 1
    <3>1. 1 # Len(toHost) => r.off + r.len < c[1].size
      BY <1>1, <1>2, <1>5, <1>10 DEF OnWire
    <3>2. r.off \in Nat
      BY <1>5 DEF Report
    <3>. QED
      BY <1>8, <2>1, <3>1, <3>2
  <2>3. toDev = <<>>
    <3>1. SUFFICES ASSUME toDev # <<>> PROVE FALSE
      OBVIOUS
    <3>2. 1 \in DOMAIN toDev /\ toDev[1] \in Command
      BY <3>1 DEF QueueInv
    <3>3. toDev[1].sent < c[1].size /\ toDev[1].sent = r.off + r.len
      BY <1>1, <1>2, <1>5, <2>2, <3>2 DEF OnWire
    <3>. QED
      BY <1>8, <2>1, <3>3
  <2>. QED
    BY <2>2, <2>3
<1>11. Len(toHost) = 1 => Tail(toHost) = <<>>
  <2>1. toHost \in Seq(Report)
    BY DEF QueueInv
  <2>2. Tail(toHost) \in Seq(Report) /\ Len(Tail(toHost)) = Len(toHost) - 1
    BY <2>1, HeadTailProperties
  <2>3. Len(Tail(toHost)) = 0 => Tail(toHost) = <<>>
    BY <2>2, EmptySeq
  <2>. QED
    BY <1>5, <2>2, <2>3
<1>. QED
  BY <1>1, <1>2, <1>3, <1>4, <1>5, <1>6, <1>9, <1>10, <1>11

\* Clearing finished requests leaves the request that waits, and what is in
\* flight for it, as they are.
LEMMA ClearKeeps ==
  ASSUME QueueInv, queue' = ClearDirty(queue), event' \in Events, event' # "READ_DATA",
         UNCHANGED <<connected, linkUp, toDev, toHost>>
  PROVE  QueueInv'
<1>. DEFINE c == ClearDirty(queue)
<1>1. QShape(queue)
  BY DEF QueueInv
<1>2. QShape(c) /\ Clean(c) /\ (c = <<>> <=> Live(queue) = {})
      /\ (Live(queue) # {} => c[1] = Waiting)
  BY <1>1, ClearDirtyFacts DEF Waiting
<1>3. (Live(c) = {} <=> c = <<>>) /\ (c # <<>> => FirstLive(c) = 1)
  BY <1>2, CleanFacts
<1>. HIDE DEF c
<1>4. queue' = c
  BY DEF c
<1>5. Live(queue) # {} => (Live(queue))' # {} /\ Waiting' = Waiting
  BY <1>2, <1>3, <1>4 DEF Waiting
<1>6. Flight'
  <2>1. (OnWire(Waiting, toDev, toHost))' <=> OnWire(Waiting', toDev, toHost)
    OBVIOUS
  <2>. QED
    BY <1>5, <2>1 DEF QueueInv, Flight, InFlight
<1>7. c # <<>> => 1 \in DOMAIN c
  BY <1>2 DEF QShape
<1>8. EventMeansBuffer'
  BY <1>2, <1>4, <1>7 DEF EventMeansBuffer, Clean, QShape
<1>9. QShape(queue)'
  BY <1>2, <1>4
<1>. QED
  BY <1>6, <1>8, <1>9 DEF QueueInv

\* Data that does not complete its request moves the boundary between the
\* buffer and what is in flight.
LEMMA PartKeeps ==
  ASSUME QueueInv, PollPart
  PROVE  QueueInv'
<1>. DEFINE c == ClearDirty(queue)
            r == Head(toHost)
            w == WaitAfter(c[1], r.len)
            h == [c[1] EXCEPT !.wait = w]
            t == Tail(toHost)
<1>1. /\ connected /\ c # <<>> /\ QShape(c) /\ Clean(c)
      /\ Live(c) # {} /\ FirstLive(c) = 1
      /\ c[1] = Waiting /\ c[1] \in Request /\ r \in Report
      /\ ~r.err => w = c[1].wait - r.len /\ w \in 0 .. Width - 1 /\ w < c[1].wait
  BY ReportFacts DEF PollPart
<1>2. /\ ~r.err /\ w # 0 /\ toHost # <<>> /\ toHost' = t
      /\ queue' = [c EXCEPT ![1].wait = w] /\ event' = "NONE"
      /\ UNCHANGED <<connected, linkUp, toDev>>
  BY <1>1 DEF PollPart
<1>3. OnWire(Waiting, toDev, toHost) /\ (toDev # <<>> => linkUp)
  BY <1>2 DEF QueueInv, Flight, InFlight
<1>4. toHost \in Seq(Report) /\ toDev \in Seq(Command) /\ r = toHost[1]
  BY DEF QueueInv
<1>5. /\ t \in Seq(Report) /\ Len(t) = Len(toHost) - 1 /\ Len(toHost) \in Nat \ {0}
      /\ \A i \in 1 .. Len(t) : t[i] = toHost[i + 1]
  BY <1>2, <1>4, EmptySeq, HeadTailProperties
<1>6. w \in 1 .. c[1].size /\ c[1].wait \in 1 .. c[1].size /\ c[1].size \in Nat /\ Width \in Nat
      /\ w \in 0 .. Width - 1 /\ w = c[1].wait - r.len
  <2>1. 1 \in DOMAIN c
    BY <1>1 DEF QShape
  <2>2. c[1].wait \in 1 .. c[1].size
    BY <1>1, <2>1 DEF QShape, Clean
  <2>3. c[1].size \in Nat /\ Width \in Nat
    BY <1>1, SizeIsPositive DEF Request
  <2>. QED
    BY <1>1, <1>2, <2>2, <2>3
<1>7. h \in Request /\ h.id = c[1].id /\ h.size = c[1].size /\ h.wait = w /\ ~h.dirty
  <2>1. ~c[1].dirty
    BY <1>1 DEF QShape, Clean
  <2>. HIDE DEF c, w
  <2>. QED
    BY <1>1, <1>6, <2>1 DEF Request
<1>. HIDE DEF w, t, r, c
<1>8. QShape(queue)' /\ Clean(queue') /\ queue'[1] = h /\ queue' # <<>>
  <2>1. c \in Seq(Request) /\ DOMAIN c = 1 .. Len(c) /\ 1 \in DOMAIN c /\ Len(c) \in Nat
    BY <1>1 DEF QShape
  <2>2. /\ queue' \in Seq(Request) /\ DOMAIN queue' = 1 .. Len(c) /\ Len(queue') = Len(c)
        /\ queue'[1] = h
        /\ \A i \in 1 .. Len(c) : i # 1 => queue'[i] = c[i]
    BY <1>2, <1>7, <2>1
  <2>. HIDE DEF h
  <2>3. \A i \in 1 .. Len(c) : ~queue'[i].dirty
    BY <1>1, <1>7, <2>1, <2>2 DEF Clean
  <2>4. \A i \in 1 .. Len(c) : queue'[i].wait \in 1 .. queue'[i].size
    BY <1>1, <1>6, <1>7, <2>1, <2>2 DEF Clean, QShape
  <2>5. \A i, j \in 1 .. Len(c) : i < j => queue'[j].wait = queue'[j].size
    BY <1>1, <2>1, <2>2 DEF Clean, QShape
  <2>. QED
    BY <2>1, <2>2, <2>3, <2>4, <2>5 DEF Clean, QShape
<1>. HIDE DEF h
<1>9. (Live(queue))' # {} /\ Waiting' = h
  BY <1>8, CleanFacts DEF Waiting
<1>10. OnWire(h, toDev, t)
  <2>1. r.len \in Nat /\ r.off \in Nat /\ r.off + r.len = h.size - h.wait
    <3>1. r.off = c[1].size - c[1].wait
      <4>1. 1 \in DOMAIN toHost
        BY <1>4, <1>5
      <4>. QED
        BY <1>1, <1>2, <1>3, <1>4, <4>1 DEF OnWire
    <3>2. r.len \in Nat /\ r.off \in Nat
      BY <1>1, SizeAssumption DEF Report
    <3>. QED
      BY <1>6, <1>7, <3>1, <3>2
  <2>2. ASSUME NEW i \in DOMAIN toDev
        PROVE  /\ toDev[i].id = h.id /\ toDev[i].size = h.size /\ toDev[i].sent < h.size
               /\ toDev[i].sent = IF t = <<>> THEN h.size - h.wait
                                  ELSE t[Len(t)].off + t[Len(t)].len
    <3>1. /\ toDev[i].id = h.id /\ toDev[i].size = h.size /\ toDev[i].sent < h.size
          /\ toDev[i].sent = toHost[Len(toHost)].off + toHost[Len(toHost)].len
      BY <1>1, <1>2, <1>3, <1>7 DEF OnWire
    <3>2. t = <<>> => Len(toHost) = 1
      BY <1>5
    <3>3. t # <<>> => Len(t) \in 1 .. Len(t) /\ t[Len(t)] = toHost[Len(toHost)]
      BY <1>5, EmptySeq
    <3>. QED
      BY <1>4, <2>1, <3>1, <3>2, <3>3
  <2>3. ASSUME NEW i \in DOMAIN t
        PROVE  /\ t[i].id = h.id
               /\ t[i].err => i = Len(t) /\ toDev = <<>>
               /\ ~t[i].err =>
                     /\ t[i].off = IF i = 1 THEN h.size - h.wait
                                   ELSE t[i - 1].off + t[i - 1].len
                     /\ t[i].off + t[i].len <= h.size
                     /\ i # Len(t) => t[i].off + t[i].len < h.size
    <3>1. i \in 1 .. Len(t) /\ t[i] = toHost[i + 1] /\ i + 1 \in DOMAIN toHost /\ i + 1 # 1
          /\ (i + 1 = Len(toHost) <=> i = Len(t)) /\ (i + 1) - 1 = i
      BY <1>4, <1>5
    <3>2. /\ t[i].id = h.id
          /\ t[i].err => i = Len(t) /\ toDev = <<>>
          /\ ~t[i].err =>
                /\ t[i].off = toHost[i].off + toHost[i].len
                /\ t[i].off + t[i].len <= h.size
                /\ i # Len(t) => t[i].off + t[i].len < h.size
      BY <1>1, <1>3, <1>7, <3>1 DEF OnWire
    <3>3. i = 1 => toHost[i].off + toHost[i].len = h.size - h.wait
      BY <1>4, <2>1
    <3>4. i # 1 => i - 1 \in 1 .. Len(t) /\ t[i - 1] = toHost[i]
      BY <1>5, <3>1
    <3>. QED
      BY <3>2, <3>3, <3>4
  <2>. QED
    BY <1>3, <2>2, <2>3 DEF OnWire
<1>11. Flight'
  BY <1>1, <1>2, <1>3, <1>9, <1>10 DEF Flight, InFlight
<1>12. EventMeansBuffer'
  BY <1>2, <1>8 DEF EventMeansBuffer, Clean, QShape
<1>. QED
  BY <1>2, <1>5, <1>8, <1>11, <1>12 DEF QueueInv, Events

\* A new request changes nothing for the one that waits.
LEMMA AppendKeeps ==
  ASSUME QueueInv, NEW r \in Request, ~r.dirty, r.wait = r.size,
         queue # <<>>, queue' = Append(queue, r),
         UNCHANGED <<connected, event, linkUp, toDev, toHost>>
  PROVE  QueueInv'
<1>1. QShape(queue) /\ queue \in Seq(Request) /\ 1 \in DOMAIN queue
  BY DEF QueueInv, QShape
<1>2. /\ QShape(queue)' /\ queue' # <<>>
      /\ (Live(queue))' # {}
      /\ Live(queue) # {} => Waiting' = Waiting
      /\ queue'[1] = queue[1]
  <2>1. Live(queue) # {} => FirstLive(queue) \in DOMAIN queue
    BY <1>1, FirstLiveIsLive DEF Live
  <2>. QED
    BY <1>1, <2>1, AppendFacts DEF Waiting
<1>3. Flight'
  <2>1. (OnWire(Waiting, toDev, toHost))' <=> OnWire(Waiting', toDev, toHost)
    OBVIOUS
  <2>. QED
    BY <1>2, <2>1 DEF QueueInv, Flight, InFlight
<1>4. EventMeansBuffer'
  BY <1>2 DEF QueueInv, EventMeansBuffer, QShape
<1>. QED
  BY <1>2, <1>3, <1>4 DEF QueueInv

\* The next report of the remote continues the ones before it.
LEMMA RemoteKeeps ==
  ASSUME QueueInv, Remote
  PROVE  QueueInv'
<1>. DEFINE d == Head(toDev)
            h == Waiting
<1>1. /\ linkUp /\ toDev # <<>> /\ connected /\ Live(queue) # {} /\ OnWire(h, toDev, toHost)
      /\ toDev \in Seq(Command) /\ toHost \in Seq(Report)
      /\ UNCHANGED <<connected, queue, event, linkUp>>
  BY DEF QueueInv, Flight, InFlight, Remote, RemoteData, RemoteError
<1>2. Len(toDev) = 1 /\ d = toDev[1] /\ d \in Command /\ 1 \in DOMAIN toDev /\ toDev = <<d>>
      /\ Tail(toDev) = <<>>
  <2>1. Len(toDev) = 1
    <3>1. Len(toDev) <= 1
      BY <1>1 DEF OnWire
    <3>2. Len(toDev) \in Nat \ {0}
      BY <1>1, EmptySeq
    <3>3. \A n \in Nat \ {0} : n <= 1 => n = 1
      OBVIOUS
    <3>. QED
      BY <3>1, <3>2, <3>3
  <2>2. Tail(toDev) = <<>>
    <3>1. Tail(toDev) \in Seq(Command) /\ Len(Tail(toDev)) = Len(toDev) - 1
      BY <1>1, HeadTailProperties
    <3>2. Len(Tail(toDev)) = 0 => Tail(toDev) = <<>>
      BY <3>1, EmptySeq
    <3>. QED
      BY <2>1, <3>1, <3>2
  <2>. QED
    BY <1>1, <2>1, <2>2
<1>3. /\ d.id = h.id /\ d.size = h.size /\ d.sent < h.size
      /\ d.sent = IF toHost = <<>> THEN h.size - h.wait
                  ELSE toHost[Len(toHost)].off + toHost[Len(toHost)].len
  BY <1>1, <1>2 DEF OnWire
<1>4. /\ d.id \in 1 .. MaxReads /\ d.size \in Sizes /\ d.size \in 1 .. Width - 1
      /\ d.sent \in Nat /\ d.sent \in 0 .. Width - 1 /\ Width \in Nat /\ Chunk \in Nat \ {0}
  <2>1. d.id \in 1 .. MaxReads /\ d.size \in Sizes /\ d.sent \in 0 .. Width - 1
    BY <1>2 DEF Command
  <2>2. d.size \in 1 .. Width - 1 /\ Width \in Nat
    BY <2>1, SizeIsPositive
  <2>3. Chunk \in Nat \ {0}
    BY SizeAssumption
  <2>. QED
    BY <2>1, <2>2, <2>3
<1>5. Waiting' = h
  BY <1>1 DEF Waiting
<1>. HIDE DEF d, h
<1>6. ASSUME NEW r \in Report, r.id = h.id, r.off = d.sent,
             ~r.err => r.off + r.len <= h.size,
             toHost' = Append(toHost, r),
             \/ toDev' = <<>>
             \/ /\ toDev' = <<[d EXCEPT !.sent = r.off + r.len]>>
                /\ ~r.err /\ r.off + r.len < h.size
      PROVE  QueueInv'
  <2>1. /\ toHost' \in Seq(Report) /\ Len(toHost') = Len(toHost) + 1 /\ Len(toHost) \in Nat
        /\ \A i \in 1 .. Len(toHost) : toHost'[i] = toHost[i]
        /\ toHost'[Len(toHost')] = r /\ toHost' # <<>>
    BY <1>1, <1>6, AppendProperties
  <2>2. r.off \in Nat /\ r.len \in Nat
    BY <1>4, <1>6 DEF Report
  <2>3. toDev' \in Seq(Command) /\ Len(toDev') <= 1
        /\ \A i \in DOMAIN toDev' :
              /\ toDev'[i].id = h.id /\ toDev'[i].size = h.size
              /\ toDev'[i].sent < h.size
              /\ toDev'[i].sent = r.off + r.len
    <3>1. CASE toDev' = <<>>
      BY <3>1
    <3>2. CASE toDev' = <<[d EXCEPT !.sent = r.off + r.len]>> /\ ~r.err /\ r.off + r.len < h.size
      <4>. DEFINE e == [d EXCEPT !.sent = r.off + r.len]
      <4>1. e \in Command /\ e.id = h.id /\ e.size = h.size /\ e.sent = r.off + r.len
        <5>1. r.off + r.len \in 0 .. Width - 1
          BY <1>3, <1>4, <2>2, <3>2
        <5>. QED
          BY <1>2, <1>3, <5>1 DEF Command
      <4>. HIDE DEF e
      <4>2. toDev' = <<e>>
        BY <3>2 DEF e
      <4>. QED
        BY <3>2, <4>1, <4>2
    <3>. QED
      BY <1>6, <3>1, <3>2
  <2>4. ASSUME NEW i \in DOMAIN toHost'
        PROVE  /\ toHost'[i].id = h.id
               /\ toHost'[i].err => i = Len(toHost') /\ toDev' = <<>>
               /\ ~toHost'[i].err =>
                     /\ toHost'[i].off = IF i = 1 THEN h.size - h.wait
                                         ELSE toHost'[i - 1].off + toHost'[i - 1].len
                     /\ toHost'[i].off + toHost'[i].len <= h.size
                     /\ i # Len(toHost') => toHost'[i].off + toHost'[i].len < h.size
    <3>1. CASE i = Len(toHost')
      <4>1. toHost'[i] = r
        BY <2>1, <3>1
      <4>2. i = 1 => r.off = h.size - h.wait
        <5>1. i = 1 => toHost = <<>>
          BY <1>1, <2>1, <3>1, EmptySeq
        <5>. QED
          BY <1>3, <1>6, <5>1
      <4>3. i # 1 => r.off = toHost'[i - 1].off + toHost'[i - 1].len
        <5>1. i # 1 => toHost # <<>> /\ i - 1 = Len(toHost) /\ toHost'[i - 1] = toHost[Len(toHost)]
          BY <1>1, <2>1, <3>1
        <5>. QED
          BY <1>3, <1>6, <5>1
      <4>4. r.err => toDev' = <<>>
        BY <1>6
      <4>. QED
        BY <1>6, <3>1, <4>1, <4>2, <4>3, <4>4
    <3>2. CASE i # Len(toHost')
      <4>1. i \in DOMAIN toHost /\ toHost'[i] = toHost[i]
            /\ (i # 1 => i - 1 \in DOMAIN toHost /\ toHost'[i - 1] = toHost[i - 1])
        BY <1>1, <2>1, <3>2
      <4>2. ~toHost[i].err
        BY <1>1, <4>1 DEF OnWire
      <4>3. toHost[i].off + toHost[i].len < h.size
        <5>1. CASE i # Len(toHost)
          BY <1>1, <4>1, <4>2, <5>1 DEF OnWire
        <5>2. CASE i = Len(toHost)
          BY <1>1, <1>3, <4>1, <5>2
        <5>. QED
          BY <5>1, <5>2
      <4>. QED
        BY <1>1, <3>2, <4>1, <4>2, <4>3 DEF OnWire
    <3>. QED
      BY <3>1, <3>2
  <2>5. OnWire(h, toDev', toHost')
    BY <2>1, <2>3, <2>4 DEF OnWire
  <2>6. (OnWire(Waiting, toDev, toHost))'
    BY <1>5, <2>5
  <2>7. Flight'
    BY <1>1, <2>6 DEF Flight, Live
  <2>8. EventMeansBuffer' /\ QShape(queue)'
    BY <1>1 DEF QueueInv, EventMeansBuffer
  <2>. QED
    BY <1>1, <2>1, <2>3, <2>7, <2>8 DEF QueueInv
<1>7. CASE RemoteData
  <2>. DEFINE n == IF d.size - d.sent < Chunk THEN d.size - d.sent ELSE Chunk
              r == [id |-> d.id, err |-> FALSE, off |-> d.sent, len |-> n]
  <2>1. n \in 1 .. Chunk /\ d.sent + n <= d.size
    BY <1>3, <1>4
  <2>2. toHost' = Append(toHost, r)
        /\ toDev' = IF d.sent + n = d.size THEN Tail(toDev) ELSE [toDev EXCEPT ![1].sent = d.sent + n]
    BY <1>7 DEF RemoteData, d
  <2>. HIDE DEF n
  <2>3. r \in Report
    BY <1>4, <2>1 DEF Report
  <2>4. d.sent + n = d.size => toDev' = <<>>
    BY <1>2, <2>2
  <2>5. d.sent + n # d.size => toDev' = <<[d EXCEPT !.sent = d.sent + n]>> /\ d.sent + n < h.size
    <3>1. [toDev EXCEPT ![1].sent = d.sent + n] = <<[d EXCEPT !.sent = d.sent + n]>>
      <4>. HIDE DEF d
      <4>. QED
        BY <1>2
    <3>2. d.sent + n # d.size => d.sent + n < h.size
      BY <1>3, <1>4, <2>1
    <3>. QED
      BY <2>2, <3>1, <3>2
  <2>. QED
    BY <1>3, <1>6, <2>1, <2>2, <2>3, <2>4, <2>5
<1>8. CASE RemoteError
  <2>. DEFINE r == [id |-> d.id, err |-> TRUE, off |-> d.sent, len |-> 1]
  <2>1. toHost' = Append(toHost, r) /\ toDev' = <<>>
    BY <1>2, <1>8 DEF RemoteError, d
  <2>2. r \in Report
    BY <1>4 DEF Report
  <2>. QED
    BY <1>3, <1>6, <2>1, <2>2
<1>. QED
  BY <1>7, <1>8 DEF Remote

LEMMA LinkLostKeeps ==
  ASSUME QueueInv, LinkLost
  PROVE  QueueInv'
<1>1. PICK n \in 0 .. Len(toHost) : toHost' = SubSeq(toHost, 1, n)
  BY DEF LinkLost
<1>2. /\ toDev' = <<>> /\ UNCHANGED <<connected, queue, event>> /\ linkUp' = FALSE /\ connected
      /\ toHost \in Seq(Report) /\ Len(toHost) \in Nat
  BY DEF LinkLost, QueueInv
<1>3. /\ toHost' \in Seq(Report) /\ Len(toHost') = n
      /\ \A i \in 1 .. n : toHost'[i] = toHost[i] /\ i \in DOMAIN toHost
  <2>1. 1 \in Int /\ n \in Int /\ \A i \in 1 .. n : toHost[i] \in Report
    BY <1>2
  <2>2. /\ SubSeq(toHost, 1, n) \in Seq(Report)
        /\ Len(SubSeq(toHost, 1, n)) = IF 1 <= n THEN n - 1 + 1 ELSE 0
        /\ \A i \in 1 .. n - 1 + 1 : SubSeq(toHost, 1, n)[i] = toHost[1 + i - 1]
    BY <2>1, SubSeqProperties
  <2>. QED
    BY <1>1, <1>2, <2>1, <2>2
<1>4. Waiting' = Waiting /\ (Live(queue))' = Live(queue)
  BY <1>2 DEF Waiting, Live
<1>5. ASSUME toHost' # <<>>
      PROVE  Live(queue) # {} /\ OnWire(Waiting, <<>>, toHost')
  <2>1. n # 0 /\ toHost # <<>>
    BY <1>2, <1>3, <1>5, EmptySeq
  <2>2. Live(queue) # {} /\ OnWire(Waiting, toDev, toHost)
    BY <2>1 DEF QueueInv, Flight, InFlight
  <2>3. ASSUME NEW i \in DOMAIN toHost'
        PROVE  /\ toHost'[i].id = Waiting.id
               /\ toHost'[i].err => i = Len(toHost')
               /\ ~toHost'[i].err =>
                     /\ toHost'[i].off = IF i = 1 THEN Waiting.size - Waiting.wait
                                         ELSE toHost'[i - 1].off + toHost'[i - 1].len
                     /\ toHost'[i].off + toHost'[i].len <= Waiting.size
                     /\ i # Len(toHost') => toHost'[i].off + toHost'[i].len < Waiting.size
    <3>1. i \in 1 .. n /\ i \in DOMAIN toHost /\ toHost'[i] = toHost[i]
          /\ (i # 1 => toHost'[i - 1] = toHost[i - 1])
          /\ (i # n => i # Len(toHost)) /\ (i = Len(toHost) => i = n)
      BY <1>2, <1>3
    <3>. QED
      BY <1>3, <2>2, <3>1 DEF OnWire
  <2>. QED
    BY <2>2, <2>3 DEF OnWire
<1>6. Flight'
  BY <1>2, <1>4, <1>5 DEF Flight, InFlight
<1>7. EventMeansBuffer' /\ QShape(queue)'
  BY <1>2 DEF QueueInv, EventMeansBuffer
<1>8. toDev' \in Seq(Command)
  BY <1>2
<1>. QED
  BY <1>2, <1>3, <1>6, <1>7, <1>8 DEF QueueInv

-----------------------------------------------------------------------------
(* The invariant                                                           *)

LEMMA InitIInv == Init => IInv
<1>. SUFFICES ASSUME Init PROVE IInv
  OBVIOUS
<1>1. QShape(queue) /\ Flight /\ EventMeansBuffer
  BY DEF Init, QShape, Flight, InFlight, EventMeansBuffer
<1>2. TypeOK
  <2>1. connected \in BOOLEAN /\ linkUp \in BOOLEAN
    BY DEF Init
  <2>2. event \in Events
    BY DEF Init, Events
  <2>3. issued \in 0 .. MaxReads
    BY BoundAssumption DEF Init
  <2>4. queue \in Seq(Request) /\ toDev \in Seq(Command) /\ toHost \in Seq(Report)
        /\ log \in Seq([id : 1 .. MaxReads, outcome : Outcomes])
    BY DEF Init
  <2>. QED
    BY <2>1, <2>2, <2>3, <2>4 DEF TypeOK
<1>. QED
  BY <1>1, <1>2 DEF IInv

LEMMA NewRequestFacts ==
  ASSUME NEW n \in 1 .. MaxReads, NEW cb \in BOOLEAN, NEW size \in Sizes
  PROVE  LET r == NewRequest(n, cb, size) IN
           r \in Request /\ ~r.dirty /\ r.wait = r.size
<1>1. size \in 0 .. Width - 1
  BY SizeIsPositive
<1>. QED
  BY <1>1 DEF NewRequest, Request

LEMMA FinishedKeeps ==
  ASSUME HistoryInv, NEW r \in Request, NEW o \in Outcomes, Finished(r, o),
         issued' \in 0 .. MaxReads
  PROVE  HistoryInv'
BY DEF HistoryInv, Finished, Request

LEMMA ReadDataKeeps ==
  ASSUME QueueInv, HistoryInv, NEW cb \in BOOLEAN, NEW size \in Sizes, ReadData(cb, size)
  PROVE  QueueInv' /\ HistoryInv'
<1>. DEFINE r == NewRequest(issued + 1, cb, size)
<1>1. issued + 1 \in 1 .. MaxReads /\ issued' = issued + 1 /\ connected
  BY BoundAssumption DEF ReadData, HistoryInv
<1>2. r \in Request /\ ~r.dirty /\ r.wait = r.size
  BY <1>1, NewRequestFacts
<1>3. ASSUME queue = <<>>, SendNext(<<r>>, event, toHost)
      PROVE  QueueInv'
  <2>1. QShape(<<>>) /\ Live(<<>>) = {}
    BY DEF QShape, Live
  <2>2. <<r>> = Append(<<>>, r)
    OBVIOUS
  <2>. HIDE DEF r
  <2>3. QShape(<<r>>) /\ \A i \in Live(<<r>>) : <<r>>[i].wait = <<r>>[i].size
    <3>1. QShape(Append(<<>>, r))
      BY <1>2, <2>1, AppendFacts
    <3>2. \A i \in DOMAIN <<r>> : <<r>>[i] = r
      OBVIOUS
    <3>. QED
      BY <1>2, <2>2, <3>1, <3>2 DEF Live
  <2>4. toDev = <<>> /\ toHost = <<>>
    BY <1>3, <2>1 DEF QueueInv, Flight, InFlight
  <2>5. event \in Events /\ event # "READ_DATA"
    BY <1>3 DEF QueueInv, EventMeansBuffer
  <2>6. event = "READ_DATA" <=> <<r>> # <<>> /\ <<r>>[1].dirty
    BY <1>2, <2>5
  <2>. QED
    BY <1>1, <1>3, <2>3, <2>4, <2>5, <2>6, SendNextKeeps
<1>4. ASSUME queue # <<>>, queue' = Append(queue, r),
             UNCHANGED <<connected, event, linkUp, toDev, toHost>>
      PROVE  QueueInv'
  <2>. HIDE DEF r
  <2>. QED
    BY <1>2, <1>4, AppendKeeps
<1>5. QueueInv'
  BY <1>1, <1>3, <1>4 DEF ReadData
<1>6. HistoryInv'
  BY <1>1 DEF ReadData, HistoryInv
<1>. QED
  BY <1>5, <1>6

LEMMA ErrorKeeps ==
  ASSUME QueueInv, HistoryInv, PollError
  PROVE  QueueInv' /\ HistoryInv'
<1>. DEFINE c == ClearDirty(queue)
<1>1. /\ connected /\ c # <<>> /\ QShape(c) /\ Clean(c) /\ FirstLive(c) = 1
      /\ c[1] \in Request /\ Tail(toHost) = <<>> /\ toDev = <<>>
  BY ReportFacts DEF PollError
<1>2. SendNext(After(c, 1), "NONE", <<>>) /\ Finished(c[1], "error") /\ issued' = issued
  BY <1>1 DEF PollError
<1>. HIDE DEF c
<1>3. QShape(After(c, 1)) /\ Clean(After(c, 1))
      /\ \A i \in Live(After(c, 1)) : After(c, 1)[i].wait = After(c, 1)[i].size
  BY <1>1, AfterFacts DEF Live
<1>4. "NONE" \in Events
      /\ ("NONE" = "READ_DATA" <=> After(c, 1) # <<>> /\ After(c, 1)[1].dirty)
  BY <1>3 DEF Events, Clean, QShape
<1>5. QueueInv'
  BY <1>1, <1>2, <1>3, <1>4, SendNextKeeps
<1>6. "error" \in Outcomes /\ issued' \in 0 .. MaxReads
  BY <1>2 DEF Outcomes, HistoryInv
<1>. QED
  BY <1>1, <1>2, <1>5, <1>6, FinishedKeeps

LEMMA EventKeeps ==
  ASSUME QueueInv, HistoryInv, PollEvent
  PROVE  QueueInv' /\ HistoryInv'
<1>. DEFINE c == ClearDirty(queue)
            f == [c EXCEPT ![1].wait = 0, ![1].dirty = TRUE]
<1>1. /\ connected /\ c # <<>> /\ QShape(c) /\ Clean(c) /\ FirstLive(c) = 1
      /\ c[1] \in Request /\ Tail(toHost) = <<>> /\ toDev = <<>>
  BY ReportFacts DEF PollEvent
<1>2. SendNext(f, "READ_DATA", <<>>) /\ Finished(c[1], "done") /\ issued' = issued
  BY <1>1 DEF PollEvent
<1>. HIDE DEF c
<1>3. c \in Seq(Request) /\ DOMAIN c = 1 .. Len(c) /\ 1 \in DOMAIN c /\ Len(c) \in Nat
  BY <1>1 DEF QShape
<1>4. [c[1] EXCEPT !.wait = 0, !.dirty = TRUE] \in Request
  <2>1. 0 \in 0 .. Width - 1
    BY SizeAssumption
  <2>. QED
    BY <1>1, <2>1 DEF Request
<1>5. /\ f \in Seq(Request) /\ DOMAIN f = 1 .. Len(c) /\ f # <<>>
      /\ f[1].dirty /\ f[1].wait = 0
      /\ \A i \in 1 .. Len(c) : i # 1 => f[i] = c[i]
  <2>1. f = [c EXCEPT ![1] = [c[1] EXCEPT !.wait = 0, !.dirty = TRUE]]
    BY <1>3
  <2>. HIDE DEF f
  <2>. QED
    BY <1>3, <1>4, <2>1
<1>. HIDE DEF f
<1>6. \A i \in 1 .. Len(c) : i # 1 => ~f[i].dirty /\ f[i].wait = f[i].size
                                   /\ f[i].wait \in 1 .. f[i].size
  BY <1>1, <1>3, <1>5 DEF QShape, Clean
<1>7. QShape(f) /\ \A i \in Live(f) : f[i].wait = f[i].size
  BY <1>5, <1>6 DEF QShape, Live
<1>8. "READ_DATA" \in Events /\ ("READ_DATA" = "READ_DATA" <=> f # <<>> /\ f[1].dirty)
  BY <1>5 DEF Events
<1>9. QueueInv'
  BY <1>1, <1>2, <1>7, <1>8, SendNextKeeps
<1>10. "done" \in Outcomes /\ issued' \in 0 .. MaxReads
  BY <1>2 DEF Outcomes, HistoryInv
<1>. QED
  BY <1>1, <1>2, <1>9, <1>10, FinishedKeeps

LEMMA CallbackKeeps ==
  ASSUME QueueInv, HistoryInv, PollCallback
  PROVE  QueueInv' /\ HistoryInv'
<1>. DEFINE c == ClearDirty(queue)
            a == After(c, 1)
            n == issued + 1
<1>1. /\ connected /\ c # <<>> /\ QShape(c) /\ Clean(c) /\ FirstLive(c) = 1
      /\ c[1] \in Request /\ Tail(toHost) = <<>> /\ toDev = <<>>
  BY ReportFacts DEF PollCallback
<1>2. /\ Finished(c[1], "done")
      /\ \/ SendNext(a, "NONE", <<>>) /\ issued' = issued
         \/ /\ issued < MaxReads /\ issued' = n
            /\ \E cb \in BOOLEAN, size \in Sizes :
                  SendNext(Append(a, NewRequest(n, cb, size)), "NONE", <<>>)
         \/ DisconnectedLeaving(a) /\ issued' = issued
  BY <1>1 DEF PollCallback
<1>3. QShape(a) /\ Clean(a) /\ \A i \in DOMAIN a : a[i].wait = a[i].size
  <2>. HIDE DEF c
  <2>. QED
    BY <1>1, AfterFacts
<1>. HIDE DEF a, c
<1>4. "NONE" \in Events /\ issued \in 0 .. MaxReads /\ MaxReads \in Nat
  BY BoundAssumption DEF Events, HistoryInv
<1>5. ASSUME SendNext(a, "NONE", <<>>), issued' = issued
      PROVE  QueueInv'
  <2>1. \A i \in Live(a) : a[i].wait = a[i].size
    BY <1>3 DEF Live
  <2>2. "NONE" = "READ_DATA" <=> a # <<>> /\ a[1].dirty
    BY <1>3 DEF Clean, QShape
  <2>. QED
    BY <1>1, <1>3, <1>4, <1>5, <2>1, <2>2, SendNextKeeps
<1>6. ASSUME issued < MaxReads, issued' = n,
             \E cb \in BOOLEAN, size \in Sizes :
                SendNext(Append(a, NewRequest(n, cb, size)), "NONE", <<>>)
      PROVE  QueueInv'
  <2>1. PICK cb \in BOOLEAN, size \in Sizes :
               SendNext(Append(a, NewRequest(n, cb, size)), "NONE", <<>>)
    BY <1>6
  <2>2. n \in 1 .. MaxReads
    BY <1>4, <1>6
  <2>. DEFINE r == NewRequest(n, cb, size)
              b == Append(a, r)
  <2>3. r \in Request /\ ~r.dirty /\ r.wait = r.size
    BY <2>2, NewRequestFacts
  <2>. HIDE DEF r
  <2>4. QShape(b) /\ b # <<>>
    BY <1>3, <2>3, AppendFacts
  <2>5. \A i \in DOMAIN b : ~b[i].dirty /\ b[i].wait = b[i].size
    BY <1>3, <2>3 DEF QShape, Clean
  <2>. HIDE DEF b
  <2>6. 1 \in DOMAIN b
    BY <2>4 DEF QShape
  <2>7. \A i \in Live(b) : b[i].wait = b[i].size
    BY <2>5 DEF Live
  <2>8. "NONE" = "READ_DATA" <=> b # <<>> /\ b[1].dirty
    BY <2>5, <2>6
  <2>9. SendNext(b, "NONE", <<>>)
    BY <2>1 DEF b, r
  <2>. QED
    BY <1>1, <1>4, <2>4, <2>7, <2>8, <2>9, SendNextKeeps
<1>7. ASSUME DisconnectedLeaving(a), issued' = issued
      PROVE  QueueInv'
  <2>1. /\ connected' = FALSE /\ event' = "DISCONNECT" /\ queue' = a
        /\ toDev' = <<>> /\ toHost' = <<>> /\ linkUp' = linkUp
    BY <1>7 DEF DisconnectedLeaving
  <2>2. QShape(queue)' /\ Clean(queue')
    BY <1>3, <2>1
  <2>3. EventMeansBuffer'
    BY <2>1, <2>2 DEF EventMeansBuffer, Clean, QShape
  <2>4. Flight'
    BY <2>1 DEF Flight, InFlight
  <2>5. connected' \in BOOLEAN /\ linkUp' \in BOOLEAN
    BY <2>1 DEF QueueInv
  <2>6. event' \in Events
    BY <2>1 DEF Events
  <2>7. toDev' \in Seq(Command) /\ toHost' \in Seq(Report)
    BY <2>1
  <2>. QED
    BY <2>2, <2>3, <2>4, <2>5, <2>6, <2>7 DEF QueueInv
<1>8. QueueInv'
  BY <1>2, <1>5, <1>6, <1>7
<1>9. "done" \in Outcomes /\ issued' \in 0 .. MaxReads
  BY <1>2, <1>4 DEF Outcomes
<1>. QED
  BY <1>1, <1>2, <1>8, <1>9, FinishedKeeps

LEMMA HistoryKept ==
  ASSUME HistoryInv, UNCHANGED <<issued, log>>
  PROVE  HistoryInv'
BY DEF HistoryInv

LEMMA ConnectKeeps ==
  ASSUME QueueInv, Connect
  PROVE  QueueInv'
<1>1. toDev = <<>> /\ toHost = <<>>
  BY DEF QueueInv, Flight, InFlight, Connect
<1>2. /\ connected' = TRUE /\ linkUp' = TRUE /\ event' = "OTHER"
      /\ UNCHANGED <<queue, toDev, toHost>>
  BY DEF Connect
<1>3. Flight' /\ EventMeansBuffer'
  BY <1>1, <1>2 DEF Flight, InFlight, EventMeansBuffer, QueueInv
<1>4. QShape(queue)'
  BY <1>2 DEF QueueInv
<1>5. event' \in Events
  BY <1>2 DEF Events
<1>6. toDev' \in Seq(Command) /\ toHost' \in Seq(Report)
  BY <1>2 DEF QueueInv
<1>. QED
  BY <1>2, <1>3, <1>4, <1>5, <1>6 DEF QueueInv

\* A poll that fails, or finds the remote disconnected, keeps the list and
\* gives no event.
LEMMA IdleKeeps ==
  ASSUME QueueInv, event' = "NONE",
         UNCHANGED <<connected, queue, linkUp, toDev, toHost>>
  PROVE  QueueInv'
<1>1. Flight' /\ EventMeansBuffer' /\ QShape(queue)'
  BY DEF QueueInv, Flight, InFlight, EventMeansBuffer, OnWire, Waiting
<1>2. event' \in Events
  BY DEF Events
<1>. QED
  BY <1>1, <1>2 DEF QueueInv

LEMMA NextIInv == IInv /\ [Next]_vars => IInv'
<1>. SUFFICES ASSUME QueueInv, HistoryInv, [Next]_vars
              PROVE  QueueInv' /\ HistoryInv'
  BY IInvParts DEF IInv, QueueInv, HistoryInv, TypeOK, QShape
<1>1. ASSUME Connect PROVE QueueInv' /\ HistoryInv'
  BY <1>1, ConnectKeeps, HistoryKept DEF Connect
<1>2. ASSUME NEW cb \in BOOLEAN, NEW size \in Sizes, ReadData(cb, size)
      PROVE  QueueInv' /\ HistoryInv'
  BY <1>2, ReadDataKeeps
<1>3. ASSUME CommandFails PROVE QueueInv' /\ HistoryInv'
  BY <1>3, EmptyKeeps, HistoryKept DEF CommandFails, Disconnected
<1>4. ASSUME PollIdle PROVE QueueInv' /\ HistoryInv'
  <2>1. event' = "NONE" /\ event' \in Events /\ event' # "READ_DATA"
    BY <1>4 DEF PollIdle, Events
  <2>2. CASE connected
    BY <1>4, <2>1, <2>2, ClearKeeps, HistoryKept DEF PollIdle
  <2>3. CASE ~connected
    BY <1>4, <2>1, <2>3, IdleKeeps, HistoryKept DEF PollIdle
  <2>. QED
    BY <2>2, <2>3
<1>5. ASSUME PollOther PROVE QueueInv' /\ HistoryInv'
  <2>1. event' \in Events /\ event' # "READ_DATA"
    BY <1>5 DEF PollOther, Events
  <2>. QED
    BY <1>5, <2>1, ClearKeeps, HistoryKept DEF PollOther
<1>6. ASSUME PollClosed PROVE QueueInv' /\ HistoryInv'
  BY <1>6, EmptyKeeps, HistoryKept DEF PollClosed, Disconnected
<1>7. ASSUME PollError PROVE QueueInv' /\ HistoryInv'
  BY <1>7, ErrorKeeps
<1>8. ASSUME PollPart PROVE QueueInv' /\ HistoryInv'
  BY <1>8, PartKeeps, HistoryKept DEF PollPart
<1>9. ASSUME PollEvent PROVE QueueInv' /\ HistoryInv'
  BY <1>9, EventKeeps
<1>10. ASSUME PollCallback PROVE QueueInv' /\ HistoryInv'
  BY <1>10, CallbackKeeps
<1>11. ASSUME Remote PROVE QueueInv' /\ HistoryInv'
  BY <1>11, RemoteKeeps, HistoryKept DEF Remote, RemoteData, RemoteError
<1>12. ASSUME LinkLost PROVE QueueInv' /\ HistoryInv'
  BY <1>12, LinkLostKeeps, HistoryKept DEF LinkLost
<1>13. ASSUME UNCHANGED vars PROVE QueueInv' /\ HistoryInv'
  <2>1. UNCHANGED <<connected, queue, event, linkUp, toDev, toHost, issued, log>>
    BY <1>13 DEF vars
  <2>. QED
    BY <2>1 DEF QueueInv, HistoryInv, Flight, InFlight, EventMeansBuffer, OnWire, Waiting
<1>14. ASSUME PollFails PROVE QueueInv' /\ HistoryInv'
  BY <1>14, IdleKeeps, HistoryKept DEF PollFails
<1>. QED
  BY <1>1, <1>2, <1>3, <1>4, <1>5, <1>6, <1>7, <1>8, <1>9, <1>10, <1>11, <1>12, <1>13, <1>14
     DEF Next, Application, Poll, PollReport

-----------------------------------------------------------------------------
(* Theorems                                                                *)

\* The inductive invariant holds in every state of every behaviour.
THEOREM Invariance == Spec => []IInv
BY InitIInv, NextIInv, PTL DEF Spec

\* Every variable stays in its type: no counter wraps, whatever the packets.
THEOREM TypeCorrect == Spec => []TypeOK
BY Invariance, PTL DEF IInv

LEMMA IInvSafety == IInv => AnswersAreForHead /\ DataContinuesBuffer /\ EventMeansBuffer
<1>. SUFFICES ASSUME IInv PROVE AnswersAreForHead /\ DataContinuesBuffer /\ EventMeansBuffer
  OBVIOUS
<1>1. InFlight => Live(queue) # {} /\ OnWire(Waiting, toDev, toHost)
  BY DEF IInv, Flight
<1>2. AnswersAreForHead
  BY <1>1 DEF AnswersAreForHead, OnWire
<1>3. DataContinuesBuffer
  <2>1. ASSUME NEW i \in DOMAIN toHost PROVE InFlight
    BY DEF InFlight
  <2>. QED
    BY <1>1, <2>1 DEF DataContinuesBuffer, OnWire
<1>. QED
  BY <1>2, <1>3 DEF IInv

\* A read report always belongs to the request the library matches it with
\* ("we must always assume the packet received is from the most recent
\* request", events.c).
THEOREM ReportsAreMatched == Spec => []AnswersAreForHead
BY Invariance, IInvSafety, PTL

\* The copies of event_data_read() fill each buffer from its start to its
\* end, and nothing beyond it.
THEOREM BuffersAreFilled == Spec => []DataContinuesBuffer
BY Invariance, IInvSafety, PTL

\* WIIUSE_READ_DATA is reported only while a finished request is there to
\* be used, and finished requests do not pile up behind it or behind a
\* request that waits.
THEOREM EventsMatchBuffers == Spec => []EventMeansBuffer
BY Invariance, IInvSafety, PTL

-----------------------------------------------------------------------------
(* No request is forgotten, if the application keeps two rules             *)

\* No read while the list holds only a finished request; no command from a
\* callback.
Rules == ~ReadsWhileDirty /\ ~CallbackCommands

\* Once all data of a request is on its way, the last of it says so.
Complete(h, host) ==
    LET last == host[Len(host)] IN last.err \/ last.off + last.len = h.size

HInv ==
    /\ HeadIsInFlight
    /\ NoReadsWhenDisconnected
    /\ connected /\ linkUp /\ toDev = <<>> /\ toHost # <<>> => Complete(Waiting, toHost)

LEMMA SendNextHInv ==
  ASSUME HInv, connected, toDev = <<>>, NEW q, NEW e, SendNext(q, e, <<>>)
  PROVE  HInv'
<1>1. CASE Disconnected
  BY <1>1 DEF HInv, HeadIsInFlight, NoReadsWhenDisconnected, Disconnected, DisconnectedLeaving
<1>2. CASE Live(q) = {} /\ queue' = q /\ toHost' = <<>>
           /\ UNCHANGED <<connected, linkUp, toDev>>
  BY <1>2 DEF HInv, HeadIsInFlight, NoReadsWhenDisconnected
<1>3. CASE /\ toHost' = <<>> /\ UNCHANGED <<connected, linkUp>>
           /\ toDev' = Append(toDev, CommandFor(q[FirstLive(q)]))
  <2>1. toDev' = <<CommandFor(q[FirstLive(q)])>>
    BY <1>3
  <2>2. toDev' # <<>>
    BY <2>1
  <2>. QED
    BY <1>3, <2>2 DEF HInv, HeadIsInFlight, InFlight, NoReadsWhenDisconnected
<1>. QED
  BY <1>1, <1>2, <1>3 DEF SendNext

LEMMA ClearHInv ==
  ASSUME QueueInv, HInv, connected, queue' = ClearDirty(queue),
         UNCHANGED <<connected, linkUp, toDev, toHost>>
  PROVE  HInv'
<1>. DEFINE c == ClearDirty(queue)
<1>1. QShape(queue) /\ (toHost # <<>> => Live(queue) # {})
  BY DEF QueueInv, Flight, InFlight
<1>2. QShape(c) /\ Clean(c) /\ (c = <<>> <=> Live(queue) = {})
      /\ (Live(queue) # {} => c[1] = queue[FirstLive(queue)])
  BY <1>1, ClearDirtyFacts
<1>. HIDE DEF c
<1>3. (Live(c) = {} <=> c = <<>>) /\ (c # <<>> => FirstLive(c) = 1)
  BY <1>2, CleanFacts
<1>4. queue' = c
  BY DEF c
<1>5. Live(queue) # {} => Waiting' = Waiting
  BY <1>2, <1>3, <1>4 DEF Waiting
<1>6. HeadIsInFlight'
  BY <1>2, <1>3, <1>4 DEF HInv, HeadIsInFlight, InFlight
<1>7. NoReadsWhenDisconnected'
  BY DEF NoReadsWhenDisconnected
<1>8. (connected /\ linkUp /\ toDev = <<>> /\ toHost # <<>> => Complete(Waiting, toHost))'
  BY <1>1, <1>5 DEF HInv
<1>. QED
  BY <1>6, <1>7, <1>8 DEF HInv

LEMMA PartHInv ==
  ASSUME QueueInv, QueueInv', HInv, PollPart
  PROVE  HInv'
<1>. DEFINE c == ClearDirty(queue)
            r == Head(toHost)
            w == WaitAfter(c[1], r.len)
            t == Tail(toHost)
<1>1. /\ connected /\ c # <<>> /\ QShape(c) /\ Clean(c)
      /\ FirstLive(c) = 1 /\ c[1] = Waiting /\ c[1] \in Request /\ r \in Report
      /\ ~r.err => w = c[1].wait - r.len
  BY ReportFacts DEF PollPart
<1>2. /\ ~r.err /\ w # 0 /\ toHost # <<>> /\ toHost' = t
      /\ queue' = [c EXCEPT ![1].wait = w]
      /\ UNCHANGED <<connected, linkUp, toDev>>
  BY <1>1 DEF PollPart
<1>3. toHost \in Seq(Report) /\ r = toHost[1] /\ Len(toHost) \in Nat \ {0}
  BY <1>2, EmptySeq DEF QueueInv
<1>4. /\ t \in Seq(Report) /\ Len(t) = Len(toHost) - 1
      /\ \A i \in 1 .. Len(t) : t[i] = toHost[i + 1]
  BY <1>2, <1>3, HeadTailProperties
<1>5. ASSUME linkUp, toDev = <<>>
      PROVE  t # <<>> /\ Complete(Waiting, t)
  <2>1. Complete(Waiting, toHost)
    BY <1>1, <1>2, <1>5 DEF HInv
  <2>2. Len(toHost) # 1
    <3>1. r.off = c[1].size - c[1].wait
      <4>1. OnWire(c[1], toDev, toHost) /\ 1 \in DOMAIN toHost
        BY <1>1, <1>2, <1>3 DEF QueueInv, Flight, InFlight
      <4>. QED
        BY <1>2, <1>3, <4>1 DEF OnWire
    <3>2. c[1].wait \in Int /\ c[1].size \in Int /\ r.len \in Int
      <4>1. c[1].size \in Sizes /\ c[1].wait \in 0 .. Width - 1 /\ r.len \in 1 .. Chunk
        BY <1>1 DEF Request, Report
      <4>. QED
        BY <4>1, SizeIsPositive
    <3>3. r.off + r.len # c[1].size
      BY <1>1, <1>2, <3>1, <3>2
    <3>. QED
      BY <1>1, <1>2, <1>3, <2>1, <3>3 DEF Complete
  <2>3. Len(t) \in 1 .. Len(t) /\ t[Len(t)] = toHost[Len(toHost)]
    BY <1>3, <1>4, <2>2
  <2>. HIDE DEF t
  <2>4. t # <<>>
    <3>1. Len(<<>>) = 0
      OBVIOUS
    <3>2. Len(t) # 0
      BY <2>3
    <3>. QED
      BY <3>1, <3>2
  <2>. QED
    BY <2>1, <2>3, <2>4 DEF Complete
<1>6. Waiting'.size = Waiting.size
  <2>1. c \in Seq(Request) /\ 1 \in DOMAIN c
    BY <1>1 DEF QShape
  <2>2. /\ queue'[1].size = c[1].size
        /\ \A i \in DOMAIN c : i # 1 => queue'[i] = c[i]
        /\ DOMAIN queue' = DOMAIN c /\ queue'[1].dirty = c[1].dirty
    BY <1>1, <1>2, <2>1 DEF Request
  <2>3. Clean(queue') /\ queue' # <<>> /\ QShape(queue')
    <3>1. Clean(queue')
      <4>1. \A i \in DOMAIN c : ~c[i].dirty
        BY <1>1 DEF Clean
      <4>. HIDE DEF c
      <4>2. \A i \in DOMAIN queue' : ~queue'[i].dirty
        BY <2>1, <2>2, <4>1
      <4>. QED
        BY <4>2 DEF Clean
    <3>2. QShape(queue')
      BY DEF QueueInv
    <3>3. queue' # <<>>
      <4>. HIDE DEF c
      <4>. QED
        BY <2>1, <2>2
    <3>. QED
      BY <3>1, <3>2, <3>3
  <2>4. FirstLive(queue') = 1
    BY <2>3, CleanFacts
  <2>. QED
    BY <1>1, <2>2, <2>4 DEF Waiting
<1>7. HeadIsInFlight'
  BY <1>2, <1>5 DEF HeadIsInFlight, InFlight
<1>8. NoReadsWhenDisconnected'
  BY <1>1, <1>2 DEF NoReadsWhenDisconnected
<1>9. (connected /\ linkUp /\ toDev = <<>> /\ toHost # <<>> => Complete(Waiting, toHost))'
  BY <1>2, <1>5, <1>6 DEF Complete
<1>. QED
  BY <1>7, <1>8, <1>9 DEF HInv

LEMMA RemoteHInv ==
  ASSUME QueueInv, HInv, Remote
  PROVE  HInv'
<1>1. /\ connected /\ toDev # <<>> /\ UNCHANGED <<connected, linkUp, queue>>
      /\ toDev \in Seq(Command) /\ toHost \in Seq(Report)
      /\ toDev[1].size = Waiting.size /\ Head(toDev) = toDev[1]
  <2>1. toDev # <<>> /\ UNCHANGED <<connected, linkUp, queue>>
    BY DEF Remote, RemoteData, RemoteError
  <2>2. 1 \in DOMAIN toDev
    BY <2>1 DEF QueueInv
  <2>. QED
    BY <2>1, <2>2 DEF QueueInv, Flight, InFlight, OnWire
<1>2. Waiting' = Waiting
  BY <1>1 DEF Waiting
<1>3. PICK r : toHost' = Append(toHost, r)
               /\ (toDev' = <<>> => r.err \/ r.off + r.len = toDev[1].size)
  <2>1. CASE RemoteError
    BY <2>1 DEF RemoteError
  <2>2. CASE RemoteData
    <3>. DEFINE d == Head(toDev)
                n == IF d.size - d.sent < Chunk THEN d.size - d.sent ELSE Chunk
                r == [id |-> d.id, err |-> FALSE, off |-> d.sent, len |-> n]
    <3>1. toHost' = Append(toHost, r)
          /\ toDev' = IF d.sent + n = d.size THEN Tail(toDev) ELSE [toDev EXCEPT ![1].sent = d.sent + n]
      BY <2>2 DEF RemoteData
    <3>. HIDE DEF n, d
    <3>2. d.sent + n # d.size => toDev' # <<>>
      <4>1. DOMAIN [toDev EXCEPT ![1].sent = d.sent + n] = DOMAIN toDev /\ 1 \in DOMAIN toDev
        BY <1>1
      <4>. QED
        BY <3>1, <4>1
    <3>. QED
      BY <1>1, <3>1, <3>2 DEF d
  <2>. QED
    BY <2>1, <2>2 DEF Remote
<1>4. toHost' # <<>> /\ toHost'[Len(toHost')] = r
  BY <1>1, <1>3
<1>5. HeadIsInFlight' /\ NoReadsWhenDisconnected'
  BY <1>1, <1>4 DEF HeadIsInFlight, InFlight, NoReadsWhenDisconnected
<1>6. (connected /\ linkUp /\ toDev = <<>> /\ toHost # <<>> => Complete(Waiting, toHost))'
  BY <1>1, <1>2, <1>3, <1>4 DEF Complete
<1>. QED
  BY <1>5, <1>6 DEF HInv

LEMMA ReadDataHInv ==
  ASSUME Rules, QueueInv, HistoryInv, HInv,
         NEW cb \in BOOLEAN, NEW size \in Sizes, ReadData(cb, size)
  PROVE  HInv'
<1>. DEFINE r == NewRequest(issued + 1, cb, size)
<1>1. issued + 1 \in 1 .. MaxReads /\ issued' = issued + 1 /\ connected /\ QShape(queue)
  BY BoundAssumption DEF ReadData, HistoryInv, QueueInv
<1>2. r \in Request /\ ~r.dirty /\ r.wait = r.size
  BY <1>1, NewRequestFacts
<1>3. ASSUME queue = <<>>, SendNext(<<r>>, event, toHost)
      PROVE  HInv'
  <2>1. toDev = <<>> /\ toHost = <<>>
    BY <1>3 DEF QueueInv, Flight, InFlight, Live
  <2>. QED
    BY <1>1, <1>3, <2>1, SendNextHInv
<1>4. ASSUME queue # <<>>, Live(queue) # {}, queue' = Append(queue, r),
             UNCHANGED <<connected, event, linkUp, toDev, toHost>>
      PROVE  HInv'
  <2>. HIDE DEF r
  <2>1. Waiting' = Waiting
    <3>1. FirstLive(queue) \in DOMAIN queue
      BY <1>1, <1>4, FirstLiveIsLive DEF Live
    <3>. QED
      BY <1>1, <1>2, <1>4, <3>1, AppendFacts DEF Waiting
  <2>. QED
    BY <1>1, <1>4, <2>1 DEF HInv, HeadIsInFlight, InFlight, NoReadsWhenDisconnected
<1>. QED
  BY <1>1, <1>3, <1>4 DEF ReadData, Rules

LEMMA NextHInv == Rules /\ IInv /\ IInv' /\ HInv /\ [Next]_vars => HInv'
<1>. SUFFICES ASSUME Rules, QueueInv, QueueInv', HistoryInv, HInv, [Next]_vars PROVE HInv'
  BY DEF IInv, QueueInv, HistoryInv, TypeOK, QShape
<1>1. ASSUME Connect PROVE HInv'
  <2>1. queue = <<>> /\ toHost = <<>> /\ connected' /\ UNCHANGED <<queue, toDev, toHost>>
    BY <1>1 DEF Connect, HInv, NoReadsWhenDisconnected, QueueInv, Flight, InFlight
  <2>. QED
    BY <2>1 DEF HInv, HeadIsInFlight, NoReadsWhenDisconnected, Live
<1>2. ASSUME NEW cb \in BOOLEAN, NEW size \in Sizes, ReadData(cb, size) PROVE HInv'
  BY <1>2, ReadDataHInv
<1>3. ASSUME Disconnected PROVE HInv'
  BY <1>3 DEF Disconnected, DisconnectedLeaving, HInv, HeadIsInFlight, NoReadsWhenDisconnected
<1>4. ASSUME PollIdle PROVE HInv'
  <2>1. CASE connected
    BY <1>4, <2>1, ClearHInv DEF PollIdle
  <2>2. CASE ~connected
    BY <1>4, <2>2 DEF PollIdle, HInv, HeadIsInFlight, NoReadsWhenDisconnected
  <2>. QED
    BY <2>1, <2>2
<1>5. ASSUME PollOther PROVE HInv'
  BY <1>5, ClearHInv DEF PollOther
<1>6. ASSUME PollError PROVE HInv'
  <2>. DEFINE q == ClearDirty(queue)
  <2>1. connected /\ Tail(toHost) = <<>> /\ toDev = <<>>
    BY <1>6, ReportFacts DEF PollError
  <2>2. SendNext(After(q, FirstLive(q)), "NONE", <<>>)
    BY <1>6, <2>1 DEF PollError
  <2>. QED
    BY <2>1, <2>2, SendNextHInv
<1>7. ASSUME PollPart PROVE HInv'
  BY <1>7, PartHInv
<1>8. ASSUME PollEvent PROVE HInv'
  <2>. DEFINE q == ClearDirty(queue)
              k == FirstLive(q)
  <2>1. connected /\ Tail(toHost) = <<>> /\ toDev = <<>>
    BY <1>8, ReportFacts DEF PollEvent
  <2>2. SendNext([q EXCEPT ![k].wait = 0, ![k].dirty = TRUE], "READ_DATA", <<>>)
    BY <1>8, <2>1 DEF PollEvent
  <2>. QED
    BY <2>1, <2>2, SendNextHInv
<1>9. ASSUME PollCallback PROVE HInv'
  <2>. DEFINE q == ClearDirty(queue)
              a == After(q, FirstLive(q))
  <2>1. connected /\ Tail(toHost) = <<>> /\ toDev = <<>>
    BY <1>9, ReportFacts DEF PollCallback
  <2>2. \/ SendNext(a, "NONE", <<>>)
        \/ \E cb \in BOOLEAN, size \in Sizes :
              SendNext(Append(a, NewRequest(issued', cb, size)), "NONE", <<>>)
    BY <1>9, <2>1 DEF PollCallback, Rules
  <2>. QED
    BY <2>1, <2>2, SendNextHInv
<1>10. ASSUME Remote PROVE HInv'
  BY <1>10, RemoteHInv
<1>11. ASSUME LinkLost PROVE HInv'
  BY <1>11 DEF LinkLost, HInv, HeadIsInFlight, NoReadsWhenDisconnected
<1>12. ASSUME UNCHANGED vars \/ PollFails PROVE HInv'
  <2>1. UNCHANGED <<connected, queue, linkUp, toDev, toHost>>
    BY <1>12 DEF vars, PollFails
  <2>. QED
    BY <2>1 DEF HInv, HeadIsInFlight, InFlight, NoReadsWhenDisconnected, Complete, Waiting
<1>. QED
  BY <1>1, <1>2, <1>3, <1>4, <1>5, <1>6, <1>7, <1>8, <1>9, <1>10, <1>11, <1>12
     DEF Next, Application, CommandFails, Poll, PollReport, PollClosed

\* If the application does not read while only a finished request is queued,
\* and its callbacks send nothing, the first request that waits is always on
\* the wire of a live link: the queue cannot get stuck.
THEOREM NothingIsForgotten ==
  ASSUME Rules
  PROVE  Spec => []HeadIsInFlight
<1>1. Init => HInv
  BY DEF Init, HInv, HeadIsInFlight, NoReadsWhenDisconnected
<1>2. IInv /\ IInv' /\ HInv /\ [Next]_vars => HInv'
  BY NextHInv
<1>3. HInv => HeadIsInFlight
  BY DEF HInv
<1>. QED
  BY <1>1, <1>2, <1>3, Invariance, PTL DEF Spec

\* Under the same rules no request outlives its connection.
THEOREM NothingOutlivesTheLink ==
  ASSUME Rules
  PROVE  Spec => []NoReadsWhenDisconnected
<1>1. Init => HInv
  BY DEF Init, HInv, HeadIsInFlight, NoReadsWhenDisconnected
<1>2. IInv /\ IInv' /\ HInv /\ [Next]_vars => HInv'
  BY NextHInv
<1>3. HInv => NoReadsWhenDisconnected
  BY DEF HInv
<1>. QED
  BY <1>1, <1>2, <1>3, Invariance, PTL DEF Spec

-----------------------------------------------------------------------------
(* The queue implements the service                                        *)

LEMMA IdsFacts ==
  ASSUME NEW q \in Seq(Request)
  PROVE  /\ Ids(q) \in Seq(Nat) /\ Len(Ids(q)) = Len(q)
         /\ \A i \in 1 .. Len(q) : Ids(q)[i] = q[i].id
         /\ Ids(q) = <<>> <=> q = <<>>
         /\ q # <<>> => Head(Ids(q)) = q[1].id
<1>1. \A i \in 1 .. Len(q) : q[i] \in Request /\ q[i].id \in Nat
  <2>1. \A i \in 1 .. Len(q) : q[i] \in Request
    OBVIOUS
  <2>2. \A i \in 1 .. Len(q) : q[i].id \in 1 .. MaxReads
    BY <2>1 DEF Request
  <2>. QED
    BY <2>1, <2>2, BoundAssumption
<1>2. Ids(q) = [i \in 1 .. Len(q) |-> q[i].id] /\ Len(q) \in Nat
  BY DEF Ids
<1>3. Ids(q) \in Seq(Nat) /\ Len(Ids(q)) = Len(q) /\ \A i \in 1 .. Len(q) : Ids(q)[i] = q[i].id
  BY <1>1, <1>2
<1>4. Ids(q) = <<>> <=> q = <<>>
  BY <1>3, EmptySeq
<1>5. ASSUME q # <<>> PROVE Head(Ids(q)) = q[1].id
  <2>1. Len(q) # 0 /\ 1 \in 1 .. Len(q)
    BY <1>2, <1>5, EmptySeq
  <2> QED
    BY <1>3, <2>1
<1>. QED
  BY <1>3, <1>4, <1>5

LEMMA IdsAppend ==
  ASSUME NEW q \in Seq(Request), NEW r \in Request
  PROVE  Ids(Append(q, r)) = Append(Ids(q), r.id)
<1>. DEFINE a == Append(q, r)
            b == Append(Ids(q), r.id)
<1>1. /\ a \in Seq(Request) /\ Len(a) = Len(q) + 1 /\ Len(q) \in Nat
      /\ \A i \in 1 .. Len(q) : a[i] = q[i]
      /\ a[Len(q) + 1] = r
  OBVIOUS
<1>2. Ids(q) \in Seq(Nat) /\ Len(Ids(q)) = Len(q) /\ \A i \in 1 .. Len(q) : Ids(q)[i] = q[i].id
  BY IdsFacts
<1>3. r.id \in Nat
  BY BoundAssumption DEF Request
<1>4. /\ b \in Seq(Nat) /\ Len(b) = Len(q) + 1
      /\ \A i \in 1 .. Len(q) : b[i] = q[i].id
      /\ b[Len(q) + 1] = r.id
  BY <1>1, <1>2, <1>3
<1>. HIDE DEF a, b
<1>5. Ids(a) \in Seq(Nat) /\ Len(Ids(a)) = Len(a) /\ \A i \in 1 .. Len(a) : Ids(a)[i] = a[i].id
  BY <1>1, IdsFacts
<1>6. ASSUME NEW i \in 1 .. Len(q) + 1 PROVE Ids(a)[i] = b[i]
  <2>1. Ids(a)[i] = a[i].id
    BY <1>1, <1>5
  <2>2. CASE i = Len(q) + 1
    BY <1>1, <1>4, <2>1, <2>2
  <2>3. CASE i # Len(q) + 1
    <3>1. i \in 1 .. Len(q)
      BY <1>1, <2>3
    <3>. QED
      BY <1>1, <1>4, <2>1, <3>1
  <2>. QED
    BY <2>2, <2>3
<1>7. Ids(a) = b
  BY <1>1, <1>4, <1>5, <1>6, SeqEqual
<1>. QED
  BY <1>7 DEF a, b

LEMMA IdsAfter ==
  ASSUME NEW q \in Seq(Request), q # <<>>
  PROVE  Ids(After(q, 1)) = Tail(Ids(q))
<1>. DEFINE a == After(q, 1)
            t == Tail(Ids(q))
<1>1. Len(q) \in Nat \ {0}
  BY EmptySeq
<1>2. /\ a \in Seq(Request) /\ Len(a) = Len(q) - 1
      /\ \A i \in 1 .. Len(q) - 1 : i + 1 \in 1 .. Len(q) /\ a[i] = q[i + 1]
  <2>1. a = SubSeq(q, 2, Len(q))
    BY DEF After
  <2>2. 2 \in 1 .. Len(q) + 1 /\ Len(q) - 2 + 1 = Len(q) - 1
    BY <1>1
  <2>3. \A i \in 1 .. Len(q) - 1 : i + 2 - 1 = i + 1
    BY <1>1
  <2>. HIDE DEF a
  <2>. QED
    BY <1>1, <2>1, <2>2, <2>3, SuffixFacts
<1>3. Ids(q) \in Seq(Nat) /\ Len(Ids(q)) = Len(q) /\ \A i \in 1 .. Len(q) : Ids(q)[i] = q[i].id
  BY IdsFacts
<1>4. /\ t \in Seq(Nat) /\ Len(t) = Len(q) - 1
      /\ \A i \in 1 .. Len(q) - 1 : t[i] = Ids(q)[i + 1]
  BY <1>1, <1>3, EmptySeq, HeadTailProperties
<1>. HIDE DEF a, t
<1>5. Ids(a) \in Seq(Nat) /\ Len(Ids(a)) = Len(a) /\ \A i \in 1 .. Len(a) : Ids(a)[i] = a[i].id
  BY <1>2, IdsFacts
<1>6. \A i \in 1 .. Len(q) - 1 : Ids(a)[i] = t[i]
  BY <1>2, <1>3, <1>4, <1>5
<1>7. Ids(a) = t
  BY <1>1, <1>2, <1>4, <1>5, <1>6, SeqEqual
<1>. QED
  BY <1>7 DEF a, t

\* A list without finished requests is left alone.
LEMMA ClearClean ==
  ASSUME NEW q, QShape(q), Clean(q)
  PROVE  ClearDirty(q) = q
<1>1. q \in Seq(Request)
  BY DEF QShape
<1>2. CASE q = <<>>
  BY <1>2 DEF ClearDirty, Live
<1>3. CASE q # <<>>
  <2>1. Live(q) # {} /\ FirstLive(q) = 1
    BY <1>3, CleanFacts
  <2>2. Len(q) \in Nat \ {0}
    BY <1>1, <1>3, EmptySeq
  <2>3. /\ SubSeq(q, 1, Len(q)) \in Seq(Request)
        /\ Len(SubSeq(q, 1, Len(q))) = Len(q) - 1 + 1
        /\ \A i \in 1 .. Len(q) - 1 + 1 : SubSeq(q, 1, Len(q))[i] = q[i + 1 - 1]
    BY <1>1, <2>2, SuffixFacts
  <2>4. SubSeq(q, 1, Len(q)) = q
    BY <1>1, <2>2, <2>3, SeqEqual
  <2>. QED
    BY <2>1, <2>4 DEF ClearDirty
<1>. QED
  BY <1>2, <1>3

\* Requests that leave from the head and one that joins at the tail do not
\* meet.
LEMMA ClearAppend ==
  ASSUME NEW q, QShape(q), NEW r \in Request, ~r.dirty, r.wait = r.size
  PROVE  ClearDirty(Append(q, r)) = Append(ClearDirty(q), r)
<1>. DEFINE a == Append(q, r)
<1>1. /\ q \in Seq(Request) /\ a \in Seq(Request) /\ Len(a) = Len(q) + 1 /\ Len(q) \in Nat
      /\ \A i \in 1 .. Len(q) : a[i] = q[i]
      /\ a[Len(q) + 1] = r
  BY DEF QShape
<1>2. QShape(a) /\ Live(a) # {} /\ (Live(q) # {} => FirstLive(a) = FirstLive(q))
  BY AppendFacts
<1>. HIDE DEF a
<1>3. ASSUME NEW k \in 1 .. Len(q) + 1
      PROVE  /\ SubSeq(a, k, Len(a)) \in Seq(Request)
             /\ Len(SubSeq(a, k, Len(a))) = Len(q) - k + 2
             /\ \A i \in 1 .. Len(q) - k + 2 : SubSeq(a, k, Len(a))[i] = a[i + k - 1]
  <2>1. k \in 1 .. Len(a) + 1 /\ Len(a) - k + 1 = Len(q) - k + 2
    BY <1>1
  <2>. QED
    BY <1>1, <2>1, SuffixFacts
<1>4. CASE Live(q) # {}
  <2>. DEFINE k == FirstLive(q)
              c == SubSeq(q, k, Len(q))
              d == SubSeq(a, k, Len(a))
  <2>1. k \in 1 .. Len(q)
    BY <1>1, <1>4, FirstLiveIsLive DEF Live
  <2>. HIDE DEF k
  <2>2. /\ c \in Seq(Request) /\ Len(c) = Len(q) - k + 1
        /\ \A i \in 1 .. Len(q) - k + 1 : i + k - 1 \in k .. Len(q) /\ c[i] = q[i + k - 1]
    <3>1. k \in 1 .. Len(q) + 1
      BY <1>1, <2>1
    <3>. QED
      BY <1>1, <3>1, SuffixFacts
  <2>3. /\ d \in Seq(Request) /\ Len(d) = Len(q) - k + 2
        /\ \A i \in 1 .. Len(q) - k + 2 : d[i] = a[i + k - 1]
    BY <1>1, <1>3, <2>1
  <2>. HIDE DEF c, d
  <2>4. /\ Append(c, r) \in Seq(Request) /\ Len(Append(c, r)) = Len(q) - k + 2
        /\ \A i \in 1 .. Len(q) - k + 1 : Append(c, r)[i] = c[i]
        /\ Append(c, r)[Len(q) - k + 2] = r
    <3>1. /\ Append(c, r) \in Seq(Request) /\ Len(Append(c, r)) = Len(c) + 1
          /\ \A i \in 1 .. Len(c) : Append(c, r)[i] = c[i]
          /\ Append(c, r)[Len(c) + 1] = r
      BY <2>2, AppendProperties
    <3>2. Len(c) = Len(q) - k + 1 /\ Len(c) + 1 = Len(q) - k + 2
      BY <1>1, <2>1, <2>2
    <3>. QED
      BY <3>1, <3>2
  <2>5. ASSUME NEW i \in 1 .. Len(q) - k + 2 PROVE d[i] = Append(c, r)[i]
    <3>1. CASE i = Len(q) - k + 2
      <4>1. i + k - 1 = Len(q) + 1
        BY <1>1, <2>1, <3>1
      <4>. QED
        BY <1>1, <2>3, <2>4, <3>1, <4>1
    <3>2. CASE i # Len(q) - k + 2
      <4>1. i \in 1 .. Len(q) - k + 1 /\ i + k - 1 \in 1 .. Len(q)
        BY <1>1, <2>1, <3>2
      <4>. QED
        BY <1>1, <2>2, <2>3, <2>4, <4>1
    <3>. QED
      BY <3>1, <3>2
  <2>6. d = Append(c, r)
    BY <2>3, <2>4, <2>5, SeqEqual
  <2>7. ClearDirty(q) = c /\ ClearDirty(a) = d
    BY <1>2, <1>4 DEF ClearDirty, c, d, k
  <2>. QED
    BY <2>6, <2>7 DEF a
<1>5. CASE Live(q) = {}
  <2>1. ClearDirty(q) = <<>>
    BY <1>5 DEF ClearDirty
  <2>2. FirstLive(a) = Len(q) + 1
    <3>1. Live(a) = {Len(q) + 1}
      BY <1>1, <1>5 DEF Live
    <3>. QED
      BY <1>2, <3>1, FirstLiveIsLive
  <2>3. ClearDirty(a) = SubSeq(a, Len(q) + 1, Len(a))
    BY <1>2, <2>2 DEF ClearDirty
  <2>4. /\ ClearDirty(a) \in Seq(Request) /\ Len(ClearDirty(a)) = 1
        /\ ClearDirty(a)[1] = r
    <3>1. Len(q) + 1 \in 1 .. Len(q) + 1 /\ Len(q) - (Len(q) + 1) + 2 = 1
          /\ 1 + (Len(q) + 1) - 1 = Len(q) + 1
      BY <1>1
    <3>. QED
      BY <1>1, <1>3, <2>3, <3>1
  <2>5. ClearDirty(a) = <<r>>
    BY <2>4
  <2>. QED
    BY <2>1, <2>5 DEF a
<1>. QED
  BY <1>4, <1>5

\* What a finished head is followed by.
LEMMA ClearFinished ==
  ASSUME NEW c, QShape(c), Clean(c), c # <<>>
  PROVE  ClearDirty([c EXCEPT ![1].wait = 0, ![1].dirty = TRUE]) = After(c, 1)
<1>. DEFINE f == [c EXCEPT ![1].wait = 0, ![1].dirty = TRUE]
            h == [c[1] EXCEPT !.wait = 0, !.dirty = TRUE]
<1>1. c \in Seq(Request) /\ DOMAIN c = 1 .. Len(c) /\ Len(c) \in Nat \ {0} /\ 1 \in DOMAIN c
  BY EmptySeq DEF QShape
<1>2. h \in Request /\ h.dirty /\ h.wait = 0
  <2>1. 0 \in 0 .. Width - 1
    BY SizeAssumption
  <2>2. c[1] \in Request
    BY <1>1
  <2>. QED
    BY <2>1, <2>2 DEF Request
<1>3. f = [c EXCEPT ![1] = h]
  BY <1>1
<1>. HIDE DEF f, h
<1>4. /\ f \in Seq(Request) /\ Len(f) = Len(c) /\ DOMAIN f = 1 .. Len(c) /\ f[1].dirty
      /\ \A i \in 1 .. Len(c) : i # 1 => f[i] = c[i] /\ ~f[i].dirty
  BY <1>1, <1>2, <1>3 DEF Clean
<1>5. Live(f) = 2 .. Len(c)
  BY <1>1, <1>4 DEF Live
<1>6. After(c, 1) = SubSeq(c, 2, Len(c))
  BY DEF After
<1>7. /\ SubSeq(c, 2, Len(c)) \in Seq(Request) /\ Len(SubSeq(c, 2, Len(c))) = Len(c) - 1
      /\ \A i \in 1 .. Len(c) - 1 : SubSeq(c, 2, Len(c))[i] = c[i + 1]
  <2>1. 2 \in 1 .. Len(c) + 1 /\ Len(c) - 2 + 1 = Len(c) - 1 /\ \A i \in Int : i + 2 - 1 = i + 1
    BY <1>1
  <2>. QED
    BY <1>1, <2>1, SuffixFacts
<1>8. CASE Len(c) = 1
  <2>1. SubSeq(c, 2, Len(c)) = <<>>
    BY <1>7, <1>8, EmptySeq
  <2>2. Live(f) = {}
    BY <1>5, <1>8
  <2>3. ClearDirty(f) = <<>>
    BY <2>2 DEF ClearDirty
  <2>. QED
    BY <1>6, <2>1, <2>3 DEF f
<1>9. CASE Len(c) # 1
  <2>1. 2 \in Live(f) /\ \A j \in Live(f) : 2 <= j
    BY <1>1, <1>5, <1>9
  <2>2. FirstLive(f) = 2
    <3>1. FirstLive(f) \in Live(f) /\ \A j \in Live(f) : FirstLive(f) <= j
      BY <2>1 DEF FirstLive
    <3>. QED
      BY <1>1, <1>5, <2>1, <3>1
  <2>3. ClearDirty(f) = SubSeq(f, 2, Len(f))
    BY <2>1, <2>2 DEF ClearDirty
  <2>4. /\ SubSeq(f, 2, Len(f)) \in Seq(Request) /\ Len(SubSeq(f, 2, Len(f))) = Len(c) - 1
        /\ \A i \in 1 .. Len(c) - 1 : SubSeq(f, 2, Len(f))[i] = f[i + 1]
    <3>1. 2 \in 1 .. Len(f) + 1 /\ Len(f) - 2 + 1 = Len(c) - 1 /\ \A i \in Int : i + 2 - 1 = i + 1
      BY <1>1, <1>4
    <3>. QED
      BY <1>4, <3>1, SuffixFacts
  <2>5. \A i \in 1 .. Len(c) - 1 : f[i + 1] = c[i + 1]
    BY <1>1, <1>4
  <2>6. SubSeq(f, 2, Len(f)) = SubSeq(c, 2, Len(c))
    BY <1>1, <1>7, <2>4, <2>5, SeqEqual
  <2>. QED
    BY <1>6, <2>3, <2>6 DEF f
<1>. QED
  BY <1>8, <1>9

LEMMA SendNextServes ==
  ASSUME NEW q, NEW e, NEW in, SendNext(q, e, in)
  PROVE  \/ queue' = q /\ connected' = connected
         \/ queue' = <<>> /\ connected' = FALSE
BY DEF SendNext, Disconnected, DisconnectedLeaving

LEMMA PendingOfEmpty == ASSUME queue' = <<>> PROVE Pending' = <<>>
BY DEF Pending, Ids, ClearDirty, Live

\* Every step of the queue is a step of the service, or one it does not see.
LEMMA StepServes ==
  ASSUME ~CallbackCommands, IInv, Next
  PROVE  Service!Next \/ UNCHANGED Service!vars
<1>. DEFINE c == ClearDirty(queue)
            a == After(c, 1)
            Lost == /\ connected /\ connected' = FALSE /\ queue' = <<>>
                    /\ issued' \in {issued, issued + 1}
                    /\ \/ log' = log
                       \/ Pending # <<>> /\ \E o \in Outcomes : Service!Answer(o)
            Same == connected' = connected /\ Pending' = Pending /\ issued' = issued /\ log' = log
            Issued == /\ connected /\ connected' = connected /\ issued' = issued + 1
                      /\ log' = log /\ Pending' = Append(Pending, issued')
            Done == /\ connected /\ connected' = connected /\ Pending # <<>>
                    /\ \E o \in Outcomes : Service!Answer(o)
                    /\ \/ Pending' = Tail(Pending) /\ issued' = issued
                       \/ issued' = issued + 1 /\ Pending' = Append(Tail(Pending), issued')
<1>1. ASSUME Lost PROVE Service!Next
  BY <1>1, PendingOfEmpty DEF Service!Next, Service!Lose
<1>2. ASSUME Same PROVE UNCHANGED Service!vars
  BY <1>2 DEF Service!vars
<1>3. ASSUME Issued PROVE Service!Next
  BY <1>3 DEF Service!Next, Service!Issue
<1>4. ASSUME Done PROVE Service!Next
  BY <1>4 DEF Service!Next, Service!Finish
<1>5. QShape(queue) /\ QueueInv /\ HistoryInv /\ issued \in Nat
  BY IInvParts, BoundAssumption DEF IInv, HistoryInv
<1>6. QShape(c) /\ Clean(c) /\ c \in Seq(Request) /\ Pending = Ids(c)
  BY <1>5, ClearDirtyFacts DEF QShape, Pending
<1>7. ASSUME queue' = queue, connected' = connected, issued' = issued, log' = log
      PROVE  UNCHANGED Service!vars
  BY <1>2, <1>7 DEF Pending
<1>8. ASSUME queue' = c, connected' = connected, issued' = issued, log' = log
      PROVE  UNCHANGED Service!vars
  <2>1. ClearDirty(c) = c
    BY <1>6, ClearClean
  <2>. HIDE DEF c
  <2>2. Pending' = Pending
    BY <1>6, <1>8, <2>1 DEF Pending
  <2>. QED
    BY <1>2, <1>8, <2>2
<1>9. ASSUME toHost # <<>>
      PROVE  /\ connected /\ c # <<>> /\ FirstLive(c) = 1 /\ c[1] \in Request
             /\ Pending # <<>> /\ Head(Pending) = c[1].id
             /\ QShape(a) /\ Clean(a) /\ a \in Seq(Request) /\ ClearDirty(a) = a
             /\ Ids(a) = Tail(Pending)
  <2>1. connected /\ c # <<>> /\ FirstLive(c) = 1 /\ c[1] \in Request
    BY <1>5, <1>9, ReportFacts
  <2>. HIDE DEF c
  <2>2. QShape(a) /\ Clean(a)
    BY <1>6, <2>1, AfterFacts
  <2>3. Pending # <<>> /\ Head(Pending) = c[1].id /\ Ids(a) = Tail(Pending)
    BY <1>6, <2>1, IdsFacts, IdsAfter
  <2>. HIDE DEF a
  <2>4. a \in Seq(Request) /\ ClearDirty(a) = a
    BY <2>2, ClearClean DEF QShape
  <2>. QED
    BY <2>1, <2>2, <2>3, <2>4
<1>10. ASSUME NEW cb \in BOOLEAN, NEW size \in Sizes, ReadData(cb, size)
       PROVE  Service!Next
  <2>. DEFINE r == NewRequest(issued', cb, size)
  <2>1. connected /\ issued' = issued + 1 /\ issued + 1 \in 1 .. MaxReads /\ log' = log
    BY <1>5, <1>10, BoundAssumption DEF ReadData, HistoryInv
  <2>2. r \in Request /\ ~r.dirty /\ r.wait = r.size /\ r.id = issued'
    <3>1. NewRequest(issued + 1, cb, size).id = issued + 1
      BY DEF NewRequest
    <3>. QED
      BY <2>1, <3>1, NewRequestFacts
  <2>3. \/ queue = <<>> /\ SendNext(<<r>>, event, toHost)
        \/ queue' = Append(queue, r) /\ connected' = connected
    BY <1>10 DEF ReadData
  <2>. HIDE DEF r
  <2>4. ASSUME queue' = Append(queue, r), connected' = connected PROVE Service!Next
    <3>1. ClearDirty(Append(queue, r)) = Append(c, r)
      BY <1>5, <2>2, ClearAppend
    <3>2. Ids(Append(c, r)) = Append(Ids(c), r.id)
      BY <1>6, <2>2, IdsAppend
    <3>. HIDE DEF c
    <3>3. Pending' = Append(Pending, issued')
      BY <1>6, <2>2, <2>4, <3>1, <3>2 DEF Pending
    <3>. QED
      BY <1>3, <2>1, <2>4, <3>3
  <2>5. ASSUME queue = <<>>, SendNext(<<r>>, event, toHost) PROVE Service!Next
    <3>1. <<r>> = Append(queue, r)
      BY <2>5
    <3>2. CASE queue' = <<r>> /\ connected' = connected
      BY <2>4, <3>1, <3>2
    <3>3. CASE queue' = <<>> /\ connected' = FALSE
      BY <1>1, <2>1, <3>3
    <3>. QED
      BY <2>5, <3>2, <3>3, SendNextServes
  <2>. QED
    BY <2>3, <2>4, <2>5
<1>11. ASSUME NEW o \in Outcomes, toHost # <<>>, Finished(c[1], o), issued' = issued,
              NEW q, ClearDirty(q) = a, NEW e, NEW in, SendNext(q, e, in)
       PROVE  Service!Next
  <2>1. Service!Answer(o)
    BY <1>9, <1>11 DEF Service!Answer, Finished
  <2>. HIDE DEF c, a
  <2>2. CASE queue' = q /\ connected' = connected
    <3>1. Pending' = Tail(Pending)
      BY <1>9, <1>11, <2>2 DEF Pending
    <3>. QED
      BY <1>4, <1>9, <1>11, <2>1, <2>2, <3>1
  <2>3. CASE queue' = <<>> /\ connected' = FALSE
    BY <1>1, <1>9, <1>11, <2>1, <2>3
  <2>. QED
    BY <1>11, <2>2, <2>3, SendNextServes
<1>12. CASE PollError
  <2>1. toHost # <<>>
    BY <1>12 DEF PollError
  <2>2. Finished(c[1], "error") /\ issued' = issued /\ SendNext(a, "NONE", Tail(toHost))
    BY <1>9, <1>12, <2>1 DEF PollError
  <2>3. "error" \in Outcomes
    BY DEF Outcomes
  <2>. QED
    BY <1>9, <1>11, <2>1, <2>2, <2>3
<1>13. CASE PollEvent
  <2>. DEFINE f == [c EXCEPT ![1].wait = 0, ![1].dirty = TRUE]
  <2>1. toHost # <<>>
    BY <1>13 DEF PollEvent
  <2>2. Finished(c[1], "done") /\ issued' = issued /\ SendNext(f, "READ_DATA", Tail(toHost))
    BY <1>9, <1>13, <2>1 DEF PollEvent
  <2>3. "done" \in Outcomes
    BY DEF Outcomes
  <2>4. ClearDirty(f) = a
    <3>. HIDE DEF c
    <3>. QED
      BY <1>6, <1>9, <2>1, ClearFinished
  <2>. HIDE DEF f
  <2>. QED
    BY <1>11, <2>1, <2>2, <2>3, <2>4
<1>14. CASE PollPart
  <2>1. toHost # <<>>
    BY <1>14 DEF PollPart
  <2>. DEFINE w == WaitAfter(c[1], Head(toHost).len)
              p == [c EXCEPT ![1].wait = w]
  <2>2. queue' = p /\ connected' = connected /\ issued' = issued /\ log' = log
    BY <1>9, <1>14, <2>1 DEF PollPart
  <2>3. c \in Seq(Request) /\ DOMAIN c = 1 .. Len(c) /\ Len(c) \in Nat /\ 1 \in DOMAIN c
    BY <1>6, <1>9, <2>1, EmptySeq
  <2>4. QShape(queue)'
    BY <1>5, <1>14, PartKeeps DEF QueueInv
  <2>. HIDE DEF c, w
  <2>5. p = [c EXCEPT ![1] = [c[1] EXCEPT !.wait = w]]
    BY <2>3
  <2>6. /\ DOMAIN p = DOMAIN c /\ \A i \in DOMAIN c : i # 1 => p[i] = c[i]
        /\ p[1].id = c[1].id /\ p[1].dirty = c[1].dirty
    BY <1>9, <2>1, <2>3, <2>5 DEF Request
  <2>. HIDE DEF p
  <2>7. \A i \in DOMAIN c : p[i].id = c[i].id /\ ~p[i].dirty
    BY <1>6, <2>6 DEF Clean
  <2>8. Clean(p) /\ QShape(p)
    BY <2>2, <2>4, <2>6, <2>7 DEF Clean
  <2>9. ClearDirty(p) = p
    BY <2>8, ClearClean
  <2>10. Ids(p) = Ids(c)
    BY <2>6, <2>7 DEF Ids
  <2>11. Pending' = Pending
    BY <1>6, <2>2, <2>9, <2>10 DEF Pending
  <2>. QED
    BY <1>2, <2>2, <2>11
<1>15. CASE PollCallback
  <2>1. toHost # <<>>
    BY <1>15 DEF PollCallback
  <2>2. /\ Finished(c[1], "done")
        /\ \/ SendNext(a, "NONE", Tail(toHost)) /\ issued' = issued
           \/ /\ issued < MaxReads /\ issued' = issued + 1
              /\ \E cb \in BOOLEAN, size \in Sizes :
                    SendNext(Append(a, NewRequest(issued', cb, size)), "NONE", Tail(toHost))
    BY <1>9, <1>15, <2>1 DEF PollCallback
  <2>3. "done" \in Outcomes
    BY DEF Outcomes
  <2>4. ASSUME issued < MaxReads, issued' = issued + 1,
               NEW cb \in BOOLEAN, NEW size \in Sizes,
               SendNext(Append(a, NewRequest(issued', cb, size)), "NONE", Tail(toHost))
        PROVE  Service!Next
    <3>. DEFINE r == NewRequest(issued', cb, size)
                q == Append(a, r)
    <3>1. issued + 1 \in 1 .. MaxReads
      BY <1>5, <2>4, BoundAssumption DEF HistoryInv
    <3>2. r \in Request /\ ~r.dirty /\ r.wait = r.size /\ r.id = issued'
      <4>1. NewRequest(issued + 1, cb, size).id = issued + 1
        BY DEF NewRequest
      <4>. QED
        BY <2>4, <3>1, <4>1, NewRequestFacts
    <3>3. SendNext(q, "NONE", Tail(toHost))
      BY <2>4
    <3>. HIDE DEF r
    <3>4. ClearDirty(q) = q /\ Ids(q) = Append(Tail(Pending), issued')
      <4>. HIDE DEF a
      <4>1. ClearDirty(q) = Append(ClearDirty(a), r)
        BY <1>9, <2>1, <3>2, ClearAppend
      <4>2. Ids(q) = Append(Ids(a), r.id)
        BY <1>9, <2>1, <3>2, IdsAppend
      <4>. QED
        BY <1>9, <2>1, <3>2, <4>1, <4>2
    <3>5. Service!Answer("done")
      BY <1>9, <2>1, <2>2 DEF Service!Answer, Finished
    <3>. HIDE DEF q, a, c
    <3>6. CASE queue' = q /\ connected' = connected
      <4>1. Pending' = Append(Tail(Pending), issued')
        BY <3>4, <3>6 DEF Pending
      <4>. QED
        BY <1>4, <1>9, <2>1, <2>3, <2>4, <3>5, <3>6, <4>1
    <3>7. CASE queue' = <<>> /\ connected' = FALSE
      BY <1>1, <1>9, <2>1, <2>3, <2>4, <3>5, <3>7
    <3>. QED
      BY <3>3, <3>6, <3>7, SendNextServes
  <2>5. ASSUME SendNext(a, "NONE", Tail(toHost)), issued' = issued PROVE Service!Next
    BY <1>9, <1>11, <2>1, <2>2, <2>3, <2>5
  <2>. QED
    BY <2>2, <2>4, <2>5
<1>16. CASE Connect
  BY <1>16 DEF Connect, Pending, Service!Next, Service!Connect
<1>17. CASE CommandFails \/ PollClosed
  BY <1>1, <1>17 DEF CommandFails, PollClosed, Disconnected, DisconnectedLeaving
<1>18. CASE PollIdle
  BY <1>7, <1>8, <1>18 DEF PollIdle
<1>19. CASE PollOther \/ PollFails
  BY <1>7, <1>8, <1>19 DEF PollOther, PollFails
<1>20. CASE Remote \/ LinkLost
  BY <1>7, <1>20 DEF Remote, RemoteData, RemoteError, LinkLost
<1>. QED
  BY <1>10, <1>12, <1>13, <1>14, <1>15, <1>16, <1>17, <1>18, <1>19, <1>20
     DEF Next, Application, Poll, PollReport

\* ImplementsService: for an application whose callbacks send no commands,
\* the reads are answered in the order they were issued, each at most once,
\* and dropped with the connection, whatever the packets do.  (Unlike the
\* run, the theorem allows reads while a finished request is queued.)
THEOREM QueueImplementsService ==
  ASSUME ~CallbackCommands
  PROVE  Spec => ImplementsService
<1>1. Init => Service!Init
  BY DEF Init, Service!Init, Pending, Ids, ClearDirty, Live
<1>2. IInv /\ [Next]_vars => [Service!Next]_(Service!vars)
  <2>1. ASSUME UNCHANGED vars PROVE UNCHANGED Service!vars
    BY <2>1 DEF vars, Service!vars, Pending
  <2>. QED
    BY <2>1, StepServes
<1>. QED
  BY <1>1, <1>2, Invariance, PTL DEF Spec, ImplementsService, Service!Spec
=============================================================================
