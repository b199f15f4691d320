---------------------------- MODULE SyncReads_proofs ----------------------------
(***************************************************************************)
(* Proofs about SyncReads, for any number of reads of both kinds, any      *)
(* lengths, any packet size and any width of the counter.                  *)
(***************************************************************************)
EXTENDS SyncReads, ReadQueue_proofs

\* Whatever is on the wire.
AnyCommand == [id : Int, size : Int, sent : Int]
AnyReport  == [id : Int, err : BOOLEAN, off : Int, len : Int]

SyncType ==
    /\ sync \in [on : BOOLEAN, id : Int, size : Int, full : Nat, last : BOOLEAN,
                 got : Seq(AnyReport)]
    /\ quiet \in BOOLEAN

\* What holds of the queue and the link even while blocking and asynchronous
\* reads mix.
Mixed ==
    /\ connected \in BOOLEAN
    /\ linkUp \in BOOLEAN
    /\ event \in Events
    /\ QShape(queue)
    /\ EventMeansBuffer
    /\ toDev \in Seq(AnyCommand) /\ toHost \in Seq(AnyReport)
    /\ toDev # <<>> => linkUp
    /\ ~connected => event # "READ_DATA" /\ toDev = <<>> /\ toHost = <<>>
    /\ HistoryInv

\* Report number k + 1 of the blocking read s.
Piece(r, s, k) == r.id = s.id /\ r.off = k * Chunk

\* The blocking read s has all the wire for itself: what it has got, the
\* reports host and the command dev are its answer, in order and without holes.
OwnWire(s, dev, host) ==
    /\ s.size \in Nat \ {0}
    /\ Len(s.got) + s.full + (IF s.last = TRUE THEN 1 ELSE 0) = Parts(s.size)
    /\ \A i \in DOMAIN s.got : Piece(s.got[i], s, i - 1)
    /\ \A i \in DOMAIN host : Piece(host[i], s, Len(s.got) + i - 1)
    /\ Len(s.got) + Len(host) <= Parts(s.size)
    /\ Len(dev) <= 1
    /\ \A i \in DOMAIN dev : /\ dev[i].id = s.id /\ dev[i].size = s.size
                             /\ dev[i].sent = (Len(s.got) + Len(host)) * Chunk
                             /\ dev[i].sent < s.size

SyncInv ==
    /\ SyncType
    /\ Mixed
    /\ sync.on = TRUE => sync.full > 0 \/ sync.last = TRUE
    /\ quiet = TRUE /\ sync.on = FALSE => QueueInv
    /\ quiet = TRUE /\ sync.on = TRUE => OwnWire(sync, toDev, toHost)

-----------------------------------------------------------------------------
(* The list, while reads mix                                               *)

\* A list without finished requests, whose first one is replaced by h.
LEMMA HeadShape ==
  ASSUME NEW c, QShape(c), Clean(c), c # <<>>,
         NEW h \in Request, h.dirty => h.wait = 0, ~h.dirty => h.wait \in 1 .. h.size,
         NEW f, f = [c EXCEPT ![1] = h]
  PROVE  QShape(f) /\ f # <<>> /\ f[1] = h
<1>1. c \in Seq(Request) /\ DOMAIN c = 1 .. Len(c) /\ 1 \in DOMAIN c /\ Len(c) \in Nat
  BY DEF QShape
<1>2. /\ f \in Seq(Request) /\ DOMAIN f = 1 .. Len(c) /\ f # <<>> /\ f[1] = h
      /\ \A i \in 1 .. Len(c) : i # 1 => f[i] = c[i]
  BY <1>1
<1>3. \A i \in 1 .. Len(c) : i # 1 => /\ ~f[i].dirty /\ f[i].wait = f[i].size
                                      /\ f[i].wait \in 1 .. f[i].size
  BY <1>1, <1>2 DEF QShape, Clean
<1>4. IF f[1].dirty THEN f[1].wait = 0 ELSE f[1].wait \in 1 .. f[1].size
  BY <1>2
<1> QED
  BY <1>2, <1>3, <1>4 DEF QShape

LEMMA ClearedFacts ==
  ASSUME Mixed, NEW c, c = ClearDirty(queue)
  PROVE  /\ QShape(c) /\ Clean(c) /\ ~(c # <<>> /\ c[1].dirty)
         /\ Live(c) # {} => c # <<>> /\ FirstLive(c) = 1 /\ c[1] \in Request
<1>1. QShape(c) /\ Clean(c)
  BY ClearDirtyFacts DEF Mixed
<1>2. Live(c) # {} => c # <<>> /\ FirstLive(c) = 1
  BY <1>1, CleanFacts
<1>3. c # <<>> => 1 \in DOMAIN c /\ c[1] \in Request
  BY <1>1 DEF QShape
<1> QED
  BY <1>1, <1>2, <1>3 DEF Clean

\* Steps that leave the connection alone.
LEMMA MixedQueue ==
  ASSUME Mixed, connected, NEW q, QShape(q),
         NEW e \in Events, e = "READ_DATA" => q # <<>> /\ q[1].dirty,
         queue' = q, event' = e, UNCHANGED <<connected, linkUp>>,
         toDev' \in Seq(AnyCommand), toDev' # <<>> => linkUp,
         toHost' \in Seq(AnyReport), HistoryInv'
  PROVE  Mixed'
<1>1. EventMeansBuffer'
  BY DEF EventMeansBuffer, QShape
<1>2. QShape(queue)'
  BY DEF QShape
<1> QED
  BY <1>1, <1>2 DEF Mixed

LEMMA MixedLeaving ==
  ASSUME Mixed, NEW q, QShape(q), ~(q # <<>> /\ q[1].dirty), DisconnectedLeaving(q), HistoryInv'
  PROVE  Mixed'
<1>1. /\ connected' = FALSE /\ event' = "DISCONNECT" /\ queue' = q
      /\ toDev' = <<>> /\ toHost' = <<>> /\ linkUp' = linkUp
  BY DEF DisconnectedLeaving
<1>2. EventMeansBuffer'
  BY <1>1 DEF EventMeansBuffer, QShape
<1>3. QShape(queue)'
  BY <1>1 DEF QShape
<1>4. connected' \in BOOLEAN /\ linkUp' \in BOOLEAN
  BY <1>1 DEF Mixed
<1>5. event' \in Events /\ event' # "READ_DATA"
  BY <1>1 DEF Events
<1>6. toDev' \in Seq(AnyCommand) /\ toHost' \in Seq(AnyReport)
  BY <1>1
<1> QED
  BY <1>1, <1>2, <1>3, <1>4, <1>5, <1>6 DEF Mixed

LEMMA MixedLost ==
  ASSUME Mixed, Disconnected, HistoryInv'
  PROVE  Mixed'
<1>1. QShape(<<>>)
  BY DEF QShape
<1> QED
  BY <1>1, MixedLeaving DEF Disconnected

LEMMA MixedSend ==
  ASSUME Mixed, connected, NEW q, QShape(q),
         NEW e \in Events, e = "READ_DATA" => q # <<>> /\ q[1].dirty,
         NEW in \in Seq(AnyReport), SendNext(q, e, in), HistoryInv'
  PROVE  Mixed'
<1>1. CASE Disconnected
  BY <1>1, MixedLost
<1>2. CASE /\ Live(q) = {} /\ queue' = q /\ event' = e /\ toHost' = in
           /\ UNCHANGED <<connected, linkUp, toDev>>
  <2>1. toDev' \in Seq(AnyCommand) /\ (toDev' # <<>> => linkUp)
    BY <1>2 DEF Mixed
  <2> QED
    BY <1>2, <2>1, MixedQueue
<1>3. CASE /\ Live(q) # {} /\ linkUp /\ queue' = q /\ event' = e /\ toHost' = in
           /\ toDev' = Append(toDev, CommandFor(q[FirstLive(q)]))
           /\ UNCHANGED <<connected, linkUp>>
  <2> DEFINE cmd == CommandFor(q[FirstLive(q)])
  <2>1. q[FirstLive(q)] \in Request
    <3>1. FirstLive(q) \in Live(q)
      BY <1>3, FirstLiveIsLive
    <3>2. FirstLive(q) \in DOMAIN q
      BY <3>1 DEF Live
    <3> HIDE DEF cmd
    <3> QED
      BY <3>2 DEF QShape
  <2>2. cmd \in Command
    BY <2>1, CommandIsTyped
  <2>3. cmd \in AnyCommand
    <3>1. Sizes \subseteq Int /\ 0 .. Width - 1 \subseteq Int /\ 1 .. MaxReads \subseteq Int
      BY SizeAssumption, BoundAssumption
    <3> HIDE DEF cmd
    <3> QED
      BY <2>2, <3>1 DEF Command, AnyCommand
  <2> HIDE DEF cmd
  <2>4. toDev' \in Seq(AnyCommand)
    BY <1>3, <2>3 DEF Mixed, cmd
  <2> QED
    BY <1>3, <2>4, MixedQueue
<1> QED
  BY <1>1, <1>2, <1>3 DEF SendNext

\* A report of any length, for any request.
LEMMA MixedReport ==
  ASSUME Mixed, toHost # <<>>, NEW r, r = Head(toHost)
  PROVE  /\ connected /\ r \in AnyReport /\ Tail(toHost) \in Seq(AnyReport)
         /\ \A h \in Request : /\ WaitAfter(h, r.len) \in 0 .. Width - 1
                               /\ WaitAfter(h, r.len) # 0 => WaitAfter(h, r.len) \in 1 .. h.size
<1>1. connected /\ r \in AnyReport /\ Tail(toHost) \in Seq(AnyReport)
  BY EmptySeq, HeadTailProperties DEF Mixed
<1>2. ASSUME NEW h \in Request
      PROVE  /\ WaitAfter(h, r.len) \in 0 .. Width - 1
             /\ WaitAfter(h, r.len) # 0 => WaitAfter(h, r.len) \in 1 .. h.size
  <2> DEFINE n == r.len
             a == h.wait
             s == h.size
             w == (a - n) % Width
  <2>1. n \in Int /\ a \in Int /\ s \in Int /\ Width \in Nat \ {0}
    <3>1. n \in Int
      BY <1>1 DEF AnyReport
    <3>2. a \in 0 .. Width - 1 /\ s \in Sizes
      BY DEF Request
    <3>3. s \in 1 .. Width - 1 /\ Width \in Nat \ {0}
      BY <3>2, SizeIsPositive
    <3> HIDE DEF n, a, s
    <3> QED
      BY <3>1, <3>2, <3>3
  <2>2. WaitAfter(h, n) = IF w >= s THEN 0 ELSE w
    BY DEF WaitAfter
  <2> HIDE DEF n, a, s
  <2>3. w \in 0 .. Width - 1
    BY <2>1
  <2> HIDE DEF w
  <2>4. /\ WaitAfter(h, n) \in 0 .. Width - 1
        /\ WaitAfter(h, n) # 0 => WaitAfter(h, n) \in 1 .. s
    BY <2>1, <2>2, <2>3
  <2> QED
    BY <2>4 DEF n, s
<1> QED
  BY <1>1, <1>2

-----------------------------------------------------------------------------
(* Every step keeps what holds of mixed reads                              *)

\* A poll that fails, or finds the remote disconnected.
LEMMA MixedStays ==
  ASSUME Mixed, event' = "NONE", HistoryInv',
         UNCHANGED <<connected, queue, linkUp, toDev, toHost>>
  PROVE  Mixed'
<1>1. EventMeansBuffer'
  BY DEF EventMeansBuffer, Mixed
<1>2. QShape(queue)' /\ event' \in Events
  BY DEF Mixed, Events
<1> QED
  BY <1>1, <1>2 DEF Mixed

LEMMA MixedPolled ==
  ASSUME Mixed, PollIdle \/ PollFails \/ PollOther \/ PollClosed
  PROVE  Mixed'
<1> DEFINE c == ClearDirty(queue)
<1>1. QShape(c) /\ ~(c # <<>> /\ c[1].dirty)
  BY ClearedFacts
<1>2. HistoryInv'
  BY HistoryKept DEF Mixed, PollIdle, PollFails, PollOther, PollClosed
<1>3. ASSUME connected, event' \in {"NONE", "OTHER"}, queue' = c,
             UNCHANGED <<connected, linkUp, toDev, toHost>>
      PROVE  Mixed'
  <2>1. /\ toDev' \in Seq(AnyCommand) /\ toHost' \in Seq(AnyReport)
        /\ toDev' # <<>> => linkUp
    BY <1>3 DEF Mixed
  <2>2. event' \in Events /\ event' # "READ_DATA"
    BY <1>3 DEF Events
  <2> HIDE DEF c
  <2> QED
    BY <1>1, <1>2, <1>3, <2>1, <2>2, MixedQueue
<1>4. CASE PollIdle
  <2>1. CASE connected
    BY <1>3, <1>4, <2>1 DEF PollIdle
  <2>2. CASE ~connected
    BY <1>2, <1>4, <2>2, MixedStays DEF PollIdle
  <2> QED
    BY <2>1, <2>2
<1>5. CASE PollOther
  BY <1>3, <1>5 DEF PollOther
<1>6. CASE PollClosed
  BY <1>2, <1>6, MixedLost DEF PollClosed
<1>7. CASE PollFails
  BY <1>2, <1>7, MixedStays DEF PollFails
<1> QED
  BY <1>4, <1>5, <1>6, <1>7

LEMMA MixedError ==
  ASSUME Mixed, PollError
  PROVE  Mixed'
<1> DEFINE c == ClearDirty(queue)
           a == After(c, 1)
<1>1. QShape(c) /\ Clean(c) /\ c # <<>> /\ FirstLive(c) = 1 /\ c[1] \in Request
  BY ClearedFacts DEF PollError
<1>2. connected /\ Tail(toHost) \in Seq(AnyReport)
  BY MixedReport DEF PollError
<1>3. SendNext(a, "NONE", Tail(toHost)) /\ Finished(c[1], "error") /\ issued' = issued
  BY <1>1 DEF PollError
<1> HIDE DEF c
<1>4. QShape(a) /\ Clean(a)
  BY <1>1, AfterFacts
<1> HIDE DEF a
<1>5. "NONE" \in Events /\ ("NONE" = "READ_DATA" => a # <<>> /\ a[1].dirty)
  BY <1>4 DEF Events, Clean, QShape
<1>6. HistoryInv'
  <2>1. "error" \in Outcomes /\ issued' \in 0 .. MaxReads /\ HistoryInv
    BY <1>3 DEF Outcomes, Mixed, HistoryInv
  <2> QED
    BY <1>1, <1>3, <2>1, FinishedKeeps
<1> QED
  BY <1>2, <1>3, <1>4, <1>5, <1>6, MixedSend

LEMMA MixedPart ==
  ASSUME Mixed, PollPart
  PROVE  Mixed'
<1> DEFINE c == ClearDirty(queue)
           w == WaitAfter(c[1], Head(toHost).len)
           h == [c[1] EXCEPT !.wait = w]
           f == [c EXCEPT ![1] = h]
<1>1. QShape(c) /\ Clean(c) /\ c # <<>> /\ FirstLive(c) = 1 /\ c[1] \in Request
  BY ClearedFacts DEF PollPart
<1>2. /\ connected /\ Tail(toHost) \in Seq(AnyReport)
      /\ w \in 0 .. Width - 1 /\ (w # 0 => w \in 1 .. c[1].size)
  BY <1>1, MixedReport DEF PollPart
<1>3. /\ w # 0 /\ queue' = [c EXCEPT ![1].wait = w] /\ event' = "NONE"
      /\ toHost' = Tail(toHost) /\ UNCHANGED <<connected, linkUp, toDev, issued, log>>
  BY <1>1 DEF PollPart
<1> HIDE DEF c, w
<1>4. c \in Seq(Request) /\ 1 \in DOMAIN c /\ ~c[1].dirty
  BY <1>1 DEF QShape, Clean
<1>5. queue' = f
  BY <1>3, <1>4
<1>6. h \in Request /\ h.wait = w /\ h.size = c[1].size /\ h.dirty = c[1].dirty
  BY <1>1, <1>2 DEF Request
<1> HIDE DEF h
<1>7. QShape(f) /\ f # <<>> /\ f[1] = h
  BY <1>1, <1>2, <1>3, <1>4, <1>6, HeadShape
<1> HIDE DEF f
<1>8. "NONE" \in Events /\ ("NONE" = "READ_DATA" => f # <<>> /\ f[1].dirty)
  BY <1>4, <1>6, <1>7 DEF Events
<1>9. /\ toDev' \in Seq(AnyCommand) /\ (toDev' # <<>> => linkUp)
      /\ toHost' \in Seq(AnyReport) /\ HistoryInv'
  BY <1>2, <1>3, HistoryKept DEF Mixed
<1> QED
  BY <1>2, <1>3, <1>5, <1>7, <1>8, <1>9, MixedQueue

LEMMA MixedEvent ==
  ASSUME Mixed, PollEvent
  PROVE  Mixed'
<1> DEFINE c == ClearDirty(queue)
           h == [c[1] EXCEPT !.wait = 0, !.dirty = TRUE]
           f == [c EXCEPT ![1] = h]
<1>1. QShape(c) /\ Clean(c) /\ c # <<>> /\ FirstLive(c) = 1 /\ c[1] \in Request
  BY ClearedFacts DEF PollEvent
<1>2. connected /\ Tail(toHost) \in Seq(AnyReport)
  BY MixedReport DEF PollEvent
<1>3. /\ SendNext([c EXCEPT ![1].wait = 0, ![1].dirty = TRUE], "READ_DATA", Tail(toHost))
      /\ Finished(c[1], "done") /\ issued' = issued
  BY <1>1 DEF PollEvent
<1> HIDE DEF c
<1>4. c \in Seq(Request) /\ 1 \in DOMAIN c
  BY <1>1 DEF QShape
<1>5. [c EXCEPT ![1].wait = 0, ![1].dirty = TRUE] = f
  BY <1>4
<1>6. h \in Request /\ h.wait = 0 /\ h.dirty
  <2>1. 0 \in 0 .. Width - 1
    BY SizeAssumption
  <2> QED
    BY <1>1, <2>1 DEF Request
<1>7. SendNext(f, "READ_DATA", Tail(toHost))
  BY <1>3, <1>5
<1> HIDE DEF h
<1>8. QShape(f) /\ f # <<>> /\ f[1] = h
  <2>1. (h.dirty => h.wait = 0) /\ (~h.dirty => h.wait \in 1 .. h.size)
    BY <1>6
  <2>2. f = [c EXCEPT ![1] = h]
    OBVIOUS
  <2> HIDE DEF f
  <2>3. c # <<>> /\ QShape(c) /\ Clean(c) /\ h \in Request
    BY <1>1, <1>6
  <2> QED
    BY <2>1, <2>2, <2>3, HeadShape, Zenon
<1> HIDE DEF f
<1>9. "READ_DATA" \in Events /\ ("READ_DATA" = "READ_DATA" => f # <<>> /\ f[1].dirty)
  BY <1>6, <1>8 DEF Events
<1>10. HistoryInv'
  <2>1. "done" \in Outcomes /\ issued' \in 0 .. MaxReads /\ HistoryInv
    BY <1>3 DEF Outcomes, Mixed, HistoryInv
  <2> QED
    BY <1>1, <1>3, <2>1, FinishedKeeps
<1> QED
  BY <1>2, <1>7, <1>8, <1>9, <1>10, MixedSend

LEMMA MixedCallback ==
  ASSUME Mixed, PollCallback
  PROVE  Mixed'
<1> DEFINE c == ClearDirty(queue)
           a == After(c, 1)
           n == issued + 1
<1>1. QShape(c) /\ Clean(c) /\ c # <<>> /\ FirstLive(c) = 1 /\ c[1] \in Request
  BY ClearedFacts DEF PollCallback
<1>2. connected /\ Tail(toHost) \in Seq(AnyReport)
  BY MixedReport DEF PollCallback
<1>3. /\ Finished(c[1], "done")
      /\ \/ SendNext(a, "NONE", Tail(toHost)) /\ issued' = issued
         \/ /\ issued < MaxReads /\ issued' = n
            /\ \E cb \in BOOLEAN, size \in Sizes :
                  SendNext(Append(a, NewRequest(n, cb, size)), "NONE", Tail(toHost))
         \/ DisconnectedLeaving(a) /\ issued' = issued
  BY <1>1 DEF PollCallback
<1> HIDE DEF c
<1>4. QShape(a) /\ Clean(a) /\ ~(a # <<>> /\ a[1].dirty)
  <2>1. QShape(a) /\ Clean(a)
    BY <1>1, AfterFacts
  <2> HIDE DEF a
  <2> QED
    BY <2>1 DEF QShape, Clean
<1> HIDE DEF a
<1>5. "NONE" \in Events /\ issued \in 0 .. MaxReads /\ HistoryInv
  BY DEF Events, Mixed, HistoryInv
<1>6. issued' \in 0 .. MaxReads
  BY <1>3, <1>5, BoundAssumption
<1>7. HistoryInv'
  <2>1. "done" \in Outcomes
    BY DEF Outcomes
  <2> QED
    BY <1>1, <1>3, <1>5, <1>6, <2>1, FinishedKeeps
<1>8. CASE SendNext(a, "NONE", Tail(toHost))
  BY <1>2, <1>4, <1>5, <1>7, <1>8, MixedSend
<1>9. CASE DisconnectedLeaving(a)
  BY <1>4, <1>7, <1>9, MixedLeaving
<1>10. ASSUME issued' = n, NEW cb \in BOOLEAN, NEW size \in Sizes,
              SendNext(Append(a, NewRequest(n, cb, size)), "NONE", Tail(toHost))
       PROVE  Mixed'
  <2> DEFINE r == NewRequest(n, cb, size)
             q == Append(a, r)
  <2>1. n \in 1 .. MaxReads
    BY <1>5, <1>6, <1>10, BoundAssumption
  <2>2. r \in Request /\ ~r.dirty /\ r.wait = r.size
    BY <2>1, NewRequestFacts
  <2>3. SendNext(q, "NONE", Tail(toHost))
    BY <1>10
  <2> HIDE DEF r
  <2>4. QShape(q)
    BY <1>4, <2>2, AppendFacts
  <2>5. ~q[1].dirty
    <3>1. a \in Seq(Request) /\ (a # <<>> => 1 \in DOMAIN a /\ ~a[1].dirty)
      BY <1>4 DEF QShape
    <3> QED
      BY <2>2, <3>1
  <2> HIDE DEF q
  <2>6. "NONE" = "READ_DATA" => q # <<>> /\ q[1].dirty
    BY <2>5
  <2> QED
    BY <1>2, <1>5, <1>7, <2>3, <2>4, <2>6, MixedSend
<1> QED
  BY <1>3, <1>8, <1>9, <1>10

LEMMA MixedReadData ==
  ASSUME Mixed, NEW cb \in BOOLEAN, NEW size \in Sizes, ReadData(cb, size)
  PROVE  Mixed'
<1> DEFINE r == NewRequest(issued + 1, cb, size)
<1>1. issued + 1 \in 1 .. MaxReads /\ issued' = issued + 1 /\ connected /\ HistoryInv
  BY BoundAssumption DEF ReadData, Mixed, HistoryInv
<1>2. r \in Request /\ ~r.dirty /\ r.wait = r.size
  BY <1>1, NewRequestFacts
<1>3. \/ queue = <<>> /\ SendNext(<<r>>, event, toHost)
      \/ /\ queue # <<>> /\ queue' = Append(queue, r)
         /\ UNCHANGED <<connected, event, linkUp, toDev, toHost>>
  BY <1>1 DEF ReadData
<1>4. HistoryInv'
  BY <1>1 DEF ReadData, HistoryInv
<1> HIDE DEF r
<1>5. event \in Events /\ (event = "READ_DATA" => queue # <<>> /\ queue[1].dirty)
  BY DEF Mixed, EventMeansBuffer
<1>6. QShape(queue) /\ toHost \in Seq(AnyReport) /\ toDev \in Seq(AnyCommand)
  BY DEF Mixed
<1>7. CASE queue = <<>> /\ SendNext(<<r>>, event, toHost)
  <2>1. <<r>> = Append(<<>>, r) /\ <<r>>[1] = r
    OBVIOUS
  <2>2. QShape(<<>>)
    BY DEF QShape
  <2>3. QShape(Append(<<>>, r))
    BY <1>2, <2>2, AppendFacts
  <2>4. QShape(<<r>>)
    BY <2>1, <2>3
  <2>5. event = "READ_DATA" => <<r>> # <<>> /\ <<r>>[1].dirty
    BY <1>2, <1>5, <1>7, <2>1
  <2> QED
    BY <1>1, <1>4, <1>5, <1>6, <1>7, <2>4, <2>5, MixedSend
<1>8. CASE /\ queue # <<>> /\ queue' = Append(queue, r)
           /\ UNCHANGED <<connected, event, linkUp, toDev, toHost>>
  <2> DEFINE q == Append(queue, r)
  <2>1. QShape(q) /\ q # <<>>
    BY <1>2, <1>6, AppendFacts
  <2>2. q[1] = queue[1]
    BY <1>6, <1>8 DEF QShape
  <2>3. queue' = q
    BY <1>8
  <2> HIDE DEF q
  <2>4. event = "READ_DATA" => q # <<>> /\ q[1].dirty
    BY <1>5, <1>8, <2>1, <2>2
  <2>5. toDev' \in Seq(AnyCommand) /\ (toDev' # <<>> => linkUp) /\ toHost' \in Seq(AnyReport)
    BY <1>6, <1>8 DEF Mixed
  <2> QED
    BY <1>1, <1>4, <1>5, <1>8, <2>1, <2>3, <2>4, <2>5, MixedQueue
<1> QED
  BY <1>3, <1>7, <1>8

LEMMA MixedRemote ==
  ASSUME Mixed, Remote
  PROVE  Mixed'
<1>1. /\ linkUp /\ toDev # <<>> /\ connected /\ HistoryInv'
      /\ UNCHANGED <<connected, queue, event, linkUp>>
  BY HistoryKept DEF Remote, RemoteData, RemoteError, Mixed
<1>2. /\ toDev \in Seq(AnyCommand) /\ toHost \in Seq(AnyReport) /\ 1 \in DOMAIN toDev
      /\ toDev[1] \in AnyCommand /\ Head(toDev) = toDev[1]
      /\ Tail(toDev) \in Seq(AnyCommand)
  BY <1>1 DEF Mixed
<1>3. toDev[1].id \in Int /\ toDev[1].size \in Int /\ toDev[1].sent \in Int
  BY <1>2 DEF AnyCommand
<1>4. toHost' \in Seq(AnyReport) /\ toDev' \in Seq(AnyCommand)
  <2>1. CASE RemoteError
    <3> DEFINE r == [id |-> toDev[1].id, err |-> TRUE, off |-> toDev[1].sent, len |-> 1]
    <3>1. toHost' = Append(toHost, r) /\ toDev' = Tail(toDev)
      BY <1>2, <2>1 DEF RemoteError
    <3>2. r \in AnyReport
      BY <1>3 DEF AnyReport
    <3> HIDE DEF r
    <3> QED
      BY <1>2, <3>1, <3>2
  <2>2. CASE RemoteData
    <3> DEFINE c == toDev[1]
               n == IF c.size - c.sent < Chunk THEN c.size - c.sent ELSE Chunk
               r == [id |-> c.id, err |-> FALSE, off |-> c.sent, len |-> n]
               d == [c EXCEPT !.sent = c.sent + n]
    <3>1. /\ toHost' = Append(toHost, r)
          /\ toDev' = IF c.sent + n = c.size THEN Tail(toDev)
                      ELSE [toDev EXCEPT ![1].sent = c.sent + n]
      BY <1>2, <2>2 DEF RemoteData
    <3>2. n \in Int
      BY <1>3, SizeAssumption
    <3> HIDE DEF n
    <3>3. c.sent + n \in Int
      BY <1>3, <3>2
    <3>4. r \in AnyReport
      BY <1>3, <3>2 DEF AnyReport
    <3>5. d \in AnyCommand
      BY <1>2, <3>3 DEF AnyCommand
    <3>6. [toDev EXCEPT ![1].sent = c.sent + n] = [toDev EXCEPT ![1] = d]
      OBVIOUS
    <3> HIDE DEF d
    <3>7. [toDev EXCEPT ![1] = d] \in Seq(AnyCommand)
      BY <1>2, <3>5
    <3> HIDE DEF r, c
    <3>8. toHost' \in Seq(AnyReport)
      BY <1>2, <3>1, <3>4
    <3> QED
      BY <1>2, <3>1, <3>6, <3>7, <3>8
  <2> QED
    BY <2>1, <2>2 DEF Remote
<1>5. QShape(queue) /\ event \in Events /\ (event = "READ_DATA" => queue # <<>> /\ queue[1].dirty)
  BY DEF Mixed, EventMeansBuffer
<1> QED
  BY <1>1, <1>4, <1>5, MixedQueue

LEMMA MixedLinkLost ==
  ASSUME Mixed, LinkLost
  PROVE  Mixed'
<1>1. /\ connected /\ linkUp' = FALSE /\ toDev' = <<>> /\ HistoryInv'
      /\ UNCHANGED <<connected, queue, event>>
  BY HistoryKept DEF LinkLost, Mixed
<1>2. toHost' \in Seq(AnyReport)
  <2>1. PICK n \in 0 .. Len(toHost) : toHost' = SubSeq(toHost, 1, n)
    BY DEF LinkLost
  <2>2. toHost \in Seq(AnyReport) /\ Len(toHost) \in Nat
    BY DEF Mixed
  <2>3. \A i \in 1 .. n : toHost[i] \in AnyReport
    BY <2>2
  <2> QED
    BY <2>1, <2>2, <2>3, SubSeqProperties
<1>3. toDev' \in Seq(AnyCommand)
  BY <1>1
<1>4. QShape(queue)' /\ EventMeansBuffer' /\ event' \in Events
  BY <1>1 DEF Mixed, EventMeansBuffer
<1> QED
  BY <1>1, <1>2, <1>3, <1>4 DEF Mixed

LEMMA MixedConnect ==
  ASSUME Mixed, Connect
  PROVE  Mixed' /\ QueueInv'
<1>1. /\ toDev = <<>> /\ toHost = <<>> /\ connected' = TRUE /\ linkUp' = TRUE
      /\ event' = "OTHER" /\ UNCHANGED <<queue, toDev, toHost>>
  BY DEF Connect, Mixed
<1>2. HistoryInv'
  BY HistoryKept DEF Connect, Mixed
<1>3. EventMeansBuffer'
  BY <1>1 DEF EventMeansBuffer, Mixed
<1>4. QShape(queue)' /\ event' \in Events
  BY <1>1 DEF Mixed, Events
<1>5. /\ toDev' \in Seq(AnyCommand) /\ toHost' \in Seq(AnyReport)
      /\ toDev' \in Seq(Command) /\ toHost' \in Seq(Report)
  BY <1>1
<1>6. Flight'
  BY <1>1 DEF Flight, InFlight
<1> QED
  BY <1>1, <1>2, <1>3, <1>4, <1>5, <1>6 DEF Mixed, QueueInv

LEMMA MixedStart ==
  ASSUME Mixed, SyncType, NEW size \in SyncSizes, SyncStart(size)
  PROVE  Mixed'
<1>1. connected /\ HistoryInv'
  BY HistoryKept DEF SyncStart, Mixed
<1>2. CASE Disconnected
  BY <1>1, <1>2, MixedLost
<1>3. CASE /\ linkUp
           /\ toDev' = Append(toDev, [id |-> sync'.id, size |-> size, sent |-> 0])
           /\ UNCHANGED <<connected, queue, event, linkUp, toHost>>
  <2> DEFINE d == [id |-> sync'.id, size |-> size, sent |-> 0]
  <2>1. sync'.id = sync.id - 1
    BY DEF SyncStart, SyncCall
  <2>2. sync.id \in Int
    BY DEF SyncType
  <2>3. size \in Int
    BY SyncAssumption, SizeAssumption
  <2>4. d \in AnyCommand
    BY <2>1, <2>2, <2>3 DEF AnyCommand
  <2> HIDE DEF d
  <2>5. toDev' \in Seq(AnyCommand) /\ toHost' \in Seq(AnyReport)
    BY <1>3, <2>4 DEF Mixed, d
  <2>6. QShape(queue) /\ event \in Events /\ (event = "READ_DATA" => queue # <<>> /\ queue[1].dirty)
    BY DEF Mixed, EventMeansBuffer
  <2> QED
    BY <1>1, <1>3, <2>5, <2>6, MixedQueue
<1> QED
  BY <1>2, <1>3 DEF SyncStart

\* A report taken off the link, by a poll or by a blocking read.
LEMMA MixedTaken ==
  ASSUME Mixed, connected, toHost # <<>>, NEW q, QShape(q),
         NEW e \in Events, e = "READ_DATA" => q # <<>> /\ q[1].dirty,
         queue' = q, event' = e, toHost' = Tail(toHost),
         UNCHANGED <<connected, linkUp, toDev, issued, log>>
  PROVE  Mixed'
<1>1. toHost' \in Seq(AnyReport)
  BY MixedReport
<1>2. toDev' \in Seq(AnyCommand) /\ (toDev' # <<>> => linkUp) /\ HistoryInv'
  BY HistoryKept DEF Mixed
<1> QED
  BY <1>1, <1>2, MixedQueue

LEMMA MixedUnasked ==
  ASSUME Mixed, PollUnasked
  PROVE  Mixed'
<1> DEFINE c == ClearDirty(queue)
<1>1. QShape(c) /\ ~(c # <<>> /\ c[1].dirty)
  BY ClearedFacts
<1>2. /\ connected /\ toHost # <<>> /\ queue' = c /\ event' = "NONE"
      /\ toHost' = Tail(toHost) /\ UNCHANGED <<connected, linkUp, toDev, issued, log>>
  BY DEF PollUnasked
<1> HIDE DEF c
<1>3. "NONE" \in Events /\ ("NONE" = "READ_DATA" => c # <<>> /\ c[1].dirty)
  BY <1>1 DEF Events
<1> QED
  BY <1>1, <1>2, <1>3, MixedTaken

LEMMA MixedTake ==
  ASSUME Mixed, SyncTake
  PROVE  Mixed'
<1>1. QShape(queue) /\ event \in Events /\ (event = "READ_DATA" => queue # <<>> /\ queue[1].dirty)
  BY DEF Mixed, EventMeansBuffer
<1>2. /\ connected /\ toHost # <<>> /\ toHost' = Tail(toHost) /\ queue' = queue /\ event' = event
      /\ UNCHANGED <<connected, linkUp, toDev, issued, log>>
  BY DEF SyncTake
<1> QED
  BY <1>1, <1>2, MixedTaken

LEMMA MixedStatusWait ==
  ASSUME Mixed, StatusWait
  PROVE  Mixed'
<1>1. /\ connected /\ event' = "OTHER" /\ HistoryInv'
      /\ UNCHANGED <<connected, queue, linkUp, toDev>>
  BY HistoryKept DEF StatusWait, Mixed
<1>2. QShape(queue) /\ toDev \in Seq(AnyCommand) /\ toHost \in Seq(AnyReport)
  BY DEF Mixed
<1>3. toHost' \in Seq(AnyReport)
  <2>1. PICK n \in 0 .. Len(toHost) : toHost' = SubSeq(toHost, n + 1, Len(toHost))
    BY DEF StatusWait
  <2>2. \A i \in n + 1 .. Len(toHost) : toHost[i] \in AnyReport
    BY <1>2
  <2> QED
    BY <1>2, <2>1, <2>2, SubSeqProperties
<1>4. "OTHER" \in Events /\ "OTHER" # "READ_DATA"
  BY DEF Events
<1>5. toDev' \in Seq(AnyCommand) /\ (toDev' # <<>> => linkUp)
  BY <1>1, <1>2 DEF Mixed
<1> QED
  BY <1>1, <1>2, <1>3, <1>4, <1>5, MixedQueue

\* While it stays quiet, a wait for a status report drops no read report.
LEMMA StatusWaitQuiet ==
  ASSUME StatusWait, SyncType
  PROVE  /\ quiet' \in BOOLEAN
         /\ quiet' = TRUE => quiet = TRUE
<1>1. PICK n \in 0 .. Len(toHost) : quiet' = (quiet /\ n = 0)
  BY DEF StatusWait
<1>2. CASE quiet = TRUE
  BY <1>1, <1>2
<1>3. CASE quiet = FALSE
  BY <1>1, <1>3
<1> QED
  BY <1>2, <1>3 DEF SyncType

LEMMA StatusWaitKeepsReports ==
  ASSUME StatusWait, SyncType, Mixed, quiet' = TRUE
  PROVE  toHost' = toHost
<1>1. PICK n \in 0 .. Len(toHost) : /\ quiet' = (quiet /\ n = 0)
                                   /\ toHost' = SubSeq(toHost, n + 1, Len(toHost))
  BY DEF StatusWait
<1>2. n = 0
  BY <1>1
<1>3. toHost \in Seq(AnyReport)
  BY DEF Mixed
<1>4. SubSeq(toHost, 1, Len(toHost)) = toHost
  BY <1>3
<1> QED
  BY <1>1, <1>2, <1>4

LEMMA StatusWaitKeeps ==
  ASSUME SyncInv, StatusWait, sync.on = FALSE, quiet' = TRUE
  PROVE  QueueInv'
<1>1. SyncType /\ Mixed
  BY DEF SyncInv
<1>2. quiet = TRUE /\ toHost' = toHost
  BY <1>1, StatusWaitQuiet, StatusWaitKeepsReports
<1>3. QueueInv
  BY <1>2 DEF SyncInv
<1>4. /\ connected /\ event' = "OTHER"
      /\ UNCHANGED <<connected, queue, linkUp, toDev>>
  BY DEF StatusWait
<1>5. EventMeansBuffer' /\ event' \in Events
  BY <1>3, <1>4 DEF QueueInv, EventMeansBuffer, Events
<1>6. Flight'
  BY <1>2, <1>3, <1>4 DEF QueueInv, Flight, InFlight, OnWire, Waiting
<1>7. QShape(queue)' /\ toDev' \in Seq(Command) /\ toHost' \in Seq(Report)
  BY <1>2, <1>3, <1>4 DEF QueueInv
<1> QED
  BY <1>3, <1>4, <1>5, <1>6, <1>7 DEF QueueInv

LEMMA MixedSame == ASSUME Mixed, UNCHANGED vars PROVE Mixed'
BY DEF Mixed, HistoryInv, EventMeansBuffer, vars

LEMMA MixedNext ==
  ASSUME Mixed, SyncType, SyncNext
  PROVE  Mixed'
<1>1. CASE Unblocked
  <2>1. CASE Connect
    BY <2>1, MixedConnect
  <2>2. CASE PollReport
    BY <2>2, MixedError, MixedPart, MixedEvent, MixedCallback DEF PollReport
  <2>3. CASE CommandFails
    BY <2>3, MixedLost, HistoryKept DEF CommandFails, Mixed
  <2>4. ASSUME NEW cb \in BOOLEAN, NEW size \in Sizes, ReadData(cb, size) PROVE Mixed'
    BY <2>4, MixedReadData
  <2> QED
    BY <1>1, <2>1, <2>2, <2>3, <2>4, MixedPolled, MixedUnasked, MixedStatusWait
       DEF Unblocked, Poll
<1>2. CASE Environment
  BY <1>2, MixedRemote, MixedLinkLost DEF Environment
<1>3. CASE Sync
  <2>1. CASE SyncTimeout
    BY <2>1, MixedSame DEF SyncTimeout
  <2>2. CASE SyncClosed
    BY <2>2, MixedLost, HistoryKept DEF SyncClosed, Mixed
  <2> QED
    BY <1>3, <2>1, <2>2, MixedStart, MixedTake DEF Sync
<1> QED
  BY <1>1, <1>2, <1>3 DEF SyncNext

-----------------------------------------------------------------------------
(* A blocking read that has the wire for itself                            *)

\* Division of a length into full packets and a rest.
LEMMA PartsFacts ==
  ASSUME NEW n \in Nat \ {0}
  PROVE  /\ n \div Chunk \in Nat /\ Parts(n) \in Nat \ {0}
         /\ Parts(n) = n \div Chunk + (IF n % Chunk = 0 THEN 0 ELSE 1)
         /\ \A k \in Nat : k * Chunk < n <=> k < Parts(n)
<1> DEFINE d == n \div Chunk
           m == n % Chunk
<1>1. Chunk \in Nat \ {0}
  BY SizeAssumption
<1>2. d \in Nat /\ m \in 0 .. Chunk - 1 /\ n = Chunk * d + m
  BY <1>1
<1>3. Parts(n) = d + (IF m = 0 THEN 0 ELSE 1)
  BY DEF Parts
<1> HIDE DEF d, m
<1>4. Parts(n) \in Nat
  BY <1>2, <1>3
<1>5. ASSUME NEW k \in Nat PROVE k * Chunk < n <=> k < Parts(n)
  <2>1. CASE k < d
    <3>1. (k + 1) * Chunk <= d * Chunk /\ d * Chunk = Chunk * d
      BY <1>1, <1>2, <2>1
    <3>2. (k + 1) * Chunk = k * Chunk + Chunk /\ k * Chunk \in Nat /\ Chunk * d \in Nat
      BY <1>1, <1>2
    <3>3. k * Chunk < n
      BY <1>1, <1>2, <3>1, <3>2
    <3> QED
      BY <1>2, <1>3, <2>1, <3>3
  <2>2. CASE k = d
    <3>1. k * Chunk = Chunk * d
      BY <1>1, <1>2, <2>2
    <3> QED
      BY <1>1, <1>2, <1>3, <2>2, <3>1
  <2>3. CASE k > d
    <3>1. (d + 1) * Chunk <= k * Chunk
      BY <1>1, <1>2, <2>3
    <3>2. (d + 1) * Chunk = Chunk * d + Chunk /\ k * Chunk \in Nat /\ Chunk * d \in Nat
      BY <1>1, <1>2
    <3>3. ~(k * Chunk < n)
      BY <1>1, <1>2, <3>1, <3>2
    <3> QED
      BY <1>2, <1>3, <1>4, <2>3, <3>3
  <2> QED
    BY <1>2, <2>1, <2>2, <2>3
<1>6. Parts(n) # 0
  <2>1. 0 * Chunk < n <=> 0 < Parts(n)
    BY <1>5
  <2> QED
    BY <1>1, <2>1
<1> QED
  BY <1>2, <1>3, <1>4, <1>5, <1>6 DEF d, m

LEMMA WireTyped ==
  ASSUME Mixed, SyncType, OwnWire(sync, toDev, toHost)
  PROVE  /\ toDev \in Seq(AnyCommand) /\ Len(toDev) \in Nat
         /\ toHost \in Seq(AnyReport) /\ Len(toHost) \in Nat
         /\ sync.got \in Seq(AnyReport) /\ Len(sync.got) \in Nat
         /\ sync.size \in Nat \ {0} /\ sync.full \in Nat /\ sync.last \in BOOLEAN
         /\ Parts(sync.size) \in Nat \ {0}
<1>1. toDev \in Seq(AnyCommand) /\ toHost \in Seq(AnyReport)
  BY DEF Mixed
<1>2. sync.got \in Seq(AnyReport) /\ sync.full \in Nat /\ sync.last \in BOOLEAN
  BY DEF SyncType
<1>3. sync.size \in Nat \ {0}
  BY DEF OwnWire
<1> QED
  BY <1>1, <1>2, <1>3, PartsFacts

LEMMA StartOwns ==
  ASSUME Mixed, SyncType, NEW size \in SyncSizes, SyncStart(size), ~InFlight
  PROVE  OwnWire(sync', toDev', toHost')
<1> DEFINE d == size \div Chunk
           m == size % Chunk
<1>1. size \in Nat \ {0}
  BY SyncAssumption, SizeAssumption
<1>2. /\ sync'.id = sync.id - 1 /\ sync'.size = size /\ sync'.got = <<>>
      /\ sync'.full = d /\ sync'.last = (m # 0)
  BY DEF SyncStart, SyncCall
<1>3. d \in Nat /\ Parts(size) = d + (IF m = 0 THEN 0 ELSE 1) /\ Parts(size) \in Nat \ {0}
  BY <1>1, PartsFacts
<1>4. toHost' = <<>>
  BY DEF SyncStart, Disconnected, DisconnectedLeaving, InFlight
<1>5. \/ toDev' = <<>>
      \/ toDev' = <<[id |-> sync'.id, size |-> size, sent |-> 0]>>
  <2> DEFINE r == [id |-> sync'.id, size |-> size, sent |-> 0]
  <2>1. toDev = <<>> /\ Append(<<>>, r) = <<r>>
    BY DEF InFlight
  <2>2. toDev' = Append(toDev, r) \/ Disconnected
    BY DEF SyncStart
  <2> HIDE DEF r
  <2>3. toDev' = <<>> \/ toDev' = <<r>>
    BY <2>1, <2>2 DEF Disconnected, DisconnectedLeaving
  <2> QED
    BY <2>3 DEF r
<1> HIDE DEF d, m
<1>6. Len(sync'.got) + sync'.full + (IF sync'.last = TRUE THEN 1 ELSE 0) = Parts(sync'.size)
  <2>1. Len(sync'.got) = 0
    BY <1>2
  <2>2. (IF sync'.last = TRUE THEN 1 ELSE 0) = (IF m = 0 THEN 0 ELSE 1)
    BY <1>2, Zenon
  <2> QED
    BY <1>2, <1>3, <2>1, <2>2
<1>7. /\ Len(toDev') <= 1
      /\ \A i \in DOMAIN toDev' : /\ toDev'[i].id = sync'.id /\ toDev'[i].size = sync'.size
                                  /\ toDev'[i].sent = 0
  <2>1. CASE toDev' = <<>>
    BY <2>1
  <2>2. CASE toDev' = <<[id |-> sync'.id, size |-> size, sent |-> 0]>>
    <3>1. DOMAIN toDev' = {1} /\ Len(toDev') = 1
      BY <2>2
    <3>2. toDev'[1] = [id |-> sync'.id, size |-> size, sent |-> 0]
      BY <2>2
    <3> QED
      BY <1>2, <3>1, <3>2
  <2> QED
    BY <1>5, <2>1, <2>2
<1>8. (Len(sync'.got) + Len(toHost')) * Chunk = 0 /\ Len(sync'.got) + Len(toHost') = 0
  BY <1>2, <1>4, SizeAssumption
<1> QED
  BY <1>1, <1>2, <1>3, <1>4, <1>6, <1>7, <1>8 DEF OwnWire

LEMMA TakeFacts ==
  ASSUME Mixed, SyncType, sync.full > 0 \/ sync.last = TRUE, SyncTake
  PROVE  /\ toHost # <<>> /\ toHost' = Tail(toHost) /\ toDev' = toDev
         /\ sync'.id = sync.id /\ sync'.size = sync.size
         /\ sync'.got = Append(sync.got, toHost[1])
         /\ sync'.full \in Nat /\ sync'.last \in BOOLEAN
         /\ sync'.full + (IF sync'.last = TRUE THEN 1 ELSE 0) + 1
              = sync.full + (IF sync.last = TRUE THEN 1 ELSE 0)
         /\ sync'.on = (sync'.full > 0 \/ sync'.last)
         /\ SyncType' /\ quiet' = quiet
<1> DEFINE g == Append(sync.got, toHost[1])
<1>1. /\ toHost # <<>> /\ toHost' = Tail(toHost) /\ toDev' = toDev /\ quiet' = quiet
      /\ Head(toHost) = toHost[1]
  BY DEF SyncTake
<1>2. IF sync.full > 0 THEN Waited(sync.full - 1, sync.last, g) ELSE Waited(0, FALSE, g)
  BY <1>1 DEF SyncTake
<1>3. g \in Seq(AnyReport)
  <2>1. toHost[1] \in AnyReport
    BY <1>1, MixedReport
  <2> QED
    BY <2>1 DEF SyncType
<1> HIDE DEF g
<1>4. /\ sync \in [on : BOOLEAN, id : Int, size : Int, full : Nat, last : BOOLEAN,
                   got : Seq(AnyReport)]
      /\ sync.full \in Nat /\ sync.last \in BOOLEAN
  BY DEF SyncType
<1>5. ASSUME NEW full \in Nat, NEW last \in BOOLEAN, Waited(full, last, g)
      PROVE  /\ sync'.id = sync.id /\ sync'.size = sync.size /\ sync'.got = g
             /\ sync'.full = full /\ sync'.last = last /\ sync'.on = (full > 0 \/ last)
             /\ sync' \in [on : BOOLEAN, id : Int, size : Int, full : Nat, last : BOOLEAN,
                           got : Seq(AnyReport)]
  <2> DEFINE on == full > 0 \/ last
  <2>1. on \in BOOLEAN
    OBVIOUS
  <2>2. sync' = [sync EXCEPT !.full = full, !.last = last, !.got = g, !.on = on]
    BY <1>5 DEF Waited
  <2> HIDE DEF on
  <2>3. /\ sync'.id = sync.id /\ sync'.size = sync.size /\ sync'.got = g
        /\ sync'.full = full /\ sync'.last = last /\ sync'.on = on
    BY <1>4, <2>2
  <2>4. sync' \in [on : BOOLEAN, id : Int, size : Int, full : Nat, last : BOOLEAN,
                   got : Seq(AnyReport)]
    BY <1>3, <1>4, <2>1, <2>2
  <2> QED
    BY <2>3, <2>4 DEF on
<1>6. quiet' \in BOOLEAN
  BY <1>1 DEF SyncType
<1>7. CASE sync.full > 0
  <2>1. sync.full - 1 \in Nat /\ Waited(sync.full - 1, sync.last, g)
    BY <1>2, <1>4, <1>7
  <2>2. /\ sync'.id = sync.id /\ sync'.size = sync.size /\ sync'.got = g
        /\ sync'.full = sync.full - 1 /\ sync'.last = sync.last
        /\ sync'.on = (sync.full - 1 > 0 \/ sync.last) /\ SyncType'
    BY <1>4, <1>5, <1>6, <2>1 DEF SyncType
  <2>3. sync'.full + (IF sync'.last = TRUE THEN 1 ELSE 0) + 1
              = sync.full + (IF sync.last = TRUE THEN 1 ELSE 0)
    <3>1. (IF sync'.last = TRUE THEN 1 ELSE 0) = (IF sync.last = TRUE THEN 1 ELSE 0)
      BY <2>2
    <3>2. (IF sync.last = TRUE THEN 1 ELSE 0) \in Int
      OBVIOUS
    <3> DEFINE x == IF sync.last = TRUE THEN 1 ELSE 0
    <3> HIDE DEF x
    <3> QED
      BY <1>4, <2>2, <3>1, <3>2 DEF x
  <2>4. sync'.on = (sync'.full > 0 \/ sync'.last)
    BY <2>2, Zenon
  <2>5. sync'.full \in Nat /\ sync'.last \in BOOLEAN
    BY <1>4, <2>1, <2>2
  <2> QED
    BY <1>1, <2>2, <2>3, <2>4, <2>5 DEF g
<1>8. CASE ~(sync.full > 0)
  <2>1. sync.full = 0 /\ sync.last = TRUE /\ Waited(0, FALSE, g)
    <3>1. sync.full = 0
      BY <1>4, <1>8
    <3>2. sync.last = TRUE
      BY <1>8
    <3>3. Waited(0, FALSE, g)
      BY <1>2, <1>8
    <3> QED
      BY <3>1, <3>2, <3>3
  <2>2. /\ sync'.id = sync.id /\ sync'.size = sync.size /\ sync'.got = g
        /\ sync'.full = 0 /\ sync'.last = FALSE
        /\ sync'.on = (0 > 0 \/ FALSE) /\ SyncType'
    BY <1>5, <1>6, <2>1 DEF SyncType
  <2>3. sync'.full + (IF sync'.last = TRUE THEN 1 ELSE 0) + 1
              = sync.full + (IF sync.last = TRUE THEN 1 ELSE 0)
    BY <2>1, <2>2
  <2>4. sync'.on = (sync'.full > 0 \/ sync'.last)
    BY <2>2, Zenon
  <2>5. sync'.full \in Nat /\ sync'.last \in BOOLEAN
    <3>1. sync'.full = 0 /\ sync'.last = FALSE
      BY <2>2
    <3>2. 0 \in Nat /\ FALSE \in BOOLEAN
      OBVIOUS
    <3> QED
      BY <3>1, <3>2, Zenon
  <2> QED
    BY <1>1, <2>2, <2>3, <2>4, <2>5 DEF g
<1> QED
  BY <1>7, <1>8, Zenon

LEMMA TakeOwns ==
  ASSUME Mixed, SyncType, sync.full > 0 \/ sync.last = TRUE, SyncTake,
         OwnWire(sync, toDev, toHost)
  PROVE  OwnWire(sync', toDev', toHost')
<1> DEFINE b == IF sync.last = TRUE THEN 1 ELSE 0
           bb == IF sync'.last = TRUE THEN 1 ELSE 0
           H == Len(sync.got)
           L == Len(toHost)
           N == Parts(sync.size)
<1>1. /\ toHost \in Seq(AnyReport) /\ L \in Nat /\ sync.got \in Seq(AnyReport) /\ H \in Nat
      /\ sync.full \in Nat /\ N \in Nat
  BY WireTyped
<1>2. /\ toHost # <<>> /\ toHost' = Tail(toHost) /\ toDev' = toDev
      /\ sync'.id = sync.id /\ sync'.size = sync.size
      /\ sync'.got = Append(sync.got, toHost[1])
      /\ sync'.full \in Nat /\ sync'.full + bb + 1 = sync.full + b
  BY TakeFacts
<1>3. b \in Int /\ bb \in Int
  OBVIOUS
<1>4. H + sync.full + b = N /\ H + L <= N
  BY DEF OwnWire
<1>5. /\ L # 0 /\ Len(toHost') = L - 1 /\ DOMAIN toHost' = 1 .. L - 1
      /\ \A i \in 1 .. L - 1 : toHost'[i] = toHost[i + 1] /\ i + 1 \in 1 .. L
      /\ DOMAIN toHost = 1 .. L
  BY <1>1, <1>2
<1>6. /\ Len(sync'.got) = H + 1 /\ DOMAIN sync'.got = 1 .. H + 1 /\ DOMAIN sync.got = 1 .. H
      /\ \A i \in 1 .. H : sync'.got[i] = sync.got[i]
      /\ sync'.got[H + 1] = toHost[1]
  <2>1. toHost[1] \in AnyReport
    BY <1>1, <1>5
  <2> HIDE DEF H
  <2> QED
    BY <1>1, <1>2, <2>1 DEF H
<1>7. /\ \A i \in 1 .. H : Piece(sync.got[i], sync, i - 1)
      /\ \A i \in 1 .. L : Piece(toHost[i], sync, H + i - 1)
  BY <1>5, <1>6 DEF OwnWire
<1>8. \A r, k : Piece(r, sync', k) <=> Piece(r, sync, k)
  BY <1>2 DEF Piece
<1> HIDE DEF H, L, N, b, bb
<1>9. \A i \in 1 .. H + 1 : Piece(sync'.got[i], sync', i - 1)
  <2>1. ASSUME NEW i \in 1 .. H PROVE Piece(sync'.got[i], sync', i - 1)
    BY <1>6, <1>7, <1>8, <2>1
  <2>2. Piece(toHost[1], sync, H + 1 - 1)
    BY <1>1, <1>5, <1>7
  <2> SUFFICES ASSUME NEW i \in 1 .. H + 1, i \notin 1 .. H
               PROVE  Piece(sync'.got[i], sync', i - 1)
    BY <2>1
  <2>3. i = H + 1 /\ i - 1 = H + 1 - 1
    BY <1>1
  <2>4. sync'.got[i] = toHost[1]
    BY <1>6, <2>3
  <2>5. Piece(toHost[1], sync', i - 1)
    BY <1>8, <2>2, <2>3
  <2> QED
    BY <2>4, <2>5
<1>10. ASSUME NEW i \in 1 .. L - 1 PROVE Piece(toHost'[i], sync', H + 1 + i - 1)
  <2>1. Piece(toHost[i + 1], sync, H + (i + 1) - 1)
    BY <1>5, <1>7
  <2>2. H + (i + 1) - 1 = H + 1 + i - 1
    BY <1>1
  <2> QED
    BY <1>5, <1>8, <2>1, <2>2
<1>11. (H + 1) + (L - 1) = H + L /\ (H + 1) + sync'.full + bb = N
  <2>1. sync.full \in Nat /\ sync'.full \in Nat /\ sync'.full + bb + 1 = sync.full + b
    BY <1>1, <1>2
  <2>2. H \in Nat /\ L \in Nat /\ N \in Nat
    BY <1>1
  <2> QED
    BY <1>3, <1>4, <2>1, <2>2
<1>12. /\ Len(toDev') <= 1
       /\ \A i \in DOMAIN toDev' : /\ toDev'[i].id = sync'.id /\ toDev'[i].size = sync'.size
                                   /\ toDev'[i].sent = (H + L) * Chunk
                                   /\ toDev'[i].sent < sync'.size
  BY <1>2 DEF OwnWire, H, L
<1>13. sync'.size \in Nat \ {0} /\ Parts(sync'.size) = N
  BY <1>2 DEF OwnWire, N
<1> QED
  BY <1>4, <1>5, <1>6, <1>9, <1>10, <1>11, <1>12, <1>13 DEF OwnWire, bb

\* Nothing is on the wire when the last report has been taken.
LEMMA LastTaken ==
  ASSUME NEW s, NEW dev \in Seq(AnyCommand), NEW host \in Seq(AnyReport), OwnWire(s, dev, host),
         s.got \in Seq(AnyReport), s.full = 0, s.last = FALSE
  PROVE  dev = <<>> /\ host = <<>> /\ OwnAnswer(s)
<1>1. /\ s.size \in Nat \ {0} /\ Parts(s.size) \in Nat
      /\ \A k \in Nat : k * Chunk < s.size <=> k < Parts(s.size)
  BY PartsFacts DEF OwnWire
<1>2. Len(s.got) = Parts(s.size) /\ Len(s.got) \in Nat
  <2>1. Len(s.got) + s.full + (IF s.last = TRUE THEN 1 ELSE 0) = Parts(s.size)
    BY DEF OwnWire
  <2>2. (IF s.last = TRUE THEN 1 ELSE 0) = 0
    OBVIOUS
  <2>3. Len(s.got) \in Nat
    OBVIOUS
  <2>4. Len(s.got) + 0 + 0 = Parts(s.size)
    BY <2>1, <2>2
  <2> QED
    BY <2>3, <2>4
<1>3. Len(host) = 0
  BY <1>1, <1>2 DEF OwnWire
<1>4. ASSUME NEW i \in DOMAIN dev PROVE FALSE
  <2>1. dev[i].sent = Parts(s.size) * Chunk /\ dev[i].sent < s.size
    BY <1>1, <1>2, <1>3 DEF OwnWire
  <2> QED
    BY <1>1, <2>1
<1>5. OwnAnswer(s)
  BY <1>2 DEF OwnWire, OwnAnswer, Piece
<1>6. host = <<>>
  BY <1>3
<1>7. dev = <<>>
  <2>1. DOMAIN dev = 1 .. Len(dev) /\ Len(dev) \in Nat
    OBVIOUS
  <2>2. 1 \notin DOMAIN dev
    BY <1>4
  <2>3. Len(dev) = 0
    BY <2>1, <2>2
  <2> QED
    BY <2>3
<1> QED
  BY <1>5, <1>6, <1>7

\* The remote adds the next report of the answer, and is done with the
\* command or has the rest of it to send.
LEMMA RemoteOwns ==
  ASSUME Mixed, SyncType, OwnWire(sync, toDev, toHost), Remote, UNCHANGED sync
  PROVE  OwnWire(sync', toDev', toHost')
<1> DEFINE c == toDev[1]
           H == Len(sync.got)
           L == Len(toHost)
           K == H + L
           N == Parts(sync.size)
           n == IF c.size - c.sent < Chunk THEN c.size - c.sent ELSE Chunk
<1>1. /\ toDev \in Seq(AnyCommand) /\ Len(toDev) \in Nat
      /\ toHost \in Seq(AnyReport) /\ L \in Nat /\ H \in Nat /\ N \in Nat
      /\ sync.size \in Nat \ {0}
  BY WireTyped
<1>2. toDev # <<>> /\ Len(toDev) <= 1
  BY DEF Remote, RemoteData, RemoteError, OwnWire
<1>3. /\ Len(toDev) = 1 /\ DOMAIN toDev = {1} /\ Head(toDev) = c /\ Tail(toDev) = <<>>
      /\ c \in AnyCommand
  <2>1. Len(toDev) = 1
    <3>1. Len(toDev) # 0 /\ Len(toDev) \in Nat
      BY <1>1, <1>2, EmptySeq
    <3>2. Len(toDev) <= 1
      BY <1>2
    <3> DEFINE z == Len(toDev)
    <3> HIDE DEF z
    <3>3. z # 0 /\ z \in Nat /\ z <= 1
      BY <3>1, <3>2 DEF z
    <3>4. z = 1
      BY <3>3
    <3> QED
      BY <3>4 DEF z
  <2>2. DOMAIN toDev = {1} /\ toDev[1] \in AnyCommand /\ Head(toDev) = toDev[1]
    BY <1>1, <1>2, <2>1
  <2>3. Tail(toDev) = <<>>
    <3>1. Tail(toDev) \in Seq(AnyCommand) /\ Len(Tail(toDev)) = 0
      BY <1>1, <1>2, <2>1, HeadTailProperties
    <3> QED
      BY <3>1, EmptySeq
  <2> QED
    BY <2>1, <2>2, <2>3
<1>4. c.id = sync.id /\ c.size = sync.size /\ c.sent = K * Chunk /\ c.sent < sync.size
  BY <1>3 DEF OwnWire
<1>5. K \in Nat /\ K < N /\ \A k \in Nat : k * Chunk < sync.size <=> k < N
  <2>1. \A k \in Nat : k * Chunk < sync.size <=> k < N
    BY <1>1, PartsFacts
  <2>2. K \in Nat
    BY <1>1
  <2> HIDE DEF K, N
  <2> QED
    BY <1>4, <2>1, <2>2
<1>6. PICK r \in AnyReport : toHost' = Append(toHost, r) /\ r.id = c.id /\ r.off = c.sent
  <2>1. c.id \in Int /\ c.size \in Int /\ c.sent \in Int
    BY <1>3 DEF AnyCommand
  <2>2. n \in Int
    BY <2>1, SizeAssumption
  <2>3. CASE RemoteError
    <3> DEFINE e == [id |-> c.id, err |-> TRUE, off |-> c.sent, len |-> 1]
    <3>1. toHost' = Append(toHost, e)
      BY <1>3, <2>3 DEF RemoteError
    <3>2. e \in AnyReport /\ e.id = c.id /\ e.off = c.sent
      BY <2>1 DEF AnyReport
    <3> HIDE DEF e
    <3> QED
      BY <3>1, <3>2
  <2>4. CASE RemoteData
    <3> DEFINE e == [id |-> c.id, err |-> FALSE, off |-> c.sent, len |-> n]
    <3>1. toHost' = Append(toHost, e)
      BY <1>3, <2>4 DEF RemoteData
    <3> HIDE DEF n
    <3>2. e \in AnyReport /\ e.id = c.id /\ e.off = c.sent
      BY <2>1, <2>2 DEF AnyReport
    <3> HIDE DEF e
    <3> QED
      BY <3>1, <3>2
  <2> QED
    BY <2>3, <2>4 DEF Remote
<1>7. \/ toDev' = <<>>
      \/ /\ c.sent + n # c.size
         /\ toDev' = <<[c EXCEPT !.sent = c.sent + n]>>
  <2> DEFINE d == [c EXCEPT !.sent = c.sent + n]
  <2>1. \/ toDev' = Tail(toDev)
        \/ c.sent + n # c.size /\ toDev' = [toDev EXCEPT ![1].sent = c.sent + n]
    BY <1>3 DEF Remote, RemoteData, RemoteError
  <2>2. [toDev EXCEPT ![1].sent = c.sent + n] = [toDev EXCEPT ![1] = d]
    OBVIOUS
  <2> HIDE DEF d
  <2>3. [toDev EXCEPT ![1] = d] = <<d>>
    BY <1>1, <1>3
  <2> HIDE DEF n
  <2>4. toDev' = <<>> \/ (c.sent + n # c.size /\ toDev' = <<d>>)
    BY <1>3, <2>1, <2>2, <2>3
  <2> QED
    BY <2>4 DEF d
<1>8. c.sent + n # c.size => c.sent + n = (K + 1) * Chunk /\ c.sent + n < sync.size
  <2>1. c.sent \in Int /\ c.size \in Int /\ Chunk \in Nat
    BY <1>3, SizeAssumption DEF AnyCommand
  <2>2. (K + 1) * Chunk = K * Chunk + Chunk
    BY <1>5, <2>1
  <2> DEFINE s == c.sent
             z == c.size
  <2> HIDE DEF s, z, K
  <2>3. s \in Int /\ z \in Int /\ s = K * Chunk /\ s < z
    BY <1>4, <2>1 DEF s, z
  <2>4. s + n # z => n = Chunk /\ s + Chunk < z
    BY <2>1, <2>3 DEF s, z
  <2> QED
    BY <1>4, <2>2, <2>3, <2>4 DEF s, z
<1>9. /\ toHost' \in Seq(AnyReport) /\ Len(toHost') = L + 1 /\ DOMAIN toHost' = 1 .. L + 1
      /\ DOMAIN toHost = 1 .. L
      /\ \A i \in 1 .. L : toHost'[i] = toHost[i]
      /\ toHost'[L + 1] = r
  <2> HIDE DEF L
  <2> QED
    BY <1>1, <1>6 DEF L
<1>10. \A i \in 1 .. L : Piece(toHost[i], sync, H + i - 1)
  BY <1>9 DEF OwnWire
<1>11. Piece(r, sync, K)
  BY <1>4, <1>6 DEF Piece
<1>12. /\ Len(toDev') <= 1
       /\ \A i \in DOMAIN toDev' : /\ toDev'[i].id = sync.id /\ toDev'[i].size = sync.size
                                   /\ toDev'[i].sent = (K + 1) * Chunk
                                   /\ toDev'[i].sent < sync.size
  <2> HIDE DEF K, n
  <2>1. CASE toDev' = <<>>
    BY <2>1
  <2>2. CASE /\ c.sent + n # c.size
             /\ toDev' = <<[c EXCEPT !.sent = c.sent + n]>>
    <3> DEFINE m == c.sent + n
               d == [c EXCEPT !.sent = m]
    <3>1. m = (K + 1) * Chunk /\ m < sync.size
      BY <1>8, <2>2
    <3> HIDE DEF m
    <3>2. d.sent = m /\ d.id = c.id /\ d.size = c.size
      BY <1>3 DEF AnyCommand
    <3>3. toDev' = <<d>>
      BY <2>2 DEF m
    <3> HIDE DEF d
    <3>4. Len(toDev') = 1 /\ DOMAIN toDev' = {1} /\ toDev'[1] = d
      BY <3>3
    <3> QED
      BY <1>4, <3>1, <3>2, <3>4
  <2> QED
    BY <1>7, <2>1, <2>2
<1> HIDE DEF c, n, H, L, N
<1>13. ASSUME NEW i \in 1 .. L + 1 PROVE Piece(toHost'[i], sync, H + i - 1)
  <2>1. CASE i \in 1 .. L
    BY <1>9, <1>10, <2>1
  <2>2. CASE i \notin 1 .. L
    <3>1. i = L + 1 /\ H + i - 1 = K
      BY <1>1, <2>2
    <3>2. toHost'[i] = r
      BY <1>9, <3>1
    <3> QED
      BY <1>11, <3>1, <3>2
  <2> QED
    BY <2>1, <2>2
<1>14. H + (L + 1) = K + 1 /\ K + 1 <= N
  BY <1>1, <1>5
<1>15. /\ Len(sync.got) + sync.full + (IF sync.last = TRUE THEN 1 ELSE 0) = Parts(sync.size)
       /\ \A i \in DOMAIN sync.got : Piece(sync.got[i], sync, i - 1)
  BY DEF OwnWire
<1>16. OwnWire(sync, toDev', toHost')
  <2> HIDE DEF K
  <2> QED
    BY <1>1, <1>9, <1>12, <1>13, <1>14, <1>15 DEF OwnWire, H, N
<1> QED
  BY <1>16

\* The loss of the link takes commands and newest reports off the wire.
LEMMA LossOwns ==
  ASSUME Mixed, SyncType, OwnWire(sync, toDev, toHost), UNCHANGED sync,
         toDev' = <<>>, NEW n \in 0 .. Len(toHost), toHost' = SubSeq(toHost, 1, n)
  PROVE  OwnWire(sync', toDev', toHost')
<1>1. /\ toHost \in Seq(AnyReport) /\ Len(toHost) \in Nat /\ Len(sync.got) \in Nat
      /\ Parts(sync.size) \in Nat
  BY WireTyped
<1>2. /\ Len(toHost') = n /\ DOMAIN toHost' = 1 .. n
      /\ \A i \in 1 .. n : toHost'[i] = toHost[i] /\ i \in DOMAIN toHost
  <2>1. \A i \in 1 .. n : toHost[i] \in AnyReport /\ i \in DOMAIN toHost /\ 1 + i - 1 = i
    BY <1>1
  <2>2. n - 1 + 1 = n /\ 1 <= n + 1
    BY <1>1
  <2> QED
    BY <1>1, <2>1, <2>2, SubSeqProperties
<1>3. OwnWire(sync, toDev', toHost')
  <2>1. \A i \in DOMAIN toHost' : Piece(toHost'[i], sync, Len(sync.got) + i - 1)
    BY <1>2 DEF OwnWire
  <2>2. Len(sync.got) + Len(toHost') <= Parts(sync.size)
    <3>1. Len(sync.got) + Len(toHost) <= Parts(sync.size)
      BY DEF OwnWire
    <3>2. Len(toHost') <= Len(toHost) /\ Len(toHost') \in Nat
      BY <1>1, <1>2
    <3> DEFINE a == Len(sync.got)
               b == Len(toHost)
               z == Len(toHost')
               N == Parts(sync.size)
    <3> HIDE DEF a, b, z, N
    <3>3. a \in Nat /\ b \in Nat /\ z \in Nat /\ N \in Nat /\ a + b <= N /\ z <= b
      BY <1>1, <3>1, <3>2 DEF a, b, z, N
    <3>4. a + z <= N
      BY <3>3
    <3> QED
      BY <3>4 DEF a, z, N
  <2>3. Len(toDev') <= 1 /\ DOMAIN toDev' = {}
    OBVIOUS
  <2> QED
    BY <2>1, <2>2, <2>3 DEF OwnWire
<1> QED
  BY <1>3

-----------------------------------------------------------------------------
(* The invariant                                                           *)

LEMMA InitSyncInv == SyncInit => SyncInv
<1> SUFFICES ASSUME SyncInit PROVE SyncInv
  OBVIOUS
<1>1. /\ connected = FALSE /\ queue = <<>> /\ event = "NONE" /\ linkUp = FALSE
      /\ toDev = <<>> /\ toHost = <<>> /\ sync = NoSync /\ quiet = TRUE
  BY DEF SyncInit, Init
<1>2. QueueInv /\ HistoryInv
  BY InitIInv, IInvParts DEF SyncInit
<1>3. Mixed
  <2>1. toDev \in Seq(AnyCommand) /\ toHost \in Seq(AnyReport)
    BY <1>1
  <2>2. event # "READ_DATA" /\ (toDev # <<>> => linkUp)
    BY <1>1
  <2> QED
    BY <1>1, <1>2, <2>1, <2>2 DEF Mixed, QueueInv
<1>4. SyncType
  <2>1. <<>> \in Seq(AnyReport)
    OBVIOUS
  <2> QED
    BY <1>1, <2>1 DEF SyncType, NoSync
<1>5. sync.on = FALSE
  BY <1>1 DEF NoSync
<1> QED
  BY <1>2, <1>3, <1>4, <1>5 DEF SyncInv

LEMMA StartType ==
  ASSUME SyncType, NEW size \in SyncSizes, SyncStart(size)
  PROVE  /\ SyncType'
         /\ sync'.on = TRUE /\ (sync'.full > 0 \/ sync'.last = TRUE)
         /\ quiet' = TRUE => ~InFlight
<1> DEFINE d == size \div Chunk
           m == size % Chunk
           l == m # 0
<1>1. size \in Nat \ {0} /\ Chunk \in Nat \ {0} /\ sync.id - 1 \in Int
  BY SyncAssumption, SizeAssumption DEF SyncType
<1>2. d \in Nat /\ m \in Nat /\ size = Chunk * d + m
  BY <1>1
<1>3. sync' = [on |-> TRUE, id |-> sync.id - 1, size |-> size, full |-> d,
               last |-> l, got |-> <<>>]
  BY DEF SyncStart, SyncCall
<1> HIDE DEF d, m
<1>4. d > 0 \/ l = TRUE
  <2>1. ASSUME d = 0 PROVE m # 0
    <3>1. Chunk * d = 0
      BY <1>1, <2>1
    <3> QED
      BY <1>1, <1>2, <3>1
  <2>2. d > 0 \/ d = 0
    BY <1>2
  <2> QED
    BY <2>1, <2>2, Zenon
<1>5. quiet' \in BOOLEAN /\ (quiet' = TRUE => ~InFlight)
  BY DEF SyncStart, SyncType
<1>6. l \in BOOLEAN /\ <<>> \in Seq(AnyReport)
  OBVIOUS
<1> HIDE DEF l
<1>7. sync' \in [on : BOOLEAN, id : Int, size : Int, full : Nat, last : BOOLEAN,
                 got : Seq(AnyReport)]
  BY <1>1, <1>2, <1>3, <1>6
<1>8. sync'.on = TRUE /\ sync'.full = d /\ sync'.last = l
  BY <1>3
<1> QED
  BY <1>4, <1>5, <1>7, <1>8 DEF SyncType

LEMMA TimeoutType ==
  ASSUME SyncType, SyncTimeout
  PROVE  SyncType' /\ quiet' = FALSE /\ (sync'.on = TRUE => sync'.full > 0 \/ sync'.last = TRUE)
<1>1. ASSUME NEW l \in BOOLEAN, Waited(0, l, sync.got)
      PROVE  SyncType' /\ (sync'.on = TRUE => sync'.full > 0 \/ sync'.last = TRUE)
  <2> DEFINE on == 0 > 0 \/ l
  <2>1. on \in BOOLEAN /\ (on = TRUE => l = TRUE)
    OBVIOUS
  <2>2. sync' = [sync EXCEPT !.full = 0, !.last = l, !.got = sync.got, !.on = on]
    BY <1>1 DEF Waited
  <2> HIDE DEF on
  <2>3. /\ sync' \in [on : BOOLEAN, id : Int, size : Int, full : Nat, last : BOOLEAN,
                      got : Seq(AnyReport)]
        /\ sync'.on = on /\ sync'.last = l
    BY <2>1, <2>2 DEF SyncType
  <2>4. quiet' \in BOOLEAN
    BY DEF SyncTimeout
  <2> QED
    BY <2>1, <2>3, <2>4 DEF SyncType
<1>2. sync.last \in BOOLEAN /\ quiet' = FALSE
  BY DEF SyncType, SyncTimeout
<1>3. Waited(0, sync.last, sync.got) \/ Waited(0, FALSE, sync.got)
  BY DEF SyncTimeout
<1> QED
  BY <1>1, <1>2, <1>3

\* With nothing on the wire, what holds of mixed reads is what the queue needs.
LEMMA EmptyWire == ASSUME Mixed, toDev = <<>>, toHost = <<>> PROVE QueueInv
<1>1. Flight
  BY DEF Mixed, Flight, InFlight
<1>2. toDev \in Seq(Command) /\ toHost \in Seq(Report)
  OBVIOUS
<1> QED
  BY <1>1, <1>2 DEF Mixed, QueueInv

LEMMA TakeSyncInv ==
  ASSUME SyncInv, SyncTake
  PROVE  SyncInv' /\ (sync'.on = FALSE /\ quiet' = TRUE => OwnAnswer(sync'))
<1>1. /\ Mixed /\ SyncType /\ sync.on = TRUE /\ (sync.full > 0 \/ sync.last = TRUE)
      /\ (quiet = TRUE => OwnWire(sync, toDev, toHost))
  BY DEF SyncInv, SyncTake, SyncType
<1>2. /\ sync'.full \in Nat /\ sync'.last \in BOOLEAN /\ SyncType' /\ quiet' = quiet
      /\ sync'.on = (sync'.full > 0 \/ sync'.last)
  BY <1>1, TakeFacts
<1>3. Mixed'
  BY <1>1, MixedTake
<1>4. quiet' = TRUE => OwnWire(sync', toDev', toHost')
  BY <1>1, <1>2, TakeOwns
<1>5. sync'.on = TRUE => sync'.full > 0 \/ sync'.last = TRUE
  BY <1>2
<1>6. ASSUME quiet' = TRUE, sync'.on = FALSE
      PROVE  toDev' = <<>> /\ toHost' = <<>> /\ OwnAnswer(sync')
  <2>1. sync'.full = 0 /\ sync'.last = FALSE
    <3>1. ~(sync'.full > 0 \/ sync'.last)
      BY <1>2, <1>6
    <3>2. ~(sync'.full > 0)
      BY <3>1
    <3> QED
      BY <1>2, <3>1, <3>2
  <2>2. toDev' \in Seq(AnyCommand) /\ toHost' \in Seq(AnyReport) /\ sync'.got \in Seq(AnyReport)
    BY <1>2, <1>3 DEF Mixed, SyncType
  <2> QED
    BY <1>4, <1>6, <2>1, <2>2, LastTaken
<1>7. ASSUME quiet' = TRUE, sync'.on = FALSE PROVE QueueInv'
  <2>1. toDev' = <<>> /\ toHost' = <<>>
    BY <1>6, <1>7
  <2>2. Flight'
    BY <1>3, <2>1 DEF Mixed, Flight, InFlight
  <2>3. toDev' \in Seq(Command) /\ toHost' \in Seq(Report)
    BY <2>1
  <2> QED
    BY <1>3, <2>2, <2>3 DEF Mixed, QueueInv
<1> QED
  BY <1>2, <1>3, <1>4, <1>5, <1>6, <1>7 DEF SyncInv

\* Steps outside a blocking read that no other read disturbs are steps of
\* the queue.
LEMMA QuietQueue ==
  ASSUME SyncInv, quiet = TRUE, sync.on = FALSE, (Unblocked /\ ~StatusWait) \/ Environment
  PROVE  QueueInv'
<1>1. QueueInv /\ HistoryInv
  BY DEF SyncInv, Mixed
<1>2. CASE PollUnasked
  <2>1. toHost # <<>> /\ Live(ClearDirty(queue)) = {}
    BY <1>2 DEF PollUnasked
  <2>2. Live(ClearDirty(queue)) # {}
    BY <1>1, <2>1, ReportFacts
  <2> QED
    BY <2>1, <2>2
<1>3. CASE Next
  <2>1. IInv'
    BY <1>1, <1>3, IInvParts, NextIInv
  <2>2. QueueInv' /\ HistoryInv'
    BY <2>1 DEF IInv, QueueInv, HistoryInv, TypeOK
  <2> QED
    BY <2>2
<1>4. PollUnasked \/ Next
  <2>1. CASE Unblocked /\ ~StatusWait
    BY <2>1 DEF Unblocked, Next, Application
  <2>2. CASE Environment
    BY <2>2 DEF Environment, Next
  <2> QED
    BY <2>1, <2>2
<1> QED
  BY <1>2, <1>3, <1>4

LEMMA UnblockedSyncInv ==
  ASSUME SyncInv, Unblocked
  PROVE  SyncInv'
<1>1. SyncType /\ Mixed /\ sync.on = FALSE /\ sync' = sync
  BY DEF SyncInv, Unblocked, SyncType
<1>2. Mixed'
  BY <1>1, MixedNext DEF SyncNext
<1>3. SyncType' /\ sync'.on = FALSE
  BY <1>1, StatusWaitQuiet DEF SyncType, Unblocked
<1>4. ASSUME quiet' = TRUE PROVE QueueInv'
  <2>1. CASE Connect
    BY <1>1, <2>1, MixedConnect
  <2>2. CASE StatusWait
    BY <1>1, <1>4, <2>2, StatusWaitKeeps
  <2>3. CASE quiet' = quiet /\ ~StatusWait
    BY <1>1, <1>4, <2>3, QuietQueue
  <2> QED
    BY <2>1, <2>2, <2>3 DEF Unblocked
<1> QED
  BY <1>2, <1>3, <1>4 DEF SyncInv

LEMMA EnvironmentSyncInv ==
  ASSUME SyncInv, Environment
  PROVE  SyncInv'
<1>1. SyncType /\ Mixed /\ UNCHANGED <<sync, quiet>>
  BY DEF SyncInv, Environment
<1>2. Mixed'
  BY <1>1, MixedNext DEF SyncNext
<1>3. SyncType' /\ (sync'.on = TRUE => sync'.full > 0 \/ sync'.last = TRUE)
  BY <1>1 DEF SyncType, SyncInv
<1>4. ASSUME quiet = TRUE, sync.on = FALSE PROVE QueueInv'
  BY <1>4, QuietQueue
<1>5. ASSUME quiet = TRUE, sync.on = TRUE PROVE OwnWire(sync', toDev', toHost')
  <2>1. OwnWire(sync, toDev, toHost)
    BY <1>5 DEF SyncInv
  <2>2. CASE Remote
    BY <1>1, <2>1, <2>2, RemoteOwns
  <2>3. CASE LinkLost
    <3>1. PICK n \in 0 .. Len(toHost) : toHost' = SubSeq(toHost, 1, n)
      BY <2>3 DEF LinkLost
    <3>2. toDev' = <<>>
      BY <2>3 DEF LinkLost
    <3> QED
      BY <1>1, <2>1, <3>1, <3>2, LossOwns
  <2> QED
    BY <2>2, <2>3 DEF Environment
<1> QED
  BY <1>1, <1>2, <1>3, <1>4, <1>5 DEF SyncInv

LEMMA StartSyncInv ==
  ASSUME SyncInv, NEW size \in SyncSizes, SyncStart(size)
  PROVE  SyncInv'
<1>1. SyncType /\ Mixed
  BY DEF SyncInv
<1>2. Mixed'
  BY <1>1, MixedStart
<1>3. /\ SyncType' /\ sync'.on = TRUE /\ (sync'.full > 0 \/ sync'.last = TRUE)
      /\ quiet' = TRUE => ~InFlight
  BY <1>1, StartType
<1>4. quiet' = TRUE => OwnWire(sync', toDev', toHost')
  BY <1>1, <1>3, StartOwns
<1> QED
  BY <1>2, <1>3, <1>4 DEF SyncInv

LEMMA ClosedSyncInv ==
  ASSUME SyncInv, SyncClosed
  PROVE  SyncInv'
<1>1. /\ SyncType /\ Mixed /\ UNCHANGED <<sync, quiet>> /\ sync.on = TRUE
      /\ toHost = <<>> /\ toDev' = <<>> /\ toHost' = <<>>
  BY DEF SyncInv, SyncClosed, SyncType, Disconnected, DisconnectedLeaving
<1>2. Mixed'
  BY <1>1, MixedLost, HistoryKept DEF SyncClosed, Mixed
<1>3. SyncType' /\ (sync'.on = TRUE => sync'.full > 0 \/ sync'.last = TRUE)
  BY <1>1 DEF SyncType, SyncInv
<1>4. ASSUME quiet = TRUE PROVE OwnWire(sync', toDev', toHost')
  <2>1. OwnWire(sync, toDev, toHost)
    BY <1>1, <1>4 DEF SyncInv
  <2>2. OwnWire(sync, <<>>, <<>>)
    BY <1>1, <2>1 DEF OwnWire
  <2> QED
    BY <1>1, <2>2
<1> QED
  BY <1>1, <1>2, <1>3, <1>4 DEF SyncInv

LEMMA TimeoutSyncInv ==
  ASSUME SyncInv, SyncTimeout
  PROVE  SyncInv'
<1>1. SyncType /\ Mixed
  BY DEF SyncInv
<1>2. SyncType' /\ quiet' = FALSE /\ (sync'.on = TRUE => sync'.full > 0 \/ sync'.last = TRUE)
  BY <1>1, TimeoutType
<1>3. Mixed'
  BY <1>1, MixedSame DEF SyncTimeout
<1> QED
  BY <1>2, <1>3 DEF SyncInv

LEMMA NextSyncInv == SyncInv /\ [SyncNext]_syncVars => SyncInv'
<1> SUFFICES ASSUME SyncInv, [SyncNext]_syncVars PROVE SyncInv'
  OBVIOUS
<1>1. CASE UNCHANGED syncVars
  <2>1. UNCHANGED <<connected, queue, event, linkUp, toDev, toHost, issued, log, sync, quiet>>
    BY <1>1 DEF syncVars, vars
  <2>2. SyncType' /\ Mixed'
    BY <2>1, MixedSame DEF SyncInv, SyncType, vars
  <2>3. quiet = TRUE /\ sync.on = FALSE => QueueInv'
    BY <2>1 DEF SyncInv, QueueInv, Flight, InFlight, EventMeansBuffer, OnWire, Waiting
  <2>4. quiet = TRUE /\ sync.on = TRUE => OwnWire(sync', toDev', toHost')
    BY <2>1 DEF SyncInv
  <2> QED
    BY <2>1, <2>2, <2>3, <2>4 DEF SyncInv
<1>2. CASE Sync
  BY <1>2, StartSyncInv, TakeSyncInv, TimeoutSyncInv, ClosedSyncInv DEF Sync
<1> QED
  BY <1>1, <1>2, UnblockedSyncInv, EnvironmentSyncInv DEF SyncNext

-----------------------------------------------------------------------------
(* Theorems                                                                *)

\* The inductive invariant holds in every state of every behaviour.
THEOREM SyncInvariance == SyncSpec => []SyncInv
BY InitSyncInv, NextSyncInv, PTL DEF SyncSpec

\* Even when reads take each other's reports, WIIUSE_READ_DATA is reported
\* only while a finished request is at the head of the list, to be freed by
\* the next poll, and no other request of the list is a finished one
\* (event_data_read, clear_dirty_reads).
THEOREM EventsMatchBuffersWhenMixed == SyncSpec => []EventMeansBuffer
<1>1. SyncInv => EventMeansBuffer
  BY DEF SyncInv, Mixed
<1> QED
  BY <1>1, SyncInvariance, PTL

\* While no wait has timed out or dropped a read report, and no blocking
\* read has started over another read, the reports on the wire belong to the request at the head of the
\* queue (event_data_read), whatever blocking reads were made in between.
THEOREM QuietReadsNeverMix == SyncSpec => []QuietReadsDoNotMix
<1>1. SyncInv => QuietReadsDoNotMix
  <2> SUFFICES ASSUME SyncInv, quiet, ~sync.on PROVE AnswersAreForHead /\ DataContinuesBuffer
    BY DEF QuietReadsDoNotMix
  <2>1. quiet = TRUE /\ sync.on = FALSE
    BY DEF SyncInv, SyncType
  <2>2. QueueInv /\ HistoryInv
    BY <2>1 DEF SyncInv, Mixed
  <2> QED
    BY <2>2, IInvParts, IInvSafety
<1> QED
  BY <1>1, SyncInvariance, PTL

\* Under the same conditions wiiuse_read_data_sync returns with its own
\* answer, whole and in order.
THEOREM QuietSyncReadsAreWhole == SyncSpec => QuietSyncReadIsWhole
<1> DEFINE A == sync.on /\ ~sync'.on /\ quiet' => OwnAnswer(sync')
<1>1. SyncInv /\ [SyncNext]_syncVars => [A]_syncVars
  <2> SUFFICES ASSUME SyncInv, SyncNext, sync.on, ~sync'.on, quiet'
               PROVE  OwnAnswer(sync')
    OBVIOUS
  <2>1. SyncInv' /\ sync.on = TRUE /\ sync'.on = FALSE /\ quiet' = TRUE
    <3>1. SyncInv' /\ SyncType /\ SyncType'
      BY NextSyncInv DEF SyncInv
    <3> QED
      BY <3>1 DEF SyncType
  <2>2. ~(Unblocked \/ Environment)
    BY <2>1 DEF Unblocked, Environment
  <2>3. ASSUME NEW size \in SyncSizes, SyncStart(size) PROVE FALSE
    BY <2>3 DEF SyncStart
  <2>4. CASE SyncTake
    BY <2>1, <2>4, TakeSyncInv
  <2>5. ~SyncTimeout /\ ~SyncClosed
    BY <2>1 DEF SyncTimeout, SyncClosed
  <2> QED
    BY <2>2, <2>3, <2>4, <2>5 DEF SyncNext, Sync
<1>2. [][A]_syncVars => QuietSyncReadIsWhole
  BY DEF QuietSyncReadIsWhole
<1> HIDE DEF A
<1> QED
  BY <1>1, <1>2, SyncInvariance, PTL DEF SyncSpec

=============================================================================
