------------------------------ MODULE ReadQueue ------------------------------
(***************************************************************************)
(* The queue of asynchronous memory reads of one remote (wm->read_req):    *)
(* wiiuse_read_data and wiiuse_read_data_cb put requests into it, the      *)
(* read reports that wiiuse_poll receives take them out.  The library      *)
(* keeps at most one request on the wire, because a read report does not   *)
(* say which request it answers.                                           *)
(*                                                                         *)
(* The library is single threaded: an API call, and the handling of one    *)
(* report with the callback it invokes, is one action.  What interleaves   *)
(* with these is the remote and the loss of the link.                      *)
(***************************************************************************)
EXTENDS Integers, Sequences

CONSTANTS
    MaxReads,         \* bound on the reads the application issues
    Sizes,            \* lengths a read may ask for, in bytes
    Chunk,            \* data bytes of one read report (16 on the wire)
    Width,            \* number of values of the counter "wait" (2^16 in C)
    ReadsWhileDirty,  \* may the application issue a read while the queue
                      \* holds only a finished read it has not polled past?
    CallbackCommands  \* may a callback send a command, which may fail?

ASSUME BoundAssumption == MaxReads \in Nat
ASSUME SizeAssumption ==
    /\ Chunk \in Nat \ {0}
    /\ Width \in Nat \ {0}
    /\ Sizes \subseteq 1 .. Width - 1
ASSUME UsageAssumption ==
    /\ ReadsWhileDirty \in BOOLEAN
    /\ CallbackCommands \in BOOLEAN

VARIABLES
    connected,  \* WIIMOTE_STATE_CONNECTED
    queue,      \* wm->read_req: the list of read_req_t, head first
    event,      \* wm->event as the application finds it
    linkUp,     \* does the remote still hold its end of the link?
    toDev,      \* WM_CMD_READ_DATA commands the remote has not finished
    toHost,     \* WM_RPT_READ reports the host has not received
    issued,     \* number of the last read issued
    log         \* history: the requests answered so far, with the outcome

vars == <<connected, queue, event, linkUp, toDev, toHost, issued, log>>

Events == {"NONE", "READ_DATA", "DISCONNECT", "OTHER"}
Outcomes == {"done", "error"}

Request == [id : 1 .. MaxReads, cb : BOOLEAN, size : Sizes,
            wait : 0 .. Width - 1, dirty : BOOLEAN]
Command == [id : 1 .. MaxReads, size : Sizes, sent : 0 .. Width - 1]
Report  == [id : 1 .. MaxReads, err : BOOLEAN, off : 0 .. Width - 1,
            len : 1 .. Chunk]

-----------------------------------------------------------------------------
(* The list of requests                                                    *)

Live(q) == {i \in DOMAIN q : ~q[i].dirty}

\* Position of the next non-dirty request, what a report is matched with.
FirstLive(q) == CHOOSE i \in Live(q) : \A j \in Live(q) : i <= j

\* Planted bug: finished requests never leave.
BugKeepDirty(q) == q

\* clear_dirty_reads(): finished requests leave from the head.
ClearDirty(q) == IF Live(q) = {} THEN <<>> ELSE SubSeq(q, FirstLive(q), Len(q))

\* wm->read_req = req->next, for the request at position k.
After(q, k) == SubSeq(q, k + 1, Len(q))

NewRequest(n, cb, size) ==
    [id |-> n, cb |-> cb, size |-> size, wait |-> size, dirty |-> FALSE]

\* Planted bugs: every report counted as a full one, in a signed integer;
\* the length nibble of the report used without adding 1.
BugWaitFullChunks(req, len) == req.wait - Chunk
BugWaitNibble(req, len) == req.wait - (len - 1)

\* The bookkeeping of a report of len bytes: a 16-bit subtraction, and the
\* clamp for a report longer than what is missing.
WaitAfter(req, len) ==
    LET w == (req.wait - len) % Width
    IN  IF w >= req.size THEN 0 ELSE w

-----------------------------------------------------------------------------
(* Sending and losing the connection                                       *)

CommandFor(req) == [id |-> req.id, size |-> req.size, sent |-> 0]

\* wiiuse_disconnected(), with the list of requests it leaves behind.  The
\* reports of the old link are never read again.
DisconnectedLeaving(q) ==
    /\ connected' = FALSE
    /\ event' = "DISCONNECT"
    /\ queue' = q
    /\ toDev' = <<>>
    /\ toHost' = <<>>
    /\ UNCHANGED linkUp

\* Planted bug: the list of requests is not reset.
BugDisconnectedKeepsReads == DisconnectedLeaving(queue)

Disconnected == DisconnectedLeaving(<<>>)

\* wiiuse_send_next_pending_read_request() as the last step of a handler
\* that leaves the list q, the event e and the unread reports in.
SendNext(q, e, in) ==
    \/ /\ Live(q) = {}
       /\ queue' = q
       /\ event' = e
       /\ toHost' = in
       /\ UNCHANGED <<connected, linkUp, toDev>>
    \/ /\ Live(q) # {}
       /\ linkUp
       /\ queue' = q
       /\ event' = e
       /\ toHost' = in
       /\ toDev' = Append(toDev, CommandFor(q[FirstLive(q)]))
       /\ UNCHANGED <<connected, linkUp>>
    \/ /\ Live(q) # {}
       /\ ~linkUp
       /\ Disconnected

-----------------------------------------------------------------------------
(* The application                                                         *)

\* wiiuse_connect(): a new link; nothing resets the list of requests.
Connect ==
    /\ ~connected
    /\ connected' = TRUE
    /\ linkUp' = TRUE
    /\ event' = "OTHER"
    /\ UNCHANGED <<queue, toDev, toHost, issued, log>>

\* Planted bugs: every request is sent at once; a request goes to the head.
BugSendAtOnce(cb, size) ==
    /\ connected /\ linkUp /\ issued < MaxReads
    /\ issued' = issued + 1
    /\ queue' = Append(queue, NewRequest(issued', cb, size))
    /\ toDev' = Append(toDev, CommandFor(NewRequest(issued', cb, size)))
    /\ UNCHANGED <<connected, event, linkUp, toHost, log>>

BugPushFront(cb, size) ==
    /\ connected /\ linkUp /\ issued < MaxReads
    /\ issued' = issued + 1
    /\ queue' = <<NewRequest(issued', cb, size)>> \o queue
    /\ UNCHANGED <<connected, event, linkUp, toDev, toHost, log>>

\* wiiuse_read_data() (cb = FALSE) and wiiuse_read_data_cb(): only the
\* first request of an empty list is sent.
ReadData(cb, size) ==
    /\ connected
    /\ issued < MaxReads
    /\ ReadsWhileDirty \/ queue = <<>> \/ Live(queue) # {}
    /\ issued' = issued + 1
    /\ \/ /\ queue = <<>>
          /\ SendNext(<<NewRequest(issued', cb, size)>>, event, toHost)
       \/ /\ queue # <<>>
          /\ queue' = Append(queue, NewRequest(issued', cb, size))
          /\ UNCHANGED <<connected, event, linkUp, toDev, toHost>>
    /\ UNCHANGED log

\* Any other command of the API over a dead link: the send fails.
CommandFails ==
    /\ connected
    /\ ~linkUp
    /\ Disconnected
    /\ UNCHANGED <<issued, log>>

-----------------------------------------------------------------------------
(* wiiuse_poll()                                                           *)

\* Nothing to read: idle_cycle().  A disconnected remote is only given its
\* empty event.
PollIdle ==
    /\ connected => linkUp /\ toHost = <<>>
    /\ event' = "NONE"
    /\ queue' = IF connected THEN ClearDirty(queue) ELSE queue
    /\ UNCHANGED <<connected, linkUp, toDev, toHost, issued, log>>

\* An error of select() (a signal, say), met after the events are cleared
\* and before any remote is visited: a finished request stays.
PollFails ==
    /\ connected
    /\ event' = "NONE"
    /\ UNCHANGED <<connected, queue, linkUp, toDev, toHost, issued, log>>

\* A report of another kind.
PollOther ==
    /\ connected
    /\ event' \in {"NONE", "OTHER"}
    /\ queue' = ClearDirty(queue)
    /\ UNCHANGED <<connected, linkUp, toDev, toHost, issued, log>>

\* The remote closed the link and its last report has been read.
PollClosed ==
    /\ connected
    /\ ~linkUp
    /\ toHost = <<>>
    /\ Disconnected
    /\ UNCHANGED <<issued, log>>

Finished(req, outcome) ==
    log' = Append(log, [id |-> req.id, outcome |-> outcome])

\* Planted bug: an error does not send the request behind it.
BugErrorStalls ==
    /\ connected
    /\ toHost # <<>>
    /\ Head(toHost).err
    /\ LET q == ClearDirty(queue) IN
       /\ Live(q) # {}
       /\ Finished(q[FirstLive(q)], "error")
       /\ queue' = After(q, FirstLive(q))
    /\ event' = "NONE"
    /\ toHost' = Tail(toHost)
    /\ UNCHANGED <<connected, linkUp, toDev, issued>>

\* event_data_read() for an error report: the request is dropped without a
\* callback or an event.
PollError ==
    /\ connected
    /\ toHost # <<>>
    /\ Head(toHost).err
    /\ LET q == ClearDirty(queue) IN
       /\ Live(q) # {}
       /\ Finished(q[FirstLive(q)], "error")
       /\ SendNext(After(q, FirstLive(q)), "NONE", Tail(toHost))
    /\ UNCHANGED issued

\* event_data_read() for data that does not complete the request.
PollPart ==
    /\ connected
    /\ toHost # <<>>
    /\ ~Head(toHost).err
    /\ LET q == ClearDirty(queue)
           k == FirstLive(q)
           w == WaitAfter(q[k], Head(toHost).len) IN
       /\ Live(q) # {}
       /\ w # 0
       /\ queue' = [q EXCEPT ![k].wait = w]
    /\ event' = "NONE"
    /\ toHost' = Tail(toHost)
    /\ UNCHANGED <<connected, linkUp, toDev, issued, log>>

\* event_data_read() for the last data of a request without callback: it
\* stays in the list, dirty, until the next poll.
PollEvent ==
    /\ connected
    /\ toHost # <<>>
    /\ ~Head(toHost).err
    /\ LET q == ClearDirty(queue)
           k == FirstLive(q) IN
       /\ Live(q) # {}
       /\ ~q[k].cb
       /\ WaitAfter(q[k], Head(toHost).len) = 0
       /\ Finished(q[k], "done")
       /\ SendNext([q EXCEPT ![k].wait = 0, ![k].dirty = TRUE],
                   "READ_DATA", Tail(toHost))
    /\ UNCHANGED issued

\* The same for a request with a callback, which runs while its request is
\* still in the list: it returns, issues a read (appended, as the list is
\* not empty), or sends a command that finds the link dead.  In the last
\* case wiiuse_disconnected() empties the list, and the handler then puts
\* back what followed the request.
PollCallback ==
    /\ connected
    /\ toHost # <<>>
    /\ ~Head(toHost).err
    /\ LET q == ClearDirty(queue)
           k == FirstLive(q) IN
       /\ Live(q) # {}
       /\ q[k].cb
       /\ WaitAfter(q[k], Head(toHost).len) = 0
       /\ Finished(q[k], "done")
       /\ \/ /\ SendNext(After(q, k), "NONE", Tail(toHost))
             /\ UNCHANGED issued
          \/ /\ issued < MaxReads
             /\ issued' = issued + 1
             /\ \E cb \in BOOLEAN, size \in Sizes :
                   SendNext(Append(After(q, k), NewRequest(issued', cb, size)),
                            "NONE", Tail(toHost))
          \/ /\ CallbackCommands
             /\ ~linkUp
             /\ DisconnectedLeaving(After(q, k))
             /\ UNCHANGED issued

\* event_data_read() for a read report.  (One that no request waits for does
\* not come while the queue is alone with the remote, see AnswersAreForHead;
\* module SyncReads, where it does, has that case.)
PollReport == PollError \/ PollPart \/ PollEvent \/ PollCallback

-----------------------------------------------------------------------------
(* The remote (outside the library)                                        *)

\* It answers the oldest command with the next packet of data ...
RemoteData ==
    /\ linkUp
    /\ toDev # <<>>
    /\ LET c == Head(toDev)
           n == IF c.size - c.sent < Chunk THEN c.size - c.sent ELSE Chunk IN
       /\ toHost' = Append(toHost, [id |-> c.id, err |-> FALSE,
                                    off |-> c.sent, len |-> n])
       /\ toDev' = IF c.sent + n = c.size
                   THEN Tail(toDev)
                   ELSE [toDev EXCEPT ![1].sent = c.sent + n]
    /\ UNCHANGED <<connected, queue, event, linkUp, issued, log>>

\* ... or with an error, which ends the command.
RemoteError ==
    /\ linkUp
    /\ toDev # <<>>
    /\ toHost' = Append(toHost, [id |-> Head(toDev).id, err |-> TRUE,
                                 off |-> Head(toDev).sent, len |-> 1])
    /\ toDev' = Tail(toDev)
    /\ UNCHANGED <<connected, queue, event, linkUp, issued, log>>

\* The link breaks: commands and the newest reports on it are lost.
LinkLost ==
    /\ connected
    /\ linkUp
    /\ linkUp' = FALSE
    /\ toDev' = <<>>
    /\ \E n \in 0 .. Len(toHost) : toHost' = SubSeq(toHost, 1, n)
    /\ UNCHANGED <<connected, queue, event, issued, log>>

-----------------------------------------------------------------------------
Init ==
    /\ connected = FALSE
    /\ queue = <<>>
    /\ event = "NONE"
    /\ linkUp = FALSE
    /\ toDev = <<>>
    /\ toHost = <<>>
    /\ issued = 0
    /\ log = <<>>

Application ==
    \/ Connect
    \/ \E cb \in BOOLEAN, size \in Sizes : ReadData(cb, size)
    \/ CommandFails

Poll == PollIdle \/ PollFails \/ PollOther \/ PollClosed \/ PollReport

Remote == RemoteData \/ RemoteError

Next == Application \/ Poll \/ Remote \/ LinkLost

Spec == Init /\ [][Next]_vars

\* The application keeps polling (the README asks it to) and a connected
\* remote answers; nothing makes it issue reads, reconnect or lose a link.
Fairness ==
    /\ WF_vars(PollReport)
    /\ WF_vars(PollClosed)
    /\ WF_vars(PollIdle)
    /\ WF_vars(Remote)

FairSpec == Spec /\ Fairness

-----------------------------------------------------------------------------
(* Properties                                                              *)

TypeOK ==
    /\ connected \in BOOLEAN
    /\ queue \in Seq(Request)
    /\ event \in Events
    /\ linkUp \in BOOLEAN
    /\ toDev \in Seq(Command)
    /\ toHost \in Seq(Report)
    /\ issued \in 0 .. MaxReads
    /\ log \in Seq([id : 1 .. MaxReads, outcome : Outcomes])

InFlight == toDev # <<>> \/ toHost # <<>>
Waiting  == queue[FirstLive(queue)]

\* event_data_read() assumes that a report is "from the most recent
\* request".  It may, because the queue never has two reads on the wire,
\* and the one on the wire is always the first that is not dirty.
AnswersAreForHead ==
    InFlight =>
        /\ Live(queue) # {}
        /\ Len(toDev) <= 1
        /\ \A i \in DOMAIN toDev : toDev[i].id = Waiting.id
        /\ \A i \in DOMAIN toHost : toHost[i].id = Waiting.id

\* The copy of event_data_read() continues the buffer exactly where the
\* previous one ended, and ends inside it, so that "wait" reaches 0 with
\* the last byte and never before or through the clamp.
DataContinuesBuffer ==
    \A i \in DOMAIN toHost : ~toHost[i].err =>
        /\ i = 1 => toHost[i].off = Waiting.size - Waiting.wait
        /\ toHost[i].off + toHost[i].len <= Waiting.size

\* The application that finds WIIUSE_READ_DATA may use the buffer of the
\* read that has finished: its request is at the head of the list, dirty,
\* until the next poll.  A poll that fails clears the event and leaves the
\* request, but nothing makes it stay behind another one, or two of them
\* pile up.
EventMeansBuffer ==
    /\ event = "READ_DATA" => queue # <<>> /\ queue[1].dirty
    /\ \A i \in DOMAIN queue : queue[i].dirty => i = 1

\* The first request that waits is always on the wire, so the requests
\* behind it will get their turn (wiiuse_read_data_cb: pending requests are
\* "sent out when the previous finishes").
HeadIsInFlight == connected /\ linkUp /\ Live(queue) # {} => InFlight

\* wiiuse_disconnected() leaves no request of the lost link in the list.
NoReadsWhenDisconnected == ~connected => queue = <<>>

\* Every read that is issued stops waiting: it is answered, fails, or is
\* dropped with the connection.
Waits(n) == \E i \in Live(queue) : queue[i].id = n
EveryReadEnds == \A n \in 1 .. MaxReads : Waits(n) ~> ~Waits(n)

\* The queue implements the service, where a finished request is no more.
Ids(q) == [i \in DOMAIN q |-> q[i].id]
Pending == Ids(ClearDirty(queue))

Service == INSTANCE ReadService WITH
    up <- connected,
    pending <- Pending,
    Outcomes <- Outcomes

ImplementsService == Service!Spec
=============================================================================
