------------------------------ MODULE Embedded ------------------------------
(***************************************************************************)
(* The bt-embedded back end (os_bt_embedded.c): several remotes served by  *)
(* the callbacks of one Bluetooth stack, which runs them while some call   *)
(* of the library waits in bte_wait_events().                              *)
(*                                                                         *)
(* Such a wait is not one step: it lasts from the call to its return, and  *)
(* each callback between is a step of its own.  Calls nest: the handler of *)
(* a report, called from a wait of wiiuse_poll(), may itself block in a    *)
(* read, and wait.  Memory is read by wiiuse_read_data_sync(), whose       *)
(* answer comes in several reports; of the handshake and of event_status() *)
(* only the first such read is kept.                                       *)
(***************************************************************************)
EXTENDS Integers, Sequences

CONSTANTS
    NumRemotes,  \* length of the array of remotes
    Devices,     \* addresses
    Parts,       \* reports that make up the answer to a read
    MaxReports,  \* bound on the other reports that a remote sends
    MaxQueue,    \* bound on a queue for late answers: one beyond it is lost
    MaxUnread,   \* bound on the reports of a remote not yet received: an
                 \* answer beyond it is not sent
    NoDevice     \* an address of zeros

ASSUME EmbeddedAssumption ==
    /\ NumRemotes \in Nat \ {0}
    /\ Parts \in Nat \ {0}
    /\ MaxReports \in Nat
    /\ MaxQueue \in Nat
    /\ MaxUnread \in Nat
    /\ NoDevice \notin Devices

VARIABLES
    wm,      \* the remotes: address, channels, CONNECTED, event, queue
    link,    \* the stack: connection in progress, reports not yet received
    call,    \* the call in progress of the application
    read,    \* the blocking read in progress, of the call or of a handler
    search,  \* the search for remotes
    hist     \* history, see Hist

vars == <<wm, link, call, read, search, hist>>

Remotes == 1 .. NumRemotes
Nobody  == 0

\* n numbers the reports of a remote, or the parts of an answer.
Message == [kind : {"DATA", "STATUS", "ANSWER"}, n : Nat]

\* WIIUSE_UNEXPECTED_DISCONNECT is the one event the back end looks at.  The
\* first freed buffers of the queue have been released; spoilt: one of them has
\* been used after that.
Wiimote == [address : Devices \cup {NoDevice}, ctrl : BOOLEAN, intr : BOOLEAN,
            connected : BOOLEAN, event : {"UNEXPECTED", "OTHER"},
            queue : Seq(Message), freed : Nat, spoilt : BOOLEAN]

Link == [pending : {"none", "ctrl", "intr"}, unread : Seq(Message), sent : Nat]

\* remote is that of connect and handshake, and with at the place in the
\* queues that are delivered; stale: connect has found an old event.
Call == [kind : {"idle", "find", "connect", "handshake", "deliver", "poll"},
         remote : Remotes \cup {Nobody}, at : Nat, stale : BOOLEAN]

\* waits: in wiiuse_os_read().  any: an event has occurred in this wait.
\* buf: what the caller's buffer holds, if it was filled: a part, or another
\* report (0).  got: the parts taken.
\* clean (history): the read has met neither the rest of an earlier answer,
\* nor a wait with other events than one report of its remote.
Read == [remote : Remotes \cup {Nobody}, waits : BOOLEAN, any : BOOLEAN,
         buf : Seq(Nat), got : Seq(Nat), clean : BOOLEAN]

NoRead == [remote |-> Nobody, waits |-> FALSE, any |-> FALSE, buf |-> <<>>,
           got |-> <<>>, clean |-> TRUE]
Idle == [kind |-> "idle", remote |-> Nobody, at |-> 0, stale |-> FALSE]

Reading == read.remote # Nobody

\* s_sync_read_target
Target == IF read.waits THEN read.remote ELSE Nobody

\* By number, the reports that were put into the queue, and those that handlers
\* have seen; and the remotes that the application has disconnected, and not
\* connected again.
Hist == [owed : [Remotes -> SUBSET Nat], handled : [Remotes -> SUBSET Nat],
         left : SUBSET Remotes]

\* Somebody waits in bte_wait_events(), for the events of remotes.
Waiting == IF Reading THEN read.waits ELSE call.kind \in {"connect", "poll"}

-----------------------------------------------------------------------------
(* Blocking reads                                                          *)

Answer == [i \in 1 .. Parts |-> [kind |-> "ANSWER", n |-> i]]
Answers(l) == \E i \in 1 .. Len(l.unread) : l.unread[i].kind = "ANSWER"

\* The command of a read of remote r is written, and answered unless the
\* channel is gone.
StartsRead(r, l) ==
    /\ read' = [NoRead EXCEPT !.remote = r, !.clean = ~Answers(l)]
    /\ link' = [link EXCEPT ![r] =
                  IF wm[r].intr /\ Len(l.unread) + Parts <= MaxUnread
                  THEN [l EXCEPT !.unread = @ \o Answer] ELSE l]

\* wiiuse_os_read() is called by wiiuse_wait_report() ...
ReadWaits ==
    /\ Reading /\ ~read.waits
    /\ Len(read.got) < Parts
    /\ read' = [read EXCEPT !.waits = TRUE, !.any = FALSE]
    /\ UNCHANGED <<wm, link, call, search, hist>>

\* Planted bug: a wait that ends without an event counts, too.
BugPartsFound == IF read.buf \in {<<>>, <<0>>} THEN {<<>>} ELSE {read.buf}

\* The part that the buffer is taken for, if any: one that was never filled
\* may hold anything (0).
PartsFound ==
    IF ~read.any THEN {<<>>}
    ELSE IF read.buf = <<>> THEN {<<>>, <<0>>}
    ELSE IF read.buf = <<0>> THEN {<<>>}
    ELSE {read.buf}

\* ... and returns the number of events: any of them counts as a report in
\* the buffer.
ReadReturns ==
    /\ read.waits
    /\ \E part \in PartsFound :
          read' = [read EXCEPT !.waits = FALSE, !.got = @ \o part]
    /\ UNCHANGED <<wm, link, call, search, hist>>

\* The read has all of its parts, or wiiuse_wait_report() gives up.  Its
\* handler returns, or the handshake: it sets another event, but the link may
\* break after that.
ReadEnds ==
    /\ Reading /\ ~read.waits
    /\ read' = NoRead
    /\ IF call.kind = "handshake"
       THEN /\ call' = Idle
            /\ wm' \in {wm, [wm EXCEPT ![call.remote].event = "OTHER"]}
       ELSE UNCHANGED <<wm, call>>
    /\ UNCHANGED <<link, search, hist>>

-----------------------------------------------------------------------------
(* Callbacks of reports                                                    *)

\* propagate_event(): a status report is answered by a read of its remote
\* (wiiuse_probe_motion_plus), an answer nobody waits for is ignored.  w and l
\* are the remote and its link without the report.
Handles(r, w, m, l) ==
    /\ wm' \in {[wm EXCEPT ![r] = w], [wm EXCEPT ![r] = [w EXCEPT !.event = "OTHER"]]}
    /\ hist' = IF m.kind = "ANSWER" \/ m.n = 0 THEN hist
               ELSE [hist EXCEPT !.handled[r] = @ \cup {m.n}]
    /\ IF m.kind = "STATUS"
       THEN StartsRead(r, l)
       ELSE link' = [link EXCEPT ![r] = l] /\ UNCHANGED read

Owed(r, m) == IF m.kind = "ANSWER" THEN hist ELSE [hist EXCEPT !.owed[r] = @ \cup {m.n}]

\* message_received_cb(), for the remote that is read: into the buffer ...
ToReader(r, m, l) ==
    /\ Target = r
    /\ read' = [read EXCEPT !.buf = <<IF m.kind = "ANSWER" THEN m.n ELSE 0>>,
                            !.any = TRUE, !.clean = @ /\ ~read.any]
    /\ link' = [link EXCEPT ![r] = l]
    /\ UNCHANGED <<wm, hist>>

\* Planted bug: the buffer is dropped.
BugToQueue(r, m, l) ==
    /\ Target \notin {Nobody, r}
    /\ read' = [read EXCEPT !.any = TRUE, !.clean = FALSE]
    /\ link' = [link EXCEPT ![r] = l]
    /\ hist' = Owed(r, m)
    /\ UNCHANGED wm

\* bte_buffer_append() looks for the end of the queue.  If its first buffers have
\* been released the end need not be found.
Queued(w, m) ==
    IF m.kind = "ANSWER" /\ Len(w.queue) >= MaxQueue THEN {w}
    ELSE IF w.freed = 0 THEN {[w EXCEPT !.queue = Append(@, m)]}
    ELSE {[w EXCEPT !.spoilt = TRUE, !.queue = Append(@, m)], [w EXCEPT !.spoilt = TRUE]}

\* ... for another one: into its queue ...
ToQueue(r, m, l) ==
    /\ Target \notin {Nobody, r}
    /\ \E w \in Queued(wm[r], m) : wm' = [wm EXCEPT ![r] = w]
    /\ read' = [read EXCEPT !.any = TRUE, !.clean = FALSE]
    /\ link' = [link EXCEPT ![r] = l]
    /\ hist' = Owed(r, m)

\* ... and without a read to the handlers.
ToHandler(r, m, l) ==
    /\ Target = Nobody
    /\ Handles(r, wm[r], m, l)

MessageReceived(r) ==
    /\ Waiting
    /\ wm[r].intr
    /\ link[r].unread # <<>>
    /\ LET m == Head(link[r].unread)
           l == [link[r] EXCEPT !.unread = Tail(@)]
       IN ToReader(r, m, l) \/ ToQueue(r, m, l) \/ ToHandler(r, m, l)
    /\ UNCHANGED <<call, search>>

\* An event of the stack counts in the wait of a read.
Interrupts == read' = IF read.waits THEN [read EXCEPT !.any = TRUE, !.clean = FALSE] ELSE read

\* An event that concerns no remote.
OtherEvent ==
    /\ read.waits
    /\ Interrupts
    /\ UNCHANGED <<wm, link, call, search, hist>>

-----------------------------------------------------------------------------
(* Connections                                                             *)

Fails(w) == [w EXCEPT !.event = "UNEXPECTED"]

\* wiiuse_os_connect_single() asks for the first channel.
Connect(r) ==
    /\ call = Idle
    /\ wm[r].address # NoDevice
    /\ ~wm[r].connected
    /\ link[r].pending = "none"
    /\ link' = [link EXCEPT ![r].pending = "ctrl"]
    /\ call' = [Idle EXCEPT !.kind = "connect", !.remote = r,
                            !.stale = wm[r].event = "UNEXPECTED"]
    /\ hist' = [hist EXCEPT !.left = @ \ {r}]
    /\ UNCHANGED <<wm, read, search>>

\* ctrl_channel_connected_cb()
ControlConnected(r, ok) ==
    /\ Waiting
    /\ link[r].pending = "ctrl"
    /\ wm' = [wm EXCEPT ![r] = IF ok THEN [@ EXCEPT !.ctrl = TRUE] ELSE Fails(@)]
    /\ link' = [link EXCEPT ![r].pending = IF ok THEN "intr" ELSE "none"]
    /\ Interrupts
    /\ UNCHANGED <<call, search, hist>>

\* Planted bug: the control channel is kept.
BugInterruptConnected(r, ok) ==
    /\ Waiting
    /\ link[r].pending = "intr"
    /\ wm' = [wm EXCEPT ![r] = IF ok THEN [@ EXCEPT !.intr = TRUE, !.connected = TRUE]
                               ELSE Fails(@)]
    /\ link' = [link EXCEPT ![r].pending = "none"]
    /\ Interrupts
    /\ UNCHANGED <<call, search, hist>>

\* intr_channel_connected_cb().  If the control channel has been released
\* meanwhile the stack is called without one, which is taken to do nothing.
InterruptConnected(r, ok) ==
    /\ Waiting
    /\ link[r].pending = "intr"
    /\ wm' = [wm EXCEPT ![r] = IF ok THEN [@ EXCEPT !.intr = TRUE, !.connected = TRUE]
                               ELSE Fails([@ EXCEPT !.ctrl = FALSE])]
    /\ link' = [link EXCEPT ![r].pending = "none"]
    /\ Interrupts
    /\ UNCHANGED <<call, search, hist>>

\* disconnected_cb(), which is set on the control channel.  The event is
\* WIIUSE_DISCONNECT if the reason the stack gives is its own host, and may be
\* overwritten at once, by an angle that counts as changed.
Disconnected(r) ==
    /\ Waiting
    /\ wm[r].connected /\ wm[r].ctrl
    /\ \E event \in {"UNEXPECTED", "OTHER"} :
          wm' = [wm EXCEPT ![r] = [@ EXCEPT !.ctrl = FALSE, !.intr = FALSE,
                                            !.connected = FALSE, !.event = event]]
    /\ link' = [link EXCEPT ![r].unread = <<>>]
    /\ Interrupts
    /\ UNCHANGED <<call, search, hist>>

\* wiiuse_handshake() begins with a read.
Handshakes(r) ==
    /\ call' = [Idle EXCEPT !.kind = "handshake", !.remote = r]
    /\ StartsRead(r, link[r])
    /\ UNCHANGED <<wm, search, hist>>

\* Planted bug: the wait is given up after some time.
BugConnectFails ==
    /\ call.kind = "connect" /\ ~Reading
    /\ ~wm[call.remote].connected
    /\ call' = Idle
    /\ UNCHANGED <<wm, link, read, search, hist>>

\* The wait of wiiuse_os_connect_single() is over, or never begins.
Connected ==
    /\ call.kind = "connect" /\ ~Reading
    /\ wm[call.remote].connected
    /\ Handshakes(call.remote)

ConnectFails ==
    /\ call.kind = "connect" /\ ~Reading
    /\ ~wm[call.remote].connected
    /\ wm[call.remote].event = "UNEXPECTED"
    /\ call' = Idle
    /\ UNCHANGED <<wm, link, read, search, hist>>

\* wiiuse_resync(), which the application calls for a connected remote.
Resync(r) ==
    /\ call = Idle
    /\ wm[r].connected
    /\ Handshakes(r)

\* wiiuse_os_disconnect(), which does nothing for a connected remote.  It ends
\* channels, and no attempt to open one.
Disconnect(r) ==
    /\ call = Idle
    /\ ~wm[r].connected
    /\ wm' = [wm EXCEPT ![r] = [@ EXCEPT !.ctrl = FALSE, !.intr = FALSE, !.event = "OTHER"]]
    /\ hist' = [hist EXCEPT !.left = @ \cup {r}]
    /\ UNCHANGED <<link, call, read, search>>

-----------------------------------------------------------------------------
(* Polling                                                                 *)

\* wiiuse_os_poll()
Poll ==
    /\ call = Idle
    /\ call' = [Idle EXCEPT !.kind = "deliver", !.remote = 1, !.at = 1]
    /\ UNCHANGED <<wm, link, read, search, hist>>

\* deliver_queued_data(): the next buffer of the queue is handled and released.
\* The queue goes on pointing to it ...
Deliver ==
    /\ call.kind = "deliver" /\ ~Reading
    /\ LET r == call.remote
           w == wm[r]
       IN /\ call.at > w.freed /\ call.at <= Len(w.queue)
          /\ Handles(r, [w EXCEPT !.freed = call.at], w.queue[call.at], link[r])
    /\ call' = [call EXCEPT !.at = @ + 1]
    /\ UNCHANGED search

\* A released buffer may still hold its report, or any (0), and may still lead to
\* the rest of the queue.
Leftovers(m) == {m} \cup [kind : {"DATA", "STATUS"}, n : {0}]

\* ... so that the next poll begins with buffers that have been released.
DeliverReleased ==
    /\ call.kind = "deliver" /\ ~Reading
    /\ LET r == call.remote
           w == wm[r]
       IN /\ call.at <= w.freed
          /\ \E m \in Leftovers(w.queue[call.at]) :
                Handles(r, [w EXCEPT !.spoilt = TRUE], m, link[r])
          /\ \E next \in {call.at, Len(w.queue)} : call' = [call EXCEPT !.at = next + 1]
    /\ UNCHANGED search

\* Planted bug: one remote too many.
BugDeliverNext ==
    /\ call.kind = "deliver" /\ ~Reading
    /\ call.at > Len(wm[call.remote].queue)
    /\ call' = IF call.remote <= NumRemotes
               THEN [call EXCEPT !.remote = @ + 1, !.at = 1]
               ELSE [Idle EXCEPT !.kind = "poll"]
    /\ UNCHANGED <<wm, link, read, search, hist>>

\* The queue of the next remote, and after the last one the wait.
DeliverNext ==
    /\ call.kind = "deliver" /\ ~Reading
    /\ call.at > Len(wm[call.remote].queue)
    /\ call' = IF call.remote < NumRemotes
               THEN [call EXCEPT !.remote = @ + 1, !.at = 1]
               ELSE [Idle EXCEPT !.kind = "poll"]
    /\ UNCHANGED <<wm, link, read, search, hist>>

PollReturns ==
    /\ call.kind = "poll" /\ ~Reading
    /\ call' = Idle
    /\ UNCHANGED <<wm, link, read, search, hist>>

-----------------------------------------------------------------------------
(* The search                                                              *)

\* found: ctx.num_found; asked: the devices whose names have been asked for.
Search == [found : Nat, asked : SUBSET Devices]

NoSearch == [found |-> 0, asked |-> {}]

\* wiimote_known(), of the slots of this search.  What lies beyond the array is
\* left out.
Known(d) == \E r \in Remotes : r <= search.found /\ wm[r].address = d

\* wiiuse_os_find(), which the application calls before it connects.
Find ==
    /\ call = Idle
    /\ \A r \in Remotes : ~wm[r].connected /\ link[r].pending = "none"
    /\ call' = [Idle EXCEPT !.kind = "find"]
    /\ UNCHANGED <<wm, link, read, search, hist>>

\* inquiry_cb(): each reply of the periodic inquiry may ask for a name.
Inquiry(d) ==
    /\ call.kind = "find"
    /\ search.found < NumRemotes
    /\ ~Known(d)
    /\ search' = [search EXCEPT !.asked = @ \cup {d}]
    /\ UNCHANGED <<wm, link, call, read, hist>>

\* read_remote_name_cb(): the next slot is filled, of an array that may be full
\* already; ctx.done ends the search only when the wait of the callback does.
RemoteName(d, ok) ==
    /\ call.kind = "find"
    /\ d \in search.asked
    /\ LET found == ok /\ ~Known(d)
           slot == search.found + 1
       IN /\ search' = [found |-> IF found THEN slot ELSE search.found,
                        asked |-> search.asked \ {d}]
          /\ wm' = IF found /\ slot \in Remotes THEN [wm EXCEPT ![slot].address = d] ELSE wm
    /\ UNCHANGED <<link, call, read, hist>>

\* The search is full, or its time is over.
FindReturns ==
    /\ call.kind = "find"
    /\ call' = Idle
    /\ search' = NoSearch
    /\ UNCHANGED <<wm, link, read, hist>>

-----------------------------------------------------------------------------
(* The remotes (outside the library)                                       *)

Report(r) ==
    /\ wm[r].intr
    /\ link[r].sent < MaxReports
    /\ Len(link[r].unread) < MaxUnread
    /\ \E kind \in {"DATA", "STATUS"} :
          link' = [link EXCEPT ![r] =
                     [link[r] EXCEPT !.sent = @ + 1,
                                     !.unread = Append(@, [kind |-> kind, n |-> link[r].sent + 1])]]
    /\ UNCHANGED <<wm, call, read, search, hist>>

-----------------------------------------------------------------------------
Init ==
    /\ wm = [r \in Remotes |-> [address |-> NoDevice, ctrl |-> FALSE, intr |-> FALSE,
                                connected |-> FALSE, event |-> "OTHER", queue |-> <<>>,
                                freed |-> 0, spoilt |-> FALSE]]
    /\ link = [r \in Remotes |-> [pending |-> "none", unread |-> <<>>, sent |-> 0]]
    /\ call = Idle
    /\ read = NoRead
    /\ search = NoSearch
    /\ hist = [owed |-> [r \in Remotes |-> {}], handled |-> [r \in Remotes |-> {}],
               left |-> {}]

\* What wiiuse_poll() does by itself.
Polling == Deliver \/ DeliverReleased \/ DeliverNext \/ PollReturns

Application ==
    \/ Poll \/ Find \/ FindReturns \/ Connected \/ ConnectFails
    \/ \E r \in Remotes : Connect(r) \/ Resync(r) \/ Disconnect(r)

Callbacks ==
    \/ \E r \in Remotes : MessageReceived(r) \/ Disconnected(r)
    \/ \E r \in Remotes, ok \in BOOLEAN : ControlConnected(r, ok) \/ InterruptConnected(r, ok)
    \/ OtherEvent
    \/ \E d \in Devices : Inquiry(d)
    \/ \E d \in Devices, ok \in BOOLEAN : RemoteName(d, ok)

Reads == ReadWaits \/ ReadReturns \/ ReadEnds

Next == Application \/ Callbacks \/ Polling \/ Reads \/ \E r \in Remotes : Report(r)

Spec == Init /\ [][Next]_vars

-----------------------------------------------------------------------------
(* Properties                                                              *)

EmbeddedTypeOK ==
    /\ wm \in [Remotes -> Wiimote]
    /\ link \in [Remotes -> Link]
    /\ call \in Call
    /\ read \in Read
    /\ search \in Search
    /\ hist \in Hist

\* Whatever fails in between, a remote that counts as connected has both of
\* its channels, and no other holds one that nothing will release.  Only one
\* that the application disconnects while an attempt is under way may come up
\* without the control channel.
ChannelsMatch ==
    \A r \in Remotes :
        IF wm[r].connected
        THEN wm[r].intr /\ (r \notin hist.left => wm[r].ctrl)
        ELSE ~wm[r].intr /\ (wm[r].ctrl => link[r].pending = "intr")

\* The reports in the buffers of r that have not been released.
Kept(r) == {wm[r].queue[i].n : i \in {j \in DOMAIN wm[r].queue :
               j > wm[r].freed /\ wm[r].queue[j].kind # "ANSWER"}}

\* As long as no released buffer has been used, a report that comes during a
\* blocking read of another remote is in the queue until a handler sees it,
\* through every nesting of reads and deliveries, and not there any more when
\* one has seen it.  (Released buffers are used: the second poll after such a
\* report delivers it again, out of a buffer that is no longer the queue's.)
ReportsAreKept ==
    (\A r \in Remotes : ~wm[r].spoilt) =>
        \A r \in Remotes : /\ hist.owed[r] \subseteq hist.handled[r] \cup Kept(r)
                           /\ hist.handled[r] \cap Kept(r) = {}

\* If no late answer is on the way, and no wait of the read meets another
\* event than one report of its remote, its parts are those of the answer, in
\* order, and none twice.
CleanReadIsWhole ==
    Reading /\ read.clean => \A i \in DOMAIN read.got : read.got[i] = i

\* wiiuse_connect() does not return while the connection it has asked for may
\* still be made behind its back (without a handshake), unless it was ended by
\* an event left over from before.  (In that case the remote is not counted, and
\* connects later.)
ConnectEndsItsAttempt ==
    [][call.kind = "connect" /\ call' = Idle /\ ~call.stale =>
          link[call.remote].pending = "none"]_vars
=============================================================================
