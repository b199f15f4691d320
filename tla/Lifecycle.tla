------------------------------ MODULE Lifecycle ------------------------------
(***************************************************************************)
(* The array of wiimote_t of an application, its Bluetooth sockets, and    *)
(* the calls that find, connect, poll, disconnect and clean up remotes     *)
(* (the BlueZ back end, os_nix.c).                                         *)
(*                                                                         *)
(* The library is single threaded.  wiiuse_connect and wiiuse_poll visit   *)
(* the remotes one after the other: each visit is a step, and links may    *)
(* break between two of them.  The other calls are one step.               *)
(*                                                                         *)
(* The handshake is reduced to its result: the remote is connected, or the *)
(* link broke and wiiuse_disconnected() has run.                           *)
(***************************************************************************)
EXTENDS Integers, FiniteSets

CONSTANTS
    Remotes,  \* number of elements of the array
    Fds       \* socket numbers the process may use

ASSUME LifecycleAssumption ==
    /\ Remotes \in Nat \ {0}
    /\ Fds \in SUBSET Nat
    /\ IsFiniteSet(Fds)

Slots == 1 .. Remotes
NoFd  == -1

VARIABLES
    wm,     \* the array of remotes
    alive,  \* between wiiuse_init() and wiiuse_cleanup()
    socks,  \* the sockets of the process: "free", connected ("up"), or not
    call,   \* the call in progress, or the one that returned last
    tidy,   \* history: a remote that is connected or cleaned up was
            \* disconnected first
    aside   \* history: the remotes that the callback of another one has
            \* found lost in the last poll, outside their own visit

vars == <<wm, alive, socks, call, tidy, aside>>

SlotEvents == {"NONE", "DISCONNECT", "UNEXPECTED_DISCONNECT", "OTHER"}

\* found is WIIMOTE_STATE_DEV_FOUND, addr whether the address is set.
Wiimote == [found : BOOLEAN, addr : BOOLEAN, connected : BOOLEAN,
            out : Fds \cup {NoFd}, in : Fds \cup {NoFd}, event : SlotEvents]

NewWiimote == [found |-> FALSE, addr |-> FALSE, connected |-> FALSE,
               out |-> NoFd, in |-> NoFd, event |-> "NONE"]

\* at is the remote visited next, n the value to return; ready are the
\* remotes select() found readable.
Calls == [op : {"none", "connect", "poll", "disconnect"}, at : Slots,
          n : 0 .. Remotes, ready : SUBSET Slots]

NoCall == [op |-> "none", at |-> 1, n |-> 0, ready |-> {}]

Idle == alive /\ call.op = "none"

-----------------------------------------------------------------------------
(* Sockets                                                                 *)

FreeFds(t) == {f \in Fds : t[f] = "free"}

\* socket() takes the lowest number.
NextFd(t) == CHOOSE f \in FreeFds(t) : \A g \in FreeFds(t) : f <= g

Closed(t, fs) == [f \in Fds |-> IF f \in fs THEN "free" ELSE t[f]]

\* The sockets after the link of remote s broke.
Broken(s) == [f \in Fds |-> IF f \in {wm[s].out, wm[s].in} /\ socks[f] = "up"
                            THEN "down" ELSE socks[f]]

LinkUp(s) == wm[s].in # NoFd /\ socks[wm[s].in] = "up"

-----------------------------------------------------------------------------
(* Losing and closing a connection                                         *)

\* wiiuse_disconnected(): the state flags go back to WIIMOTE_INIT_STATES;
\* the sockets stay open.
Disconnected(w) ==
    [w EXCEPT !.connected = FALSE, !.found = FALSE, !.event = "DISCONNECT"]

\* The same inside a handler that goes on without noticing.  A status report
\* with an attachment starts the handshake with it, and the buffer that was
\* never filled may hold the identifier of the last one.  A blocking wait
\* reads on: where recv() says ENOTCONN, the first read finds the remote
\* connected and leaves its sockets open, the second one closes them.
DisconnectedInHandler(w) ==
    {[Disconnected(v) EXCEPT !.event = e] :
        v \in {w, [w EXCEPT !.out = NoFd, !.in = NoFd]},
        e \in {"DISCONNECT", "OTHER"}}

\* The sockets that remote w has closed when it has become v.
LetGo(w, v) == {w.out, w.in} \ {v.out, v.in}

\* Planted bug: only one socket is closed.
BugClosedInput(w) == IF w.connected THEN {} ELSE {w.in}

\* wiiuse_os_disconnect(): a remote that is connected is left alone.
OsDisconnect(w) ==
    IF w.connected THEN w
    ELSE [w EXCEPT !.out = NoFd, !.in = NoFd, !.event = "NONE"]

ClosedByOsDisconnect(w) == IF w.connected THEN {} ELSE {w.out, w.in}

BeginDisconnect(s) ==
    /\ Idle
    /\ call' = [NoCall EXCEPT !.op = "disconnect", !.at = s]
    /\ UNCHANGED <<wm, alive, socks, tidy, aside>>

\* wiiuse_disconnect()
Disconnect(s) ==
    /\ call.op = "disconnect"
    /\ call.at = s
    /\ wm' = [wm EXCEPT ![s] = OsDisconnect(@)]
    /\ socks' = Closed(socks, ClosedByOsDisconnect(wm[s]))
    /\ call' = NoCall
    /\ UNCHANGED <<alive, tidy, aside>>

\* The library exports wiiuse_disconnected() as well.
ApiDisconnected(s) ==
    /\ Idle
    /\ wm' = [wm EXCEPT ![s] = Disconnected(@)]
    /\ UNCHANGED <<alive, socks, call, tidy, aside>>

\* Any other command over a dead link: the send fails.
CommandFails(s) ==
    /\ Idle
    /\ wm[s].connected
    /\ ~LinkUp(s)
    /\ wm' = [wm EXCEPT ![s] = Disconnected(@)]
    /\ UNCHANGED <<alive, socks, call, tidy, aside>>

\* wiiuse_cleanup(): the structures and the socket numbers in them go.
Cleanup ==
    /\ Idle
    /\ alive' = FALSE
    /\ socks' = Closed(socks, UNION {ClosedByOsDisconnect(wm[s]) : s \in Slots})
    /\ wm' = [s \in Slots |-> NewWiimote]
    /\ tidy' = (tidy /\ \A s \in Slots : ~wm[s].connected)
    /\ call' = NoCall
    /\ UNCHANGED aside

\* wiiuse_init(), once more.
InitAgain ==
    /\ ~alive
    /\ alive' = TRUE
    /\ wm' = [s \in Slots |-> NewWiimote]
    /\ UNCHANGED <<socks, call, tidy, aside>>

-----------------------------------------------------------------------------
(* Finding and connecting                                                  *)

\* wiiuse_find(): all addresses are forgotten, and the k remotes in reach
\* fill the array from its start.  Without an adapter k = 0.
Find(k) ==
    /\ Idle
    /\ wm' = [s \in Slots |-> [wm[s] EXCEPT !.addr = s <= k,
                                            !.found = @ \/ s <= k]]
    /\ UNCHANGED <<alive, socks, call, tidy, aside>>

BeginConnect ==
    /\ Idle
    /\ call' = [NoCall EXCEPT !.op = "connect"]
    /\ UNCHANGED <<wm, alive, socks, tidy, aside>>

\* On to the next remote with n counted so far, or back to the caller.
Advance(n) ==
    call' = IF call.at = Remotes
            THEN [NoCall EXCEPT !.n = n]
            ELSE [call EXCEPT !.at = @ + 1, !.n = n]

Connecting(s) == call.op = "connect" /\ call.at = s

\* No address found for it, or connected already.
ConnectSkip(s) ==
    /\ Connecting(s)
    /\ ~wm[s].found \/ wm[s].connected
    /\ Advance(call.n)
    /\ UNCHANGED <<wm, alive, socks, tidy, aside>>

\* wiiuse_os_connect_single() up to its first socket().
Opens(s) ==
    /\ Connecting(s)
    /\ wm[s].found /\ ~wm[s].connected
    /\ tidy' = (tidy /\ wm[s].out = NoFd /\ wm[s].in = NoFd)
    /\ UNCHANGED <<alive, aside>>

Fails(s, out, in, t) ==
    /\ wm' = [wm EXCEPT ![s].out = out, ![s].in = in]
    /\ socks' = t
    /\ Advance(call.n)

ConnectNoSocket(s) ==
    /\ Opens(s)
    /\ Fails(s, NoFd, wm[s].in, socks)

\* connect() of the output channel fails: its socket stays open.
ConnectNoOutput(s) ==
    /\ Opens(s)
    /\ FreeFds(socks) # {}
    /\ LET f == NextFd(socks) IN
       Fails(s, f, wm[s].in, [socks EXCEPT ![f] = "down"])

\* No socket for the input channel: the first one is closed again.
ConnectNoSecondSocket(s) ==
    /\ Opens(s)
    /\ wm[s].addr
    /\ FreeFds(socks) # {}
    /\ Fails(s, NoFd, NoFd, socks)

\* Planted bug: the closed socket is not forgotten.
BugConnectNoInput(s) ==
    /\ Opens(s)
    /\ wm[s].addr
    /\ LET f == NextFd(socks)
           g == NextFd([socks EXCEPT ![f] = "up"]) IN
       /\ Cardinality(FreeFds(socks)) >= 2
       /\ Fails(s, f, g, [socks EXCEPT ![g] = "down"])

\* connect() of the input channel fails: its socket stays open.
ConnectNoInput(s) ==
    /\ Opens(s)
    /\ wm[s].addr
    /\ Cardinality(FreeFds(socks)) >= 2
    /\ LET f == NextFd(socks)
           g == NextFd([socks EXCEPT ![f] = "up"]) IN
       Fails(s, NoFd, g, [socks EXCEPT ![g] = "down"])

\* Both channels are up and the handshake has run.  wiiuse_connect()
\* counts the remote even if the link broke during the handshake.
ConnectDone(s) ==
    /\ Opens(s)
    /\ wm[s].addr
    /\ Cardinality(FreeFds(socks)) >= 2
    /\ LET f == NextFd(socks)
           g == NextFd([socks EXCEPT ![f] = "up"])
           w == [wm[s] EXCEPT !.out = f, !.in = g, !.connected = TRUE,
                              !.event = "OTHER"] IN
       \/ /\ wm' = [wm EXCEPT ![s] = w]
          /\ socks' = [socks EXCEPT ![f] = "up", ![g] = "up"]
       \/ \E lost \in DisconnectedInHandler(w) :
             /\ wm' = [wm EXCEPT ![s] = lost]
             /\ socks' = Closed([socks EXCEPT ![f] = "down", ![g] = "down"],
                                LetGo(w, lost))
    /\ Advance(call.n + 1)

\* wiiuse_resync(): the handshake again, which counts the remote as
\* connected until a command fails.
Resync(s) ==
    /\ Idle
    /\ \/ /\ LinkUp(s)
          /\ wm' = [wm EXCEPT ![s].connected = TRUE, ![s].event = "OTHER"]
          /\ UNCHANGED socks
       \/ \E lost \in DisconnectedInHandler(wm[s]) :
             /\ wm' = [wm EXCEPT ![s] = lost]
             /\ socks' = Closed(Broken(s), LetGo(wm[s], lost))
    /\ UNCHANGED <<alive, call, tidy, aside>>

ConnectVisit(s) ==
    \/ ConnectSkip(s) \/ ConnectNoSocket(s) \/ ConnectNoOutput(s)
    \/ ConnectNoSecondSocket(s) \/ ConnectNoInput(s) \/ ConnectDone(s)

-----------------------------------------------------------------------------
(* wiiuse_poll()                                                           *)

\* Planted bug: a remote that is not connected keeps its old event.
BugNoEvents(w) == IF w.connected THEN [w EXCEPT !.event = "NONE"] ELSE w

NoEvent(w) == [w EXCEPT !.event = "NONE"]

ConnectedSlots == {s \in Slots : wm[s].connected}

\* The loop that clears the events and collects the sockets, and select():
\* nothing to poll, or an error of select(), and the call returns 0.
BeginPoll ==
    /\ Idle
    /\ wm' = [s \in Slots |-> NoEvent(wm[s])]
    /\ \/ call' = NoCall
       \/ /\ ConnectedSlots # {}
          /\ \E ready \in SUBSET ConnectedSlots :
                call' = [NoCall EXCEPT !.op = "poll", !.ready = ready]
    /\ aside' = {}
    /\ UNCHANGED <<alive, socks, tidy>>

Polling(s) == call.op = "poll" /\ call.at = s

\* Not connected, nothing to read (idle_cycle), or a recv() that fails for
\* no good reason.
PollNothing(s) ==
    /\ Polling(s)
    /\ Advance(call.n)
    /\ UNCHANGED <<wm, alive, socks, tidy, aside>>

Readable(s) == Polling(s) /\ wm[s].connected /\ s \in call.ready

Occurs(s, w) ==
    /\ wm' = [wm EXCEPT ![s] = w]
    /\ Advance(call.n + (IF w.event # "NONE" THEN 1 ELSE 0))
    /\ socks' = Closed(socks, LetGo(wm[s], w))
    /\ UNCHANGED <<alive, tidy, aside>>

\* A report; its handler may set an event ...
PollReport(s) ==
    /\ Readable(s)
    /\ \E e \in {"NONE", "OTHER"} : Occurs(s, [wm[s] EXCEPT !.event = e])

\* ... or send a command, which fails on a dead link.
PollReportLoses(s) ==
    /\ Readable(s)
    /\ ~LinkUp(s)
    /\ \E lost \in DisconnectedInHandler(wm[s]) : Occurs(s, lost)

\* A callback of the handler sends a command to another remote.
PollCallback(s) ==
    /\ Readable(s)
    /\ \E o \in Slots \ {s} :
          /\ wm[o].connected /\ ~LinkUp(o)
          /\ wm' = [wm EXCEPT ![o] = Disconnected(@)]
          /\ aside' = aside \cup {o}
    /\ Advance(call.n)
    /\ UNCHANGED <<alive, socks, tidy>>

\* Planted bug: the loss is not an event.
BugPollClosed(s) ==
    /\ Readable(s)
    /\ ~LinkUp(s)
    /\ Occurs(s, NoEvent(Disconnected(wm[s])))

\* recv() returns 0: the remote closed the link ...
PollClosed(s) ==
    /\ Readable(s)
    /\ ~LinkUp(s)
    /\ Occurs(s, Disconnected(wm[s]))

\* ... or ENOTCONN: the adapter is gone.  wiiuse_os_disconnect() would close
\* the sockets of a remote that is not connected.
PollUnexpected(s) ==
    /\ Readable(s)
    /\ ~LinkUp(s)
    /\ wm' = [wm EXCEPT ![s] = [Disconnected(OsDisconnect(@))
                                EXCEPT !.event = "UNEXPECTED_DISCONNECT"]]
    /\ socks' = Closed(socks, ClosedByOsDisconnect(wm[s]))
    /\ Advance(call.n + 1)
    /\ UNCHANGED <<alive, tidy, aside>>

PollVisit(s) ==
    \/ PollNothing(s) \/ PollReport(s) \/ PollReportLoses(s) \/ PollCallback(s)
    \/ PollClosed(s) \/ PollUnexpected(s)

-----------------------------------------------------------------------------
(* The links (outside the library)                                         *)

LinkBreaks(s) ==
    /\ LinkUp(s)
    /\ socks' = Broken(s)
    /\ UNCHANGED <<wm, alive, call, tidy, aside>>

-----------------------------------------------------------------------------
Init ==
    /\ wm = [s \in Slots |-> NewWiimote]
    /\ alive = TRUE
    /\ socks = [f \in Fds |-> "free"]
    /\ call = NoCall
    /\ tidy = TRUE
    /\ aside = {}

Next ==
    \/ \E k \in 0 .. Remotes : Find(k)
    \/ BeginConnect \/ BeginPoll \/ Cleanup \/ InitAgain
    \/ \E s \in Slots :
          \/ BeginDisconnect(s) \/ Disconnect(s) \/ ApiDisconnected(s) \/ CommandFails(s) \/ Resync(s)
          \/ ConnectVisit(s) \/ PollVisit(s) \/ LinkBreaks(s)

Spec == Init /\ [][Next]_vars

-----------------------------------------------------------------------------
(* Properties                                                              *)

\* The socket numbers the array holds.
Fields == {<<s, "out">> : s \in Slots} \cup {<<s, "in">> : s \in Slots}
Held(p) == IF p[2] = "out" THEN wm[p[1]].out ELSE wm[p[1]].in

\* Every socket number in the array is an open socket, and in one field
\* only: nothing is closed twice, and nothing is read from, written to or
\* closed on behalf of another remote, whatever fails while connecting.  And a
\* remote that counts as connected has the input socket, which carries both
\* directions: wiiuse_poll() never puts -1 into its fd_set, not even after
\* wiiuse_resync() on a remote that lost its connection half way.
SocketsAreOwned ==
    /\ \A p \in Fields : Held(p) # NoFd =>
          /\ socks[Held(p)] # "free"
          /\ \A q \in Fields : Held(q) = Held(p) => q = p
    /\ \A s \in Slots : wm[s].connected => wm[s].in # NoFd

\* If the application disconnects a lost remote before it connects it again
\* or cleans up, and cleans up no connected one, every open socket is in
\* the array: failed attempts to connect do not leak either.
TidyDoesNotLeak ==
    tidy => \A f \in Fds : socks[f] # "free" => \E p \in Fields : Held(p) = f

\* A poll never loses the remote it visits silently: it leaves an event on
\* it and counts it.
PollReportsLoss ==
    [][\A s \in Slots :
          Polling(s) /\ wm[s].connected /\ ~wm'[s].connected =>
              wm'[s].event # "NONE" /\ call'.n = call.n + 1]_vars

\* wiiuse_poll() collects its count while events are still changing, and
\* wiiuse_update() looks at no event if it is 0.  The number is not "of wiimotes
\* that an event has occurred on", as line 70 of events.c has it: it leaves out
\* remotes that the callback of another one has found lost in this poll.  It
\* leaves out no others, and is never too high: an event that comes in a
\* remote's own visit is always counted, its loss included, and none of an
\* earlier poll is.
Ends == {s \in Slots : wm[s].event # "NONE"}

PollCountsEvents ==
    [][call.op = "poll" /\ call'.op = "none" =>
          call'.n \in Cardinality(Ends' \ aside') .. Cardinality(Ends')]_vars

\* wiiuse_disconnect(): "Disconnect a wiimote" (io.c).
DisconnectDisconnects ==
    [][call.op = "disconnect" /\ call'.op = "none" => ~wm'[call.at].connected]_vars
=============================================================================
