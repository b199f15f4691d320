------------------------------ MODULE SyncReads ------------------------------
(***************************************************************************)
(* The blocking reads (wiiuse_read_data_sync, over wiiuse_wait_report)     *)
(* beside the queue of asynchronous ones.  A blocking read sends its       *)
(* command whatever the queue has on the wire, takes any read report for   *)
(* its own, and gives up on a report that is late; the handshake with a    *)
(* new remote, every status report of a remote without Motion+, and the    *)
(* handshake with an expansion make such reads.                            *)
(*                                                                         *)
(* The calling thread is inside the call all along: no API call and no     *)
(* poll happens while "sync.on", the remote and the link go on.            *)
(***************************************************************************)
EXTENDS ReadQueue

CONSTANTS
    MaxSyncReads,  \* bound on the number of blocking reads
    SyncSizes      \* lengths a blocking read may ask for

ASSUME SyncAssumption ==
    /\ MaxSyncReads \in Nat
    /\ SyncSizes \subseteq 1 .. Width - 1

VARIABLES
    sync,   \* the blocking read in progress, or the last one
    quiet   \* history: since the link came up no wait has timed out or
            \* dropped a read report, and no blocking read has started
            \* with another read on the wire

syncVars == <<vars, sync, quiet>>

\* full and last are what the call still waits for: reports with a full
\* Chunk, and whether a shorter one comes after them; got holds the reports
\* copied into the caller's buffer.  Blocking reads are numbered downwards,
\* to tell them from the asynchronous ones.
NoSync == [on |-> FALSE, id |-> 0, size |-> 0, full |-> 0, last |-> FALSE, got |-> <<>>]

Parts(size) == size \div Chunk + (IF size % Chunk = 0 THEN 0 ELSE 1)

-----------------------------------------------------------------------------

\* Planted bug: the shorter last report is not waited for.
BugSyncCall(n, size) ==
    [on |-> TRUE, id |-> n, size |-> size, full |-> size \div Chunk,
     last |-> size \div Chunk = 0, got |-> <<>>]

SyncCall(n, size) ==
    [on |-> TRUE, id |-> n, size |-> size, full |-> size \div Chunk,
     last |-> size % Chunk # 0, got |-> <<>>]

\* The command goes out at once.  If the send fails the remote counts as
\* disconnected, but the call waits all the same.
SyncStart(size) ==
    /\ connected
    /\ ~sync.on
    /\ -sync.id < MaxSyncReads
    /\ sync' = SyncCall(sync.id - 1, size)
    /\ quiet' = (quiet /\ ~InFlight)
    /\ \/ /\ linkUp
          /\ toDev' = Append(toDev, [id |-> sync'.id, size |-> size, sent |-> 0])
          /\ UNCHANGED <<connected, queue, event, linkUp, toHost>>
       \/ /\ ~linkUp
          /\ Disconnected
    /\ UNCHANGED <<issued, log>>

\* The loop variables after one wait; the call returns when nothing is left
\* to wait for.
Waited(full, last, got) ==
    sync' = [sync EXCEPT !.full = full, !.last = last, !.got = got,
                         !.on = full > 0 \/ last]

\* wiiuse_wait_report() returns 1: the next read report, whoever asked.
SyncTake ==
    /\ sync.on
    /\ connected
    /\ toHost # <<>>
    /\ toHost' = Tail(toHost)
    /\ LET got == Append(sync.got, Head(toHost)) IN
       IF sync.full > 0 THEN Waited(sync.full - 1, sync.last, got)
                        ELSE Waited(0, FALSE, got)
    /\ UNCHANGED <<connected, queue, event, linkUp, toDev, issued, log, quiet>>

\* Planted bug: the time is looked at only when a report has come.
BugSyncTimeout ==
    /\ sync.on
    /\ toHost # <<>>
    /\ quiet' = FALSE
    /\ IF sync.full > 0 THEN Waited(0, sync.last, sync.got)
                        ELSE Waited(0, FALSE, sync.got)
    /\ UNCHANGED vars

\* wiiuse_wait_report() returns -1: a full report that does not come ends
\* the loop over full reports, and the wait for the last report begins; the
\* last one, or having none, ends the call.
SyncTimeout ==
    /\ sync.on
    /\ quiet' = FALSE
    /\ IF sync.full > 0 THEN Waited(0, sync.last, sync.got)
                        ELSE Waited(0, FALSE, sync.got)
    /\ UNCHANGED vars

\* wiiuse_os_read() inside the wait finds the link closed.
SyncClosed ==
    /\ sync.on
    /\ connected
    /\ ~linkUp
    /\ toHost = <<>>
    /\ Disconnected
    /\ UNCHANGED <<issued, log, sync, quiet>>

\* A wait for a status report, in the handshake that wiiuse_connect() and
\* wiiuse_resync() make besides their blocking read: read reports that come
\* meanwhile are dropped, and the event becomes WIIUSE_CONNECT.
StatusWait ==
    /\ connected
    /\ event' = "OTHER"
    /\ \E n \in 0 .. Len(toHost) :
          /\ toHost' = SubSeq(toHost, n + 1, Len(toHost))
          /\ quiet' = (quiet /\ n = 0)
    /\ UNCHANGED <<connected, queue, linkUp, toDev, issued, log>>

\* event_data_read() for a report no request waits for: the late answer to a
\* blocking read.
PollUnasked ==
    /\ connected
    /\ toHost # <<>>
    /\ LET q == ClearDirty(queue) IN
       /\ Live(q) = {}
       /\ queue' = q
    /\ event' = "NONE"
    /\ toHost' = Tail(toHost)
    /\ UNCHANGED <<connected, linkUp, toDev, issued, log>>

-----------------------------------------------------------------------------
SyncInit ==
    /\ Init
    /\ sync = NoSync
    /\ quiet = TRUE

\* What the thread does between two blocking reads.
Unblocked ==
    /\ ~sync.on
    /\ \/ Connect /\ quiet' = TRUE
       \/ StatusWait
       \/ UNCHANGED quiet /\ (Poll \/ PollUnasked \/ CommandFails)
       \/ UNCHANGED quiet /\ \E cb \in BOOLEAN, size \in Sizes : ReadData(cb, size)
    /\ UNCHANGED sync

Environment ==
    /\ Remote \/ LinkLost
    /\ UNCHANGED <<sync, quiet>>

Sync ==
    \/ \E size \in SyncSizes : SyncStart(size)
    \/ SyncTake
    \/ SyncTimeout
    \/ SyncClosed

SyncNext == Unblocked \/ Environment \/ Sync

\* Time passes: a wait that goes on for WIIUSE_READ_TIMEOUT ends.
SyncSpec == SyncInit /\ [][SyncNext]_syncVars /\ WF_syncVars(SyncTimeout)

-----------------------------------------------------------------------------
(* Properties                                                              *)

\* Blocking and asynchronous reads use the same reports.  Only three things
\* let one take what the other asked for: a wait that timed out, whose
\* answer still comes, a wait for a status report that dropped an answer,
\* and a blocking read that starts over another read.
QuietReadsDoNotMix ==
    quiet /\ ~sync.on => AnswersAreForHead /\ DataContinuesBuffer

\* A blocking read that returns without any of them has its own answer, whole
\* and in order (or the error the remote sent instead of its end).
OwnAnswer(s) ==
    /\ \A i \in DOMAIN s.got : /\ s.got[i].id = s.id
                               /\ s.got[i].off = (i - 1) * Chunk
    /\ Len(s.got) = Parts(s.size)

QuietSyncReadIsWhole ==
    [][sync.on /\ ~sync'.on /\ quiet' => OwnAnswer(sync')]_syncVars

\* The library does not block for ever on a blocking read, whatever the
\* remote and the link do.
SyncReturns == sync.on ~> ~sync.on

\* wiiuse_read_data_sync(): "this function will not return until it receives
\* the specified amount of data from the Wiimote" (io.c).
SyncReadIsComplete ==
    [][sync.on /\ ~sync'.on => Len(sync'.got) = Parts(sync'.size)]_syncVars
=============================================================================
