# wiiuse in TLA+

wiiuse is a single threaded C library that connects to Nintendo Wii remotes,
polls them, and hands their reports to an application. This directory holds
TLA+ modules that model its control logic, TLC configurations that check them,
and TLAPS proofs about the core. Paths below are relative to `src/src` of the
repository.

## Inventory of the system

| Component | Source | State | Operations | Modelled by |
|---|---|---|---|---|
| Asynchronous read queue | `wiiuse.c` 395-527, `events.c` 120-160, 346-464 | `wm->read_req` (list of `read_req_t`), `wm->event` | `wiiuse_read_data(_cb)`, `wiiuse_send_next_pending_read_request`, `event_data_read`, `clear_dirty_reads` | `ReadQueue`, `ReadService` |
| Blocking reads | `io.c` 124-232 | the loop variables of the call | `wiiuse_wait_report`, `wiiuse_read_data_sync` | `SyncReads` |
| Connection life cycle | `os_nix.c`, `wiiuse.c` 73-203, 928 | `CONNECTED`, `DEV_FOUND`, both sockets, `wm->event`, the number `wiiuse_poll` returns | init, find, connect, disconnect, resync, poll, cleanup | `Lifecycle` |
| Handshake, expansions, IR mode, report type | `io.c` 250-338, `events.c` 523-648, 699-897, `ir.c` 59-225, 330-381, `wiiuse.c` 300-393 | `wm->state` flags, `exp.type`; in the remote: report type, camera mode, sensitivity | `wiiuse_handshake`, `event_status`, `handshake_expansion`, `disable_expansion`, `wiiuse_set_ir`, `wiiuse_set_ir_sensitivity`, `wiiuse_motion_sensing`, `wiiuse_set_report_type`, `wiiuse_status` | `Session` |
| Motion+ | `motion_plus.c` 45-236 | `MPLUS_PRESENT`, `EXP_HANDSHAKE`, `exp.type`; in the remote: its mode | probe, on, pass-through, off, the read of the identifier | `MotionPlus` (without Motion+: `Session`) |
| Buttons and change events | `events.c` 78-160, 321-340, 904-1144, `nunchuk.c`, `classic.c`, `wiiboard.c`, ... | `btns`, `btns_held`, `btns_released`, `orient`, `lstate` | `wiiuse_pressed_buttons`, `propagate_event`, `save_state`, `state_changed`, `wiiuse_update` | `Reports` |
| IR tracking | `ir.c` 230-319, 384-868 | `ir.dot[4]`, `num_dots`, `state`, `distance`, the order of dots, the cursor; aspect, position, resolution | `calculate_*_ir`, `interpret_ir_data`, `reorder_ir_dots`, ..., `wiiuse_set_ir_position`, `wiiuse_set_aspect_ratio`, `wiiuse_set_ir_vres` | `IrDots` |
| bt-embedded back end | `os_bt_embedded.c` | channels, `CONNECTED`, event and queue of each remote; the one target of blocking reads; the search | find, connect, disconnect, poll, read, write, and the callbacks of the Bluetooth stack | `Embedded` |
| Write queue | `wiiuse.c` 640-740, `events.c` 466-513 | `wm->data_req` | `wiiuse_write_data_cb` | not modelled: dead code, see below |
| Windows and macOS back ends | `os_win.c`, `os_mac/` | handles, run loops | as `os_nix.c` | not modelled |
| Numerics | `dynamics.c`, `wiiboard.c`, parts of the extension files | none | floating-point formulas | not modelled |
| Settings, byte order, logging | `wiiuse.c`, `util.c` | single fields | setters | not modelled |

### How the components interact

`wiiuse_poll` visits the remotes in turn. A visit takes one report and calls
`propagate_event`, which calls `event_data_read` (read queue) or `event_status`
(expansions); idle visits call `idle_cycle`. `event_status` and the handshake
make blocking reads, which take reports from the same socket as the poll does.
`handshake_expansion` may also issue an asynchronous read whose callback is
`handshake_expansion` itself. Every command ends in `wiiuse_os_write`; when
that finds the link dead it calls `wiiuse_disconnected`, which resets the
structure under whichever handler is running, and the handler goes on. On the
bt-embedded back end there is no socket: the stack calls back, with reports and
news of connections of any remote, while some call of the library waits in
`bte_wait_events`, and a handler called back may itself block and wait.

### Which behaviours are hard

There are no threads. What interleaves is the library with the remotes and
their links:

* the link breaks between any two steps of a handler; the handler does not
  notice and goes on with a structure that has been reset;
* read reports carry no request number, so matching them with requests depends
  on at most one read being on the wire;
* callbacks run in the middle of a handler and call the library again;
* waits time out, and the answer comes later, as the answer of something else;
* a wait drops reports of other kinds;
* an expansion may come or go while its identifier is being read;
* turning Motion+ on looks to the library like plugging in an expansion, whose
  setting up would turn it off again;
* on bt-embedded, reports of all remotes arrive inside the blocking read of one,
  any event at all ends its wait, and a queue goes on pointing to buffers that
  have been released;
* an attempt to connect may outlive the call that made it, and the call that
  disconnects the remote;
* the order of the IR dots is as old as the last report that had more of them;
* sockets are kept after a loss and overwritten by the next connection;
* whether a report is told to the application depends on its type and on a
  comparison with what was saved, part of which lags behind;
* a poll clears every event first, also one that no poll has told of: a loss
  that a command has met, an expansion that a handshake has found.

The full list, with the line of each, is `hazards` in `PROJECT.json`.

## Modules

| Module | What it is | Instance |
|---|---|---|
| `ReadService` | abstract: reads are answered in order, at most once, or dropped with the link | refinement target |
| `ReadQueue` | the read queue, the wire, callbacks, errors, loss, reconnection | `MCReadQueue` |
| `ReadQueue_proofs` | its proofs | |
| `SyncReads` | extends `ReadQueue` with the blocking reads of the same remote | `MCSyncReads` |
| `SyncReads_proofs` | its proofs, on top of those of `ReadQueue` | |
| `Lifecycle` | an array of remotes and the sockets of the process | `MCLifecycle` |
| `Lifecycle_proofs` | its proofs | |
| `Session` | one remote from handshake to loss: flags, expansion, IR, report type | `MCSession` |
| `Session_proofs` | its proofs | |
| `Reports` | from reports to callbacks: buttons, edges, change detection, the application's view | `MCReports` |
| `Reports_proofs` | its proofs | |
| `IrDots` | the dots of the camera, their order, the middle and the cursor | `MCIrDots` |
| `IrDots_proofs` | its proofs | |
| `Embedded` | the bt-embedded back end: callbacks within waits, queues, connections, the search | `MCEmbedded` |
| `Embedded_proofs` | its proofs | |
| `MotionPlus` | a remote with Motion+: on, off, pass-through, with expansions and status reports | `MCMotionPlus` |
| `MotionPlus_proofs` | its proofs | |

Each module holds its *planted bugs* (operators named `Bug...`): wrong versions
of one definition, each breaking a property. Nothing in the specifications
refers to them.

### ReadQueue

`queue` is `wm->read_req`, `event` is `wm->event`, `connected` the flag. `toDev`
and `toHost` are the read commands and reports of this remote in transit;
other commands and reports appear only by their effects (`CommandFails`,
`PollOther`). A handler with the callback it runs is one action, because nothing
of the library runs in between; the callback's own calls are disjuncts of
`PollCallback`. `event_data_read` is split by its cases into
`PollError`, `PollPart`, `PollEvent` and `PollCallback` (and `PollUnasked` in
`SyncReads`, where alone it can happen), each beginning with
`ClearDirty` (the poll clears finished requests before it propagates).
`PollFails` is a poll whose `select()` fails: the events are cleared by then, the
finished request is not, so that the event and the list are not set and reset
together. `wait`
is 16 bits wide in C, here `Width` values; the clamp of `events.c` 405-410 is
`WaitAfter`. A report carries the number of the read it answers only for the
properties; no handler looks at it.

Two constants say what the application does. `ReadsWhileDirty` allows a read to
be issued between `WIIUSE_READ_DATA` and the next poll that does not fail,
`CallbackCommands` allows a callback to send something that finds the link dead.
With both, the properties of matching hold: that is proved here, and checked in
`syncreads`. Those that say a read is sent and ends hold only without, which is what
`readqueue` checks. `readqueue_wedge` shows what the first leads to; the second
leads there, too, because the handler puts back the requests that the loss has
removed (`PollCallback`).

`ReadService` hides packets, the list and finished requests. The refinement maps
`pending` to `Pending`, the numbers of the requests that are not dirty, in order.

### SyncReads

`SyncNext` lets a blocking read run in place of polls and calls; while `sync.on`
only the remote, the link and the blocking read move. `SyncTake` takes the next
read report whoever asked, `SyncTimeout` is a wait that gives up: at any time,
since the remote's speed is unknown. `StatusWait` is the wait for a status report
that a connection or a resync makes besides its blocking read: it drops the read
reports that come meanwhile, and sets another event over a finished request.
`quiet` is a history variable; it marks the runs in which no wait timed out or
dropped a read report, and no blocking read started over another read.

### Lifecycle

`socks` is the process's table of sockets, with the lowest free number handed
out by `socket()`. `wiiuse_connect` and `wiiuse_poll` are loops over the array
with one step per remote (`ConnectVisit`, `PollVisit`), so that links break and
one remote's callback loses another in between. Each error path of
`wiiuse_os_connect_single` is an action. The handshake is one step with two
results (connected, or lost). A handler that loses the link goes on and may set
another event, and one that waits may meet `ENOTCONN` twice, the second time with
a remote that no longer counts as connected, whose sockets are then closed
(`DisconnectedInHandler`, `LetGo`). `wiiuse_find` fills the array from its start
(`os_nix.c:139`), so that a remote that is lost and found again may get the slot
of one that is connected, and cannot be connected (`ConnectSkip`). `tidy` is a history variable: the application
disconnected remotes before it connected them again or cleaned up.
`ApiDisconnected` models that the application may call the exported
`wiiuse_disconnected`. `aside` is history, too: the remotes that another one's
callback has found lost in this poll. A callback sends such a remote plain
commands; it does not resync it.

### Session

The handlers here sleep and wait; `pc` says where a handler stands, and a step
ends where it blocks. `host` are the flags, `remote` is what the remote has
been told (report format, camera mode) and what its port holds, `reports` are
the status reports under way, of which only the attachment bit matters
(the LED bits, which end the retries of step 2 too, are a choice in
`AskStatus`). `silent` is the remote's rule, quoted in `event_status`, that after
a change of its expansion it sends status reports only until a report type is
set. `IdsRead` is the identifier in the handshake buffer: the one of the
expansion, a bad one (half-connected), or anything if the buffer was not filled.
`Known` covers all the expansions with an identifier in the switch, which differ
in the decoding only; `retry` is the asynchronous re-read of an invalid
calibration (`nunchuk.c` 79, `classic.c` 80, `guitar_hero_3.c` 89). The trailing
`wiiuse_set_ir` of `event_status` after an insertion repeats what
`handshake_expansion` ended with and is one step with it.

`level` is the sensitivity, selected by flags in `host` and sent to the camera
by `wiiuse_set_ir_sensitivity` at once, and by `wiiuse_set_ir` when IR goes on.

The model has no Motion+: `wiiuse_probe_motion_plus` is the blocking read that
finds none.

### MotionPlus

Built like `Session`, for a remote whose Motion+ is built in, with IR and
accelerometer off (the treatment of both is `Session`'s). `remote.mode` is what
the Motion+ does: `"off"` (an expansion is reached directly), or `"MP"` or
`"MP_PAD"`, and `host.type` is `exp.type`. `reports` holds status reports and
answers to asynchronous reads in the order they arrive. When Motion+ switches,
the remote sends no status, one, or two (`Switches`): the library must cope with
each. `host.read` is the asynchronous read under way, of the identifier
(`wiiuse_motion_plus_handshake` is its callback) or of a calibration
(`handshake_expansion` is); a blocking read beside it may take its answer, or
leave its own to it (`Drops`). `quiet` marks the runs in which, since a handshake
that began without `EXP_HANDSHAKE`, no wait has timed out or dropped anything, and
no read has failed. The flag may be there before a handshake: losing the link
clears it, but `wiiuse_set_motion_plus` sets it for a disconnected remote on which
`MPLUS_PRESENT` is set (a probe that lost the link may leave that), and neither
`wiiuse_connect` nor `wiiuse_resync` takes it away.

What the application does is limited: it turns Motion+ on only when no
asynchronous read of its own is under way (queues of them are `ReadQueue`'s
subject), and resyncs only a connected remote.

### IrDots

A step is a report, with `calculate_basic_ir` or `calculate_extended_ir` and
`interpret_ir_data`, or a change of a setting. The disjuncts of `Report` are the
cases of its switch: `NoDots`, `FirstDot` (`state` < 2), `LoneDot` (`state` is 2)
and `ManyDots`. A dot is `Hidden` or at two integers, with its order; the loops of
`reorder_ir_dots` compute a rank, by x and then by index, and that is what
`Reordered` says. `dot.x` is unsigned: a negative number stands for the word
above 2^31, `Less` compares as C does, and a rotation that gives a negative float
makes the conversion undefined, so that `Images` has both outcomes builds
produce (`Unsigned`). Angles are 0, 45, 90 and 180 degrees, with sines as whole
multiples of 1/10000. `RootDown` and `RootUp` are the integers on both sides of
`sqrtf`; `ox` is truncated toward zero, so which one applies depends on its sign.
Left out: yaw, `ir.z`, sizes.

`drawn` and `swapped` are history: the resolution the cursor was computed for,
and whether a report has both lost and gained a dot since the last ordering.

### Embedded

A wait in `bte_wait_events` lasts from a call to its return, and every callback
within is a step: `MessageReceived` (into the buffer of the read, the queue of
another remote, or a handler), `ControlConnected`, `InterruptConnected`,
`Disconnected`, `Inquiry`, `RemoteName`, and `OtherEvent` for events that concern
nobody. `call` is the call of the application, `read` the blocking read inside it
or inside a handler that was called back, of which there is one at a time:
in a read, reports go to the buffer or a queue, so that no handler starts. A
read takes what is in its buffer as often as its wait returns an event
(`PartsFound`); a part may be lost, doubled or foreign. Of the handshake and of
`event_status` the first blocking read is kept, and a disconnection is seen
with the event it leaves: `disconnected_cb` sets it and calls `propagate_event`,
which may overwrite it. The application searches before it connects, and
connects a remote only when no earlier connection of it is still being made.
`wiiuse_disconnect` may come at any time, also while the stack makes the second
channel for an attempt that an old event has ended; it cancels nothing.

`incoming_queue` is never reset, so the queue of the model is never shortened:
`freed` counts the buffers at its front that have been handled and released, and
each poll begins with them again (`DeliverReleased`). What a released buffer holds
and where it leads is undefined; the model lets it hold its report still, or any,
and lead to the next buffer or to the end, and lets a report that is appended
behind one be lost (`Queued`). `spoilt` marks a remote one of whose released buffers
has been used. The damage stays inside its queue: what use of released memory may
do to the rest of the program is beyond any model of it.

`inquiry_cb` may ask for a name at each reply of the periodic inquiry, so that
several queries may be under way (`search.asked`); a name that comes when the array
is full counts, and the slot beyond the array is left out. A call of the stack with
a channel that is `NULL` is taken to do nothing.

`owed`, `handled` and `left` are history: which reports were put aside, which a
handler has seen, and which remotes the application has disconnected and not
connected again; `clean` marks reads into which nothing else fell.

### Reports

A step is one call of `wiiuse_update`, that is one report (`PollData`, `PollRead`,
`PollAck`, `PollStatus`, `PollInserted`, `PollRemoved`, `PollReread`), no report, or a
loss, with the callback it leads to, or a call of the application. `now` is the data
of the last report: `core` and `pad` are the three button words of the remote and of
an expansion, with `accel`, `angle` (`orient.roll`), `aim` (`orient.a_roll`), `spot`
(the IR position), the expansion's angle `tilt` and the raw reading `load` of a
balance board. `save_state` copies all of it before a report except the two
orientations, so the "last" of the tests in `state_changed` is `now`, and
`lastAngle` (`lstate.orient`) and `lastTilt` (`lstate.exp_orient`) have lives of their
own. The early returns of `state_changed` are in `KeepAngle` and `KeepTilt`. What is
saved of a board is its raw reading, what is compared its weight (`LoadMoved`).
`remote` distinguishes the format of reports asked for from that of reports still
on their way. `idle_cycle` goes on smoothing the angle when no report comes
(`PollNothing`).

A link is lost in one of two ways. Inside a poll, the callback is told
(`PollLost`). A command of the application that meets a dead link
(`CommandFails`), or a handshake (`HandshakeFails`), resets the buttons as well, but
the next poll clears the event before anyone sees it. Likewise `wiiuse_connect` and
`wiiuse_resync` (`Handshake`): buttons are taken from the status report, an expansion
is identified anew and its buttons reset, and nobody is told. A handler in which
the link breaks may have removed or identified an expansion (`LosesLink`).

`pressed` is the application: in its callback it follows `IS_JUST_PRESSED` and
`IS_RELEASED` of the structures it is given, as the examples of the repository
do, and forgets an expansion's buttons when that comes or goes and all of them
after a disconnection. `lost` and `still` are history variables: buttons whose
last change came in a step that did not tell the application, and how many reports
in a row have brought nothing new.

One axis, one IR position, one expansion with buttons (`"PAD"`) and one sensor of the
balance board (`"BOARD"`) stand for those of the code; smoothing, which stays on or
off, makes the next angle any angle. Joysticks, shoulder buttons, the expansion's
accelerometer and the gyroscope are left out: every report saves and compares
them, as it does the remote's accelerometer.

## Runs

| Run | Question | Bounds | Result |
|---|---|---|---|
| `readqueue` | Are answers matched and buffers filled, and, for a careful application, does every read end and does the queue implement the service? | 3 reads, lengths 1-3, 2 bytes a report, counter of 4 values | holds |
| `readqueue_wedge` | The same for an application that reads while the queue holds a finished read | 2 reads | violated |
| `syncreads` | Do blocking and asynchronous reads disturb each other, for an application that breaks both rules of use? | 2 + 2 reads, lengths 1-3 | holds |
| `syncreads_short` | Does a blocking read return only with all of its data? | 1 blocking read, no other | violated |
| `lifecycle` | Sockets, losses and the count of events | 2 remotes, 4 sockets | holds |
| `lifecycle_disconnect` | Does `wiiuse_disconnect` disconnect? | 1 remote | violated |
| `session` | Do flags, report format and camera agree after every handler; does every handler return? | 3 tries, 3 status requests, 3 reports | holds |
| `session_silent` | Is a remote heard again after its expansion changed? | 2, 2, 2 | violated |
| `reports` | Does an application that follows edges know the buttons, and does a remote at rest keep quiet? | one button each, 2 readings, 3 angles, 2 tilts, 2 loads, 2 IR positions, the constraint below | holds |
| `irdots` | Does the order stay an order, the cursor on its screen, the middle in place? | 3 dots, 22 views, 2 aspects, 1 position of the bar, 1 resolution | holds |
| `embedded` | Do channels and flags agree, is a report kept until handled, is an undisturbed read whole? | 2 remotes, 2 devices, answers of 2 reports, 1 report of each remote's own, 2 unread | holds |
| `motionplus` | Does the library understand its port after any switching; do handlers return? | 3 tries, 3 status requests, 3 reports | holds |

Why the bounds are enough to be interesting:

* Three reads give a list with a finished head, a request on the wire and one
  behind it, and a callback that issues a third. With two bytes a report the
  lengths 1 and 3 end with a short report, 2 with a full one, and 3 takes two.
  Counters of 4 values make 3 the largest length and every wrong subtraction
  wrap.
* Two remotes are needed for shared socket numbers and callbacks across
  remotes; two remotes own four sockets, so `socket()` fails as soon as one
  has leaked.
* `MaxStatus` = 3 is the value of the code. `MaxTries` is 10 there; 3 has a
  first, a middle and a last attempt. Three status reports hold one for each
  of the plug's changes during one blocking step.
* In `reports` the readings are rest and one beyond 1 g, where no angle is computed;
  the angles are 0 to 2, which smoothing reaches. With thresholds of 2 a difference
  may lie below, and two differences below may add up to one that is not. One
  button of each kind is enough, because button operations are bitwise. IR
  positions are interchangeable. The constraint `OneAtATime` keeps the product of
  all this small: past a state in which a button is or was pressed while an angle
  is not 0, or a board is attached beside either, or the camera sees while buttons are
  followed, TLC does not go on, and `WIIUSE_ORIENT_THRESH` is switched off only in
  states without buttons and angles. What is lost is little: buttons and angles
  meet in `state_changed` only, where a press leaves an angle unsaved, as the camera
  and the accelerometer do, which the run follows; and no button depends on the
  camera but through the report format. The proofs need no
  constraint, and cover any number of each.
* In `irdots` three slots hold two dots that cross (A and B swap slots) and a
  third that comes and goes, so that the number grows, shrinks and stays while
  the dots change. A rotation by 45 degrees brings one dot to a negative x.
  The bar below the screen makes bounds that one position leaves; the virtual
  resolution is that of the other aspect, so that settings and cursor differ.
* In `embedded` two remotes are needed for one to report in the other's read.
  Answers of two reports can be cut, doubled and overtaken. `MaxUnread` = 2 holds
  an answer, or a report of the remote's own before another one. `MaxQueue` is the
  number of late answers that are kept in a queue, where they matter to no
  property; it is 0, so that queues hold the remotes' own reports.
  `CHECK_DEADLOCK` is off because the wait of `wiiuse_connect` has no time-out:
  for a remote that its own host disconnected meanwhile it never ends.
* In `motionplus` three reports hold the two of a switch and one of a plug.

### Properties

* `AnswersAreForHead`, `DataContinuesBuffer`: a report is used for the request
  it answers, and its bytes land behind those of the report before.
  `EventMeansBuffer`: while the event is `WIIUSE_READ_DATA` the head of the list is
  the finished request, and there is never another one (the converse is false: a
  poll that fails, or a resync, takes the event away and leaves the request).
  `HeadIsInFlight`: while the link is up the first waiting request is on the wire.
  `NoReadsWhenDisconnected`. `EveryReadEnds`. `ImplementsService`.
* `QuietReadsDoNotMix`, `QuietSyncReadIsWhole`: without time-outs and overlap,
  both kinds of read get their own data, whole. `SyncReturns`: a blocking read
  returns in all cases, if need be without its data (`SyncReadIsComplete`, which
  the comment of the function promises, is refuted).
* `SocketsAreOwned`: a socket number in the array is open and stands in one
  field only, and a connected remote has an input socket. `TidyDoesNotLeak`.
  `PollReportsLoss`: the poll that loses the remote it visits leaves an event on it.
  `PollCountsEvents`: the number a poll returns leaves out at most the remotes that
  another one's callback has lost in this poll, and counts nothing else. (Line 70 of
  `events.c` says that it leaves out none.)
* `HandshakeIsWhole`: `HANDSHAKE_COMPLETE` and `CONNECTED` agree whenever no
  handler runs, although the handshake sets the former after a loss.
  `ReportsMatchFlags`, `CameraMatchesReports`, `IrIsNeverSilent`: the remote's
  modes and the sensitivity of its camera follow the flags after any sequence of
  insertions, removals, time-outs and calls. `ExpansionIsNoticed`: without dropped reports `EXP` is what the
  port holds. `HandlersReturn`.
* `EdgesFollowButtons`, `EdgesFollowPad`: an application that adds what is just
  pressed and takes away what is released has the buttons that are down, over
  all events that repeat old edges, absorbed presses, losses, resyncs and
  reconnections, but for a button whose last change came in a step that told it
  nothing (a read report without event, a loss met by a command, a handshake); the
  next edge of the button ends the error. `StillRemoteIsQuiet`: with
  `WIIUSE_ORIENT_THRESH`, the third of three reports without new data is no event.
  A balance board with a load, and a remote without the flag, are not quiet.
* `DotsAreOrdered`: no two dots have one place in the order, and while two are
  known every visible dot has one, unless a report has both lost and gained
  dots. `CursorIsOnScreen`: while two dots are known, the cursor is on the
  screen it was drawn for. `LostDotKeepsMiddle`: when one of two level dots
  leaves, the estimate of it leaves the middle where it was.
* `ChannelsMatch`: a connected remote has both channels, and no other holds one
  that nothing will release; a remote that was disconnected in the middle of an
  attempt may come up without the first. `ReportsAreKept`: until a released buffer is
  used, a report put aside is in its queue until a handler has seen it, and not
  after. `CleanReadIsWhole`. `ConnectEndsItsAttempt`: `wiiuse_connect` does not
  return while its connection may still be made, unless it found an event left
  over from before.
* `PortIsUnderstood`: if nothing failed since a handshake that began without
  `EXP_HANDSHAKE`, and every report is handled, `EXP`, `exp.type` and the report type
  fit what the remote sends, and `EXP_HANDSHAKE` is over. `ActiveStaysActive`: no
  handler turns off a Motion+ that was just turned on. `HandlersReturn` (of
  `MotionPlus`): also the loop of turning off, but for a dead link, over which it
  does not end.

### Fairness

* `ReadQueue`: weak fairness on each kind of poll (the application polls in a
  loop; `README` and `example.c` of the repository do), on the remote's answer
  while the link is up. None on issuing reads, connecting or losing links.
* `SyncReads`: weak fairness on `SyncTimeout` only: `wiiuse_wait_report`
  measures the elapsed time and gives up.
* `Session`: weak fairness on the continuation of a blocked handler: its sleeps
  end, and its waits are answered or time out.
* `MotionPlus`: the same, and strong fairness on `AskStatus`: a remote whose link
  stays up and which is asked for its status again and again answers in time
  some day. The loop of turning Motion+ off has no other end; over a dead link
  nothing is asked, and the property excepts that case.
* `Reports`, `Lifecycle`, `IrDots` and `Embedded` have safety properties only, and
  no fairness.

## Findings

Places where the code disagrees with its own documentation, each shown by a run in
which TLC refutes what that says (details and quotations under `findings` in `PROJECT.json`):

1. `wiiuse.c:440`: a read issued after `WIIUSE_READ_DATA` and before the next
   poll is queued behind a finished request and never sent (`readqueue_wedge`).
2. `io.c:225`: a blocking read returns without its data after a time-out, and
   nothing is sent again (`syncreads_short`).
3. `os_nix.c:261`: `wiiuse_os_disconnect` returns at once for a *connected*
   remote (`lifecycle_disconnect`); the same guard is in the other back ends.
4. `events.c:619`: after the removal of an expansion with IR off no report type
   is set (`session_silent`).

More disagreements that the models contain, without a run of their own. Each is
excepted by the property named with it, whose comment says so:

* `events.c:443`: after a callback that loses the link the handler restores the
  list `wiiuse_disconnected` emptied; the requests of the old connection keep those
  of the next one from being sent, although "pending requests" are to be "sent out
  when the previous finishes" (`wiiuse.c:403-409`). `HeadIsInFlight` holds under the
  second rule of use.
* `os_nix.c:352`: `wiiuse_poll` does not count the event of a remote that another
  one's callback has found lost, though it "Returns number of wiimotes that an event
  has occurred on" (`events.c:70`). `wiiuse_update` then delivers nothing if the
  number is 0, and the next poll clears the event. `PollCountsEvents` leaves out
  `aside`.
* `events.c:1095`: the raw readings saved of a balance board are compared with its
  weights, so that with a constant load every report "differs significantly from the
  previous" (`events.c:989`). `events.c:1012`: without `WIIUSE_ORIENT_THRESH`
  `lstate.orient` is never set, so that a remote which has been turned once raises
  events for ever, lying still. `StillRemoteIsQuiet` excepts both.
* `os_bt_embedded.c:163`: "If we had queued incoming data, deliver it now" (374):
  the queue is delivered at every poll and never emptied, so that its reports are
  handled again, from buffers released before. `ReportsAreKept` ends there.
* `os_bt_embedded.c:274`: an event left over from a lost connection ends the wait of
  the next `wiiuse_connect` at once; the remote is not among "The number of wiimotes
  that successfully connected" (`io.c:78`), and is connected later, without a
  handshake. `ConnectEndsItsAttempt` excepts a `stale` event.
* `os_bt_embedded.c:346`: a remote that is disconnected ("Disconnect a wiimote",
  `io.c:94`) while such a connection is being made comes up afterwards, with one
  channel. `ChannelsMatch` excepts it.
* `os_bt_embedded.c:110`: "We cannot run more than one name query at once" (147), but
  several may be asked for, and each name takes a slot, beyond the end of the array,
  too. `Embedded` counts them and goes no further.
* `motion_plus.c:227`: "try to ask for status 3 times" (213): turning Motion+ off asks
  for ever once the link is dead. `HandlersReturn` excepts it.

Observations: `ReportsMatchFlags` has to allow the old format
after such a removal, and the late re-read of a calibration can start the
identification of an expansion that has gone (`PollRetry`), which leaves `EXP`
set until the next status report. `Reports` shows that an expansion's edges are
handed out again with every event that carries no data of it (harmless for an
application that keeps a set of buttons, not for one that counts presses); that
`exp.type` still names the last expansion after a reconnection without one; and that
events raised by the camera or the raw accelerometer leave `lstate.orient` and
`lstate.exp_orient` behind, so that an angle may cross its threshold against what
the application was told last without an event, or be reported once more when the
remote already lies still: the third report of the same data is the first that is
sure to be none.

More of what the models allow because the code does it:

* `io.c:263`: the handshake forgets IR that was asked for before it, although
  `ir.c:98` says it will be turned on.
* `os_nix.c:254`: a remote whose link broke during the handshake is counted by
  `wiiuse_connect`. `os_nix.c:313`: a loss noticed by a command between two polls
  is cleared by the next poll before anyone is told, and so are the events of a
  handshake (`lost` in `Reports`). `os_nix.c:322`: a `select()` that fails clears the
  event of a finished read and leaves the read in the list, so that a read issued
  then is wedged as in finding 1.
* `ir.c:582`: "if there is at least 1 new dot, reorder them all": a report that
  loses one dot and gains another keeps the number, and the new dot has no
  order. The estimate then takes its partner at x = 0. This is the `swapped` of
  `DotsAreOrdered`.
* `motion_plus.c:192`: if the read of the identifier is answered by an error, or
  its answer is taken by a blocking read (of `wiiuse_resync`, say),
  `EXP_HANDSHAKE` is set until the remote is lost or a late calibration is
  answered; until then Motion+ cannot be switched and no expansion is set up. Set
  for a disconnected remote, it outlives the next handshake and does the same.
* `os_bt_embedded.c:372`: the poll neither clears finished reads nor resets
  `wm->event`.
* `os_bt_embedded.c:315`: a name that arrives after `wiiuse_find` has returned
  finds its context, a local variable, gone (not modelled: the behaviour is
  undefined).
* `os_bt_embedded.c:423`: a write without a channel fails without
  `wiiuse_disconnected`, unlike that of the other back ends.

## Proofs

`ReadQueue_proofs` proves, for every number of reads, set of lengths, packet size
and counter width, from `BoundAssumption`, `SizeAssumption` and
`UsageAssumption`:

| Theorem | Statement |
|---|---|
| `Invariance` | `Spec => []IInv` |
| `TypeCorrect` | `Spec => []TypeOK` |
| `ReportsAreMatched` | `Spec => []AnswersAreForHead` |
| `BuffersAreFilled` | `Spec => []DataContinuesBuffer` |
| `EventsMatchBuffers` | `Spec => []EventMeansBuffer` |
| `NothingIsForgotten` | `HeadIsInFlight`, if the application keeps the two rules of use |
| `NothingOutlivesTheLink` | `NoReadsWhenDisconnected`, under the same rules |
| `QueueImplementsService` | `Spec => ImplementsService`, if no callback sends into a dead link |

None of the safety invariants is inductive. `IInv` adds `QShape`, the shape of
the list (only the head is finished; only the first waiting request has
received anything), which is what `EventMeansBuffer` needs, and `Flight`: the command and the reports on the wire are,
in order and without holes, the rest of the answer to the first waiting request,
and an error is the last of them. `Flight` is what rules out a report for
another request: whatever `event_data_read` consumes is the next piece of that
answer, and when the piece ends the request nothing is left in transit, so that
sending the next command keeps at most one on the wire. The clamp in `WaitAfter`
is never taken, because the pieces stay inside the buffer. A poll that fails touches
the event only (`QueueInv` is about the rest). The proof that a step
keeps `IInv` has one lemma per group of actions over the part of it that speaks
of the queue (`QueueInv`) and one for the history. The second rule pair needs
the invariant that a list is empty or its first request is on the wire, again
on top of `IInv`. The refinement is proved action by action. A step that appends a
request, takes off the head that is finished, or empties the list changes
`Pending` by the step of `ReadService` of the same name, and all others leave it
alone; the only one in doubt is a callback that finds the link dead, which drops
the requests after one of them has been answered in the same step. That is two
steps of `ReadService`, and the reason for the hypothesis `~CallbackCommands`.

`SyncReads_proofs` extends these proofs to the blocking reads of the same remote,
for every number of them and all lengths, from `SyncAssumption`, too:

| Theorem | Statement |
|---|---|
| `SyncInvariance` | `SyncSpec => []SyncInv` |
| `EventsMatchBuffersWhenMixed` | `SyncSpec => []EventMeansBuffer` |
| `QuietReadsNeverMix` | `SyncSpec => []QuietReadsDoNotMix` |
| `QuietSyncReadsAreWhole` | `SyncSpec => QuietSyncReadIsWhole` |

Once a wait has timed out, reports of any length may meet any request, and `IInv`
is lost. `Mixed` is what remains: the shape of the list, which holds because of
the clamp in `WaitAfter` (here it is taken), and what a lost link leaves. It is
enough to start again, since with nothing on the wire `Mixed` gives the queue's
invariant back (`EmptyWire`, `MixedConnect`). While all is quiet, the steps outside
a blocking read are steps of `ReadQueue` and keep its invariant (`QuietQueue`), and
the report no request waits for does not come. A quiet blocking read has the wire
for itself (`OwnWire`; a wait for a status report that found the wire not empty has
ended the quiet): what it has got, the reports on their way and the rest of
its command are one sequence of packets without holes, and the two loop variables
count those that are missing. When they reach zero nothing is left on the wire
(`LastTaken`), which is how the queue finds it afterwards.

`Reports_proofs` proves for every set of buttons, expansions, readings, tilts and
loads, all thresholds and every set of IR positions, from `ReportsAssumption`:

| Theorem | Statement |
|---|---|
| `ReportsInvariance` | `Spec => []IInv` |
| `ReportsTypeCorrect` | `Spec => []ReportsTypeOK` |
| `ButtonsAreFollowed` | `Spec => []EdgesFollowButtons` |
| `PadIsFollowed` | `Spec => []EdgesFollowPad` |
| `StillnessIsQuiet` | `Spec => []StillRemoteIsQuiet` |

Its `IInv` adds three facts to the properties. `KeysAgree`: a button that is
released is not down, so that old edges repeated by a later event change nothing
(`FollowTracks`). `Follows` says of one set of buttons what both properties say of
theirs: `lost` grows by what changes in a step that tells nothing, and shrinks by the
edges the callback sees, with which the application's set and the structure's
agree again. A loss empties both sets of the remote's buttons, or, if nobody is told,
makes what was down a change that was missed. `AngleCaughtUp` and `TiltCaughtUp`:
after one report without new data `lstate.orient` differs from the angle by less than
the threshold, and after two `lstate.exp_orient` does from the expansion's, which
is looked at only when nothing before it has changed; so the third finds nothing.
That an angle lies within what 1 g gives needs `Aim` to stay inside as well, by
monotonicity of multiplication.

`Session_proofs` proves for every number of attempts, status requests, reports on
the way and sensitivities, from `SessionAssumption`:

| Theorem | Statement |
|---|---|
| `SessionInvariance` | `Spec => []IInv` |
| `SessionTypeCorrect` | `Spec => []SessionTypeOK` |
| `HandshakeIsAlwaysWhole` | `Spec => []HandshakeIsWhole` |
| `ReportsAlwaysMatchFlags` | `Spec => []ReportsMatchFlags` |
| `CameraAlwaysMatchesReports` | `Spec => []CameraMatchesReports` |
| `IrStaysAwake` | `Spec => []IrIsNeverSilent` |
| `ExpansionsAreNoticed` | `Spec => []ExpansionIsNoticed` |

The properties speak of a handler that has returned; `IInv` says what holds where
one blocks. `UpIsConnected`: the library never believes a link gone that is there,
so that a command it holds back would not have arrived either. `FlagsAgree`: what
`HANDSHAKE` and `HANDSHAKE_COMPLETE` are at each such point, `wiiuse_handshake`
setting the second whether or not the link was lost under it. `ModesFit`: report
type and camera fit the flags except between the moment an expansion is set up
and the end of `event_status`, which sets both; the sensitivity always fits.
`NewsIsTrue`: the last status report on the way, or the one in work if there is
none, is about the port as it is, or `quiet` is false. All but `FlagsAgree` is
trivial once the link is gone (`DownKeeps`), and every handler that ends by
setting the report type is an instance of one lemma (`SettingReportsKeeps`).

`Lifecycle_proofs` proves for every number of remotes and every set of socket
numbers, from `LifecycleAssumption`:

| Theorem | Statement |
|---|---|
| `LifecycleInvariance` | `Spec => [](IInv /\ Gone /\ CountsEvents)` |
| `SocketsAlwaysOwned` | `Spec => []SocketsAreOwned` |
| `TidyNeverLeaks` | `Spec => []TidyDoesNotLeak` |
| `PollAlwaysReportsLoss` | `Spec => PollReportsLoss` |
| `PollAlwaysCountsEvents` | `Spec => PollCountsEvents` |

`Owned` and `AllHeld` say of any remotes and any sockets what `SocketsAreOwned` and
`TidyDoesNotLeak` say of the present ones, so that one lemma (`SlotKeeps`) serves
every step that rewrites one remote: it needs only that the fields of that remote
are its old ones, empty, or sockets that were free. `AllHeld` holds while `tidy`
does, and `Gone` says that nothing is held after `wiiuse_cleanup`. The value of
`wiiuse_poll` needs `CountsEvents`: in mid-poll the count lies between the visited
remotes with an event and those of them that are not in `aside` (`Tally`), and a
remote not yet visited has no event but that of a callback that has lost it
(`Unvisited`).

`Embedded_proofs` proves for every number of remotes, every set of devices and
answers of any length, from `EmbeddedAssumption`:

| Theorem | Statement |
|---|---|
| `EmbeddedInvariance` | `Spec => []IInv` |
| `EmbeddedTypeCorrect` | `Spec => []EmbeddedTypeOK` |
| `ChannelsAlwaysMatch` | `Spec => []ChannelsMatch` |
| `ReportsAreAlwaysKept` | `Spec => []ReportsAreKept` |
| `CleanReadsAreWhole` | `Spec => []CleanReadIsWhole` |
| `ConnectAlwaysEndsItsAttempt` | `Spec => ConnectEndsItsAttempt` |

`Channels`: which channels a remote has follows from `connected`, from how far its
attempt to connect is, and from whether the application has disconnected it
meanwhile. `Attempts`: while `wiiuse_connect` waits without an old event, an attempt
that is not over has set none. `Continues`: a read that is `clean` has the first
parts of its answer, its buffer may hold the next, and `Rest` of them are on their
way, in one block and without holes; other reports may come before and after.
`Places`: the released buffers are a part of their queue.

`ReportsAreAlwaysKept` has a second invariant on top of it, of all times at which no
released buffer has been used. `Books`: each report of a remote has one number, and
is unread, put aside or handled; the queue holds those put aside in the order in
which they came, so that what is behind the released part has not been handled.
`Reached`: a delivery stands where the released part of its queue ends or at a
released buffer, and the queues of the remotes before it, which it has left, are
released. That a report appended by a handler's read lands behind the place of the
delivery, and that a delivery cannot leave a queue before its last buffer, follow.

`IrDots_proofs` proves for every set of views of a camera with up to four dots, all
settings and all resolutions, from `IrAssumption`:

| Theorem | Statement |
|---|---|
| `IrInvariance` | `Spec => []IInv` |
| `IrTypeCorrect` | `Spec => []IrTypeOK` |
| `DotsAreAlwaysOrdered` | `Spec => []DotsAreOrdered` |
| `CursorStaysOnScreen` | `Spec => []CursorIsOnScreen` |
| `LostDotAlwaysKeepsMiddle` | `Spec => LostDotKeepsMiddle` |

`Reordered` ranks the dots by `IsBefore`, a strict total order, whose unsigned
comparison included (`LessFacts`, `BeforeFacts`): of two dots one is before the
other, the dots ahead of it are a proper subset of those ahead of the other, so
that the ranks differ and none exceeds the number of dots (`ReorderedFacts`). In
later reports dots keep their places (`PlacedKeeps`), and while no report has lost
one and gained one those that are seen are among those that were ordered. `Box`
bounds where a dot is after the correction of the roll (`UprightInBox`), hence
`dist2` (`DistanceNear`), hence that `RootDown` is the root (`RootFacts`: its two
`CHOOSE`s have a value for every square of a distance). `MeasuresFit` ties
distance and middle to the dots seen: with it, a lost dot's distance is the exact
difference of the two (`RootOfSquare`), and the guess gives back their middle
(`GuessIsMiddle`). That the cursor is on the screen is monotonicity of the scaling
(`ScaleFacts`), for every resolution.

`MotionPlus_proofs` proves for every number of attempts, status requests and
reports, from `MotionPlusAssumption`:

| Theorem | Statement |
|---|---|
| `MotionPlusInvariance` | `Spec => []IInv` |
| `MotionPlusTypeCorrect` | `Spec => []MotionPlusTypeOK` |
| `PortAlwaysUnderstood` | `Spec => []PortIsUnderstood` |
| `ActiveAlwaysStays` | `Spec => ActiveStaysActive` |

The properties speak of a link that is there and of `quiet` times, which begin with
a handshake that finds no `EXP_HANDSHAKE`, `IInv` of each step of a switch in between. `HandshakeIsRead`: `EXP_HANDSHAKE`, the asynchronous
read and an active Motion+ whose identifier is not yet known are one and the same.
`PortIsNews` (Motion+ is off): the last report on the way, or the one in work, or
the flag is about the port as it is; while an expansion is set up with no report
behind it, it is plugged in. `ActiveIsKnown` (Motion+ is on): no handler that
writes to the expansion is under way, and either the answer is on its way
(`AnswerComes`: before it any status reports, behind it none that says the port is
empty) or `exp.type` and the reports are those of the remote's mode. The shape of
`AnswerComes` is kept by what the remote appends and by what a poll takes
(`AttachedAppended`, `AnswerTaken`), and the end of `event_status` leaves an active
Motion+ alone, whatever its status reports say, because `EXP_HANDSHAKE` is looked at
(`GoesActive`).

Only model-checked: liveness (`EveryReadEnds`, `SyncReturns`, `HandlersReturn`;
TLAPS does not prove liveness under fairness). Every other property of the runs is
proved.

## Not modelled, and why

* The write queue: `wiiuse_write_data_cb` is not declared in `wiiuse.h`, and
  `WIIUSE_SYNC_HANDSHAKE` is always defined (`wiiuse.h:341`), so `data_req` stays
  `NULL`. The asynchronous handshake of `io.c` 340-440 is compiled out likewise.
* Floating point (`dynamics.c`, the balance board's interpolation, of which
  `Reports` has one slope, gyroscope, yaw).
* Memory that is used after its release or beyond its array (`os_bt_embedded.c:110`,
  163), further than the observations above.
* The decoding of Motion+ and passed-through reports (`motion_plus_event`).
* The Windows and macOS back ends: they repeat the structure of `os_nix.c` over
  other system calls.
* Memory: a lost remote's queued requests are leaked by `wiiuse_disconnected`;
  allocation itself does not fail in the model.
* Settings, logging, byte order.

## Plan

Every component of the inventory is modelled but those above. Next:

1. *Windows back end*: the time-outs of overlapped reads, if they are found to
   differ in a property.
