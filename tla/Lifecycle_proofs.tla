--------------------------- MODULE Lifecycle_proofs ---------------------------
(***************************************************************************)
(* Proofs about Lifecycle, for any number of remotes and any set of socket *)
(* numbers.                                                                *)
(***************************************************************************)
EXTENDS Lifecycle, FiniteSetTheorems, WellFoundedInduction, TLAPS

LifecycleTypeOK ==
    /\ wm \in [Slots -> Wiimote]
    /\ alive \in BOOLEAN
    /\ socks \in [Fds -> {"free", "up", "down"}]
    /\ call \in Calls
    /\ tidy \in BOOLEAN

\* SocketsAreOwned, for the remotes w and the sockets t.
Owned(w, t) ==
    /\ \A s \in Slots : /\ w[s].out # NoFd => t[w[s].out] # "free"
                        /\ w[s].in # NoFd => t[w[s].in] # "free" /\ w[s].in # w[s].out
                        /\ w[s].connected => w[s].in # NoFd
    /\ \A r, s \in Slots : r # s =>
          {w[r].out, w[r].in} \cap {w[s].out, w[s].in} \subseteq {NoFd}

\* TidyDoesNotLeak, of w and t.
AllHeld(w, t) == \A f \in Fds : t[f] # "free" => \E s \in Slots : f \in {w[s].out, w[s].in}

\* A call counts at most the remotes it has visited.
CountsVisits == call.op \in {"connect", "poll"} => call.n < call.at

IInv == LifecycleTypeOK /\ Owned(wm, socks) /\ (tidy => AllHeld(wm, socks)) /\ CountsVisits

Tally(n) == n \in Cardinality(Ends \ aside) .. Cardinality(Ends)

\* Before its visit only another remote's callback gives a remote an event.
Unvisited(w) == w.event = "NONE" \/ ~w.connected

\* What a poll has counted so far.
CountsEvents ==
    call.op = "poll" =>
        Tally(call.n) /\ \A s \in Slots : s >= call.at => Unvisited(wm[s])

-----------------------------------------------------------------------------
(* Sockets                                                                 *)

LEMMA LowestFd ==
  ASSUME NEW t, FreeFds(t) # {}
  PROVE  NextFd(t) \in FreeFds(t)
<1>1. FreeFds(t) \subseteq Nat
  BY LifecycleAssumption DEF FreeFds
<1>2. PICK f \in FreeFds(t) : \A g \in FreeFds(t) : <<g, f>> \notin OpToRel(<, Nat)
  BY <1>1, NatLessThanWellFounded, WFMin
<1>3. \A g \in FreeFds(t) : ~(g < f)
  BY <1>1, <1>2 DEF OpToRel
<1>4. \A g \in FreeFds(t) : f <= g
  BY <1>1, <1>3
<1> QED
  BY <1>4 DEF NextFd

LEMMA WiimotesStay ==
  ASSUME NEW w \in Wiimote
  PROVE  /\ Disconnected(w) \in Wiimote
         /\ Disconnected(w).out = w.out /\ Disconnected(w).in = w.in
         /\ Disconnected(w).connected = FALSE /\ Disconnected(w).event = "DISCONNECT"
         /\ NoEvent(w) \in Wiimote
         /\ NoEvent(w).out = w.out /\ NoEvent(w).in = w.in
         /\ NoEvent(w).connected = w.connected /\ NoEvent(w).event = "NONE"
         /\ OsDisconnect(w) \in Wiimote
         /\ OsDisconnect(w).connected = w.connected
<1>1. /\ Disconnected(w) \in Wiimote
      /\ Disconnected(w).out = w.out /\ Disconnected(w).in = w.in
      /\ Disconnected(w).connected = FALSE /\ Disconnected(w).event = "DISCONNECT"
  BY DEF Disconnected, Wiimote, SlotEvents
<1>2. /\ NoEvent(w) \in Wiimote
      /\ NoEvent(w).out = w.out /\ NoEvent(w).in = w.in
      /\ NoEvent(w).connected = w.connected /\ NoEvent(w).event = "NONE"
  BY DEF NoEvent, Wiimote, SlotEvents
<1>3. OsDisconnect(w) \in Wiimote /\ OsDisconnect(w).connected = w.connected
  BY DEF OsDisconnect, Wiimote, SlotEvents
<1> QED
  BY <1>1, <1>2, <1>3

\* A remote w that becomes v keeps its sockets, or is lost and lets them go.
Keeps(w, v) ==
    \/ /\ v.out = w.out /\ v.in = w.in
       /\ v.connected => w.connected \/ w.in # NoFd
    \/ v.out = NoFd /\ v.in = NoFd /\ v.connected = FALSE

LEMMA LostStays ==
  ASSUME NEW w \in Wiimote, NEW lost \in DisconnectedInHandler(w)
  PROVE  /\ lost \in Wiimote /\ Keeps(w, lost)
         /\ lost.connected = FALSE /\ lost.event \in {"DISCONNECT", "OTHER"}
<1> DEFINE c == [w EXCEPT !.out = NoFd, !.in = NoFd]
<1>1. PICK v \in {w, c}, e \in {"DISCONNECT", "OTHER"} :
         lost = [Disconnected(v) EXCEPT !.event = e]
  BY DEF DisconnectedInHandler
<1>2. c \in Wiimote /\ c.out = NoFd /\ c.in = NoFd
  BY DEF Wiimote
<1> HIDE DEF c
<1>3. /\ Disconnected(v) \in Wiimote
      /\ Disconnected(v).out = v.out /\ Disconnected(v).in = v.in
      /\ Disconnected(v).connected = FALSE
  BY <1>1, <1>2, WiimotesStay
<1>4. \/ v.out = w.out /\ v.in = w.in
      \/ v.out = NoFd /\ v.in = NoFd
  BY <1>1, <1>2
<1> DEFINE d == Disconnected(v)
<1> HIDE DEF d
<1>5. lost = [d EXCEPT !.event = e] /\ d \in Wiimote /\ d.connected = FALSE
  BY <1>1, <1>3 DEF d
<1>6. /\ lost \in Wiimote /\ lost.out = d.out /\ lost.in = d.in
      /\ lost.connected = FALSE /\ lost.event = e
  BY <1>5 DEF Wiimote, SlotEvents
<1>7. lost.out = v.out /\ lost.in = v.in
  BY <1>3, <1>6 DEF d
<1> QED
  BY <1>1, <1>4, <1>6, <1>7 DEF Keeps

LEMMA NewWiimotes == NewWiimote \in Wiimote
BY DEF NewWiimote, Wiimote, SlotEvents

\* A visit moves on, or the call returns.
LEMMA AdvanceCounts ==
  ASSUME LifecycleTypeOK, CountsVisits, call.op \in {"connect", "poll"},
         NEW n \in {call.n, call.n + 1}, Advance(n)
  PROVE  /\ call' \in Calls
         /\ CountsVisits'
         /\ call'.n = n
         /\ IF call.at = Remotes THEN call'.op = "none"
            ELSE call'.op = call.op /\ call'.at = call.at + 1
<1>1. /\ call \in Calls /\ call.at \in 1 .. Remotes /\ call.n \in 0 .. Remotes
      /\ Remotes \in Nat \ {0} /\ call.n < call.at
  BY LifecycleAssumption DEF LifecycleTypeOK, Calls, CountsVisits, Slots
<1>2. n \in 0 .. Remotes
  BY <1>1
<1>3. CASE call.at = Remotes
  <2>1. call' = [NoCall EXCEPT !.n = n]
    BY <1>3 DEF Advance
  <2> QED
    BY <1>1, <1>2, <1>3, <2>1 DEF NoCall, Calls, CountsVisits, Slots
<1>4. CASE call.at # Remotes
  <2>1. call' = [call EXCEPT !.at = @ + 1, !.n = n]
    BY <1>4 DEF Advance
  <2>2. call.at + 1 \in 1 .. Remotes /\ n < call.at + 1
    BY <1>1, <1>4
  <2> QED
    BY <1>1, <1>2, <1>4, <2>1, <2>2 DEF Calls, CountsVisits, Slots
<1> QED
  BY <1>3, <1>4

LEMMA NoCallIsCall == NoCall \in Calls /\ NoCall.op = "none"
BY LifecycleAssumption DEF NoCall, Calls, Slots

-----------------------------------------------------------------------------
(* Who holds which socket                                                  *)

\* The same sockets are open, and held by the same fields.
SocketsStay ==
    /\ \A s \in Slots : /\ wm'[s].out = wm[s].out /\ wm'[s].in = wm[s].in
                        /\ wm'[s].connected => wm[s].connected \/ wm[s].in # NoFd
    /\ \A f \in Fds : socks'[f] = "free" <=> socks[f] = "free"
    /\ tidy' => tidy

LEMMA StayingKeeps ==
  ASSUME IInv, LifecycleTypeOK', CountsVisits', SocketsStay
  PROVE  IInv'
<1>1. \A s \in Slots : wm[s].out \in Fds \cup {NoFd} /\ wm[s].in \in Fds \cup {NoFd}
  BY DEF IInv, LifecycleTypeOK, Wiimote
<1>2. Owned(wm, socks)'
  BY <1>1 DEF IInv, Owned, SocketsStay
<1>3. tidy' => AllHeld(wm, socks)'
  BY DEF IInv, AllHeld, SocketsStay
<1> QED
  BY <1>2, <1>3 DEF IInv

\* Remote s alone changes, to w, and gives up the sockets it held for free
\* ones or for none.
LEMMA SlotKeeps ==
  ASSUME IInv, LifecycleTypeOK', CountsVisits',
         NEW s \in Slots, NEW w \in Wiimote,
         wm' = [wm EXCEPT ![s] = w],
         w.in # NoFd => socks'[w.in] # "free" /\ w.in # w.out,
         w.out # NoFd => socks'[w.out] # "free",
         w.connected => w.in # NoFd,
         \A f \in {w.out, w.in} : \/ f \in {NoFd, wm[s].out, wm[s].in}
                                  \/ socks[f] = "free",
         \A f \in Fds : \/ f \in {wm[s].out, wm[s].in}
                        \/ socks[f] # "free" => socks'[f] # "free",
         tidy' => tidy /\ \A f \in Fds : socks'[f] # "free" =>
                     \/ f \in {w.out, w.in}
                     \/ socks[f] # "free" /\ f \notin {wm[s].out, wm[s].in}
  PROVE  IInv'
<1>1. \A r \in Slots : wm[r].out \in Fds \cup {NoFd} /\ wm[r].in \in Fds \cup {NoFd}
  BY DEF IInv, LifecycleTypeOK, Wiimote
<1>2. \A r \in Slots : wm'[r] = IF r = s THEN w ELSE wm[r]
  BY DEF IInv, LifecycleTypeOK
<1>3. Owned(wm, socks)'
  <2>1. ASSUME NEW r \in Slots
        PROVE  /\ wm'[r].out # NoFd => socks'[wm'[r].out] # "free"
               /\ wm'[r].in # NoFd => socks'[wm'[r].in] # "free" /\ wm'[r].in # wm'[r].out
               /\ wm'[r].connected => wm'[r].in # NoFd
    <3>1. CASE r = s
      BY <1>2, <3>1
    <3>2. CASE r # s
      <4>1. wm'[r] = wm[r]
        BY <1>2, <3>2
      <4>2. \A f \in {wm[r].out, wm[r].in} : f # NoFd =>
               f \in Fds /\ socks[f] # "free" /\ f \notin {wm[s].out, wm[s].in}
        BY <1>1, <3>2 DEF IInv, Owned
      <4> QED
        BY <4>1, <4>2 DEF IInv, Owned
    <3> QED
      BY <3>1, <3>2
  <2>2. ASSUME NEW r \in Slots, NEW q \in Slots, r # q
        PROVE  {wm'[r].out, wm'[r].in} \cap {wm'[q].out, wm'[q].in} \subseteq {NoFd}
    <3>1. ASSUME NEW p \in Slots, p # s
          PROVE  {w.out, w.in} \cap {wm[p].out, wm[p].in} \subseteq {NoFd}
      <4>1. \A f \in {wm[p].out, wm[p].in} : f # NoFd =>
               socks[f] # "free" /\ f \notin {wm[s].out, wm[s].in}
        BY <3>1 DEF IInv, Owned
      <4> QED
        BY <4>1
    <3>2. CASE r = s
      BY <1>2, <2>2, <3>1, <3>2
    <3>3. CASE q = s
      BY <1>2, <2>2, <3>1, <3>3
    <3>4. CASE r # s /\ q # s
      <4>1. wm'[r] = wm[r] /\ wm'[q] = wm[q]
        BY <1>2, <3>4
      <4> QED
        BY <2>2, <4>1 DEF IInv, Owned
    <3> QED
      BY <3>2, <3>3, <3>4
  <2> QED
    BY <2>1, <2>2 DEF Owned
<1>4. tidy' => AllHeld(wm, socks)'
  <2> SUFFICES ASSUME tidy', NEW f \in Fds, socks'[f] # "free"
               PROVE  \E r \in Slots : f \in {wm'[r].out, wm'[r].in}
    BY DEF AllHeld
  <2>1. CASE f \in {w.out, w.in}
    BY <1>2, <2>1
  <2>2. CASE socks[f] # "free" /\ f \notin {wm[s].out, wm[s].in}
    <3>1. PICK r \in Slots : f \in {wm[r].out, wm[r].in}
      BY <2>2 DEF IInv, AllHeld
    <3> QED
      BY <1>2, <2>2, <3>1
  <2> QED
    BY <2>1, <2>2
<1> QED
  BY <1>3, <1>4 DEF IInv

-----------------------------------------------------------------------------
(* Steps                                                                   *)

LEMMA InitOK == Init => IInv /\ CountsEvents
BY NewWiimotes, NoCallIsCall
   DEF Init, IInv, CountsEvents, LifecycleTypeOK, CountsVisits, Owned, AllHeld, NewWiimote

LEMMA FoundIsWiimote ==
  ASSUME NEW w \in Wiimote, NEW a \in BOOLEAN, NEW b \in BOOLEAN,
         NEW v, v = [w EXCEPT !.addr = a, !.found = b]
  PROVE  v \in Wiimote /\ v.out = w.out /\ v.in = w.in /\ v.connected = w.connected
BY DEF Wiimote

LEMMA FindKeeps == ASSUME IInv, NEW k \in 0 .. Remotes, Find(k) PROVE IInv'
<1>1. /\ wm' = [s \in Slots |-> [wm[s] EXCEPT !.addr = s <= k, !.found = @ \/ s <= k]]
      /\ alive' = alive /\ socks' = socks /\ call' = call /\ tidy' = tidy
  BY DEF Find
<1>2. ASSUME NEW s \in Slots
      PROVE  /\ wm'[s] \in Wiimote /\ wm'[s].out = wm[s].out
             /\ wm'[s].in = wm[s].in /\ wm'[s].connected = wm[s].connected
  <2> DEFINE a == s <= k
             b == wm[s].found \/ s <= k
  <2>1. wm'[s] = [wm[s] EXCEPT !.addr = a, !.found = b]
    BY <1>1
  <2>2. a \in BOOLEAN
    OBVIOUS
  <2>3. b \in BOOLEAN
    OBVIOUS
  <2>4. wm[s] \in Wiimote
    BY DEF IInv, LifecycleTypeOK
  <2> HIDE DEF a, b
  <2> QED
    <3> DEFINE v == wm'[s]
    <3>1. v = [wm[s] EXCEPT !.addr = a, !.found = b]
      BY <2>1
    <3> HIDE DEF v
    <3>2. /\ v \in Wiimote /\ v.out = wm[s].out
             /\ v.in = wm[s].in /\ v.connected = wm[s].connected
      BY <2>2, <2>3, <2>4, <3>1, FoundIsWiimote
    <3> QED BY <3>2 DEF v
<1>3. LifecycleTypeOK' /\ CountsVisits'
  BY <1>1, <1>2 DEF IInv, LifecycleTypeOK, CountsVisits
<1> QED
  BY <1>1, <1>2, <1>3, StayingKeeps DEF SocketsStay

LEMMA BegunIsCall ==
  ASSUME NEW op \in {"connect", "poll", "disconnect"}, NEW at \in Slots,
         NEW ready \in SUBSET Slots,
         call' = [op |-> op, at |-> at, n |-> 0, ready |-> ready]
  PROVE  call' \in Calls /\ CountsVisits'
<1>1. 0 \in 0 .. Remotes /\ at \in Nat \ {0}
  BY LifecycleAssumption DEF Slots
<1>2. call' \in Calls
  BY <1>1 DEF Calls
<1>3. CountsVisits'
  BY <1>1 DEF CountsVisits
<1> QED
  BY <1>2, <1>3

LEMMA BeginsKeep ==
  ASSUME IInv, BeginConnect \/ \E s \in Slots : BeginDisconnect(s)
  PROVE  IInv'
<1>1. /\ wm' = wm /\ alive' = alive /\ socks' = socks /\ tidy' = tidy
      /\ \/ call' = [NoCall EXCEPT !.op = "connect"]
         \/ \E s \in Slots : call' = [NoCall EXCEPT !.op = "disconnect", !.at = s]
  BY DEF BeginConnect, BeginDisconnect
<1>2. call' \in Calls /\ CountsVisits'
  <2>1. CASE call' = [NoCall EXCEPT !.op = "connect"]
    <3>1. call' = [op |-> "connect", at |-> 1, n |-> 0, ready |-> {}] /\ 1 \in Slots
      BY <2>1, LifecycleAssumption DEF NoCall, Slots
    <3> QED
      BY <3>1, BegunIsCall
  <2>2. ASSUME NEW s \in Slots, call' = [NoCall EXCEPT !.op = "disconnect", !.at = s]
        PROVE  call' \in Calls /\ CountsVisits'
    <3>1. call' = [op |-> "disconnect", at |-> s, n |-> 0, ready |-> {}]
      BY <2>2 DEF NoCall
    <3> QED
      BY <3>1, BegunIsCall
  <2> QED
    BY <1>1, <2>1, <2>2
<1>3. LifecycleTypeOK'
  BY <1>1, <1>2 DEF IInv, LifecycleTypeOK
<1> QED
  BY <1>1, <1>2, <1>3, StayingKeeps DEF SocketsStay

LEMMA BeginPollKeeps == ASSUME IInv, BeginPoll PROVE IInv'
<1>1. /\ wm' = [s \in Slots |-> NoEvent(wm[s])]
      /\ alive' = alive /\ socks' = socks /\ tidy' = tidy
      /\ \/ call' = NoCall
         \/ \E ready \in SUBSET Slots :
               call' = [NoCall EXCEPT !.op = "poll", !.ready = ready]
  BY DEF BeginPoll, ConnectedSlots
<1>2. call' \in Calls /\ CountsVisits'
  <2>1. CASE call' = NoCall
    BY <2>1, NoCallIsCall DEF CountsVisits
  <2>2. ASSUME NEW ready \in SUBSET Slots,
               call' = [NoCall EXCEPT !.op = "poll", !.ready = ready]
        PROVE  call' \in Calls /\ CountsVisits'
    <3>1. call' = [op |-> "poll", at |-> 1, n |-> 0, ready |-> ready] /\ 1 \in Slots
      <4>1. call' = [op |-> "poll", at |-> 1, n |-> 0, ready |-> ready]
        BY <2>2, Zenon DEF NoCall
      <4>2. 1 \in Slots
        BY LifecycleAssumption DEF Slots
      <4> QED
        BY <4>1, <4>2
    <3> QED
      BY <3>1, BegunIsCall
  <2> QED
    BY <1>1, <2>1, <2>2
<1>3. \A s \in Slots : /\ wm'[s] \in Wiimote /\ wm'[s].out = wm[s].out
                       /\ wm'[s].in = wm[s].in /\ wm'[s].connected = wm[s].connected
  BY <1>1, WiimotesStay DEF IInv, LifecycleTypeOK
<1>4. LifecycleTypeOK'
  BY <1>1, <1>2, <1>3 DEF IInv, LifecycleTypeOK
<1> QED
  BY <1>1, <1>2, <1>3, <1>4, StayingKeeps DEF SocketsStay

\* One remote is given another w with the same sockets.
LEMMA RewriteKeeps ==
  ASSUME IInv, NEW s \in Slots, NEW w \in Wiimote, wm' = [wm EXCEPT ![s] = w],
         w.out = wm[s].out, w.in = wm[s].in,
         w.connected => wm[s].connected \/ wm[s].in # NoFd,
         alive' = alive, tidy' \in BOOLEAN, tidy' => tidy, call' \in Calls, CountsVisits',
         socks' \in [Fds -> {"free", "up", "down"}],
         \A f \in Fds : socks'[f] = "free" <=> socks[f] = "free"
  PROVE  IInv'
<1>1. LifecycleTypeOK'
  BY DEF IInv, LifecycleTypeOK
<1>2. \A r \in Slots : wm'[r] = IF r = s THEN w ELSE wm[r]
  BY DEF IInv, LifecycleTypeOK
<1>3. \A r \in Slots : /\ wm'[r].out = wm[r].out /\ wm'[r].in = wm[r].in
                       /\ wm'[r].connected => wm[r].connected \/ wm[r].in # NoFd
  BY <1>2
<1> QED
  BY <1>1, <1>3, StayingKeeps DEF SocketsStay

LEMMA BrokenStays ==
  ASSUME LifecycleTypeOK, NEW s \in Slots
  PROVE  /\ Broken(s) \in [Fds -> {"free", "up", "down"}]
         /\ \A f \in Fds : Broken(s)[f] = "free" <=> socks[f] = "free"
BY DEF LifecycleTypeOK, Broken

LEMMA ClosedFacts ==
  ASSUME NEW t \in [Fds -> {"free", "up", "down"}], NEW fs
  PROVE  /\ Closed(t, fs) \in [Fds -> {"free", "up", "down"}]
         /\ \A f \in Fds : Closed(t, fs)[f] = "free" <=> f \in fs \/ t[f] = "free"
BY DEF Closed

\* Remote s is lost and its sockets are closed.
LEMMA ReleaseKeeps ==
  ASSUME IInv, NEW s \in Slots, NEW w \in Wiimote, wm' = [wm EXCEPT ![s] = w],
         w.out = NoFd, w.in = NoFd, w.connected = FALSE,
         alive' = alive, tidy' \in BOOLEAN, tidy' => tidy, call' \in Calls, CountsVisits',
         socks' \in [Fds -> {"free", "up", "down"}],
         \A f \in Fds : socks'[f] = "free" <=>
            f \in {wm[s].out, wm[s].in} \/ socks[f] = "free"
  PROVE  IInv'
<1>1. LifecycleTypeOK'
  BY DEF IInv, LifecycleTypeOK
<1>2. tidy' => tidy /\ \A f \in Fds : socks'[f] # "free" =>
                     \/ f \in {w.out, w.in}
                     \/ socks[f] # "free" /\ f \notin {wm[s].out, wm[s].in}
  OBVIOUS
<1>3. \A f \in Fds : \/ f \in {wm[s].out, wm[s].in}
                     \/ socks[f] # "free" => socks'[f] # "free"
  OBVIOUS
<1>4. /\ w.connected => w.in # NoFd
      /\ w.in # NoFd => socks'[w.in] # "free" /\ w.in # w.out
      /\ w.out # NoFd => socks'[w.out] # "free"
      /\ \A f \in {w.out, w.in} : \/ f \in {NoFd, wm[s].out, wm[s].in}
                                  \/ socks[f] = "free"
  OBVIOUS
<1> QED
  BY <1>1, <1>2, <1>3, <1>4, SlotKeeps

\* Remote s becomes w and closes what it lets go, of the sockets t.
LEMMA LetGoKeeps ==
  ASSUME IInv, NEW s \in Slots, NEW w \in Wiimote, wm' = [wm EXCEPT ![s] = w],
         Keeps(wm[s], w),
         alive' = alive, tidy' \in BOOLEAN, tidy' => tidy, call' \in Calls, CountsVisits',
         NEW t \in [Fds -> {"free", "up", "down"}],
         \A f \in Fds : t[f] = "free" <=> socks[f] = "free",
         socks' = Closed(t, LetGo(wm[s], w))
  PROVE  IInv'
<1>1. /\ socks' \in [Fds -> {"free", "up", "down"}]
      /\ \A f \in Fds : socks'[f] = "free" <=> f \in LetGo(wm[s], w) \/ socks[f] = "free"
  BY ClosedFacts
<1>2. CASE /\ w.out = wm[s].out /\ w.in = wm[s].in
           /\ w.connected => wm[s].connected \/ wm[s].in # NoFd
  <2>1. LetGo(wm[s], w) = {}
    BY <1>2 DEF LetGo
  <2>2. \A f \in Fds : socks'[f] = "free" <=> socks[f] = "free"
    BY <1>1, <2>1
  <2> QED
    BY <1>1, <1>2, <2>2, RewriteKeeps
<1>3. CASE w.out = NoFd /\ w.in = NoFd /\ w.connected = FALSE
  <2>1. \A f \in Fds : f # NoFd
    BY LifecycleAssumption DEF NoFd
  <2>2. \A f \in Fds : f \in LetGo(wm[s], w) <=> f \in {wm[s].out, wm[s].in}
    BY <1>3, <2>1 DEF LetGo
  <2>3. \A f \in Fds : socks'[f] = "free" <=>
            f \in {wm[s].out, wm[s].in} \/ socks[f] = "free"
    BY <1>1, <2>2
  <2> QED
    BY <1>1, <1>3, <2>3, ReleaseKeeps
<1> QED
  BY <1>2, <1>3 DEF Keeps

LEMMA LosesKeep ==
  ASSUME IInv, NEW s \in Slots, ApiDisconnected(s) \/ CommandFails(s)
  PROVE  IInv'
<1>1. /\ wm' = [wm EXCEPT ![s] = Disconnected(wm[s])]
      /\ alive' = alive /\ socks' = socks /\ call' = call /\ tidy' = tidy
  BY DEF ApiDisconnected, CommandFails
<1>2. /\ Disconnected(wm[s]) \in Wiimote /\ Disconnected(wm[s]).connected = FALSE
      /\ Disconnected(wm[s]).out = wm[s].out /\ Disconnected(wm[s]).in = wm[s].in
  BY WiimotesStay DEF IInv, LifecycleTypeOK
<1>3. /\ tidy \in BOOLEAN /\ call \in Calls /\ socks \in [Fds -> {"free", "up", "down"}]
      /\ CountsVisits'
  BY <1>1 DEF IInv, LifecycleTypeOK, CountsVisits
<1> QED
  BY <1>1, <1>2, <1>3, RewriteKeeps

LEMMA LinkBreaksKeeps == ASSUME IInv, NEW s \in Slots, LinkBreaks(s) PROVE IInv'
<1>1. /\ wm' = wm /\ alive' = alive /\ call' = call /\ tidy' = tidy /\ socks' = Broken(s)
  BY DEF LinkBreaks
<1>2. LifecycleTypeOK' /\ CountsVisits'
  BY <1>1, BrokenStays DEF IInv, LifecycleTypeOK, CountsVisits
<1> QED
  BY <1>1, <1>2, BrokenStays, StayingKeeps DEF IInv, SocketsStay

LEMMA ResyncKeeps == ASSUME IInv, NEW s \in Slots, Resync(s) PROVE IInv'
<1>1. /\ alive' = alive /\ call' = call /\ tidy' = tidy /\ wm[s] \in Wiimote
      /\ tidy \in BOOLEAN /\ call \in Calls /\ socks \in [Fds -> {"free", "up", "down"}]
      /\ CountsVisits'
  BY DEF Resync, IInv, LifecycleTypeOK, CountsVisits
<1>2. CASE LinkUp(s) /\ wm' = [wm EXCEPT ![s].connected = TRUE, ![s].event = "OTHER"]
           /\ UNCHANGED socks
  <2> DEFINE w == [wm[s] EXCEPT !.connected = TRUE, !.event = "OTHER"]
  <2>1. wm' = [wm EXCEPT ![s] = w]
    BY <1>2
  <2>2. w \in Wiimote /\ w.out = wm[s].out /\ w.in = wm[s].in
    BY <1>1 DEF Wiimote, SlotEvents
  <2>3. wm[s].in # NoFd
    BY <1>2 DEF LinkUp
  <2> HIDE DEF w
  <2> QED
    BY <1>1, <1>2, <2>1, <2>2, <2>3, RewriteKeeps
<1>3. ASSUME NEW lost \in DisconnectedInHandler(wm[s]), wm' = [wm EXCEPT ![s] = lost],
             socks' = Closed(Broken(s), LetGo(wm[s], lost))
      PROVE  IInv'
  <2>1. lost \in Wiimote /\ Keeps(wm[s], lost)
    BY <1>1, LostStays
  <2>2. /\ Broken(s) \in [Fds -> {"free", "up", "down"}]
        /\ \A f \in Fds : Broken(s)[f] = "free" <=> socks[f] = "free"
    BY BrokenStays DEF IInv
  <2>3. tidy' \in BOOLEAN /\ (tidy' => tidy) /\ call' \in Calls
    BY <1>1
  <2> QED
    BY <1>1, <1>3, <2>1, <2>2, <2>3, LetGoKeeps
<1> QED
  BY <1>2, <1>3 DEF Resync

LEMMA DisconnectKeeps == ASSUME IInv, NEW s \in Slots, Disconnect(s) PROVE IInv'
<1>1. /\ wm' = [wm EXCEPT ![s] = OsDisconnect(wm[s])]
      /\ socks' = Closed(socks, ClosedByOsDisconnect(wm[s]))
      /\ call' = NoCall /\ alive' = alive /\ tidy' = tidy
  BY DEF Disconnect
<1>2. wm[s] \in Wiimote /\ wm \in [Slots -> Wiimote] /\ LifecycleTypeOK
  BY DEF IInv, LifecycleTypeOK
<1>3. call' \in Calls /\ CountsVisits' /\ tidy' \in BOOLEAN
  BY <1>1, NoCallIsCall DEF IInv, LifecycleTypeOK, CountsVisits
<1>4. /\ socks' \in [Fds -> {"free", "up", "down"}]
      /\ \A f \in Fds : socks'[f] = "free" <=>
            f \in ClosedByOsDisconnect(wm[s]) \/ socks[f] = "free"
  <2>1. socks \in [Fds -> {"free", "up", "down"}]
    BY <1>2 DEF LifecycleTypeOK
  <2> QED
    BY <1>1, <2>1, ClosedFacts
<1>5. OsDisconnect(wm[s]) \in Wiimote
  BY <1>2, WiimotesStay
<1>6. CASE wm[s].connected
  <2>1. OsDisconnect(wm[s]) = wm[s] /\ ClosedByOsDisconnect(wm[s]) = {}
    BY <1>6 DEF OsDisconnect, ClosedByOsDisconnect
  <2>2. \A f \in Fds : socks'[f] = "free" <=> socks[f] = "free"
    BY <1>4, <2>1
  <2> QED
    BY <1>1, <1>2, <1>3, <1>4, <1>6, <2>1, <2>2, RewriteKeeps
<1>7. CASE ~wm[s].connected
  <2> DEFINE w == OsDisconnect(wm[s])
  <2>1. w.out = NoFd /\ w.in = NoFd
    BY <1>2, <1>7 DEF OsDisconnect, Wiimote
  <2>2. w.connected = FALSE
    BY <1>2, <1>7, WiimotesStay DEF Wiimote
  <2>3. ClosedByOsDisconnect(wm[s]) = {wm[s].out, wm[s].in}
    BY <1>7 DEF ClosedByOsDisconnect
  <2>4. w \in Wiimote /\ wm' = [wm EXCEPT ![s] = w]
    BY <1>1, <1>5
  <2> HIDE DEF w
  <2>5. \A f \in Fds : socks'[f] = "free" <=>
            f \in {wm[s].out, wm[s].in} \/ socks[f] = "free"
    BY <1>4, <2>3
  <2> QED
    BY <1>1, <1>3, <1>4, <2>1, <2>2, <2>4, <2>5, ReleaseKeeps
<1> QED
  BY <1>6, <1>7

LEMMA CleanupKeeps == ASSUME IInv, Cleanup PROVE IInv'
<1>1. /\ alive' = FALSE /\ call' = NoCall /\ wm' = [s \in Slots |-> NewWiimote]
      /\ socks' = Closed(socks, UNION {ClosedByOsDisconnect(wm[s]) : s \in Slots})
      /\ tidy' = (tidy /\ \A s \in Slots : ~wm[s].connected)
  BY DEF Cleanup
<1>2. /\ socks' \in [Fds -> {"free", "up", "down"}]
      /\ \A f \in Fds : socks'[f] = "free" <=>
            \/ f \in UNION {ClosedByOsDisconnect(wm[s]) : s \in Slots}
            \/ socks[f] = "free"
  <2>1. socks \in [Fds -> {"free", "up", "down"}]
    BY DEF IInv, LifecycleTypeOK
  <2> QED
    BY <1>1, <2>1, ClosedFacts
<1>3. LifecycleTypeOK' /\ CountsVisits'
  <2>1. tidy' \in BOOLEAN /\ alive' \in BOOLEAN
    BY <1>1
  <2> QED
    BY <1>1, <1>2, <2>1, NoCallIsCall, NewWiimotes DEF LifecycleTypeOK, CountsVisits
<1>4. \A s \in Slots : wm'[s].out = NoFd /\ wm'[s].in = NoFd /\ wm'[s].connected = FALSE
  BY <1>1 DEF NewWiimote
<1>5. Owned(wm, socks)'
  BY <1>4 DEF Owned
<1>6. tidy' => AllHeld(wm, socks)'
  <2> SUFFICES ASSUME tidy', NEW f \in Fds, socks'[f] # "free" PROVE FALSE
    BY DEF AllHeld
  <2>1. socks[f] # "free" /\ f \notin UNION {ClosedByOsDisconnect(wm[s]) : s \in Slots}
    BY <1>2
  <2>2. tidy /\ \A s \in Slots : ~wm[s].connected
    BY <1>1
  <2>3. PICK s \in Slots : f \in {wm[s].out, wm[s].in}
    BY <2>1, <2>2 DEF IInv, AllHeld
  <2>4. f \in ClosedByOsDisconnect(wm[s])
    BY <2>2, <2>3 DEF ClosedByOsDisconnect
  <2> QED
    BY <2>1, <2>4
<1> QED
  BY <1>3, <1>5, <1>6 DEF IInv

\* After wiiuse_cleanup() there is no array that could hold a socket.
Gone == ~alive => /\ call.op = "none"
                  /\ \A s \in Slots : wm[s].out = NoFd /\ wm[s].in = NoFd

LEMMA InitAgainKeeps == ASSUME IInv, Gone, InitAgain PROVE IInv'
<1>1. /\ ~alive /\ alive' = TRUE /\ wm' = [s \in Slots |-> NewWiimote]
      /\ socks' = socks /\ call' = call /\ tidy' = tidy
  BY DEF InitAgain
<1>2. LifecycleTypeOK' /\ CountsVisits'
  BY <1>1, NewWiimotes DEF IInv, LifecycleTypeOK, CountsVisits
<1>3. \A s \in Slots : wm'[s].out = NoFd /\ wm'[s].in = NoFd /\ wm'[s].connected = FALSE
  BY <1>1 DEF NewWiimote
<1>4. \A s \in Slots : wm'[s].out = wm[s].out /\ wm'[s].in = wm[s].in
  BY <1>1, <1>3 DEF Gone
<1> QED
  BY <1>1, <1>2, <1>3, <1>4, StayingKeeps DEF SocketsStay

-----------------------------------------------------------------------------
(* Connecting                                                              *)

LEMMA StandingKeeps ==
  ASSUME IInv, CountsVisits', call' \in Calls,
         wm' = wm, alive' = alive, socks' = socks, tidy' = tidy
  PROVE  IInv'
<1>1. LifecycleTypeOK'
  BY DEF IInv, LifecycleTypeOK
<1> QED
  BY <1>1, StayingKeeps DEF SocketsStay

LEMMA VisitCounts ==
  ASSUME IInv, call.op \in {"connect", "poll"}, NEW n \in {call.n, call.n + 1}, Advance(n)
  PROVE  call' \in Calls /\ CountsVisits'
BY AdvanceCounts DEF IInv

LEMMA FailsKeeps ==
  ASSUME IInv, NEW s \in Slots, Opens(s),
         NEW out \in Fds \cup {NoFd}, NEW in \in Fds \cup {NoFd},
         NEW t \in [Fds -> {"free", "up", "down"}], Fails(s, out, in, t),
         in # NoFd => t[in] # "free" /\ in # out,
         out # NoFd => t[out] # "free",
         \A f \in {out, in} : f \in {NoFd, wm[s].out, wm[s].in} \/ socks[f] = "free",
         \A f \in Fds : f \in {wm[s].out, wm[s].in} \/ socks[f] # "free" => t[f] # "free",
         \A f \in Fds : t[f] # "free" => f \in {out, in} \/ socks[f] # "free"
  PROVE  IInv'
<1> DEFINE w == [wm[s] EXCEPT !.out = out, !.in = in]
<1>1. /\ wm' = [wm EXCEPT ![s] = w]
      /\ socks' = t /\ Advance(call.n)
      /\ call.op = "connect" /\ alive' = alive
      /\ tidy' = (tidy /\ wm[s].out = NoFd /\ wm[s].in = NoFd)
  BY DEF Fails, Opens, Connecting
<1>2. wm[s] \in Wiimote /\ wm \in [Slots -> Wiimote] /\ LifecycleTypeOK
  BY DEF IInv, LifecycleTypeOK
<1>3. w \in Wiimote /\ w.out = out /\ w.in = in /\ w.connected = wm[s].connected
  BY <1>2 DEF Wiimote
<1>4. ~wm[s].connected
  BY DEF Opens
<1>5. call' \in Calls /\ CountsVisits'
  BY <1>1, VisitCounts
<1> HIDE DEF w
<1>6. LifecycleTypeOK'
  <2>1. tidy' \in BOOLEAN
    BY <1>1
  <2> QED
    BY <1>1, <1>2, <1>3, <1>5, <2>1 DEF LifecycleTypeOK
<1>7. tidy' => tidy /\ \A f \in Fds : socks'[f] # "free" =>
                     \/ f \in {w.out, w.in}
                     \/ socks[f] # "free" /\ f \notin {wm[s].out, wm[s].in}
  <2> SUFFICES ASSUME tidy', NEW f \in Fds, socks'[f] # "free", f \notin {w.out, w.in}
               PROVE  socks[f] # "free" /\ f \notin {wm[s].out, wm[s].in}
    BY <1>1
  <2>1. f # NoFd
    BY LifecycleAssumption DEF NoFd
  <2> QED
    BY <1>1, <1>3, <2>1
<1>8. w.connected => w.in # NoFd
  BY <1>3, <1>4
<1> QED
  BY <1>1, <1>3, <1>5, <1>6, <1>7, <1>8, SlotKeeps

LEMMA FreeFdFacts ==
  ASSUME IInv, FreeFds(socks) # {}
  PROVE  NextFd(socks) \in Fds /\ socks[NextFd(socks)] = "free"
BY LowestFd DEF FreeFds

LEMMA SecondFd ==
  ASSUME IInv, Cardinality(FreeFds(socks)) >= 2
  PROVE  LET f == NextFd(socks)
             g == NextFd([socks EXCEPT ![f] = "up"]) IN
         f \in Fds /\ g \in Fds /\ f # g /\ socks[f] = "free" /\ socks[g] = "free"
<1> DEFINE f == NextFd(socks)
           u == [socks EXCEPT ![f] = "up"]
<1>1. FreeFds(socks) # {}
  BY FS_EmptySet
<1>2. f \in Fds /\ socks[f] = "free"
  BY <1>1, FreeFdFacts
<1>3. socks \in [Fds -> {"free", "up", "down"}]
  BY DEF IInv, LifecycleTypeOK
<1> HIDE DEF f
<1>4. FreeFds(u) = FreeFds(socks) \ {f}
  BY <1>2, <1>3 DEF FreeFds
<1>5. FreeFds(u) # {}
  <2>1. SUFFICES ASSUME FreeFds(u) = {} PROVE FALSE
    OBVIOUS
  <2>2. FreeFds(socks) = {f}
    BY <1>1, <1>4, <2>1
  <2>3. Cardinality({f}) = 1
    BY FS_Singleton
  <2> QED
    BY <2>2, <2>3
<1> HIDE DEF u
<1>6. NextFd(u) \in FreeFds(socks) \ {f}
  BY <1>4, <1>5, LowestFd
<1>7. NextFd(u) \in Fds /\ NextFd(u) # f /\ socks[NextFd(u)] = "free"
  BY <1>6 DEF FreeFds
<1> QED
  BY <1>2, <1>7 DEF f, u

\* What remote s holds is open.
LEMMA HeldIsOpen ==
  ASSUME IInv, NEW s \in Slots
  PROVE  /\ wm[s].out \in Fds \cup {NoFd} /\ wm[s].in \in Fds \cup {NoFd}
         /\ \A f \in Fds : f \in {wm[s].out, wm[s].in} => socks[f] # "free"
         /\ wm[s].in # NoFd => socks[wm[s].in] # "free"
<1>1. wm[s].out \in Fds \cup {NoFd} /\ wm[s].in \in Fds \cup {NoFd}
  BY DEF IInv, LifecycleTypeOK, Wiimote
<1>2. \A f \in Fds : f # NoFd
  BY LifecycleAssumption DEF NoFd
<1> QED
  BY <1>1, <1>2 DEF IInv, Owned

LEMMA ConnectFailsKeep ==
  ASSUME IInv, NEW s \in Slots,
         \/ ConnectNoSocket(s) \/ ConnectNoOutput(s)
         \/ ConnectNoSecondSocket(s) \/ ConnectNoInput(s)
  PROVE  IInv'
<1>1. socks \in [Fds -> {"free", "up", "down"}]
  BY DEF IInv, LifecycleTypeOK
<1>2. /\ wm[s].out \in Fds \cup {NoFd} /\ wm[s].in \in Fds \cup {NoFd}
      /\ \A f \in Fds : f \in {wm[s].out, wm[s].in} => socks[f] # "free"
      /\ wm[s].in # NoFd => socks[wm[s].in] # "free"
  BY HeldIsOpen
<1>3. CASE ConnectNoSocket(s)
  BY <1>1, <1>2, <1>3, FailsKeeps DEF ConnectNoSocket
<1>4. CASE ConnectNoOutput(s)
  <2> DEFINE f == NextFd(socks)
             t == [socks EXCEPT ![f] = "down"]
  <2>1. f \in Fds /\ socks[f] = "free"
    BY <1>4, FreeFdFacts DEF ConnectNoOutput
  <2>2. Opens(s) /\ Fails(s, f, wm[s].in, t)
    BY <1>4 DEF ConnectNoOutput
  <2> HIDE DEF f
  <2>3. t \in [Fds -> {"free", "up", "down"}]
    BY <1>1
  <2>4. \A x \in Fds : t[x] = IF x = f THEN "down" ELSE socks[x]
    BY <1>1
  <2> HIDE DEF t
  <2> QED
    BY <1>2, <2>1, <2>2, <2>3, <2>4, FailsKeeps
<1>5. CASE ConnectNoSecondSocket(s)
  BY <1>1, <1>2, <1>5, FailsKeeps DEF ConnectNoSecondSocket
<1>6. CASE ConnectNoInput(s)
  <2> DEFINE f == NextFd(socks)
             g == NextFd([socks EXCEPT ![f] = "up"])
             t == [socks EXCEPT ![g] = "down"]
  <2>1. g \in Fds /\ socks[g] = "free"
    BY <1>6, SecondFd DEF ConnectNoInput
  <2>2. Opens(s) /\ Fails(s, NoFd, g, t)
    BY <1>6 DEF ConnectNoInput
  <2> HIDE DEF g
  <2>3. t \in [Fds -> {"free", "up", "down"}]
    BY <1>1
  <2>4. \A x \in Fds : t[x] = IF x = g THEN "down" ELSE socks[x]
    BY <1>1
  <2>5. g # NoFd
    BY <2>1, LifecycleAssumption DEF NoFd
  <2> HIDE DEF t
  <2> QED
    BY <1>2, <2>1, <2>2, <2>3, <2>4, <2>5, FailsKeeps
<1> QED
  BY <1>3, <1>4, <1>5, <1>6

LEMMA ConnectDoneKeeps == ASSUME IInv, NEW s \in Slots, ConnectDone(s) PROVE IInv'
<1> DEFINE f == NextFd(socks)
           g == NextFd([socks EXCEPT ![f] = "up"])
           w == [wm[s] EXCEPT !.out = f, !.in = g, !.connected = TRUE, !.event = "OTHER"]
<1>1. f \in Fds /\ g \in Fds /\ f # g /\ socks[f] = "free" /\ socks[g] = "free"
  BY SecondFd DEF ConnectDone
<1>2. wm[s] \in Wiimote /\ wm \in [Slots -> Wiimote] /\ LifecycleTypeOK
  BY DEF IInv, LifecycleTypeOK
<1>3. /\ Advance(call.n + 1) /\ call.op = "connect" /\ alive' = alive
      /\ tidy' = (tidy /\ wm[s].out = NoFd /\ wm[s].in = NoFd)
      /\ \/ /\ wm' = [wm EXCEPT ![s] = w]
            /\ socks' = [socks EXCEPT ![f] = "up", ![g] = "up"]
         \/ \E lost \in DisconnectedInHandler(w) :
               /\ wm' = [wm EXCEPT ![s] = lost]
               /\ socks' = Closed([socks EXCEPT ![f] = "down", ![g] = "down"], LetGo(w, lost))
  BY DEF ConnectDone, Opens, Connecting
<1> HIDE DEF f, g
<1>4. w \in Wiimote /\ w.out = f /\ w.in = g
  BY <1>1, <1>2 DEF Wiimote, SlotEvents
<1> HIDE DEF w
<1>5. socks \in [Fds -> {"free", "up", "down"}]
  BY <1>2 DEF LifecycleTypeOK
<1>6. \A x \in Fds : x # NoFd
  BY LifecycleAssumption DEF NoFd
<1>7. call' \in Calls /\ CountsVisits' /\ tidy' \in BOOLEAN
  BY <1>3, VisitCounts
<1>8. \A x \in Fds : x \in {wm[s].out, wm[s].in} => socks[x] # "free"
  BY HeldIsOpen
<1>9. ASSUME NEW v \in Wiimote, wm' = [wm EXCEPT ![s] = v], v.out = f, v.in = g,
             socks' \in [Fds -> {"free", "up", "down"}],
             \A x \in Fds : socks'[x] = "free" <=> x \notin {f, g} /\ socks[x] = "free"
      PROVE  IInv'
  <2>1. LifecycleTypeOK'
    BY <1>2, <1>3, <1>7, <1>9 DEF LifecycleTypeOK
  <2>2. \A x \in Fds : x \in {wm[s].out, wm[s].in} \/ socks[x] # "free" => socks'[x] # "free"
    BY <1>1, <1>8, <1>9
  <2>3. tidy' => tidy /\ \A x \in Fds : socks'[x] # "free" =>
                     \/ x \in {v.out, v.in}
                     \/ socks[x] # "free" /\ x \notin {wm[s].out, wm[s].in}
    <3> SUFFICES ASSUME tidy', NEW x \in Fds, socks'[x] # "free", x \notin {v.out, v.in}
                 PROVE  socks[x] # "free" /\ x \notin {wm[s].out, wm[s].in}
      BY <1>3
    <3> QED
      BY <1>3, <1>6, <1>9
  <2>4. /\ v.in # NoFd /\ v.out # NoFd /\ v.in # v.out
        /\ socks'[v.in] # "free" /\ socks'[v.out] # "free"
        /\ socks[v.in] = "free" /\ socks[v.out] = "free"
    BY <1>1, <1>6, <1>9
  <2> QED
    BY <1>7, <1>9, <2>1, <2>2, <2>3, <2>4, SlotKeeps
<1>10. CASE wm' = [wm EXCEPT ![s] = w] /\ socks' = [socks EXCEPT ![f] = "up", ![g] = "up"]
  <2>1. /\ socks' \in [Fds -> {"free", "up", "down"}]
        /\ \A x \in Fds : socks'[x] = "free" <=> x \notin {f, g} /\ socks[x] = "free"
    BY <1>1, <1>5, <1>10
  <2> QED
    BY <1>4, <1>9, <1>10, <2>1
<1>11. ASSUME NEW v \in DisconnectedInHandler(w), wm' = [wm EXCEPT ![s] = v],
              socks' = Closed([socks EXCEPT ![f] = "down", ![g] = "down"], LetGo(w, v))
       PROVE  IInv'
  <2> DEFINE d == [socks EXCEPT ![f] = "down", ![g] = "down"]
  <2>1. v \in Wiimote /\ Keeps(w, v) /\ v.connected = FALSE
    BY <1>4, LostStays
  <2>2. /\ d \in [Fds -> {"free", "up", "down"}]
        /\ \A x \in Fds : d[x] = "free" <=> x \notin {f, g} /\ socks[x] = "free"
    BY <1>1, <1>5
  <2>3. socks' = Closed(d, LetGo(w, v))
    BY <1>11
  <2> HIDE DEF d
  <2>4. /\ socks' \in [Fds -> {"free", "up", "down"}]
        /\ \A x \in Fds : socks'[x] = "free" <=> x \in LetGo(w, v) \/ d[x] = "free"
    BY <2>2, <2>3, ClosedFacts
  <2>5. CASE v.out = w.out /\ v.in = w.in
    <3>1. LetGo(w, v) = {}
      BY <2>5 DEF LetGo
    <3>2. \A x \in Fds : socks'[x] = "free" <=> x \notin {f, g} /\ socks[x] = "free"
      BY <2>2, <2>4, <3>1
    <3> QED
      BY <1>4, <1>9, <1>11, <2>1, <2>4, <2>5, <3>2
  <2>6. CASE v.out = NoFd /\ v.in = NoFd
    <3>1. LetGo(w, v) = {f, g}
      BY <1>1, <1>4, <1>6, <2>6 DEF LetGo
    <3>2. \A x \in Fds : socks'[x] = "free" <=> socks[x] = "free"
      BY <1>1, <2>2, <2>4, <3>1
    <3>3. LifecycleTypeOK'
      BY <1>2, <1>3, <1>7, <1>11, <2>1, <2>4 DEF LifecycleTypeOK
    <3>4. tidy' => tidy /\ \A x \in Fds : socks'[x] # "free" =>
                       \/ x \in {v.out, v.in}
                       \/ socks[x] # "free" /\ x \notin {wm[s].out, wm[s].in}
      BY <1>3, <1>6, <3>2
    <3>5. /\ v.connected => v.in # NoFd
          /\ v.in # NoFd => socks'[v.in] # "free" /\ v.in # v.out
          /\ v.out # NoFd => socks'[v.out] # "free"
          /\ \A x \in {v.out, v.in} : x \in {NoFd, wm[s].out, wm[s].in} \/ socks[x] = "free"
          /\ \A x \in Fds : x \in {wm[s].out, wm[s].in} \/ socks[x] # "free" => socks'[x] # "free"
      BY <1>8, <2>1, <2>6, <3>2
    <3> QED
      BY <1>7, <1>11, <2>1, <3>3, <3>4, <3>5, SlotKeeps
  <2> QED
    BY <2>1, <2>5, <2>6 DEF Keeps
<1> QED
  BY <1>3, <1>10, <1>11

-----------------------------------------------------------------------------
(* Polling                                                                 *)

LEMMA VisitKeeps ==
  ASSUME IInv, NEW s \in Slots, \/ ConnectSkip(s) \/ PollNothing(s)
  PROVE  IInv'
<1>1. /\ wm' = wm /\ alive' = alive /\ socks' = socks /\ tidy' = tidy
      /\ call.op \in {"connect", "poll"} /\ Advance(call.n)
  BY DEF ConnectSkip, PollNothing, Connecting, Polling
<1>2. call' \in Calls /\ CountsVisits'
  BY <1>1, VisitCounts
<1> QED
  BY <1>1, <1>2, StandingKeeps

\* A visit that leaves its sockets to remote s, or closes them.
LEMMA OccursKeeps ==
  ASSUME IInv, NEW s \in Slots, NEW w \in Wiimote, call.op = "poll", Occurs(s, w),
         Keeps(wm[s], w)
  PROVE  IInv'
<1>1. /\ wm' = [wm EXCEPT ![s] = w] /\ alive' = alive /\ tidy' = tidy
      /\ socks' = Closed(socks, LetGo(wm[s], w))
      /\ \E n \in {call.n, call.n + 1} : Advance(n)
  <2>1. CASE w.event # "NONE"
    BY <2>1 DEF Occurs
  <2>2. CASE w.event = "NONE"
    <3>1. Advance(call.n + 0)
      BY <2>2 DEF Occurs
    <3>2. call.n + 0 = call.n
      <4>1. call.n \in 0 .. Remotes
        BY DEF IInv, LifecycleTypeOK, Calls
      <4> QED
        BY <4>1, LifecycleAssumption
    <3> QED
      BY <2>2, <3>1, <3>2 DEF Occurs
  <2> QED
    BY <2>1, <2>2
<1>2. call' \in Calls /\ CountsVisits'
  BY <1>1, VisitCounts
<1>3. tidy' \in BOOLEAN /\ (tidy' => tidy) /\ socks \in [Fds -> {"free", "up", "down"}]
  BY <1>1 DEF IInv, LifecycleTypeOK
<1>4. \A f \in Fds : socks[f] = "free" <=> socks[f] = "free"
  OBVIOUS
<1>5. wm' = [wm EXCEPT ![s] = w] /\ alive' = alive
  BY <1>1
<1>6. socks' = Closed(socks, LetGo(wm[s], w))
  BY <1>1
<1> QED
  BY <1>2, <1>3, <1>4, <1>5, <1>6, LetGoKeeps

LEMMA ReportsKeep ==
  ASSUME IInv, NEW s \in Slots,
         PollReport(s) \/ PollReportLoses(s) \/ PollClosed(s)
  PROVE  IInv'
<1>1. call.op = "poll" /\ wm[s] \in Wiimote
  BY DEF PollReport, PollReportLoses, PollClosed, Readable, Polling, IInv, LifecycleTypeOK
<1>2. CASE PollReport(s)
  <2>1. PICK e \in {"NONE", "OTHER"} : Occurs(s, [wm[s] EXCEPT !.event = e])
    BY <1>2 DEF PollReport
  <2> DEFINE w == [wm[s] EXCEPT !.event = e]
  <2>2. Occurs(s, w)
    BY <2>1
  <2>3. w \in Wiimote /\ Keeps(wm[s], w)
    BY <1>1 DEF Wiimote, SlotEvents, Keeps
  <2> HIDE DEF w
  <2> QED
    BY <1>1, <2>2, <2>3, OccursKeeps
<1>3. CASE PollReportLoses(s)
  <2>1. PICK lost \in DisconnectedInHandler(wm[s]) : Occurs(s, lost)
    BY <1>3 DEF PollReportLoses
  <2>2. lost \in Wiimote /\ Keeps(wm[s], lost)
    BY <1>1, LostStays
  <2> QED
    BY <1>1, <2>1, <2>2, OccursKeeps
<1>4. CASE PollClosed(s)
  <2> DEFINE w == Disconnected(wm[s])
  <2>1. Occurs(s, w)
    BY <1>4 DEF PollClosed
  <2>2. w \in Wiimote /\ Keeps(wm[s], w)
    BY <1>1, WiimotesStay DEF Keeps
  <2> HIDE DEF w
  <2> QED
    BY <1>1, <2>1, <2>2, OccursKeeps
<1> QED
  BY <1>2, <1>3, <1>4

\* A loss found on behalf of another remote.
LEMMA CallbackFacts ==
  ASSUME IInv, NEW s \in Slots, PollCallback(s)
  PROVE  /\ Polling(s) /\ wm[s].connected /\ Advance(call.n)
         /\ alive' = alive /\ socks' = socks /\ tidy' = tidy
         /\ \E o \in Slots \ {s} : \E w \in Wiimote :
               /\ wm' = [wm EXCEPT ![o] = w] /\ wm[o].connected /\ aside' = aside \cup {o}
               /\ w.out = wm[o].out /\ w.in = wm[o].in
               /\ w.connected = FALSE /\ w.event = "DISCONNECT"
<1>1. /\ Polling(s) /\ wm[s].connected /\ Advance(call.n)
      /\ alive' = alive /\ socks' = socks /\ tidy' = tidy
  BY DEF PollCallback, Readable
<1>2. PICK o \in Slots \ {s} : /\ wm[o].connected /\ aside' = aside \cup {o}
                              /\ wm' = [wm EXCEPT ![o] = Disconnected(wm[o])]
  BY DEF PollCallback
<1> DEFINE w == Disconnected(wm[o])
<1>3. wm[o] \in Wiimote /\ wm' = [wm EXCEPT ![o] = w]
  BY <1>2 DEF IInv, LifecycleTypeOK
<1>4. /\ w \in Wiimote /\ w.out = wm[o].out /\ w.in = wm[o].in
      /\ w.connected = FALSE /\ w.event = "DISCONNECT"
  BY <1>3, WiimotesStay
<1> HIDE DEF w
<1> QED
  BY <1>1, <1>2, <1>3, <1>4

LEMMA CallbackKeeps == ASSUME IInv, NEW s \in Slots, PollCallback(s) PROVE IInv'
<1>1. /\ call.op = "poll" /\ Advance(call.n)
      /\ alive' = alive /\ socks' = socks /\ tidy' = tidy
  BY CallbackFacts DEF Polling
<1>2. PICK o \in Slots \ {s}, w \in Wiimote :
         /\ wm' = [wm EXCEPT ![o] = w]
         /\ w.out = wm[o].out /\ w.in = wm[o].in
         /\ w.connected = FALSE /\ w.event = "DISCONNECT"
  BY CallbackFacts, Zenon
<1>3. call' \in Calls /\ CountsVisits'
  BY <1>1, VisitCounts
<1>4. /\ tidy' \in BOOLEAN /\ socks' \in [Fds -> {"free", "up", "down"}]
      /\ w.connected => wm[o].connected \/ wm[o].in # NoFd
      /\ \A f \in Fds : socks'[f] = "free" <=> socks[f] = "free"
      /\ tidy' => tidy
  BY <1>1, <1>2 DEF IInv, LifecycleTypeOK
<1> QED
  BY <1>1, <1>2, <1>3, <1>4, RewriteKeeps

\* wiiuse_os_disconnect() spares a remote that counts as connected, so the
\* sockets of one that lost its adapter stay open.
LEMMA UnexpectedFacts ==
  ASSUME IInv, NEW s \in Slots, PollUnexpected(s)
  PROVE  /\ Polling(s) /\ wm[s].connected /\ Advance(call.n + 1)
         /\ alive' = alive /\ socks' = socks /\ tidy' = tidy
         /\ \E w \in Wiimote :
               /\ wm' = [wm EXCEPT ![s] = w]
               /\ w.out = wm[s].out /\ w.in = wm[s].in
               /\ w.connected = FALSE /\ w.event = "UNEXPECTED_DISCONNECT"
<1>1. /\ Polling(s) /\ wm[s].connected /\ Advance(call.n + 1)
      /\ alive' = alive /\ tidy' = tidy
      /\ socks' = Closed(socks, ClosedByOsDisconnect(wm[s]))
      /\ wm' = [wm EXCEPT ![s] = [Disconnected(OsDisconnect(wm[s]))
                                   EXCEPT !.event = "UNEXPECTED_DISCONNECT"]]
  BY DEF PollUnexpected, Readable
<1>2. wm[s] \in Wiimote /\ socks \in [Fds -> {"free", "up", "down"}]
  BY DEF IInv, LifecycleTypeOK
<1>3. OsDisconnect(wm[s]) = wm[s] /\ ClosedByOsDisconnect(wm[s]) = {}
  BY <1>1 DEF OsDisconnect, ClosedByOsDisconnect
<1>4. socks' = socks
  BY <1>1, <1>2, <1>3 DEF Closed
<1> DEFINE w == [Disconnected(wm[s]) EXCEPT !.event = "UNEXPECTED_DISCONNECT"]
<1>5. wm' = [wm EXCEPT ![s] = w]
  BY <1>1, <1>3
<1>6. /\ w \in Wiimote /\ w.out = wm[s].out /\ w.in = wm[s].in
      /\ w.connected = FALSE /\ w.event = "UNEXPECTED_DISCONNECT"
  <2>1. /\ Disconnected(wm[s]) \in Wiimote
        /\ Disconnected(wm[s]).out = wm[s].out /\ Disconnected(wm[s]).in = wm[s].in
        /\ Disconnected(wm[s]).connected = FALSE
    BY <1>2, WiimotesStay
  <2> HIDE DEF Disconnected
  <2> QED
    BY <2>1 DEF Wiimote, SlotEvents
<1> HIDE DEF w
<1> QED
  BY <1>1, <1>4, <1>5, <1>6

LEMMA UnexpectedKeeps == ASSUME IInv, NEW s \in Slots, PollUnexpected(s) PROVE IInv'
<1>1. /\ call.op = "poll" /\ Advance(call.n + 1)
      /\ alive' = alive /\ socks' = socks /\ tidy' = tidy
  BY UnexpectedFacts DEF Polling
<1>2. PICK w \in Wiimote :
         /\ wm' = [wm EXCEPT ![s] = w]
         /\ w.out = wm[s].out /\ w.in = wm[s].in /\ w.connected = FALSE
  BY UnexpectedFacts
<1>3. call' \in Calls /\ CountsVisits'
  BY <1>1, VisitCounts
<1>4. /\ tidy' \in BOOLEAN /\ socks' \in [Fds -> {"free", "up", "down"}]
      /\ w.connected => wm[s].connected \/ wm[s].in # NoFd
      /\ \A f \in Fds : socks'[f] = "free" <=> socks[f] = "free"
      /\ tidy' => tidy
  BY <1>1, <1>2 DEF IInv, LifecycleTypeOK
<1> QED
  BY <1>1, <1>2, <1>3, <1>4, RewriteKeeps

LEMMA StepKeeps == ASSUME IInv, Gone, Next PROVE IInv'
<1>1. ASSUME NEW s \in Slots, ConnectVisit(s) PROVE IInv'
  BY <1>1, VisitKeeps, ConnectFailsKeep, ConnectDoneKeeps DEF ConnectVisit
<1>2. ASSUME NEW s \in Slots, PollVisit(s) PROVE IInv'
  BY <1>2, VisitKeeps, ReportsKeep, CallbackKeeps, UnexpectedKeeps DEF PollVisit
<1>3. ASSUME NEW s \in Slots, \/ BeginDisconnect(s) \/ Disconnect(s) \/ ApiDisconnected(s)
                              \/ CommandFails(s) \/ Resync(s) \/ LinkBreaks(s)
      PROVE  IInv'
  BY <1>3, BeginsKeep, DisconnectKeeps, LosesKeep, ResyncKeeps, LinkBreaksKeeps
<1>4. ASSUME NEW k \in 0 .. Remotes, Find(k) PROVE IInv'
  BY <1>4, FindKeeps
<1>5. CASE BeginConnect \/ BeginPoll \/ Cleanup \/ InitAgain
  BY <1>5, BeginsKeep, BeginPollKeeps, CleanupKeeps, InitAgainKeeps
<1> QED
  BY <1>1, <1>2, <1>3, <1>4, <1>5 DEF Next

LEMMA GoneStays == ASSUME IInv, Gone, Next PROVE Gone'
<1>1. CASE Cleanup
  BY <1>1 DEF Cleanup, Gone, NoCall, NewWiimote
<1>2. CASE InitAgain
  BY <1>2 DEF InitAgain, Gone
<1>3. ASSUME NEW s \in Slots, LinkBreaks(s) PROVE Gone'
  BY <1>3 DEF LinkBreaks, Gone
<1>4. ASSUME NEW s \in Slots, ConnectVisit(s) \/ PollVisit(s) \/ Disconnect(s)
      PROVE  Gone'
  <2>1. call.op # "none"
    BY <1>4 DEF ConnectVisit, PollVisit, ConnectSkip, ConnectNoSocket, ConnectNoOutput,
                ConnectNoSecondSocket, ConnectNoInput, ConnectDone, Opens, Connecting,
                PollNothing, PollReport, PollReportLoses, PollCallback, PollClosed,
                PollUnexpected, Readable, Polling, Disconnect
  <2>2. alive' = alive
    BY <1>4 DEF ConnectVisit, PollVisit, ConnectSkip, ConnectNoSocket, ConnectNoOutput,
                ConnectNoSecondSocket, ConnectNoInput, ConnectDone, Opens,
                PollNothing, PollReport, PollReportLoses, PollCallback, PollClosed,
                PollUnexpected, Occurs, Disconnect
  <2> QED
    BY <2>1, <2>2 DEF Gone
<1>5. ASSUME Idle, alive' = alive PROVE Gone'
  BY <1>5 DEF Idle, Gone
<1>6. ASSUME NEW s \in Slots,
             BeginDisconnect(s) \/ ApiDisconnected(s) \/ CommandFails(s) \/ Resync(s)
      PROVE  Gone'
  BY <1>5, <1>6 DEF BeginDisconnect, ApiDisconnected, CommandFails, Resync
<1>7. ASSUME NEW k \in 0 .. Remotes, Find(k) PROVE Gone'
  BY <1>5, <1>7 DEF Find
<1>8. CASE BeginConnect \/ BeginPoll
  BY <1>5, <1>8 DEF BeginConnect, BeginPoll
<1> QED
  BY <1>1, <1>2, <1>3, <1>4, <1>6, <1>7, <1>8 DEF Next

-----------------------------------------------------------------------------
(* What a poll counts                                                      *)

LEMMA EndedIsFinite ==
  /\ IsFiniteSet(Ends) /\ IsFiniteSet(Ends \ aside)
  /\ Cardinality(Ends) \in Nat /\ Cardinality(Ends \ aside) \in Nat
<1>1. IsFiniteSet(Slots)
  BY LifecycleAssumption, FS_Interval DEF Slots
<1>2. Ends \subseteq Slots /\ Ends \ aside \subseteq Ends
  BY DEF Ends
<1>3. IsFiniteSet(Ends)
  BY <1>1, <1>2, FS_Subset
<1>4. IsFiniteSet(Ends \ aside)
  BY <1>2, <1>3, FS_Subset
<1> QED
  BY <1>3, <1>4, FS_CardinalityType

\* Remote s alone changes.
LEMMA EndedAfter ==
  ASSUME IInv, NEW s \in Slots, NEW w \in Wiimote, wm' = [wm EXCEPT ![s] = w]
  PROVE  Ends' = IF w.event = "NONE" THEN Ends \ {s} ELSE Ends \cup {s}
<1>1. \A r \in Slots : wm'[r] = IF r = s THEN w ELSE wm[r]
  BY DEF IInv, LifecycleTypeOK
<1>2. CASE w.event = "NONE"
  BY <1>1, <1>2 DEF Ends
<1>3. CASE w.event # "NONE"
  BY <1>1, <1>3 DEF Ends
<1> QED
  BY <1>2, <1>3

\* The tally stays right when one more remote that need not be counted has
\* an event, and when one that had none is counted.
LEMMA TallyKeeps ==
  ASSUME NEW E, NEW D, IsFiniteSet(E), IsFiniteSet(E \ D),
         NEW n \in Cardinality(E \ D) .. Cardinality(E), NEW s
  PROVE  /\ n \in Cardinality((E \cup {s}) \ (D \cup {s})) .. Cardinality(E \cup {s})
         /\ s \notin E =>
               n + 1 \in Cardinality((E \cup {s}) \ D) .. Cardinality(E \cup {s})
<1>1. Cardinality(E) \in Nat /\ Cardinality(E \ D) \in Nat
  BY FS_CardinalityType
<1>2. Cardinality(E \cup {s}) = IF s \in E THEN Cardinality(E) ELSE Cardinality(E) + 1
  BY FS_AddElement
<1>3. Cardinality((E \cup {s}) \ (D \cup {s})) \in 0 .. Cardinality(E \ D)
  <2>1. (E \cup {s}) \ (D \cup {s}) \in SUBSET (E \ D)
    OBVIOUS
  <2> QED
    BY <1>1, <2>1, FS_Subset, FS_CardinalityType
<1>4. s \notin E => Cardinality((E \cup {s}) \ D) \in {Cardinality(E \ D), Cardinality(E \ D) + 1}
  <2> SUFFICES ASSUME s \notin E
               PROVE  Cardinality((E \cup {s}) \ D) \in {Cardinality(E \ D), Cardinality(E \ D) + 1}
    OBVIOUS
  <2>1. CASE s \in D
    <3>1. (E \cup {s}) \ D = E \ D
      BY <2>1
    <3> QED
      BY <3>1
  <2>2. CASE s \notin D
    <3>1. (E \cup {s}) \ D = (E \ D) \cup {s} /\ s \notin E \ D
      BY <2>2
    <3> QED
      BY <3>1, FS_AddElement
  <2> QED
    BY <2>1, <2>2
<1> QED
  BY <1>1, <1>2, <1>3, <1>4

\* Every visit of a poll keeps the tally, and the remotes behind it have no
\* event but the losses that callbacks found.
LEMMA VisitTallies ==
  ASSUME IInv, CountsEvents, NEW s \in Slots, PollVisit(s)
  PROVE  /\ Polling(s)
         /\ call'.n \in Cardinality(Ends' \ aside') .. Cardinality(Ends')
         /\ \A r \in Slots : r > s => Unvisited(wm'[r])
         /\ \E n \in {call.n, call.n + 1} : Advance(n)
         /\ wm[s].connected /\ ~wm'[s].connected =>
               wm'[s].event # "NONE" /\ call'.n = call.n + 1
<1>1. Polling(s)
  BY DEF PollVisit, PollNothing, PollReport, PollReportLoses, PollCallback, PollClosed,
         PollUnexpected, Readable
<1>2. /\ call.op = "poll" /\ call.at = s /\ call.n \in Nat /\ s \in Nat /\ Slots \subseteq Nat
      /\ wm \in [Slots -> Wiimote] /\ wm[s] \in Wiimote
  BY <1>1, LifecycleAssumption DEF Polling, IInv, LifecycleTypeOK, Calls, Slots
<1>3. /\ call.n \in Cardinality(Ends \ aside) .. Cardinality(Ends)
      /\ \A r \in Slots : r >= s => Unvisited(wm[r])
  BY <1>2 DEF CountsEvents, Tally
<1>4. ASSUME NEW n \in {call.n, call.n + 1}, Advance(n) PROVE call'.n = n
  BY <1>2, <1>4, AdvanceCounts DEF IInv
<1>5. \A r \in Slots : r > s => r >= s /\ r # s
  BY <1>2
<1>6. CASE PollNothing(s)
  <2>1. wm' = wm /\ Advance(call.n) /\ aside' = aside
    BY <1>6 DEF PollNothing
  <2>2. Ends' = Ends
    BY <2>1 DEF Ends
  <2>3. call'.n = call.n
    BY <1>4, <2>1
  <2> QED
    BY <1>1, <1>3, <1>5, <2>1, <2>2, <2>3
<1>7. ASSUME wm[s].connected, NEW w \in Wiimote, wm' = [wm EXCEPT ![s] = w],
             aside' = aside,
             Advance(call.n + (IF w.event # "NONE" THEN 1 ELSE 0)),
             w.connected \/ w.event # "NONE"
      PROVE  /\ call'.n \in Cardinality(Ends' \ aside') .. Cardinality(Ends')
             /\ \A r \in Slots : r > s => Unvisited(wm'[r])
             /\ \E n \in {call.n, call.n + 1} : Advance(n)
             /\ wm[s].connected /\ ~wm'[s].connected =>
                   wm'[s].event # "NONE" /\ call'.n = call.n + 1
  <2>1. wm'[s] = w /\ \A r \in Slots : r # s => wm'[r] = wm[r]
    BY <1>2, <1>7
  <2>2. \A r \in Slots : r > s => Unvisited(wm'[r])
    BY <1>3, <1>5, <2>1
  <2>3. s \notin Ends
    <3>1. s >= s
      BY <1>2
    <3>2. wm[s].event = "NONE"
      BY <1>3, <1>7, <3>1 DEF Unvisited
    <3> QED
      BY <3>2 DEF Ends
  <2>4. Ends' = IF w.event = "NONE" THEN Ends \ {s} ELSE Ends \cup {s}
    BY <1>7, EndedAfter
  <2>5. CASE w.event = "NONE"
    <3>1. Ends' = Ends /\ aside' = aside
      BY <1>7, <2>3, <2>4, <2>5
    <3>2. Advance(call.n)
      <4>1. Advance(call.n + 0) /\ call.n + 0 = call.n
        BY <1>2, <1>7, <2>5
      <4> QED
        BY <4>1
    <3>3. call'.n = call.n
      BY <1>4, <3>2
    <3> QED
      BY <1>3, <1>7, <2>1, <2>2, <2>5, <3>1, <3>2, <3>3
  <2>6. CASE w.event # "NONE"
    <3>1. Advance(call.n + 1)
      BY <1>7, <2>6
    <3>2. call'.n = call.n + 1
      BY <1>4, <3>1
    <3>3. Ends' = Ends \cup {s}
      BY <2>4, <2>6
    <3>4. call.n + 1 \in Cardinality(Ends' \ aside') .. Cardinality(Ends')
      BY <1>3, <1>7, <2>3, <3>3, EndedIsFinite, TallyKeeps
    <3> QED
      BY <2>1, <2>2, <2>6, <3>1, <3>2, <3>4
  <2> QED
    BY <2>5, <2>6
<1>8. CASE PollReport(s)
  <2>1. PICK e \in {"NONE", "OTHER"} : Occurs(s, [wm[s] EXCEPT !.event = e])
    BY <1>8 DEF PollReport
  <2> DEFINE w == [wm[s] EXCEPT !.event = e]
  <2>2. w \in Wiimote /\ w.connected = wm[s].connected
    BY <1>2 DEF Wiimote, SlotEvents
  <2>3. wm[s].connected /\ Occurs(s, w)
    BY <1>8, <2>1 DEF PollReport, Readable
  <2> HIDE DEF w
  <2>4. w.connected
    BY <2>2, <2>3
  <2> QED
    BY <1>1, <1>7, <2>2, <2>3, <2>4 DEF Occurs
<1>9. CASE PollReportLoses(s)
  <2>1. PICK lost \in DisconnectedInHandler(wm[s]) : Occurs(s, lost)
    BY <1>9 DEF PollReportLoses
  <2>2. lost \in Wiimote /\ lost.event \in {"DISCONNECT", "OTHER"}
    BY <1>2, LostStays
  <2>3. wm[s].connected
    BY <1>9 DEF PollReportLoses, Readable
  <2> QED
    BY <1>1, <1>7, <2>1, <2>2, <2>3 DEF Occurs
<1>10. CASE PollClosed(s)
  <2> DEFINE w == Disconnected(wm[s])
  <2>1. wm[s].connected /\ Occurs(s, w)
    BY <1>10 DEF PollClosed, Readable
  <2>2. w \in Wiimote /\ w.event = "DISCONNECT"
    BY <1>2, WiimotesStay
  <2> HIDE DEF w
  <2> QED
    BY <1>1, <1>7, <2>1, <2>2 DEF Occurs
<1>11. CASE PollUnexpected(s)
  <2>1. wm[s].connected /\ Advance(call.n + 1) /\ aside' = aside
    BY <1>11, UnexpectedFacts DEF PollUnexpected
  <2>2. PICK w \in Wiimote : wm' = [wm EXCEPT ![s] = w] /\ w.event = "UNEXPECTED_DISCONNECT"
    BY <1>11, UnexpectedFacts
  <2>3. Advance(call.n + (IF w.event # "NONE" THEN 1 ELSE 0))
    BY <2>1, <2>2
  <2> QED
    BY <1>1, <1>7, <2>1, <2>2, <2>3
<1>12. CASE PollCallback(s)
  <2>1. wm[s].connected /\ Advance(call.n)
    BY <1>12, CallbackFacts
  <2>2. PICK o \in Slots \ {s}, w \in Wiimote :
           /\ wm' = [wm EXCEPT ![o] = w] /\ aside' = aside \cup {o}
           /\ w.connected = FALSE /\ w.event = "DISCONNECT"
    BY <1>12, CallbackFacts, Zenon
  <2>3. wm'[s] = wm[s] /\ wm'[o] = w /\ \A r \in Slots : r # o => wm'[r] = wm[r]
    BY <1>2, <2>2
  <2>4. Unvisited(wm'[o])
    BY <2>2, <2>3 DEF Unvisited
  <2>5. \A r \in Slots : r > s => Unvisited(wm'[r])
    BY <1>3, <1>5, <2>3, <2>4
  <2>6. Ends' = Ends \cup {o} /\ aside' = aside \cup {o}
    <3>1. w.event = "DISCONNECT" /\ w.event # "NONE"
      BY <2>2
    <3> QED
      BY <2>2, <3>1, EndedAfter
  <2>7. call'.n = call.n
    BY <1>4, <2>1
  <2>8. call.n \in Cardinality(Ends' \ aside') .. Cardinality(Ends')
    BY <1>3, <2>6, EndedIsFinite, TallyKeeps
  <2> QED
    BY <1>1, <2>1, <2>3, <2>5, <2>7, <2>8
<1> QED
  BY <1>6, <1>8, <1>9, <1>10, <1>11, <1>12 DEF PollVisit

\* Only its visits move a poll on.
LEMMA PollSteps ==
  ASSUME Gone, call.op = "poll", Next
  PROVE  (\E s \in Slots : PollVisit(s)) \/ (wm' = wm /\ call' = call /\ aside' = aside)
<1>1. alive /\ ~Idle
  BY DEF Gone, Idle
<1>2. ASSUME NEW s \in Slots
      PROVE  /\ ~BeginDisconnect(s) /\ ~Disconnect(s) /\ ~ApiDisconnected(s)
             /\ ~CommandFails(s) /\ ~Resync(s) /\ ~ConnectVisit(s)
  BY <1>1 DEF BeginDisconnect, Disconnect, ApiDisconnected, CommandFails, Resync,
              ConnectVisit, ConnectSkip, ConnectNoSocket, ConnectNoOutput,
              ConnectNoSecondSocket, ConnectNoInput, ConnectDone, Opens, Connecting
<1>3. ASSUME NEW k \in 0 .. Remotes PROVE ~Find(k)
  BY <1>1 DEF Find
<1>4. ~BeginConnect /\ ~BeginPoll /\ ~Cleanup /\ ~InitAgain
  BY <1>1 DEF BeginConnect, BeginPoll, Cleanup, InitAgain
<1>5. ASSUME NEW s \in Slots, LinkBreaks(s) PROVE wm' = wm /\ call' = call /\ aside' = aside
  BY <1>5 DEF LinkBreaks
<1> QED
  BY <1>2, <1>3, <1>4, <1>5 DEF Next

LEMMA CountsEventsStays ==
  ASSUME IInv, Gone, CountsEvents, Next
  PROVE  CountsEvents'
<1>1. CASE call.op = "poll"
  <2>1. ASSUME NEW s \in Slots, PollVisit(s) PROVE CountsEvents'
    <3>1. /\ Polling(s)
          /\ call'.n \in Cardinality(Ends' \ aside') .. Cardinality(Ends')
          /\ \A r \in Slots : r > s => Unvisited(wm'[r])
      BY <2>1, VisitTallies
    <3>2. PICK n \in {call.n, call.n + 1} : Advance(n)
      BY <2>1, VisitTallies
    <3>3. call'.op = "poll" => call'.at = s + 1
      BY <1>1, <3>1, <3>2, AdvanceCounts DEF IInv, Polling
    <3>4. \A r \in Slots : r >= s + 1 => r > s
      BY LifecycleAssumption DEF Slots
    <3> QED
      BY <3>1, <3>3, <3>4 DEF CountsEvents, Tally
  <2>2. CASE wm' = wm /\ call' = call /\ aside' = aside
    BY <2>2 DEF CountsEvents, Tally, Ends
  <2> QED
    BY <1>1, <2>1, <2>2, PollSteps
<1>2. CASE BeginPoll
  <2>1. \A s \in Slots : wm'[s].event = "NONE"
    BY <1>2, WiimotesStay DEF BeginPoll, IInv, LifecycleTypeOK
  <2>2. Ends' = {} /\ Ends' \ aside' = {}
    BY <2>1 DEF Ends
  <2>3. call'.n = 0
    <3>1. CASE call' = NoCall
      BY <3>1 DEF NoCall
    <3>2. ASSUME NEW ready, call' = [NoCall EXCEPT !.op = "poll", !.ready = ready]
          PROVE  call'.n = 0
      BY <3>2 DEF NoCall
    <3> QED
      BY <1>2, <3>1, <3>2 DEF BeginPoll
  <2>4. call'.n \in Cardinality(Ends' \ aside') .. Cardinality(Ends')
    BY <2>2, <2>3, FS_EmptySet
  <2>5. \A s \in Slots : Unvisited(wm'[s])
    BY <2>1 DEF Unvisited
  <2> QED
    BY <2>4, <2>5 DEF CountsEvents, Tally
<1>3. CASE call.op # "poll" /\ ~BeginPoll
  <2> SUFFICES call'.op # "poll"
    BY DEF CountsEvents
  <2>1. ASSUME NEW s \in Slots, ConnectVisit(s) PROVE call'.op # "poll"
    <3>1. PICK n \in {call.n, call.n + 1} : Advance(n)
      BY <2>1 DEF ConnectVisit, ConnectSkip, ConnectNoSocket, ConnectNoOutput,
                  ConnectNoSecondSocket, ConnectNoInput, ConnectDone, Fails
    <3>2. call.op = "connect"
      BY <2>1 DEF ConnectVisit, ConnectSkip, ConnectNoSocket, ConnectNoOutput,
                  ConnectNoSecondSocket, ConnectNoInput, ConnectDone, Opens, Connecting
    <3> QED
      BY <3>1, <3>2, AdvanceCounts DEF IInv
  <2>2. ASSUME NEW s \in Slots PROVE ~PollVisit(s)
    BY <1>3, VisitTallies DEF Polling
  <2>3. ASSUME NEW s \in Slots, \/ BeginDisconnect(s) \/ Disconnect(s) \/ ApiDisconnected(s)
                                \/ CommandFails(s) \/ Resync(s) \/ LinkBreaks(s)
        PROVE  call'.op # "poll"
    <3>1. CASE BeginDisconnect(s)
      BY <3>1 DEF BeginDisconnect, NoCall
    <3>2. CASE Disconnect(s)
      BY <3>2 DEF Disconnect, NoCall
    <3>3. CASE ApiDisconnected(s) \/ CommandFails(s) \/ Resync(s) \/ LinkBreaks(s)
      BY <1>3, <3>3 DEF ApiDisconnected, CommandFails, Resync, LinkBreaks
    <3> QED
      BY <2>3, <3>1, <3>2, <3>3
  <2>4. ASSUME NEW k \in 0 .. Remotes, Find(k) PROVE call'.op # "poll"
    BY <1>3, <2>4 DEF Find
  <2>5. ASSUME BeginConnect \/ Cleanup \/ InitAgain PROVE call'.op # "poll"
    BY <1>3, <2>5 DEF BeginConnect, Cleanup, InitAgain, NoCall
  <2> QED
    BY <1>3, <2>1, <2>2, <2>3, <2>4, <2>5 DEF Next
<1> QED
  BY <1>1, <1>2, <1>3

-----------------------------------------------------------------------------
(* Theorems                                                                *)

\* The invariant behind the others, for any number of remotes and sockets:
\* who holds which socket, what a poll has counted so far, and that nothing
\* is held once wiiuse_cleanup() has run.
THEOREM LifecycleInvariance == Spec => [](IInv /\ Gone /\ CountsEvents)
<1>1. Init => IInv /\ Gone /\ CountsEvents
  BY InitOK DEF Init, Gone
<1>2. IInv /\ Gone /\ CountsEvents /\ [Next]_vars => (IInv /\ Gone /\ CountsEvents)'
  <2>1. ASSUME IInv, Gone, CountsEvents, Next PROVE (IInv /\ Gone /\ CountsEvents)'
    BY <2>1, StepKeeps, GoneStays, CountsEventsStays
  <2>2. ASSUME IInv, Gone, CountsEvents, UNCHANGED vars
        PROVE  (IInv /\ Gone /\ CountsEvents)'
    <3>1. wm' = wm /\ alive' = alive /\ socks' = socks /\ call' = call /\ tidy' = tidy
          /\ aside' = aside
      BY <2>2 DEF vars
    <3>2. LifecycleTypeOK' /\ CountsVisits'
      BY <2>2, <3>1 DEF IInv, LifecycleTypeOK, CountsVisits
    <3>3. IInv'
      BY <2>2, <3>1, <3>2, StayingKeeps DEF SocketsStay
    <3>4. Gone' /\ CountsEvents'
      BY <2>2, <3>1 DEF Gone, CountsEvents, Tally, Ends
    <3> QED
      BY <3>3, <3>4
  <2> QED
    BY <2>1, <2>2
<1> QED
  BY <1>1, <1>2, PTL DEF Spec

LEMMA OwnedFields == ASSUME IInv PROVE SocketsAreOwned
<1>1. ASSUME NEW p \in Fields, Held(p) # NoFd
      PROVE  /\ socks[Held(p)] # "free"
             /\ \A q \in Fields : Held(q) = Held(p) => q = p
  <2>1. PICK r \in Slots : \/ p = <<r, "out">> /\ Held(p) = wm[r].out
                           \/ p = <<r, "in">> /\ Held(p) = wm[r].in
    BY DEF Fields, Held
  <2>2. socks[Held(p)] # "free" /\ (wm[r].in # NoFd => wm[r].in # wm[r].out)
    BY <1>1, <2>1 DEF IInv, Owned
  <2>3. ASSUME NEW q \in Fields, Held(q) = Held(p) PROVE q = p
    <3>1. PICK s \in Slots : \/ q = <<s, "out">> /\ Held(q) = wm[s].out
                             \/ q = <<s, "in">> /\ Held(q) = wm[s].in
      BY DEF Fields, Held
    <3>2. r = s
      <4> SUFFICES ASSUME r # s PROVE FALSE
        OBVIOUS
      <4>1. {wm[r].out, wm[r].in} \cap {wm[s].out, wm[s].in} \subseteq {NoFd}
        BY DEF IInv, Owned
      <4>2. Held(p) \in {wm[r].out, wm[r].in} /\ Held(p) \in {wm[s].out, wm[s].in}
        BY <2>1, <2>3, <3>1
      <4> QED
        BY <1>1, <4>1, <4>2
    <3> QED
      BY <1>1, <2>1, <2>2, <2>3, <3>1, <3>2
  <2> QED
    BY <2>2, <2>3
<1>2. \A s \in Slots : wm[s].connected => wm[s].in # NoFd
  BY DEF IInv, Owned
<1> QED
  BY <1>1, <1>2 DEF SocketsAreOwned

\* SocketsAreOwned, for any number of remotes and any socket numbers:
\* whatever wiiuse_os_connect_single() fails at, and whatever is closed by
\* wiiuse_os_disconnect() or wiiuse_cleanup(), each number in the array is an
\* open socket of one field only.
THEOREM SocketsAlwaysOwned == Spec => []SocketsAreOwned
<1>1. IInv => SocketsAreOwned
  BY OwnedFields
<1> QED
  BY <1>1, LifecycleInvariance, PTL

\* TidyDoesNotLeak: an application that disconnects lost remotes first has
\* every open socket in the array.
THEOREM TidyNeverLeaks == Spec => []TidyDoesNotLeak
<1>1. IInv => TidyDoesNotLeak
  <2> SUFFICES ASSUME IInv, tidy, NEW f \in Fds, socks[f] # "free"
               PROVE  \E p \in Fields : Held(p) = f
    BY DEF TidyDoesNotLeak
  <2>1. PICK s \in Slots : f \in {wm[s].out, wm[s].in}
    BY DEF IInv, AllHeld
  <2>2. <<s, "out">> \in Fields /\ <<s, "in">> \in Fields
    BY DEF Fields
  <2>3. Held(<<s, "out">>) = wm[s].out /\ Held(<<s, "in">>) = wm[s].in
    BY DEF Held
  <2> QED
    BY <2>1, <2>2, <2>3
<1> QED
  BY <1>1, LifecycleInvariance, PTL

\* PollReportsLoss: wiiuse_poll() leaves an event on a remote it finds lost,
\* and counts it.
THEOREM PollAlwaysReportsLoss == Spec => PollReportsLoss
<1> DEFINE Reports == \A s \in Slots :
             Polling(s) /\ wm[s].connected /\ ~wm'[s].connected =>
                 wm'[s].event # "NONE" /\ call'.n = call.n + 1
<1>1. IInv /\ Gone /\ CountsEvents /\ [Next]_vars => [Reports]_vars
  <2> SUFFICES ASSUME IInv, Gone, CountsEvents, Next, NEW s \in Slots,
                      Polling(s), wm[s].connected, ~wm'[s].connected
               PROVE  wm'[s].event # "NONE" /\ call'.n = call.n + 1
    OBVIOUS
  <2>1. PICK r \in Slots : PollVisit(r)
    BY PollSteps DEF Polling
  <2>2. r = s
    BY <2>1, VisitTallies DEF Polling
  <2> QED
    BY <2>1, <2>2, VisitTallies
<1>2. [][Reports]_vars => PollReportsLoss
  BY DEF PollReportsLoss, Reports
<1> HIDE DEF Reports
<1> QED
  BY <1>1, <1>2, LifecycleInvariance, PTL DEF Spec

\* PollCountsEvents: the number wiiuse_poll() returns is at most that of the
\* remotes with an event, and leaves out at most those that the callback of
\* another one has found lost in the same poll.
THEOREM PollAlwaysCountsEvents == Spec => PollCountsEvents
<1> DEFINE Counts == call.op = "poll" /\ call'.op = "none" =>
             call'.n \in Cardinality(Ends' \ aside') .. Cardinality(Ends')
<1>1. IInv /\ Gone /\ CountsEvents /\ [Next]_vars => [Counts]_vars
  <2> SUFFICES ASSUME IInv, Gone, CountsEvents, Next, call.op = "poll", call'.op = "none"
               PROVE  call'.n \in Cardinality(Ends' \ aside') .. Cardinality(Ends')
    OBVIOUS
  <2>1. PICK r \in Slots : PollVisit(r)
    BY PollSteps
  <2> QED
    BY <2>1, VisitTallies
<1>2. [][Counts]_vars => PollCountsEvents
  BY DEF PollCountsEvents, Counts
<1> HIDE DEF Counts
<1> QED
  BY <1>1, <1>2, LifecycleInvariance, PTL DEF Spec
=============================================================================
