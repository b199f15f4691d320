----------------------------- MODULE ReadService -----------------------------
(***************************************************************************)
(* What the library promises about asynchronous reads of a remote's        *)
(* memory, without the queue of requests and the packets that keep the     *)
(* promise: requests are answered in the order they were issued, each at   *)
(* most once, and losing the connection drops every one that waits.        *)
(***************************************************************************)
EXTENDS Naturals, Sequences

CONSTANT Outcomes    \* how a read may end

VARIABLES
    up,       \* the remote is connected
    pending,  \* numbers of the reads that wait for an answer, oldest first
    issued,   \* how many reads have been issued so far
    log       \* the answered reads with their outcomes, in order

vars == <<up, pending, issued, log>>

Init ==
    /\ up = FALSE
    /\ pending = <<>>
    /\ issued = 0
    /\ log = <<>>

Answer(o) == log' = Append(log, [id |-> Head(pending), outcome |-> o])

Connect ==
    /\ ~up
    /\ up' = TRUE
    /\ UNCHANGED <<pending, issued, log>>

Issue ==
    /\ up
    /\ issued' = issued + 1
    /\ pending' = Append(pending, issued')
    /\ UNCHANGED <<up, log>>

\* The answer may make its callback issue one more read.
Finish ==
    /\ up
    /\ pending # <<>>
    /\ \E o \in Outcomes : Answer(o)
    /\ \/ /\ pending' = Tail(pending)
          /\ UNCHANGED issued
       \/ /\ issued' = issued + 1
          /\ pending' = Append(Tail(pending), issued')
    /\ UNCHANGED up

\* The connection goes away: in the middle of issuing a read, while
\* answering one, or for no reason the caller can see.
Lose ==
    /\ up
    /\ up' = FALSE
    /\ pending' = <<>>
    /\ issued' \in {issued, issued + 1}
    /\ \/ UNCHANGED log
       \/ pending # <<>> /\ \E o \in Outcomes : Answer(o)

Next == Connect \/ Issue \/ Finish \/ Lose

Spec == Init /\ [][Next]_vars
=============================================================================
