----------------------------- MODULE MessageFeed -----------------------------
(***************************************************************************)
(* What a websocket server promises its readers: a feed of messages from   *)
(* several sources.  A reader may miss messages, but gets none twice, none *)
(* that was not published, and those of one source in the order in which   *)
(* they were published.                                                    *)
(***************************************************************************)
EXTENDS Integers, Sequences

CONSTANTS Readers, Sources

VARIABLES
  published,   \* the messages of each source, numbered from 1
  inbox        \* the messages each reader got from each source, by their number

Init ==
  /\ published = [s \in Sources |-> 0]
  /\ inbox = [r \in Readers |-> [s \in Sources |-> <<>>]]

Publish(s) ==
  /\ published' = [published EXCEPT ![s] = @ + 1]
  /\ UNCHANGED inbox

Deliver(r, s, n) ==
  /\ \A i \in DOMAIN inbox[r][s] : inbox[r][s][i] < n
  /\ inbox' = [inbox EXCEPT ![r][s] = Append(@, n)]
  /\ UNCHANGED published

Next ==
  \E s \in Sources :
    \/ Publish(s)
    \/ \E r \in Readers, n \in 1..published[s] : Deliver(r, s, n)

Spec == Init /\ [][Next]_<<published, inbox>>
=============================================================================
