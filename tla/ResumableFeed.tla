--------------------------- MODULE ResumableFeed ----------------------------
(***************************************************************************)
(* What the event store and its endpoints promise the observers of a task: *)
(* events are published one after the other, the oldest of them may be     *)
(* dropped, and each observer gets them in order, none twice, with nothing *)
(* left out but what was dropped.                                          *)
(***************************************************************************)
EXTENDS Integers, FiniteSetsExt

CONSTANTS Clients, MaxEvents

VARIABLES
    written,    \* events published so far, numbered from 1
    trimmed,    \* how many of the oldest have been dropped
    got         \* the events each observer has got

vars == <<written, trimmed, got>>

Init ==
    /\ written = 0
    /\ trimmed = 0
    /\ got = [c \in Clients |-> {}]

Publish ==
    /\ written < MaxEvents
    /\ written' = written + 1
    /\ trimmed' \in trimmed .. written
    /\ UNCHANGED got

Drop ==
    /\ trimmed' \in trimmed + 1 .. written
    /\ UNCHANGED <<written, got>>

Last(c) == Max(got[c] \cup {0})

(* An observer gets a run of events: what it skips was dropped.            *)
Deliver(c) ==
    /\ \E first, n \in Last(c) + 1 .. written :
         /\ first = Last(c) + 1 \/ first <= trimmed + 1
         /\ first <= n
         /\ got' = [got EXCEPT ![c] = @ \cup (first .. n)]
    /\ UNCHANGED <<written, trimmed>>

Next == Publish \/ Drop \/ \E c \in Clients : Deliver(c)

Spec == Init /\ [][Next]_vars

=============================================================================
