-------------------------- MODULE ActionAcceptance --------------------------
(***************************************************************************)
(* What the action services promise about each suspension, with no         *)
(* request, reconciler or failure in sight: an open suspension is resolved *)
(* by one action or it expires, and never both; the winning action's       *)
(* command is then recorded, announced on the event stream at most once    *)
(* and handed to the host; the handoff is closed only after the host took  *)
(* the recorded command.  TaskAction implements this specification.        *)
(***************************************************************************)
EXTENDS Integers

CONSTANTS Suspensions,  \* the suspension identifiers of one task
          ActionIds,    \* the client action identifiers
          NoAction      \* no action has won

VARIABLES phase,      \* where each suspension is in its life
          chosen,     \* the action that resolved it
          recorded,   \* whether the chosen action's receipt is durable
          announced,  \* TASK_ACTION_ACCEPTED events published for it
          handed      \* the actions the host was resumed with

aVars == <<phase, chosen, recorded, announced, handed>>

Init ==
    /\ phase = [s \in Suspensions |-> "absent"]
    /\ chosen = [s \in Suspensions |-> NoAction]
    /\ recorded = [s \in Suspensions |-> FALSE]
    /\ announced = [s \in Suspensions |-> 0]
    /\ handed = [s \in Suspensions |-> {}]

Suspend(s) ==
    /\ phase[s] = "absent"
    /\ phase' = [phase EXCEPT ![s] = "open"]
    /\ UNCHANGED <<chosen, recorded, announced, handed>>

Resolve(s, a) ==
    /\ phase[s] = "open"
    /\ phase' = [phase EXCEPT ![s] = "pending"]
    /\ chosen' = [chosen EXCEPT ![s] = a]
    /\ UNCHANGED <<recorded, announced, handed>>

Record(s) ==
    /\ phase[s] = "pending"
    /\ ~recorded[s]
    /\ recorded' = [recorded EXCEPT ![s] = TRUE]
    /\ UNCHANGED <<phase, chosen, announced, handed>>

Announce(s) ==
    /\ recorded[s]
    /\ announced[s] = 0
    /\ announced' = [announced EXCEPT ![s] = 1]
    /\ UNCHANGED <<phase, chosen, recorded, handed>>

HandOver(s) ==
    /\ recorded[s]
    /\ handed' = [handed EXCEPT ![s] = @ \cup {chosen[s]}]
    /\ UNCHANGED <<phase, chosen, recorded, announced>>

Dispatch(s) ==
    /\ phase[s] = "pending"
    /\ chosen[s] \in handed[s]
    /\ phase' = [phase EXCEPT ![s] = "dispatched"]
    /\ UNCHANGED <<chosen, recorded, announced, handed>>

\* One pass of the retention service expires every suspension that is due.
Expire(S) ==
    /\ \A s \in S : phase[s] = "open"
    /\ phase' = [s \in Suspensions |-> IF s \in S THEN "expired" ELSE phase[s]]
    /\ UNCHANGED <<chosen, recorded, announced, handed>>

Next ==
    \/ \E s \in Suspensions :
          \/ Suspend(s)
          \/ \E a \in ActionIds : Resolve(s, a)
          \/ Record(s)
          \/ Announce(s)
          \/ HandOver(s)
          \/ Dispatch(s)
    \/ \E S \in SUBSET Suspensions : Expire(S)

Spec == Init /\ [][Next]_aVars
=============================================================================
