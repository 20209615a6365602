----------------------------- MODULE TaskAction -----------------------------
(***************************************************************************)
(* Durable action acceptance on one task: TaskActionService.submit_action  *)
(* run by concurrent requests, TaskResumeReconciliationService run by      *)
(* concurrent reconcilers, TaskRetentionService, and the suspension and    *)
(* receipt stores they share.  Each handler is cut at its awaits: a step   *)
(* is one store or host call together with the code up to the next one.    *)
(* A request or a reconciler may die between any two steps (an exception   *)
(* out of a call, a cancelled request, a crashed process).                 *)
(***************************************************************************)
EXTENDS Integers, FiniteSets

CONSTANTS
    Requests,         \* executions of submit_action
    Reconcilers,      \* processes that run reconcile_pending_resumes
    Suspensions,      \* suspension identifiers of the task
    ActionIds,        \* client action identifiers
    Subjects, Owner,  \* callers, and the one the task belongs to
    Contents,         \* action type, payload and metadata of a command
    Disallowed,       \* contents whose type no suspension allows
    A2ui,             \* contents of type a2ui_action
    NoMetadata,       \* contents whose metadata is empty
    Commands,         \* the commands clients may submit
    HasPolicy,        \* an action validation policy is injected
    HasHostResume,    \* requests are given a host's resume_task
    Hosted,           \* reconcilers that are given one, each by its own wiring
    Broken,           \* suspensions whose resume hook always raises
    MaxFaults,        \* bound on exceptions and crashes
    NoAction, NoReceipt, NoCommand, NoSuspension

ConstantsAssumption ==
    /\ Owner \in Subjects
    /\ Disallowed \subseteq Contents
    /\ A2ui \subseteq Contents
    /\ NoMetadata \subseteq Contents
    /\ Commands \subseteq [subject : Subjects, suspend : Suspensions,
                           action : ActionIds, content : Contents]
    /\ HasPolicy \in BOOLEAN
    /\ HasHostResume \in BOOLEAN
    /\ Hosted \subseteq Reconcilers
    /\ Broken \subseteq Suspensions
    /\ MaxFaults \in Nat
    /\ NoAction \notin ActionIds
    /\ NoReceipt \notin Commands
    /\ NoCommand \notin Commands
    /\ NoSuspension \notin Suspensions

ASSUME ConstantsAssumption

VARIABLES
    \* SuspensionStore
    status,    \* [Suspensions -> SuspensionStatus]
    winner,    \* successful_action_id
    handoff,   \* resume_handoff_status
    due,       \* suspensions whose expires_at has passed
    \* ActionReceiptStore: a receipt keeps every field of its command
    receipts,
    \* EventStore: TASK_ACTION_ACCEPTED events appended per suspension
    acks,
    \* the host: the commands resume_task took, per suspension
    resumed,
    \* requests
    pc, cmd, seen, answer,
    \* reconcilers
    rpc, todo, item, held,
    faults

storeVars == <<status, winner, handoff, due>>
requestVars == <<pc, cmd, seen, answer>>
reconcilerVars == <<rpc, todo, item, held>>
vars == <<status, winner, handoff, due, receipts, acks, resumed,
          pc, cmd, seen, answer, rpc, todo, item, held, faults>>

SuspensionStatus == {"ABSENT", "OPEN", "RESOLVED", "EXPIRED"}
HandoffStatus == {"NONE", "PENDING", "DISPATCHED"}
RequestPc == {"idle", "lookup", "checkReceipt", "accept", "lostReread",
              "lostReceipt", "save", "publish", "resume", "mark", "done"}
Answers == {"none", "ACCEPTED", "DEDUPLICATED", "REJECTED_EXPIRED",
            "REJECTED_ALREADY_RESOLVED", "NotFound", "IdempotencyConflict",
            "ReceiptNotYetAvailable", "InvalidRequest", "Error"}
ReconcilerPc == {"idle", "next", "resume", "mark"}

Snapshots == [status : SuspensionStatus, winner : ActionIds \cup {NoAction}]

TypeOK ==
    /\ status \in [Suspensions -> SuspensionStatus]
    /\ winner \in [Suspensions -> ActionIds \cup {NoAction}]
    /\ handoff \in [Suspensions -> HandoffStatus]
    /\ due \subseteq Suspensions
    /\ receipts \in [ActionIds -> Commands \cup {NoReceipt}]
    /\ acks \in [Suspensions -> Nat]
    /\ resumed \in [Suspensions -> SUBSET Commands]
    /\ pc \in [Requests -> RequestPc]
    /\ cmd \in [Requests -> Commands \cup {NoCommand}]
    /\ seen \in [Requests -> Snapshots]
    /\ answer \in [Requests -> Answers]
    /\ rpc \in [Reconcilers -> ReconcilerPc]
    /\ todo \in [Reconcilers -> SUBSET Suspensions]
    /\ item \in [Reconcilers -> Suspensions \cup {NoSuspension}]
    /\ held \in [Reconcilers -> Commands \cup {NoReceipt}]
    /\ faults \in 0..MaxFaults

Blank == [status |-> "ABSENT", winner |-> NoAction]

Init ==
    /\ status = [s \in Suspensions |-> "ABSENT"]
    /\ winner = [s \in Suspensions |-> NoAction]
    /\ handoff = [s \in Suspensions |-> "NONE"]
    /\ due = {}
    /\ receipts = [a \in ActionIds |-> NoReceipt]
    /\ acks = [s \in Suspensions |-> 0]
    /\ resumed = [s \in Suspensions |-> {}]
    /\ pc = [r \in Requests |-> "idle"]
    /\ cmd = [r \in Requests |-> NoCommand]
    /\ seen = [r \in Requests |-> Blank]
    /\ answer = [r \in Requests |-> "none"]
    /\ rpc = [k \in Reconcilers |-> "idle"]
    /\ todo = [k \in Reconcilers |-> {}]
    /\ item = [k \in Reconcilers |-> NoSuspension]
    /\ held = [k \in Reconcilers |-> NoReceipt]
    /\ faults = 0

-----------------------------------------------------------------------------
(* The executor suspends the task; time passes; retention expires.         *)

OpenSuspension(s) ==
    /\ status[s] = "ABSENT"
    /\ status' = [status EXCEPT ![s] = "OPEN"]
    /\ UNCHANGED <<winner, handoff, due, receipts, acks, resumed,
                   requestVars, reconcilerVars, faults>>

PassDeadline(s) ==
    /\ status[s] = "OPEN"
    /\ s \notin due
    /\ due' = due \cup {s}
    /\ UNCHANGED <<status, winner, handoff, receipts, acks, resumed,
                   requestVars, reconcilerVars, faults>>

\* Receipts saved by submit_action carry no expires_at, so the first call of
\* a retention pass deletes none of them; the second expires what is due.
Expirable == {s \in due : status[s] = "OPEN"}

PruneExpiredState ==
    /\ Expirable # {}
    /\ status' = [s \in Suspensions |->
                    IF s \in Expirable THEN "EXPIRED" ELSE status[s]]
    /\ UNCHANGED <<winner, handoff, due, receipts, acks, resumed,
                   requestVars, reconcilerVars, faults>>

-----------------------------------------------------------------------------
(* submit_action                                                           *)

Reply(r, a) ==
    /\ pc' = [pc EXCEPT ![r] = "done"]
    /\ answer' = [answer EXCEPT ![r] = a]

Goto(r, label) ==
    /\ pc' = [pc EXCEPT ![r] = label]
    /\ UNCHANGED answer

SameActionReceipt(receipt, c) ==
    /\ receipt.suspend = c.suspend
    /\ receipt.content = c.content

\* The registry lookup and the ownership check.
Submit(r, c) ==
    /\ pc[r] = "idle"
    /\ cmd' = [cmd EXCEPT ![r] = c]
    /\ IF c.subject = Owner THEN Goto(r, "lookup") ELSE Reply(r, "NotFound")
    /\ UNCHANGED <<storeVars, receipts, acks, resumed, seen,
                   reconcilerVars, faults>>

\* An a2ui_action must carry the metadata it was rendered from.
WithMetadata(c) == ~(c.content \in A2ui /\ c.content \in NoMetadata)

\* The suspension snapshot that the checks before the CAS rely on.
LookupSuspension(r) ==
    LET c == cmd[r] IN
    /\ pc[r] = "lookup"
    /\ seen' = [seen EXCEPT ![r] = [status |-> status[c.suspend],
                                    winner |-> winner[c.suspend]]]
    /\ \/ /\ status[c.suspend] = "ABSENT"
          /\ Reply(r, "NotFound")
       \/ /\ status[c.suspend] # "ABSENT"
          /\ c.content \in Disallowed
          /\ Reply(r, "IdempotencyConflict")
       \/ /\ status[c.suspend] # "ABSENT"
          /\ c.content \notin Disallowed
          /\ IF WithMetadata(c) THEN Goto(r, "checkReceipt")
                               ELSE Reply(r, "InvalidRequest")
    /\ UNCHANGED <<storeVars, receipts, acks, resumed, cmd,
                   reconcilerVars, faults>>

\* Faulty variant: the no-op resume hook is taken for A2UI too.
ResumableAlways(c) == TRUE

\* The no-op resume hook is not valid for A2UI.
Resumable(c) == c.content \in A2ui => HasHostResume

\* Faulty variant: a receipt is matched by its identifier alone.
ReceiptVerdictByIdentifier(receipt, c, absent) ==
    IF receipt = NoReceipt THEN absent ELSE "DEDUPLICATED"

\* What a stored receipt, or the absence of one, makes of command c.
ReceiptVerdict(receipt, c, absent) ==
    IF receipt = NoReceipt THEN absent
    ELSE IF SameActionReceipt(receipt, c) THEN "DEDUPLICATED"
    ELSE "IdempotencyConflict"

\* The answer to c once neither a receipt nor an open suspension is found.
ClosedVerdict(snapshot, c, own) ==
    IF snapshot.status = "EXPIRED" THEN "REJECTED_EXPIRED"
    ELSE IF snapshot.winner = c.action THEN own
    ELSE "REJECTED_ALREADY_RESOLVED"

\* The validation policy and the guard on the host's resume hook.
ValidateAction(r) ==
    LET c == cmd[r] IN
    \/ /\ c.content \in A2ui /\ ~HasPolicy
       /\ Reply(r, "InvalidRequest")
    \/ /\ HasPolicy                            \* the policy rejects
       /\ Reply(r, "InvalidRequest")
    \/ /\ c.content \in A2ui => HasPolicy
       /\ ~Resumable(c)
       /\ Reply(r, "Error")
    \/ /\ c.content \in A2ui => HasPolicy
       /\ Resumable(c)
       /\ Goto(r, "accept")

CheckReceipt(r) ==
    LET c == cmd[r]
        receipt == receipts[c.action] IN
    /\ pc[r] = "checkReceipt"
    /\ \/ /\ receipt # NoReceipt
          /\ Reply(r, ReceiptVerdict(receipt, c, "none"))
       \/ /\ receipt = NoReceipt
          /\ seen[r].status # "OPEN"
          /\ Reply(r, ClosedVerdict(seen[r], c, "ReceiptNotYetAvailable"))
       \/ /\ receipt = NoReceipt
          /\ seen[r].status = "OPEN"
          /\ ValidateAction(r)
    /\ UNCHANGED <<storeVars, receipts, acks, resumed, cmd, seen,
                   reconcilerVars, faults>>

\* Faulty variant: a write without the compare.
AcceptActionAlways(r) ==
    LET s == cmd[r].suspend IN
    /\ pc[r] = "accept"
    /\ status' = [status EXCEPT ![s] = "RESOLVED"]
    /\ winner' = [winner EXCEPT ![s] = cmd[r].action]
    /\ handoff' = [handoff EXCEPT ![s] = "PENDING"]
    /\ Goto(r, "save")
    /\ UNCHANGED <<due, receipts, acks, resumed, cmd, seen,
                   reconcilerVars, faults>>

\* accept_action_if_open: the compare-and-set that picks the winner.
AcceptActionIfOpen(r) ==
    LET s == cmd[r].suspend IN
    /\ pc[r] = "accept"
    /\ \/ /\ status[s] = "OPEN"
          /\ status' = [status EXCEPT ![s] = "RESOLVED"]
          /\ winner' = [winner EXCEPT ![s] = cmd[r].action]
          /\ handoff' = [handoff EXCEPT ![s] = "PENDING"]
          /\ Goto(r, "save")
       \/ /\ status[s] # "OPEN"
          /\ Goto(r, "lostReread")
          /\ UNCHANGED <<status, winner, handoff>>
    /\ UNCHANGED <<due, receipts, acks, resumed, cmd, seen,
                   reconcilerVars, faults>>

\* Faulty variant: the lost request does not tell expiry from resolution.
RereadSuspensionAsResolved(r) ==
    LET c == cmd[r] IN
    /\ pc[r] = "lostReread"
    /\ IF winner[c.suspend] = c.action
       THEN Goto(r, "lostReceipt")
       ELSE Reply(r, "REJECTED_ALREADY_RESOLVED")
    /\ UNCHANGED <<storeVars, receipts, acks, resumed, cmd, seen,
                   reconcilerVars, faults>>

RereadSuspension(r) ==
    LET c == cmd[r] IN
    /\ pc[r] = "lostReread"
    /\ IF winner[c.suspend] = c.action
       THEN Goto(r, "lostReceipt")
       ELSE Reply(r, IF status[c.suspend] = "EXPIRED"
                     THEN "REJECTED_EXPIRED" ELSE "REJECTED_ALREADY_RESOLVED")
    /\ UNCHANGED <<storeVars, receipts, acks, resumed, cmd, seen,
                   reconcilerVars, faults>>

RereadReceipt(r) ==
    /\ pc[r] = "lostReceipt"
    /\ Reply(r, ReceiptVerdict(receipts[cmd[r].action], cmd[r],
                               "ReceiptNotYetAvailable"))
    /\ UNCHANGED <<storeVars, receipts, acks, resumed, cmd, seen,
                   reconcilerVars, faults>>

SaveReceipt(r) ==
    /\ pc[r] = "save"
    /\ receipts' = [receipts EXCEPT ![cmd[r].action] = cmd[r]]
    /\ Goto(r, "publish")
    /\ UNCHANGED <<storeVars, acks, resumed, cmd, seen, reconcilerVars, faults>>

AppendActionAccepted(r) ==
    LET s == cmd[r].suspend IN
    /\ pc[r] = "publish"
    /\ acks' = [acks EXCEPT ![s] = @ + 1]
    /\ Goto(r, "resume")
    /\ UNCHANGED <<storeVars, receipts, resumed, cmd, seen,
                   reconcilerVars, faults>>

\* The host's resume_task(c, s) returns, and has taken the command.
HostResumes(s, c) ==
    /\ s \notin Broken
    /\ resumed' = [resumed EXCEPT ![s] = @ \cup {c}]
    /\ UNCHANGED faults

\* It raises, possibly after it took the command.  The hook of a broken
\* suspension always raises and takes nothing; other failures are bounded.
HostResumeRaises(s, c) ==
    \/ /\ s \in Broken
       /\ UNCHANGED <<resumed, faults>>
    \/ /\ s \notin Broken
       /\ faults < MaxFaults
       /\ faults' = faults + 1
       /\ \/ UNCHANGED resumed
          \/ resumed' = [resumed EXCEPT ![s] = @ \cup {c}]

ResumeTask(r) ==
    LET s == cmd[r].suspend IN
    /\ pc[r] = "resume"
    /\ HostResumes(s, cmd[r])
    /\ Goto(r, "mark")
    /\ UNCHANGED <<storeVars, receipts, acks, cmd, seen, reconcilerVars>>

\* Faulty variant: the handoff is marked although the hook raised.
ResumeTaskFailureMarked(r) ==
    /\ pc[r] = "resume"
    /\ HostResumeRaises(cmd[r].suspend, cmd[r])
    /\ Goto(r, "mark")
    /\ UNCHANGED <<storeVars, receipts, acks, cmd, seen, reconcilerVars>>

\* A raising hook is swallowed: the handoff stays PENDING and the client is
\* told ACCEPTED.
ResumeTaskFails(r) ==
    /\ pc[r] = "resume"
    /\ HostResumeRaises(cmd[r].suspend, cmd[r])
    /\ Reply(r, "ACCEPTED")
    /\ UNCHANGED <<storeVars, receipts, acks, cmd, seen, reconcilerVars>>

MarkResumeDispatched(r) ==
    /\ pc[r] = "mark"
    /\ handoff' = [handoff EXCEPT ![cmd[r].suspend] = "DISPATCHED"]
    /\ Reply(r, "ACCEPTED")
    /\ UNCHANGED <<status, winner, due, receipts, acks, resumed, cmd, seen,
                   reconcilerVars, faults>>

\* An exception out of a store call, a cancelled request or a crash.
AbortRequest(r) ==
    /\ pc[r] \notin {"idle", "done"}
    /\ faults < MaxFaults
    /\ faults' = faults + 1
    /\ Reply(r, "Error")
    /\ UNCHANGED <<storeVars, receipts, acks, resumed, cmd, seen,
                   reconcilerVars>>

RequestStep(r) ==
    \/ LookupSuspension(r)
    \/ CheckReceipt(r)
    \/ AcceptActionIfOpen(r)
    \/ RereadSuspension(r)
    \/ RereadReceipt(r)
    \/ SaveReceipt(r)
    \/ AppendActionAccepted(r)
    \/ ResumeTask(r)
    \/ ResumeTaskFails(r)
    \/ MarkResumeDispatched(r)

-----------------------------------------------------------------------------
(* reconcile_pending_resumes                                               *)

PendingHandoffs == {s \in Suspensions : handoff[s] = "PENDING"}

\* The pass goes on with the rest of its list; it ends when nothing is left.
Continue(k, rest) ==
    /\ todo' = [todo EXCEPT ![k] = rest]
    /\ rpc' = [rpc EXCEPT ![k] = IF rest = {} THEN "idle" ELSE "next"]
    /\ item' = [item EXCEPT ![k] = NoSuspension]
    /\ held' = [held EXCEPT ![k] = NoReceipt]

\* An empty list changes nothing, so only passes with work are modelled.
ListPendingResumeHandoffs(k) ==
    /\ rpc[k] = "idle"
    /\ PendingHandoffs # {}
    /\ rpc' = [rpc EXCEPT ![k] = "next"]
    /\ todo' = [todo EXCEPT ![k] = PendingHandoffs]
    /\ UNCHANGED <<storeVars, receipts, acks, resumed, requestVars,
                   item, held, faults>>

\* An accepted action the reconciler passes over: its receipt is missing, or
\* is a legacy A2UI receipt without metadata.
Skipped(receipt) ==
    receipt # NoReceipt => ~WithMetadata(receipt)

SuccessfulReceipt(s) ==
    IF winner[s] = NoAction THEN NoReceipt ELSE receipts[winner[s]]

\* The next item of the list, its receipt being passed over.
PassOver(k, s) ==
    /\ rpc[k] = "next"
    /\ s \in todo[k]
    /\ Skipped(SuccessfulReceipt(s))
    /\ Continue(k, todo[k] \ {s})
    /\ UNCHANGED <<storeVars, receipts, acks, resumed, requestVars, faults>>

\* A reconciler may be wired without the hook that accepted an A2UI action.
ResumableBy(k, c) == c.content \in A2ui => k \in Hosted

\* An A2UI receipt without a host resume hook raises out of the pass.
RefuseA2ui(k, s) ==
    /\ rpc[k] = "next"
    /\ s \in todo[k]
    /\ ~Skipped(SuccessfulReceipt(s))
    /\ ~ResumableBy(k, SuccessfulReceipt(s))
    /\ Continue(k, {})
    /\ UNCHANGED <<storeVars, receipts, acks, resumed, requestVars, faults>>

FetchReceipt(k, s) ==
    /\ rpc[k] = "next"
    /\ s \in todo[k]
    /\ ~Skipped(SuccessfulReceipt(s))
    /\ ResumableBy(k, SuccessfulReceipt(s))
    /\ rpc' = [rpc EXCEPT ![k] = "resume"]
    /\ todo' = [todo EXCEPT ![k] = @ \ {s}]
    /\ item' = [item EXCEPT ![k] = s]
    /\ held' = [held EXCEPT ![k] = SuccessfulReceipt(s)]
    /\ UNCHANGED <<storeVars, receipts, acks, resumed, requestVars, faults>>

ResumeItem(k) ==
    /\ rpc[k] = "resume"
    /\ HostResumes(item[k], held[k])
    /\ rpc' = [rpc EXCEPT ![k] = "mark"]
    /\ UNCHANGED <<storeVars, receipts, acks, requestVars, todo, item, held>>

\* Faulty variant: the handoff is marked although the hook raised.
ResumeItemFailureMarked(k) ==
    /\ rpc[k] = "resume"
    /\ HostResumeRaises(item[k], held[k])
    /\ rpc' = [rpc EXCEPT ![k] = "mark"]
    /\ UNCHANGED <<storeVars, receipts, acks, requestVars, todo, item, held>>

\* A raising hook ends the whole pass.
ResumeItemFails(k) ==
    /\ rpc[k] = "resume"
    /\ HostResumeRaises(item[k], held[k])
    /\ Continue(k, {})
    /\ UNCHANGED <<storeVars, receipts, acks, requestVars>>

\* Faulty variants: the handoff is not marked, or the wrong field is written.
MarkItemForgotten(k) ==
    /\ rpc[k] = "mark"
    /\ Continue(k, todo[k])
    /\ UNCHANGED <<storeVars, receipts, acks, resumed, requestVars, faults>>

MarkItemStatus(k) ==
    /\ rpc[k] = "mark"
    /\ status' = [status EXCEPT ![item[k]] = "DISPATCHED"]
    /\ Continue(k, todo[k])
    /\ UNCHANGED <<winner, handoff, due, receipts, acks, resumed, requestVars,
                   faults>>

MarkItemDispatched(k) ==
    /\ rpc[k] = "mark"
    /\ handoff' = [handoff EXCEPT ![item[k]] = "DISPATCHED"]
    /\ Continue(k, todo[k])
    /\ UNCHANGED <<status, winner, due, receipts, acks, resumed, requestVars,
                   faults>>

AbortPass(k) ==
    /\ rpc[k] # "idle"
    /\ faults < MaxFaults
    /\ faults' = faults + 1
    /\ Continue(k, {})
    /\ UNCHANGED <<storeVars, receipts, acks, resumed, requestVars>>

ReconcilerStep(k) ==
    \/ ListPendingResumeHandoffs(k)
    \/ \E s \in Suspensions :
          PassOver(k, s) \/ RefuseA2ui(k, s) \/ FetchReceipt(k, s)
    \/ ResumeItem(k)
    \/ ResumeItemFails(k)
    \/ MarkItemDispatched(k)

-----------------------------------------------------------------------------

Next ==
    \/ \E s \in Suspensions : OpenSuspension(s) \/ PassDeadline(s)
    \/ PruneExpiredState
    \/ \E r \in Requests, c \in Commands : Submit(r, c)
    \/ \E r \in Requests : RequestStep(r) \/ AbortRequest(r)
    \/ \E k \in Reconcilers : ReconcilerStep(k) \/ AbortPass(k)

Spec == Init /\ [][Next]_vars

\* A coroutine that is not aborted keeps running, and the host schedules its
\* reconcilers again and again.
Fairness ==
    /\ \A r \in Requests : WF_vars(RequestStep(r))
    /\ \A k \in Reconcilers : WF_vars(ReconcilerStep(k))

FairSpec == Spec /\ Fairness

-----------------------------------------------------------------------------
(* Properties                                                              *)

\* Clients draw a fresh identifier for every action, so no identifier is used
\* on two suspensions.  Retries, and retries with an edited payload, reuse it.
UniqueActionIds ==
    \A c, d \in Commands : c.action = d.action => c.suspend = d.suspend

\* accept_action_if_open picks one winner: at most one request is ever told
\* ACCEPTED for a suspension, and its action is the one the store recorded.
AcceptanceExclusive ==
    \A r \in Requests :
        answer[r] = "ACCEPTED" =>
            /\ winner[cmd[r].suspend] = cmd[r].action
            /\ \A q \in Requests \ {r} :
                 ~(answer[q] = "ACCEPTED" /\ cmd[q].suspend = cmd[r].suspend)

\* The action won its suspension and its receipt, equal to the command, is
\* stored.
DurablyAccepted(r) ==
    /\ winner[cmd[r].suspend] = cmd[r].action
    /\ receipts[cmd[r].action] # NoReceipt
    /\ SameActionReceipt(receipts[cmd[r].action], cmd[r])

\* submit_action answers ACCEPTED or DEDUPLICATED only for an action that won
\* its suspension and whose receipt, equal to the command, is stored.
AcceptedIsDurable ==
    \A r \in Requests :
        answer[r] \in {"ACCEPTED", "DEDUPLICATED"} => DurablyAccepted(r)

\* The suspension is expired, or another action won it, as answered.
TrulyRejected(r) ==
    /\ answer[r] = "REJECTED_EXPIRED" => status[cmd[r].suspend] = "EXPIRED"
    /\ answer[r] = "REJECTED_ALREADY_RESOLVED" =>
          /\ status[cmd[r].suspend] = "RESOLVED"
          /\ winner[cmd[r].suspend] # cmd[r].action

\* A rejection rests on a stale snapshot or a lost CAS, yet it stays true: the
\* suspension is expired, or another action won it.
RejectionsAreFinal == \A r \in Requests : TrulyRejected(r)

\* Whoever resumes the host, a request or a reconciler working from an old
\* list, resumes it with the command of the winning action as its receipt
\* stores it, never with an A2UI command that lacks metadata or a host hook.
ResumedWithAcceptedCommand ==
    \A s \in Suspensions : \A c \in resumed[s] :
        /\ c.action = winner[s]
        /\ c.suspend = s
        /\ receipts[c.action] = c
        /\ c.content \in A2ui => HasHostResume /\ c.content \notin NoMetadata

\* Where a suspension is in its life, in the terms of ActionAcceptance.
Phase(s) ==
    IF handoff[s] = "PENDING" THEN "pending"
    ELSE IF handoff[s] = "DISPATCHED" THEN "dispatched"
    ELSE IF status[s] = "ABSENT" THEN "absent"
    ELSE IF status[s] = "EXPIRED" THEN "expired" ELSE "open"

Acceptance == INSTANCE ActionAcceptance WITH
    phase <- [s \in Suspensions |-> Phase(s)],
    chosen <- winner,
    recorded <- [s \in Suspensions |-> SuccessfulReceipt(s) # NoReceipt],
    announced <- acks,
    handed <- [s \in Suspensions |-> {c.action : c \in resumed[s]}]

\* submit_action, the reconcilers and retention implement the abstract
\* acceptance of an action: resolved once or expired, recorded before it is
\* announced or handed over, and closed only after the host took it.
ImplementsAcceptance == Acceptance!Spec

\* Recovery is guaranteed once the receipt and the accepted event are stored:
\* whatever fails afterwards, the handoff is eventually dispatched.
RecoveryGuaranteed ==
    \A s \in Suspensions :
        (/\ handoff[s] = "PENDING"
         /\ ~Skipped(SuccessfulReceipt(s))
         /\ acks[s] > 0
         /\ s \notin Broken) ~> handoff[s] = "DISPATCHED"

-----------------------------------------------------------------------------
(* The inductive invariant behind the safety properties                    *)

\* The handlers that hold a suspension: the one whose CAS succeeded, from the
\* CAS until it answers, and afterwards the one that answered ACCEPTED.
Holds(r) ==
    \/ pc[r] \in {"save", "publish", "resume", "mark"}
    \/ answer[r] = "ACCEPTED"

Recorded(s) == SuccessfulReceipt(s) # NoReceipt

\* What the suspension store guarantees by itself.
StoreOK(s) ==
    /\ status[s] # "RESOLVED" =>
          winner[s] = NoAction /\ handoff[s] = "NONE"
    /\ status[s] = "RESOLVED" =>
          /\ handoff[s] # "NONE"
          /\ \E c \in Commands : c.suspend = s /\ c.action = winner[s]

\* A receipt records the action that won its suspension.
ReceiptOK(a) ==
    receipts[a] # NoReceipt =>
        /\ receipts[a].action = a
        /\ winner[receipts[a].suspend] = a
        /\ WithMetadata(receipts[a])
        /\ Resumable(receipts[a])

\* One holder per suspension, and how far it has come.
HolderOK(r) ==
    Holds(r) =>
        /\ winner[cmd[r].suspend] = cmd[r].action
        /\ WithMetadata(cmd[r]) /\ Resumable(cmd[r])
        /\ \A q \in Requests \ {r} :
              ~(Holds(q) /\ cmd[q].suspend = cmd[r].suspend)
        /\ pc[r] = "save" => receipts[cmd[r].action] = NoReceipt
        /\ pc[r] # "save" => receipts[cmd[r].action] = cmd[r]
        /\ pc[r] \in {"save", "publish"} => acks[cmd[r].suspend] = 0
        /\ pc[r] = "mark" => resumed[cmd[r].suspend] # {}

\* What a request knows, from snapshots that may be old by now.
RequestOK(r) ==
    /\ pc[r] # "idle" => cmd[r] \in Commands
    /\ answer[r] # "none" => pc[r] = "done"
    /\ pc[r] = "checkReceipt" =>
          /\ seen[r].status # "ABSENT"
          /\ seen[r].status = "EXPIRED" => status[cmd[r].suspend] = "EXPIRED"
          /\ seen[r].status = "RESOLVED" =>
                /\ status[cmd[r].suspend] = "RESOLVED"
                /\ winner[cmd[r].suspend] = seen[r].winner
    /\ pc[r] \in {"checkReceipt", "accept"} =>
          /\ WithMetadata(cmd[r])
          /\ status[cmd[r].suspend] # "ABSENT"
    /\ pc[r] = "accept" => Resumable(cmd[r])
    /\ pc[r] = "lostReread" => status[cmd[r].suspend] \in {"RESOLVED", "EXPIRED"}
    /\ pc[r] = "lostReceipt" => winner[cmd[r].suspend] = cmd[r].action

\* An event or a resume happens only after the receipt, and a handoff is
\* closed only after a resume.
EffectOK(s) ==
    /\ acks[s] \in {0, 1}
    /\ acks[s] = 1 => Recorded(s)
    /\ \A c \in resumed[s] : Recorded(s) /\ c = SuccessfulReceipt(s)
    /\ handoff[s] = "DISPATCHED" => resumed[s] # {}

\* A reconciler works on resolved suspensions with their stored receipts.
ReconcilerOK(k) ==
    /\ \A s \in todo[k] : status[s] = "RESOLVED"
    /\ rpc[k] \in {"resume", "mark"} =>
          /\ item[k] \in Suspensions
          /\ status[item[k]] = "RESOLVED"
          /\ Recorded(item[k])
          /\ held[k] = SuccessfulReceipt(item[k])
    /\ rpc[k] = "mark" => resumed[item[k]] # {}

\* What every step of submit_action, the reconcilers and retention preserves,
\* with the two safety properties that follow from no other conjunct.
IInv ==
    /\ TypeOK
    /\ \A s \in Suspensions : StoreOK(s) /\ EffectOK(s)
    /\ \A a \in ActionIds : ReceiptOK(a)
    /\ \A r \in Requests : HolderOK(r) /\ RequestOK(r)
    /\ \A k \in Reconcilers : ReconcilerOK(k)
    /\ AcceptedIsDurable
    /\ RejectionsAreFinal
=============================================================================
