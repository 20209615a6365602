---------------------------- MODULE TemporalHost ----------------------------
(***************************************************************************)
(* One task of the example host whose executor is a Temporal service: the  *)
(* request that creates it and starts a workflow, the monitor that tells   *)
(* its observers what the workflow does, the suspension of a document      *)
(* review, the actions submitted for it, and a cancellation.  The registry *)
(* and the suspensions live in the host's memory, the events in Redis and  *)
(* the workflow in the service, and any call between them may fail.        *)
(***************************************************************************)
EXTENDS Integers, Sequences

CONSTANTS
    Types,      \* task types: "success", "fail" and "review"
    Actions,    \* the actions submitted for a review, each once
    MaxFaults   \* bound on failing calls

ASSUME TemporalHostAssumption ==
    /\ Types \subseteq {"success", "fail", "review"}
    /\ "none" \notin Actions
    /\ MaxFaults \in Nat

VARIABLES
    type, status, requested,  \* the task: status, cancellation_requested
    log,         \* its events
    workflow,    \* the workflow execution
    cancelling,  \* the service has accepted its cancellation
    decision,    \* _action_result of the workflow
    suspension,  \* the review, by its status and its handoff
    accepted,    \* the action the review was resolved with
    creator,     \* the request that creates the task
    monitor,     \* the monitor: what it does next
    left,        \* the progress steps it has left
    canceller,   \* the cancellation request
    request,     \* the request of every action
    up,          \* the host has not been shut down
    faults

task == <<type, status, requested>>
service == <<workflow, cancelling, decision>>
review == <<suspension, accepted>>
vars == <<task, log, service, review, creator, monitor, left, canceller,
          request, up, faults>>

Terminals == {"COMPLETED", "FAILED", "CANCELLED"}
Events == {"STARTED", "PROGRESS", "SUSPENDED", "ACTION_ACCEPTED"}
             \cup Terminals
Over == {"completed", "cancelled"}

TypeOK ==
    /\ type \in Types
    /\ status \in {"ACCEPTED", "RUNNING"} \cup Terminals
    /\ requested \in BOOLEAN
    /\ log \in Seq(Events)
    /\ workflow \in {"none", "running", "waiting"} \cup Over
    /\ cancelling \in BOOLEAN
    /\ decision \in Actions \cup {"none"}
    /\ suspension \in {"none", "OPEN", "PENDING", "DISPATCHED"}
    /\ accepted \in Actions \cup {"none"}
    /\ (accepted = "none") <=> (suspension \in {"none", "OPEN"})
    /\ creator \in {"start", "begin", "announce", "done", "failed"}
    /\ monitor \in {"none", "progress", "suspend", "announce", "result",
                    "done"} \cup Terminals
    /\ left \in 0..3
    /\ canceller \in {"idle", "cancel", "requested", "terminal"}
    /\ request \in [Actions -> {"idle", "decide", "record", "resume", "mark",
                                "accepted", "rejected", "failed"}]
    /\ up \in BOOLEAN
    /\ faults \in 0..MaxFaults

(* Faulty variant of Steps: one step more than the monitor counts.         *)
StepsOfImage(t) == IF t = "fail" THEN 2 ELSE 4

Steps(t) == IF t = "fail" THEN 2 ELSE 3

Init ==
    /\ type \in Types
    /\ status = "ACCEPTED"
    /\ requested = FALSE
    /\ log = <<>>
    /\ workflow = "none"
    /\ cancelling = FALSE
    /\ decision = "none"
    /\ suspension = "none"
    /\ accepted = "none"
    /\ creator = "start"
    /\ monitor = "none"
    /\ left = Steps(type)
    /\ canceller = "idle"
    /\ request = [a \in Actions |-> "idle"]
    /\ up = TRUE
    /\ faults = 0

Fault ==
    /\ faults < MaxFaults
    /\ faults' = faults + 1

AppendEvent(e) == log' = Append(log, e)

(* XADD and EXPIRE are awaited: an append that does not return has stored  *)
(* the event, or it has not.                                               *)
MayAppend(e) == log' \in {log, Append(log, e)}

AppendFails(e) == Fault /\ MayAppend(e)

-----------------------------------------------------------------------------
(* submit_task, and create_task around it                                  *)

StartWorkflow ==
    /\ up /\ creator = "start"
    /\ workflow' = "running"
    /\ creator' = "begin"
    /\ UNCHANGED <<task, log, cancelling, decision, review, monitor, left,
                   canceller, request, up, faults>>

BeginRun ==
    /\ up /\ creator = "begin"
    /\ status' = "RUNNING"
    /\ creator' = "announce"
    /\ UNCHANGED <<type, requested, log, service, review, monitor, left,
                   canceller, request, up, faults>>

(* Faulty variant of EmitStarted: the monitor starts before the event is   *)
(* stored.                                                                 *)
EmitStartedMonitored ==
    /\ up /\ creator = "announce"
    /\ IF monitor = "none" /\ Steps(type) = left
         THEN monitor' = "progress" /\ UNCHANGED <<log, creator>>
         ELSE AppendEvent("STARTED") /\ creator' = "done" /\ UNCHANGED monitor
    /\ UNCHANGED <<task, service, review, left, canceller, request, up,
                   faults>>

EmitStarted ==
    /\ up /\ creator = "announce"
    /\ AppendEvent("STARTED")
    /\ creator' = "done"
    /\ monitor' = "progress"
    /\ UNCHANGED <<task, service, review, left, canceller, request, up,
                   faults>>

(* A call of submit_task raises, also after the workflow has started.      *)
SubmitFails ==
    /\ up
    /\ \/ /\ creator = "start" /\ Fault
          /\ workflow' \in {"none", "running"}
          /\ UNCHANGED log
       \/ /\ creator = "announce" /\ AppendFails("STARTED")
          /\ UNCHANGED workflow
    /\ status' = "FAILED"
    /\ creator' = "failed"
    /\ UNCHANGED <<type, requested, cancelling, decision, review, monitor,
                   left, canceller, request, up>>

-----------------------------------------------------------------------------
(* The workflows.  An activity that raises is tried again, by the default  *)
(* policy of the service without a limit: "fail" leaves its workflow       *)
(* running.                                                                *)

RunActivity ==
    /\ workflow = "running" /\ type # "fail"
    /\ workflow' = IF type = "review" THEN "waiting" ELSE "completed"
    /\ UNCHANGED <<task, log, cancelling, decision, review, creator, monitor,
                   left, canceller, request, up, faults>>

DecideReview ==
    /\ workflow = "waiting" /\ decision # "none"
    /\ workflow' = "completed"
    /\ UNCHANGED <<task, log, cancelling, decision, review, creator, monitor,
                   left, canceller, request, up, faults>>

EndCancelled ==
    /\ workflow \in {"running", "waiting"} /\ cancelling
    /\ workflow' = "cancelled"
    /\ UNCHANGED <<task, log, cancelling, decision, review, creator, monitor,
                   left, canceller, request, up, faults>>

-----------------------------------------------------------------------------
(* _monitor_task                                                           *)

EmitProgress ==
    /\ up /\ monitor = "progress"
    /\ AppendEvent("PROGRESS")
    /\ left' = left - 1
    /\ monitor' = IF left > 1 THEN "progress"
                  ELSE IF type = "review" THEN "suspend" ELSE "result"
    /\ UNCHANGED <<task, service, review, creator, canceller, request, up,
                   faults>>

(* Faulty variant of OpenSuspension: the event comes first.                *)
OpenSuspensionAnnounced ==
    /\ up /\ monitor = "suspend"
    /\ AppendEvent("SUSPENDED")
    /\ monitor' = "announce"
    /\ UNCHANGED <<task, service, review, creator, left, canceller, request,
                   up, faults>>

OpenSuspension ==
    /\ up /\ monitor = "suspend"
    /\ suspension' = "OPEN"
    /\ monitor' = "announce"
    /\ UNCHANGED <<task, log, service, accepted, creator, left, canceller,
                   request, up, faults>>

EmitSuspended ==
    /\ up /\ monitor = "announce"
    /\ AppendEvent("SUSPENDED")
    /\ monitor' = "result"
    /\ UNCHANGED <<task, service, review, creator, left, canceller, request,
                   up, faults>>

(* Faulty variant of AwaitResult: a cancelled workflow has a result.       *)
AwaitResultOfAny ==
    /\ up /\ monitor = "result"
    /\ workflow \in Over
    /\ status' = "COMPLETED"
    /\ monitor' = "COMPLETED"
    /\ UNCHANGED <<type, requested, log, service, review, creator, left,
                   canceller, request, up, faults>>

(* handle.result() returns, or raises WorkflowFailureError.                *)
AwaitResult ==
    /\ up /\ monitor = "result"
    /\ workflow \in Over
    /\ status' = IF workflow = "completed" THEN "COMPLETED" ELSE "FAILED"
    /\ monitor' = status'
    /\ UNCHANGED <<type, requested, log, service, review, creator, left,
                   canceller, request, up, faults>>

(* After the shutdown only its own handler still runs.                     *)
EmitTerminal ==
    /\ monitor \in Terminals
    /\ up \/ monitor = "CANCELLED"
    /\ AppendEvent(monitor)
    /\ monitor' = "done"
    /\ UNCHANGED <<task, service, review, creator, left, canceller, request,
                   up, faults>>

Watching == {"progress", "suspend", "announce", "result", "COMPLETED"}
Writes == CASE monitor = "progress" -> "PROGRESS"
            [] monitor = "announce" -> "SUSPENDED"
            [] OTHER -> "COMPLETED"

(* The handler of Exception: whatever raised, the task has failed.         *)
MonitorFails ==
    /\ up
    /\ \/ monitor \in {"progress", "announce", "COMPLETED"}
          /\ AppendFails(Writes)
       \/ monitor = "result" /\ Fault /\ UNCHANGED log
    /\ status' = "FAILED"
    /\ monitor' = "FAILED"
    /\ UNCHANGED <<type, requested, service, review, creator, left, canceller,
                   request, up>>

(* The event of a handler cannot be stored: the monitor dies.              *)
MonitorDies ==
    /\ monitor = "CANCELLED" \/ (up /\ monitor = "FAILED")
    /\ AppendFails(monitor)
    /\ monitor' = "done"
    /\ UNCHANGED <<task, service, review, creator, left, canceller, request,
                   up>>

-----------------------------------------------------------------------------
(* TaskCancellationService.cancel_task over the registry of the host       *)

RequestCancellation ==
    /\ up /\ canceller = "idle"
    /\ IF status \in Terminals
         THEN canceller' = "terminal" /\ UNCHANGED requested
         ELSE canceller' = "cancel" /\ requested' = TRUE
    /\ UNCHANGED <<type, status, log, service, review, creator, monitor, left,
                   request, up, faults>>

(* A call that does not return may have reached the service.               *)
MayCancel ==
    cancelling' \in
      {cancelling} \cup (IF workflow \in {"running", "waiting"} THEN {TRUE}
                        ELSE {})

(* The service refuses to cancel a workflow that is over or not there; the *)
(* adapter drops whatever the call raises.                                 *)
CancelWorkflow ==
    /\ up /\ canceller = "cancel"
    /\ \/ /\ IF workflow \in {"running", "waiting"}
               THEN cancelling' = TRUE ELSE UNCHANGED cancelling
          /\ UNCHANGED faults
       \/ Fault /\ MayCancel
    /\ canceller' = "requested"
    /\ UNCHANGED <<task, log, workflow, decision, review, creator, monitor,
                   left, request, up>>

-----------------------------------------------------------------------------
(* TaskActionService.submit_action over the suspensions of the host        *)

Proceed(a, next) == request' = [request EXCEPT ![a] = next]

SubmitAction(a) ==
    /\ up /\ request[a] = "idle"
    /\ suspension # "none"
    /\ Proceed(a, IF suspension = "OPEN" THEN "decide" ELSE "rejected")
    /\ UNCHANGED <<task, log, service, review, creator, monitor, left,
                   canceller, up, faults>>

(* Faulty variant of AcceptActionIfOpen: the status is not read again.     *)
AcceptAction(a) ==
    /\ up /\ request[a] = "decide"
    /\ suspension' = "PENDING" /\ accepted' = a /\ Proceed(a, "record")
    /\ UNCHANGED <<task, log, service, creator, monitor, left, canceller, up,
                   faults>>

AcceptActionIfOpen(a) ==
    /\ up /\ request[a] = "decide"
    /\ IF suspension = "OPEN"
         THEN suspension' = "PENDING" /\ accepted' = a /\ Proceed(a, "record")
         ELSE Proceed(a, "rejected") /\ UNCHANGED review
    /\ UNCHANGED <<task, log, service, creator, monitor, left, canceller, up,
                   faults>>

RecordAction(a) ==
    /\ up /\ request[a] = "record"
    /\ \/ /\ AppendEvent("ACTION_ACCEPTED") /\ Proceed(a, "resume")
          /\ UNCHANGED faults
       \/ AppendFails("ACTION_ACCEPTED") /\ Proceed(a, "failed")
    /\ UNCHANGED <<task, service, review, creator, monitor, left, canceller,
                   up>>

(* Faulty variant of ResumeTask: a signal that comes before the workflow   *)
(* waits for it is lost.                                                   *)
ResumeTaskWaiting(a) ==
    /\ up /\ request[a] = "resume"
    /\ decision' = IF workflow = "waiting" THEN a ELSE decision
    /\ Proceed(a, "mark")
    /\ UNCHANGED <<task, log, workflow, cancelling, review, creator, monitor,
                   left, canceller, up, faults>>

(* A signal that does not return may have reached the workflow.            *)
MaySignal(a) ==
    decision' \in {decision} \cup (IF workflow \in Over THEN {} ELSE {a})

(* The signal reaches a workflow that is not over; a call that raises      *)
(* leaves the handoff pending, and this host runs no reconciler.           *)
ResumeTask(a) ==
    /\ up /\ request[a] = "resume"
    /\ \/ /\ workflow \in {"running", "waiting"}
          /\ decision' = a /\ Proceed(a, "mark") /\ UNCHANGED faults
       \/ /\ workflow \in Over
          /\ Proceed(a, "accepted") /\ UNCHANGED <<decision, faults>>
       \/ Fault /\ Proceed(a, "accepted") /\ MaySignal(a)
    /\ UNCHANGED <<task, log, workflow, cancelling, review, creator, monitor,
                   left, canceller, up>>

MarkDispatched(a) ==
    /\ up /\ request[a] = "mark"
    /\ suspension' = "DISPATCHED"
    /\ Proceed(a, "accepted")
    /\ UNCHANGED <<task, log, service, accepted, creator, monitor, left,
                   canceller, up, faults>>

-----------------------------------------------------------------------------
(* The shutdown.  The event loop cancels every coroutine once, at whatever *)
(* it awaits; the service goes on.                                         *)

ShutDown ==
    /\ up
    /\ up' = FALSE
    /\ UNCHANGED <<task, log, service, review, creator, monitor, left,
                   canceller, request, faults>>

(* The handler of CancelledError takes over, also from an append of        *)
(* TASK_COMPLETED that has stored it.                                      *)
CutWatching ==
    /\ monitor \in Watching
    /\ IF monitor \in {"suspend", "result"}
         THEN UNCHANGED log ELSE MayAppend(Writes)
    /\ status' = "CANCELLED"
    /\ monitor' = "CANCELLED"

(* Faulty variant of CutMonitor: the handler of CancelledError takes over  *)
(* from the handler of Exception as well.                                  *)
CutMonitorTwice ==
    /\ ~up
    /\ \/ CutWatching
       \/ /\ monitor = "progress" /\ left = Steps(type)
          /\ monitor' = "done" /\ UNCHANGED <<status, log>>
       \/ /\ monitor = "FAILED" /\ MayAppend("FAILED")
          /\ monitor' = "CANCELLED" /\ status' = "CANCELLED"
    /\ UNCHANGED <<type, requested, service, review, creator, left, canceller,
                   request, up, faults>>

(* A monitor that has not run yet never enters its try, and one that is in *)
(* the handler of Exception leaves it.                                     *)
CutMonitor ==
    /\ ~up
    /\ \/ CutWatching
       \/ /\ \/ monitor = "progress" /\ left = Steps(type) /\ UNCHANGED log
             \/ monitor = "FAILED" /\ MayAppend("FAILED")
          /\ monitor' = "done"
          /\ UNCHANGED status
    /\ UNCHANGED <<type, requested, service, review, creator, left, canceller,
                   request, up, faults>>

(* create_task catches Exception, which CancelledError is not.             *)
CutCreator ==
    /\ ~up
    /\ \/ /\ creator = "start" /\ workflow' \in {"none", "running"}
          /\ UNCHANGED log
       \/ creator = "announce" /\ MayAppend("STARTED") /\ UNCHANGED workflow
    /\ creator' = "failed"
    /\ UNCHANGED <<task, cancelling, decision, review, monitor, left,
                   canceller, request, up, faults>>

CutCanceller ==
    /\ ~up /\ canceller = "cancel"
    /\ MayCancel
    /\ canceller' = "requested"
    /\ UNCHANGED <<task, log, workflow, decision, review, creator, monitor,
                   left, request, up, faults>>

CutRequest(a) ==
    /\ ~up
    /\ \/ /\ request[a] = "record"
          /\ MayAppend("ACTION_ACCEPTED") /\ UNCHANGED decision
       \/ request[a] = "resume" /\ MaySignal(a) /\ UNCHANGED log
    /\ Proceed(a, "failed")
    /\ UNCHANGED <<task, workflow, cancelling, review, creator, monitor, left,
                   canceller, up, faults>>

-----------------------------------------------------------------------------
CreatorStep == StartWorkflow \/ BeginRun \/ EmitStarted
WorkflowStep == RunActivity \/ DecideReview \/ EndCancelled
MonitorStep ==
    EmitProgress \/ OpenSuspension \/ EmitSuspended \/ AwaitResult
      \/ EmitTerminal
RequestStep(a) ==
    AcceptActionIfOpen(a) \/ RecordAction(a) \/ ResumeTask(a)
      \/ MarkDispatched(a)

Next ==
    \/ CreatorStep \/ SubmitFails \/ CutCreator
    \/ WorkflowStep
    \/ MonitorStep \/ MonitorFails \/ MonitorDies \/ CutMonitor
    \/ RequestCancellation \/ CancelWorkflow \/ CutCanceller
    \/ \E a \in Actions : SubmitAction(a) \/ RequestStep(a) \/ CutRequest(a)
    \/ ShutDown

Spec == Init /\ [][Next]_vars

(* The worker runs what the service schedules, and the event loop resumes  *)
(* the coroutines of the host; nobody has to cancel or to submit anything. *)
FairSpec ==
    /\ Spec
    /\ WF_vars(WorkflowStep)
    /\ WF_vars(CreatorStep)
    /\ WF_vars(MonitorStep)
    /\ WF_vars(CancelWorkflow)
    /\ \A a \in Actions : WF_vars(RequestStep(a))

-----------------------------------------------------------------------------
(* Properties.                                                             *)

Stored(e) == \E i \in DOMAIN log : log[i] = e

(* What the host says of the task is what became of its workflow: nothing  *)
(* but a completed workflow is reported as COMPLETED, FAILED stands for a  *)
(* cancelled workflow or a failed call, CANCELLED for a shutdown           *)
(* (_monitor_task).                                                        *)
OutcomeAgrees ==
    /\ status = "COMPLETED" \/ Stored("COMPLETED") => workflow = "completed"
    /\ status = "FAILED" \/ Stored("FAILED")
         => workflow = "cancelled" \/ faults > 0
    /\ status = "CANCELLED" \/ Stored("CANCELLED") => ~up

OneTerminal ==
    /\ status \in Terminals
    /\ \E i \in DOMAIN log :
         /\ log[i] = status
         /\ \A j \in DOMAIN log : log[j] \in Terminals => j = i

(* A later terminal event stands beside TASK_COMPLETED, whose append has   *)
(* stored it without returning: a call failed, or the shutdown cut it off. *)
Supersedes(later, earlier) ==
    /\ earlier = "COMPLETED"
    /\ \/ later = "FAILED" /\ faults > 0
       \/ later = "CANCELLED" /\ ~up

(* When its monitor is done, no call has failed and the host is up, the    *)
(* task has exactly one terminal event, the one of its status              *)
(* (executor-integration.md:18).  Failures and a shutdown at any await     *)
(* give it at most a second one, after TASK_COMPLETED (_monitor_task).     *)
TerminalEventAgrees ==
    /\ monitor = "done" /\ faults = 0 /\ up => OneTerminal
    /\ \A i, j \in DOMAIN log :
         i < j /\ {log[i], log[j]} \subseteq Terminals
           => Supersedes(log[j], log[i])

(* A review that completed was decided by the one action that was accepted *)
(* for it, and whoever was told so submitted that action, although several *)
(* are submitted at once and a signal may come before the workflow waits.  *)
AcceptedActionDecides ==
    /\ workflow = "completed" /\ type = "review"
         => decision # "none" /\ decision = accepted
    /\ \A a \in Actions : request[a] = "accepted" => a = accepted

(* An observer told TASK_SUSPENDED finds the suspension it answers to      *)
(* (_monitor_task creates the record first).                               *)
SuspensionBeforeEvent == Stored("SUSPENDED") => suspension # "none"

(* A terminal status is overwritten only when the append of TASK_COMPLETED *)
(* fails or is cut off by the shutdown: COMPLETED by FAILED or CANCELLED.  *)
TerminalIsFinal ==
    [][(status \in Terminals /\ status' # status)
          => /\ status = "COMPLETED"
             /\ \/ status' = "FAILED" /\ faults' # faults
                \/ status' = "CANCELLED" /\ ~up]_vars

Ended == \E e \in Terminals : Stored(e)
Settled ==
    type = "success" \/ cancelling \/ (type = "review" /\ accepted # "none")

(* A monitored task whose workflow nothing can hold up any more gets its   *)
(* terminal event, unless a call failed or the host was shut down.         *)
TaskEnds == (monitor # "none" /\ Settled) ~> (Ended \/ faults > 0 \/ ~up)

(* A cancellation that takes effect ends in CANCELLED, with the event of   *)
(* that name (TaskExecutor, worker.py:36).                                 *)
CancelledAsRequested ==
    workflow = "cancelled" /\ monitor = "done" /\ faults = 0 /\ up
      => status = "CANCELLED" /\ Stored("CANCELLED")

=============================================================================
