--------------------------- MODULE TaskLifecycle ----------------------------
(***************************************************************************)
(* The life of tasks on the backend: TaskCreationService.create_task,      *)
(* TaskCancellationService.cancel_task and DeterministicFakeExecutor, the  *)
(* executor that runs a task and reports it, over a task registry and an   *)
(* event store.  Requests and runs are coroutines cut at every await.  A   *)
(* task is named by the creation request that made it, which gives every   *)
(* record a fresh identifier as uuid4 does.                                *)
(***************************************************************************)
EXTENDS Integers, Sequences

CONSTANTS
    Creators,       \* creation requests
    Cancellers,     \* cancellation requests
    Commands,       \* what each creation request carries
    ProgressTicks,  \* progress events of a run
    FailAfter,      \* progress events before a run's injected failure, 0: none
    Failing,        \* what may raise: "request", "submit", "run"
    MaxFaults       \* bound on raised exceptions

Tasks == Creators
Terminals == {"COMPLETED", "FAILED", "CANCELLED"}
Statuses == {"ACCEPTED", "RUNNING"} \cup Terminals

ConstantsAssumption ==
    /\ Commands \in [Creators -> [owner : STRING, key : STRING,
                                  payload : STRING]]
    /\ ProgressTicks \in Nat
    /\ FailAfter \in [Creators -> Nat]
    /\ Failing \subseteq {"request", "submit", "run"}
    /\ MaxFaults \in Nat

ASSUME ConstantsAssumption

VARIABLES
    registry,   \* the stored tasks, in the order of their insertion
    status,     \* TaskRecord.status
    requested,  \* TaskRecord.cancellation_requested
    pc, answer, result,       \* the creation requests
    earlier,    \* the requests that had named a task before each one began
    step, target, reply,      \* the cancellation requests
    signalled,  \* the executor's set of tasks to cancel
    run, ticks, outcome,  \* the executor's runs
    log,        \* the events of each task
    faults

registryVars == <<registry, status, requested>>
creatorVars == <<pc, answer, result, earlier>>
cancellerVars == <<step, target, reply>>
executorVars == <<signalled, run, ticks, outcome, log>>
vars == <<registryVars, creatorVars, cancellerVars, executorVars, faults>>

Stored == {registry[i] : i \in DOMAIN registry}
Answers == {"none", "created", "deduplicated", "conflict", "denied",
            "submission_failed", "error"}
Events == {"STARTED", "PROGRESS"} \cup Terminals
Runs == {"none", "begin", "started", "check", "tick", "settle", "announce",
         "ended", "dead"}

TypeOK ==
    /\ registry \in Seq(Tasks)
    /\ status \in [Tasks -> Statuses]
    /\ requested \subseteq Tasks
    /\ pc \in [Creators -> {"idle", "lookup", "create", "submit", "fail",
                            "done"}]
    /\ answer \in [Creators -> Answers]
    /\ result \in [Creators -> Tasks]
    /\ earlier \in [Creators -> SUBSET Creators]
    /\ step \in [Cancellers -> {"idle", "read", "request", "signal", "done"}]
    /\ target \in [Cancellers -> Tasks]
    /\ reply \in [Cancellers -> {"none", "ALREADY_TERMINAL",
                                 "CANCELLATION_REQUESTED"}]
    /\ signalled \subseteq Tasks
    /\ run \in [Tasks -> Runs]
    /\ ticks \in [Tasks -> 0..ProgressTicks]
    /\ outcome \in [Tasks -> Terminals \cup {"none"}]
    /\ log \in [Tasks -> Seq(Events)]
    /\ faults \in 0..MaxFaults

Init ==
    /\ registry = <<>>
    /\ status = [t \in Tasks |-> "ACCEPTED"]
    /\ requested = {}
    /\ pc = [c \in Creators |-> "idle"]
    /\ answer = [c \in Creators |-> "none"]
    /\ result = [c \in Creators |-> c]
    /\ earlier = [c \in Creators |-> {}]
    /\ step = [k \in Cancellers |-> "idle"]
    /\ target \in [Cancellers -> Tasks]
    /\ reply = [k \in Cancellers |-> "none"]
    /\ signalled = {}
    /\ run = [t \in Tasks |-> "none"]
    /\ ticks = [t \in Tasks |-> 0]
    /\ outcome = [t \in Tasks |-> "none"]
    /\ log = [t \in Tasks |-> <<>>]
    /\ faults = 0

Raises(kind) ==
    /\ kind \in Failing
    /\ faults < MaxFaults
    /\ faults' = faults + 1

-----------------------------------------------------------------------------
(* TaskCreationService.create_task                                         *)

SameKey(c, t) == /\ Commands[c].owner = Commands[t].owner
                 /\ Commands[c].key = Commands[t].key
SamePayload(c, t) == Commands[c].payload = Commands[t].payload

Matches(c) == {i \in DOMAIN registry : SameKey(c, registry[i])}
Existing(c) == registry[CHOOSE i \in Matches(c) : \A j \in Matches(c) : i <= j]

Answer(c, value, task) ==
    /\ pc' = [pc EXCEPT ![c] = "done"]
    /\ answer' = [answer EXCEPT ![c] = value]
    /\ result' = [result EXCEPT ![c] = task]

Named(c) == answer[c] \in {"created", "deduplicated"}

AssertTaskCreate(c) ==
    /\ pc[c] = "idle"
    /\ pc' = [pc EXCEPT ![c] = "lookup"]
    /\ earlier' = [earlier EXCEPT ![c] = {d \in Creators : Named(d)}]
    /\ UNCHANGED <<registryVars, answer, result, cancellerVars, executorVars,
                   faults>>

(* The ownership policy raises PermissionError.                            *)
DenyTaskCreate(c) ==
    /\ pc[c] = "idle"
    /\ Raises("request")
    /\ Answer(c, "denied", c)
    /\ UNCHANGED <<registryVars, earlier, cancellerVars, executorVars>>

(* Faulty variant of LookupTask: the payload is not compared.              *)
LookupTaskByKey(c) ==
    /\ pc[c] = "lookup"
    /\ IF Matches(c) = {}
         THEN /\ pc' = [pc EXCEPT ![c] = "create"]
              /\ UNCHANGED <<answer, result>>
         ELSE Answer(c, "deduplicated", Existing(c))
    /\ UNCHANGED <<registryVars, earlier, cancellerVars, executorVars, faults>>

LookupTask(c) ==
    /\ pc[c] = "lookup"
    /\ IF Matches(c) = {}
         THEN /\ pc' = [pc EXCEPT ![c] = "create"]
              /\ UNCHANGED <<answer, result>>
         ELSE Answer(c, IF SamePayload(c, Existing(c)) THEN "deduplicated"
                                                       ELSE "conflict",
                     Existing(c))
    /\ UNCHANGED <<registryVars, earlier, cancellerVars, executorVars, faults>>

CreateTask(c) ==
    /\ pc[c] = "create"
    /\ registry' = Append(registry, c)
    /\ status' = [status EXCEPT ![c] = "ACCEPTED"]
    /\ pc' = [pc EXCEPT ![c] = "submit"]
    /\ UNCHANGED <<requested, answer, result, earlier, cancellerVars,
                   executorVars, faults>>

SubmitTask(c) ==
    /\ pc[c] = "submit"
    /\ run' = [run EXCEPT ![c] = "begin"]
    /\ Answer(c, "created", c)
    /\ UNCHANGED <<registryVars, earlier, cancellerVars, signalled, ticks,
                   outcome, log, faults>>

SubmitTaskFails(c) ==
    /\ pc[c] = "submit"
    /\ Raises("submit")
    /\ pc' = [pc EXCEPT ![c] = "fail"]
    /\ UNCHANGED <<registryVars, answer, result, earlier, cancellerVars,
                   executorVars>>

MarkSubmissionFailed(c) ==
    /\ pc[c] = "fail"
    /\ status' = [status EXCEPT ![c] = "FAILED"]
    /\ Answer(c, "submission_failed", c)
    /\ UNCHANGED <<registry, requested, earlier, cancellerVars, executorVars,
                   faults>>

(* A registry call raises, or the server stops, before the next step.      *)
AbortCreation(c) ==
    /\ pc[c] \notin {"idle", "done"}
    /\ Raises("request")
    /\ Answer(c, "error", c)
    /\ UNCHANGED <<registryVars, earlier, cancellerVars, executorVars>>

-----------------------------------------------------------------------------
(* TaskCancellationService.cancel_task                                     *)

Reply(k, value) == /\ step' = [step EXCEPT ![k] = "done"]
                   /\ reply' = [reply EXCEPT ![k] = value]

GetTask(k) ==
    /\ step[k] = "idle"
    /\ target[k] \in Stored
    /\ IF status[target[k]] \in Terminals
         THEN Reply(k, "ALREADY_TERMINAL")
         ELSE /\ step' = [step EXCEPT ![k] = "request"]
              /\ UNCHANGED reply
    /\ UNCHANGED <<registryVars, creatorVars, target, executorVars, faults>>

(* Faulty variant of RequestCancellation: the status is settled at once.   *)
RequestCancellationSettled(k) ==
    /\ step[k] = "request"
    /\ requested' = requested \cup {target[k]}
    /\ status' = [status EXCEPT ![target[k]] = "CANCELLED"]
    /\ step' = [step EXCEPT ![k] = "signal"]
    /\ UNCHANGED <<registry, creatorVars, target, reply, executorVars, faults>>

(* Faulty variant of RequestCancellation: the registry is not told.        *)
RequestCancellationUnrecorded(k) ==
    /\ step[k] = "request"
    /\ step' = [step EXCEPT ![k] = "signal"]
    /\ UNCHANGED <<registryVars, creatorVars, target, reply, executorVars,
                   faults>>

RequestCancellation(k) ==
    /\ step[k] = "request"
    /\ requested' = requested \cup {target[k]}
    /\ step' = [step EXCEPT ![k] = "signal"]
    /\ UNCHANGED <<registry, status, creatorVars, target, reply, executorVars,
                   faults>>

SignalExecutor(k) ==
    /\ step[k] = "signal"
    /\ signalled' = signalled \cup {target[k]}
    /\ Reply(k, "CANCELLATION_REQUESTED")
    /\ UNCHANGED <<registryVars, creatorVars, target, run, ticks, outcome,
                   log, faults>>

AbortCancellation(k) ==
    /\ step[k] \in {"request", "signal"}
    /\ Raises("request")
    /\ Reply(k, "none")
    /\ UNCHANGED <<registryVars, creatorVars, target, executorVars>>

-----------------------------------------------------------------------------
(* DeterministicFakeExecutor._run                                          *)

Proceed(t, next) == run' = [run EXCEPT ![t] = next]
Conclude(t, value) == /\ outcome' = [outcome EXCEPT ![t] = value]
                      /\ Proceed(t, "settle")
Emit(t, event) == log' = [log EXCEPT ![t] = Append(@, event)]

BeginRun(t) ==
    /\ run[t] = "begin"
    /\ status' = [status EXCEPT ![t] = "RUNNING"]
    /\ Proceed(t, "started")
    /\ UNCHANGED <<registry, requested, creatorVars, cancellerVars, signalled,
                   ticks, outcome, log, faults>>

EmitStarted(t) ==
    /\ run[t] = "started"
    /\ Emit(t, "STARTED")
    /\ Proceed(t, "check")
    /\ UNCHANGED <<registryVars, creatorVars, cancellerVars, signalled, ticks,
                   outcome, faults>>

(* Faulty variant of CheckCancelled: a cancelled run only returns.         *)
CheckCancelledSilently(t) ==
    /\ run[t] = "check"
    /\ \/ /\ t \in signalled
          /\ Proceed(t, "ended")
          /\ UNCHANGED outcome
       \/ /\ t \notin signalled
          /\ ticks[t] < ProgressTicks
          /\ Proceed(t, "tick")
          /\ UNCHANGED outcome
       \/ /\ t \notin signalled
          /\ ticks[t] = ProgressTicks
          /\ Conclude(t, "COMPLETED")
    /\ UNCHANGED <<registryVars, creatorVars, cancellerVars, signalled, ticks,
                   log, faults>>

CheckCancelled(t) ==
    /\ run[t] = "check"
    /\ \/ /\ t \in signalled
          /\ Conclude(t, "CANCELLED")
       \/ /\ t \notin signalled
          /\ ticks[t] < ProgressTicks
          /\ Proceed(t, "tick")
          /\ UNCHANGED outcome
       \/ /\ t \notin signalled
          /\ ticks[t] = ProgressTicks
          /\ Conclude(t, "COMPLETED")
    /\ UNCHANGED <<registryVars, creatorVars, cancellerVars, signalled, ticks,
                   log, faults>>

(* Faulty variant of EmitProgress: one tick after the last.                *)
EmitProgressTwice(t) ==
    /\ run[t] = "tick"
    /\ Emit(t, "PROGRESS")
    /\ ticks' = [ticks EXCEPT ![t] = @ + 2]
    /\ Proceed(t, "check")
    /\ UNCHANGED <<registryVars, creatorVars, cancellerVars, signalled, outcome,
                   faults>>

EmitProgress(t) ==
    /\ run[t] = "tick"
    /\ Emit(t, "PROGRESS")
    /\ ticks' = [ticks EXCEPT ![t] = @ + 1]
    /\ IF FailAfter[t] # 0 /\ ticks[t] + 1 >= FailAfter[t]
         THEN Conclude(t, "FAILED")
         ELSE Proceed(t, "check") /\ UNCHANGED outcome
    /\ UNCHANGED <<registryVars, creatorVars, cancellerVars, signalled, faults>>

(* Faulty variant of SettleStatus: a requested cancellation wins late.     *)
SettleStatusRequested(t) ==
    /\ run[t] = "settle"
    /\ status' = [status EXCEPT ![t] = IF t \in requested THEN "CANCELLED"
                                                         ELSE outcome[t]]
    /\ Proceed(t, "announce")
    /\ UNCHANGED <<registry, requested, creatorVars, cancellerVars, signalled,
                   ticks, outcome, log, faults>>

SettleStatus(t) ==
    /\ run[t] = "settle"
    /\ status' = [status EXCEPT ![t] = outcome[t]]
    /\ Proceed(t, "announce")
    /\ UNCHANGED <<registry, requested, creatorVars, cancellerVars, signalled,
                   ticks, outcome, log, faults>>

EmitTerminal(t) ==
    /\ run[t] = "announce"
    /\ Emit(t, outcome[t])
    /\ Proceed(t, "ended")
    /\ UNCHANGED <<registryVars, creatorVars, cancellerVars, signalled, ticks,
                   outcome, faults>>

(* A registry or event store call raises, or the server stops.             *)
RunDies(t) ==
    /\ run[t] \notin {"none", "ended", "dead"}
    /\ Raises("run")
    /\ Proceed(t, "dead")
    /\ UNCHANGED <<registryVars, creatorVars, cancellerVars, signalled, ticks,
                   outcome, log>>

-----------------------------------------------------------------------------
CreatorStep(c) ==
    \/ AssertTaskCreate(c) \/ LookupTask(c) \/ CreateTask(c)
    \/ SubmitTask(c) \/ MarkSubmissionFailed(c)
CancellerStep(k) == GetTask(k) \/ RequestCancellation(k) \/ SignalExecutor(k)
RunStep(t) ==
    \/ BeginRun(t) \/ EmitStarted(t) \/ CheckCancelled(t)
    \/ EmitProgress(t) \/ SettleStatus(t) \/ EmitTerminal(t)

Next ==
    \/ \E c \in Creators :
         \/ CreatorStep(c) \/ DenyTaskCreate(c)
         \/ SubmitTaskFails(c) \/ AbortCreation(c)
    \/ \E k \in Cancellers : CancellerStep(k) \/ AbortCancellation(k)
    \/ \E t \in Tasks : RunStep(t) \/ RunDies(t)

Spec == Init /\ [][Next]_vars

(* The event loop resumes every coroutine whose await completed.           *)
FairSpec ==
    /\ Spec
    /\ \A c \in Creators : WF_vars(CreatorStep(c))
    /\ \A k \in Cancellers : WF_vars(CancellerStep(k))
    /\ \A t \in Tasks : WF_vars(RunStep(t))

-----------------------------------------------------------------------------
(* Properties.                                                             *)

LastEvent(t) == log[t][Len(log[t])]
Announced(t) == \E i \in DOMAIN log[t] : log[t][i] \in Terminals

(* The terminal event of a task is its last one, and says what the         *)
(* registry says, whatever cancellation arrives around it (_run).          *)
TerminalEventAgrees ==
    \A t \in Tasks : Announced(t) =>
        /\ LastEvent(t) = status[t]
        /\ \A i \in 1 .. Len(log[t]) - 1 : log[t][i] \notin Terminals

(* A terminal status is final: no cancellation, retry or late step of a    *)
(* run takes a task out of it.                                             *)
TerminalIsFinal ==
    [][\A t \in Tasks : status[t] \in Terminals => status'[t] = status[t]]_vars

(* A task is CANCELLED only if its registry record says that cancellation  *)
(* was requested, and a caller is told ALREADY_TERMINAL only of a task     *)
(* that has ended (cancel_task, _run).                                     *)
CancellationHonest ==
    /\ \A t \in Tasks : status[t] = "CANCELLED" => t \in requested
    /\ \A k \in Cancellers :
         reply[k] = "ALREADY_TERMINAL" => status[target[k]] \in Terminals

(* What create_task answers holds of the registry: a duplicate is answered *)
(* with a stored task of the same owner, key and payload, a conflict rests *)
(* on a stored task with another payload, and a request that began after   *)
(* an earlier one with its key was answered stores nothing.                *)
IdempotencyAnswersHold ==
    \A c \in Creators :
        /\ answer[c] = "deduplicated" =>
             /\ result[c] \in Stored
             /\ SameKey(c, result[c]) /\ SamePayload(c, result[c])
        /\ answer[c] = "conflict" =>
             \E t \in Stored : SameKey(c, t) /\ ~SamePayload(c, t)
        /\ \A d \in earlier[c] :
             SameKey(c, d) => c \notin Stored

(* One owner's key names one task.                                         *)
OneTaskPerKey == \A c, d \in Stored : SameKey(c, d) => c = d

(* Every run that has begun ends with its terminal event, and so does one  *)
(* that a cancellation was signalled to, unless a call it makes raises.    *)
RunsEnd ==
    []<>(\A t \in Tasks : run[t] \in {"none", "dead"} \/ Announced(t))

=============================================================================
