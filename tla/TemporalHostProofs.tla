------------------------- MODULE TemporalHostProofs -------------------------
(***************************************************************************)
(* Proofs about TemporalHost for any set of task types and actions and any *)
(* number of failing calls.                                                *)
(***************************************************************************)
EXTENDS TemporalHost, TLAPS

\* Where the creating request stands, the monitor has not started and the
\* status is the one it has written.
CreatorInv ==
    /\ creator # "done" => monitor = "none" /\ left = Steps(type)
    /\ creator \in {"start", "begin"} => status = "ACCEPTED"
    /\ creator = "start" => workflow = "none"
    /\ creator = "announce" => status = "RUNNING"

\* Where the monitor stands, the status is the one it has written.
MonitorInv ==
    /\ monitor \in {"progress", "suspend", "announce", "result"}
         => status = "RUNNING"
    /\ monitor \in Terminals => status = monitor
    /\ monitor = "CANCELLED" => ~up
    /\ monitor = "progress" => left > 0

\* The suspension is there before its event, and its holder before an answer.
ReviewInv ==
    /\ monitor \in {"none", "progress", "suspend"} => suspension = "none"
    /\ monitor = "announce" => suspension # "none"
    /\ decision # "none" => decision = accepted
    /\ \A a \in Actions :
         request[a] \in {"record", "resume", "mark", "accepted", "failed"}
           => accepted = a

IInv ==
    /\ TypeOK
    /\ CreatorInv
    /\ MonitorInv
    /\ ReviewInv
    /\ OutcomeAgrees
    /\ AcceptedActionDecides
    /\ SuspensionBeforeEvent

\* What an append does to the events that are stored.
LEMMA StoredAfter ==
    ASSUME log \in Seq(Events), NEW e \in Events, AppendEvent(e)
    PROVE  /\ log' \in Seq(Events)
           /\ \A f : Stored(f)' <=> (Stored(f) \/ f = e)
<1>1. /\ log' \in Seq(Events)
      /\ Len(log') = Len(log) + 1
      /\ \A i \in 1..Len(log) : log'[i] = log[i]
      /\ log'[Len(log) + 1] = e
  BY DEF AppendEvent
<1>2. Len(log) \in Nat /\ DOMAIN log = 1..Len(log)
  OBVIOUS
<1>3. DOMAIN log' = 1..Len(log) + 1
  BY <1>1, <1>2
<1>4. ASSUME NEW f
      PROVE  Stored(f)' <=> (Stored(f) \/ f = e)
  <2>1. ASSUME Stored(f)'
        PROVE  Stored(f) \/ f = e
    <3>1. PICK i \in 1..Len(log) + 1 : log'[i] = f
      BY <2>1, <1>3 DEF Stored
    <3>2. i \in 1..Len(log) \/ i = Len(log) + 1
      BY <1>2
    <3> QED
      BY <3>1, <3>2, <1>1, <1>2 DEF Stored
  <2>2. ASSUME Stored(f) \/ f = e
        PROVE  Stored(f)'
    <3>1. CASE f = e
      <4>1. Len(log) + 1 \in DOMAIN log'
        BY <1>2, <1>3
      <4> QED
        BY <3>1, <4>1, <1>1 DEF Stored
    <3>2. CASE Stored(f)
      <4>1. PICK i \in 1..Len(log) : log[i] = f
        BY <3>2, <1>2 DEF Stored
      <4>2. i \in DOMAIN log' /\ log'[i] = f
        BY <4>1, <1>1, <1>2, <1>3
      <4> QED
        BY <4>2 DEF Stored
    <3> QED
      BY <2>2, <3>1, <3>2
  <2> QED
    BY <2>1, <2>2
<1> QED
  BY <1>1, <1>4

\* An append that does not return stores the event or leaves the log alone.
LEMMA StoredAtMost ==
    ASSUME log \in Seq(Events), NEW e \in Events, MayAppend(e)
    PROVE  /\ log' \in Seq(Events)
           /\ \A f : Stored(f)' => Stored(f) \/ f = e
           /\ \A f : Stored(f) => Stored(f)'
<1>1. CASE log' = log
  BY <1>1 DEF Stored
<1>2. CASE log' = Append(log, e)
  BY <1>2, StoredAfter DEF AppendEvent
<1> QED
  BY <1>1, <1>2 DEF MayAppend

\* Before anything is created the invariant holds.
LEMMA InitInv == Init => IInv
<1> SUFFICES ASSUME Init
             PROVE  IInv
  OBVIOUS
<1>1. log \in Seq(Events) /\ \A e : ~Stored(e)
  BY DEF Init, Stored
<1>2. TypeOK
  <2>1. left \in 0..3
    BY DEF Init, Steps
  <2>2. faults \in 0..MaxFaults
    BY TemporalHostAssumption DEF Init, TemporalHostAssumption
  <2>3. requested \in BOOLEAN /\ cancelling \in BOOLEAN /\ up \in BOOLEAN
    BY Zenon DEF Init
  <2> QED
    BY <1>1, <2>1, <2>2, <2>3 DEF Init, TypeOK
<1>3. CreatorInv /\ MonitorInv /\ ReviewInv
  BY DEF Init, CreatorInv, MonitorInv, ReviewInv, Terminals
<1>4. OutcomeAgrees /\ AcceptedActionDecides /\ SuspensionBeforeEvent
  BY <1>1 DEF Init, OutcomeAgrees, AcceptedActionDecides,
              SuspensionBeforeEvent
<1> QED
  BY <1>2, <1>3, <1>4 DEF IInv

\* The request that creates the task preserves the invariant.
LEMMA CreatorNext ==
    ASSUME IInv, CreatorStep \/ SubmitFails \/ CutCreator
    PROVE  IInv'
<1> USE TemporalHostAssumption
    DEF IInv, TypeOK, CreatorInv, MonitorInv, ReviewInv, OutcomeAgrees,
        AcceptedActionDecides, SuspensionBeforeEvent, Terminals, Over,
        TemporalHostAssumption, task, service, review, Fault
<1>1. CASE StartWorkflow
  BY <1>1 DEF StartWorkflow, Stored
<1>2. CASE BeginRun
  BY <1>2 DEF BeginRun, Stored
<1>3. CASE EmitStarted
  <2>1. "STARTED" \in Events
    BY DEF Events
  <2>2. /\ log' \in Seq(Events)
        /\ \A f : Stored(f)' <=> (Stored(f) \/ f = "STARTED")
    BY <1>3, <2>1, StoredAfter DEF EmitStarted
  <2> QED
    BY <1>3, <2>2 DEF EmitStarted, Steps
<1>4. CASE SubmitFails
  <2>1. log' \in Seq(Events)
    BY <1>4, StoredAtMost DEF SubmitFails, AppendFails, Events
  <2>2. \A f : Stored(f)' => Stored(f) \/ f = "STARTED"
    BY <1>4, StoredAtMost DEF SubmitFails, AppendFails, Events, Stored
  <2>3. faults' > 0 /\ faults' \in 0..MaxFaults
    BY <1>4 DEF SubmitFails, AppendFails
  <2> QED
    BY <1>4, <2>1, <2>2, <2>3 DEF SubmitFails
<1>5. CASE CutCreator
  <2>1. log' \in Seq(Events)
    BY <1>5, StoredAtMost DEF CutCreator, Events
  <2>2. \A f : Stored(f)' => Stored(f) \/ f = "STARTED"
    BY <1>5, StoredAtMost DEF CutCreator, Events, Stored
  <2> QED
    BY <1>5, <2>1, <2>2 DEF CutCreator
<1> QED
  BY <1>1, <1>2, <1>3, <1>4, <1>5 DEF CreatorStep

\* The workflow, whatever ends it, preserves the invariant.
LEMMA WorkflowNext ==
    ASSUME IInv, WorkflowStep
    PROVE  IInv'
<1> USE TemporalHostAssumption
    DEF IInv, TypeOK, CreatorInv, MonitorInv, ReviewInv, OutcomeAgrees,
        AcceptedActionDecides, SuspensionBeforeEvent, Terminals, Over,
        TemporalHostAssumption, task, review, Stored
<1>1. CASE RunActivity
  BY <1>1 DEF RunActivity
<1>2. CASE DecideReview
  BY <1>2 DEF DecideReview
<1>3. CASE EndCancelled
  BY <1>3 DEF EndCancelled
<1> QED
  BY <1>1, <1>2, <1>3 DEF WorkflowStep

\* The monitor, undisturbed, preserves the invariant.
LEMMA MonitorNext ==
    ASSUME IInv, MonitorStep
    PROVE  IInv'
<1> USE TemporalHostAssumption
    DEF IInv, TypeOK, CreatorInv, MonitorInv, ReviewInv, OutcomeAgrees,
        AcceptedActionDecides, SuspensionBeforeEvent, Terminals, Over,
        TemporalHostAssumption, task, service, review
<1>1. CASE EmitProgress
  <2>1. /\ log' \in Seq(Events)
        /\ \A f : Stored(f)' <=> (Stored(f) \/ f = "PROGRESS")
    BY <1>1, StoredAfter DEF EmitProgress, Events
  <2> QED
    BY <1>1, <2>1 DEF EmitProgress
<1>2. CASE OpenSuspension
  BY <1>2 DEF OpenSuspension, Stored
<1>3. CASE EmitSuspended
  <2>1. /\ log' \in Seq(Events)
        /\ \A f : Stored(f)' <=> (Stored(f) \/ f = "SUSPENDED")
    BY <1>3, StoredAfter DEF EmitSuspended, Events
  <2> QED
    BY <1>3, <2>1 DEF EmitSuspended
<1>4. CASE AwaitResult
  BY <1>4 DEF AwaitResult, Stored
<1>5. CASE EmitTerminal
  <2>1. /\ log' \in Seq(Events)
        /\ \A f : Stored(f)' <=> (Stored(f) \/ f = monitor)
    BY <1>5, StoredAfter DEF EmitTerminal, Events
  <2> QED
    BY <1>5, <2>1 DEF EmitTerminal
<1> QED
  BY <1>1, <1>2, <1>3, <1>4, <1>5 DEF MonitorStep

\* A failing call of the monitor preserves it.
LEMMA MonitorFailureNext ==
    ASSUME IInv, MonitorFails \/ MonitorDies
    PROVE  IInv'
<1> USE TemporalHostAssumption
    DEF IInv, TypeOK, CreatorInv, MonitorInv, ReviewInv, OutcomeAgrees,
        AcceptedActionDecides, SuspensionBeforeEvent, Terminals, Over,
        TemporalHostAssumption, task, service, review, Fault
<1>1. CASE MonitorFails
  <2>1. /\ log' \in Seq(Events)
        /\ \A f : Stored(f)' => Stored(f) \/ (f = Writes /\ monitor # "result")
    <3>1. CASE monitor \in {"progress", "announce", "COMPLETED"}
      BY <1>1, <3>1, StoredAtMost
         DEF MonitorFails, AppendFails, Writes, Events
    <3>2. CASE monitor = "result"
      BY <1>1, <3>2 DEF MonitorFails, Stored
    <3> QED
      BY <1>1, <3>1, <3>2 DEF MonitorFails
  <2>2. faults' > 0 /\ faults' \in 0..MaxFaults
    BY <1>1 DEF MonitorFails, AppendFails
  <2>3. monitor = "COMPLETED" => workflow = "completed"
    OBVIOUS
  <2> QED
    BY <1>1, <2>1, <2>2, <2>3 DEF MonitorFails, Writes
<1>2. CASE MonitorDies
  <2>1. /\ log' \in Seq(Events)
        /\ \A f : Stored(f)' => Stored(f) \/ f = monitor
    BY <1>2, StoredAtMost DEF MonitorDies, AppendFails, Events
  <2>2. faults' > 0 /\ faults' \in 0..MaxFaults
    BY <1>2 DEF MonitorDies, AppendFails
  <2> QED
    BY <1>2, <2>1, <2>2 DEF MonitorDies
<1> QED
  BY <1>1, <1>2

\* The shutdown preserves it, wherever it cuts the monitor off.
LEMMA ShutDownNext ==
    ASSUME IInv, ShutDown \/ CutMonitor
    PROVE  IInv'
<1> USE DEF IInv, TypeOK, CreatorInv, MonitorInv, ReviewInv, OutcomeAgrees,
            AcceptedActionDecides, SuspensionBeforeEvent, Terminals, Over,
            task, service, review
<1>1. CASE ShutDown
  <2>1. up' \in BOOLEAN /\ ~up'
    BY <1>1, Zenon DEF ShutDown
  <2>2. \A f : Stored(f)' <=> Stored(f)
    BY <1>1 DEF ShutDown, Stored
  <2> QED
    BY <1>1, <2>1, <2>2 DEF ShutDown
<1>2. CASE CutMonitor
  <2>1. CASE CutWatching
    <3>1. /\ log' \in Seq(Events)
          /\ \A f : Stored(f)' =>
               \/ Stored(f)
               \/ f = Writes /\ monitor \notin {"suspend", "result"}
      <4>1. CASE monitor \in {"progress", "announce", "COMPLETED"}
        BY <2>1, <4>1, StoredAtMost
           DEF CutWatching, Watching, Writes, Events
      <4>2. CASE monitor \in {"suspend", "result"}
        BY <2>1, <4>2 DEF CutWatching, Stored
      <4> QED
        BY <2>1, <4>1, <4>2 DEF CutWatching, Watching
    <3>2. monitor = "COMPLETED" => workflow = "completed"
      OBVIOUS
    <3>3. /\ monitor \in Watching /\ creator = "done" /\ ~up /\ ~up'
          /\ status' = "CANCELLED" /\ monitor' = "CANCELLED"
          /\ UNCHANGED <<type, requested, workflow, cancelling, decision,
                         suspension, accepted, creator, left, canceller,
                         request, up, faults>>
      BY <1>2, <2>1 DEF CutMonitor, CutWatching, Watching
    <3> QED
      BY <3>1, <3>2, <3>3 DEF Writes, Watching
  <2>2. CASE monitor = "progress" /\ UNCHANGED log /\ ~CutWatching
    BY <1>2, <2>2 DEF CutMonitor, Stored
  <2>3. CASE monitor = "FAILED" /\ MayAppend("FAILED")
    <3>1. /\ log' \in Seq(Events)
          /\ \A f : Stored(f)' => Stored(f) \/ f = "FAILED"
      BY <2>3, StoredAtMost DEF Events
    <3> QED
      BY <1>2, <2>3, <3>1 DEF CutMonitor, CutWatching, Watching
  <2> QED
    BY <1>2, <2>1, <2>2, <2>3 DEF CutMonitor
<1> QED
  BY <1>1, <1>2

\* A cancellation request preserves it.
LEMMA CancellationNext ==
    ASSUME IInv, RequestCancellation \/ CancelWorkflow \/ CutCanceller
    PROVE  IInv'
<1> USE TemporalHostAssumption
    DEF IInv, TypeOK, CreatorInv, MonitorInv, ReviewInv, OutcomeAgrees,
        AcceptedActionDecides, SuspensionBeforeEvent, Terminals, Over,
        TemporalHostAssumption, task, service, review, Fault, Stored
<1>1. CASE RequestCancellation
  <2>1. requested' \in BOOLEAN
    BY <1>1, Zenon DEF RequestCancellation, IInv, TypeOK
  <2> QED
    BY <1>1, <2>1 DEF RequestCancellation
<1>2. CASE CancelWorkflow
  <2>1. cancelling' \in BOOLEAN
    BY <1>2, Zenon DEF CancelWorkflow, MayCancel, IInv, TypeOK
  <2>2. faults' \in 0..MaxFaults /\ (faults > 0 => faults' > 0)
    BY <1>2 DEF CancelWorkflow
  <2>3. /\ UNCHANGED <<task, log, workflow, decision, review, creator,
                       monitor, left, request, up>>
        /\ canceller' = "requested"
    BY <1>2, Zenon DEF CancelWorkflow
  <2> QED
    BY <2>1, <2>2, <2>3
<1>3. CASE CutCanceller
  <2>1. cancelling' \in BOOLEAN
    BY <1>3, Zenon DEF CutCanceller, MayCancel, IInv, TypeOK
  <2> QED
    BY <1>3, <2>1 DEF CutCanceller
<1> QED
  BY <1>1, <1>2, <1>3

\* The request of an action preserves it: whoever has passed the
\* compare-and-set is the one it chose.
LEMMA ActionNext ==
    ASSUME IInv, NEW a \in Actions,
           SubmitAction(a) \/ RequestStep(a) \/ CutRequest(a)
    PROVE  IInv'
<1> USE TemporalHostAssumption
    DEF IInv, TypeOK, CreatorInv, MonitorInv, ReviewInv, OutcomeAgrees,
        AcceptedActionDecides, SuspensionBeforeEvent, Terminals, Over,
        TemporalHostAssumption, task, service, review, Fault, Proceed
<1>1. CASE SubmitAction(a)
  BY <1>1 DEF SubmitAction, Stored
<1>2. CASE AcceptActionIfOpen(a)
  <2>1. CASE suspension = "OPEN"
    <3>1. \A b \in Actions : request[b] \notin {"record", "resume", "mark",
                                              "accepted", "failed"}
      BY <2>1
    <3> QED
      BY <1>2, <2>1, <3>1 DEF AcceptActionIfOpen, Stored
  <2>2. CASE suspension # "OPEN"
    BY <1>2, <2>2 DEF AcceptActionIfOpen, Stored
  <2> QED
    BY <2>1, <2>2
<1>3. CASE RecordAction(a)
  <2>1. /\ log' \in Seq(Events)
        /\ \A f : Stored(f)' => Stored(f) \/ f = "ACTION_ACCEPTED"
    BY <1>3, StoredAfter, StoredAtMost DEF RecordAction, AppendFails, Events
  <2>2. faults' \in 0..MaxFaults /\ (faults > 0 => faults' > 0)
    BY <1>3 DEF RecordAction, AppendFails
  <2>3. accepted = a
    BY <1>3 DEF RecordAction
  <2> QED
    BY <1>3, <2>1, <2>2, <2>3 DEF RecordAction
<1>4. CASE ResumeTask(a)
  <2>1. accepted = a
    BY <1>4 DEF ResumeTask
  <2>2. decision' \in {decision, a}
    BY <1>4 DEF ResumeTask, MaySignal
  <2>3. faults' \in 0..MaxFaults /\ (faults > 0 => faults' > 0)
    BY <1>4 DEF ResumeTask
  <2> QED
    BY <1>4, <2>1, <2>2, <2>3 DEF ResumeTask, Stored
<1>5. CASE MarkDispatched(a)
  <2>1. accepted = a
    BY <1>5 DEF MarkDispatched
  <2> QED
    BY <1>5, <2>1 DEF MarkDispatched, Stored
<1>6. CASE CutRequest(a)
  <2>1. accepted = a
    BY <1>6 DEF CutRequest
  <2>2. decision' \in {decision, a}
    BY <1>6 DEF CutRequest, MaySignal
  <2>3. /\ log' \in Seq(Events)
        /\ \A f : Stored(f)' => Stored(f) \/ f = "ACTION_ACCEPTED"
    BY <1>6, StoredAtMost DEF CutRequest, Events, Stored
  <2>4. workflow = "completed" => decision' = decision
    BY <1>6 DEF CutRequest, MaySignal
  <2> QED
    BY <1>6, <2>1, <2>2, <2>3, <2>4 DEF CutRequest
<1> QED
  BY <1>1, <1>2, <1>3, <1>4, <1>5, <1>6 DEF RequestStep

\* Every step of the host and of the service preserves the invariant.
LEMMA NextInv == IInv /\ [Next]_vars => IInv'
<1> SUFFICES ASSUME IInv, [Next]_vars
             PROVE  IInv'
  OBVIOUS
<1>1. CASE UNCHANGED vars
  BY <1>1 DEF IInv, TypeOK, CreatorInv, MonitorInv, ReviewInv, OutcomeAgrees,
              AcceptedActionDecides, SuspensionBeforeEvent, Stored, vars,
              task, service, review
<1>2. CASE Next
  BY <1>2, CreatorNext, WorkflowNext, MonitorNext, MonitorFailureNext,
     ShutDownNext, CancellationNext, ActionNext DEF Next
<1> QED
  BY <1>1, <1>2

\* The stored status, the events and the review are tied to where the
\* creating request, the monitor and the requests of actions stand.
THEOREM HostInvariant == Spec => []IInv
  BY InitInv, NextInv, PTL DEF Spec

\* Every variable keeps its type.
THEOREM HostTypeCorrect == Spec => []TypeOK
<1>1. IInv => TypeOK
  BY DEF IInv
<1> QED
  BY <1>1, HostInvariant, PTL

\* Only a completed workflow is ever reported as COMPLETED, and FAILED and
\* CANCELLED have a cause.
THEOREM HonestOutcome == Spec => []OutcomeAgrees
<1>1. IInv => OutcomeAgrees
  BY DEF IInv
<1> QED
  BY <1>1, HostInvariant, PTL

\* However many actions are submitted, the accepted one decides the review.
THEOREM ReviewDecided == Spec => []AcceptedActionDecides
<1>1. IInv => AcceptedActionDecides
  BY DEF IInv
<1> QED
  BY <1>1, HostInvariant, PTL

\* The suspension is stored before an observer can be told of it.
THEOREM SuspensionFirst == Spec => []SuspensionBeforeEvent
<1>1. IInv => SuspensionBeforeEvent
  BY DEF IInv
<1> QED
  BY <1>1, HostInvariant, PTL

\* Nothing but an append of TASK_COMPLETED that does not return makes the
\* monitor overwrite a terminal status.
LEMMA StatusStays ==
    ASSUME IInv, [Next]_vars, status \in Terminals, status' # status
    PROVE  /\ status = "COMPLETED"
           /\ \/ status' = "FAILED" /\ faults' # faults
              \/ status' = "CANCELLED" /\ ~up
<1> USE DEF IInv, TypeOK, CreatorInv, MonitorInv, Terminals, task, service,
            review
<1>1. CASE UNCHANGED vars
  BY <1>1 DEF vars
<1>2. CASE CreatorStep \/ CutCreator
  BY <1>2 DEF CreatorStep, StartWorkflow, BeginRun, EmitStarted, CutCreator
<1>3. CASE SubmitFails
  BY <1>3 DEF SubmitFails
<1>4. CASE WorkflowStep
  BY <1>4 DEF WorkflowStep, RunActivity, DecideReview, EndCancelled
<1>5. CASE MonitorStep
  BY <1>5 DEF MonitorStep, EmitProgress, OpenSuspension, EmitSuspended,
              AwaitResult, EmitTerminal
<1>6. CASE MonitorFails
  <2>1. faults' = faults + 1
    BY <1>6 DEF MonitorFails, AppendFails, Fault
  <2>2. monitor = "COMPLETED"
    BY <1>6 DEF MonitorFails
  <2> QED
    BY <1>6, <2>1, <2>2 DEF MonitorFails
<1>7. CASE CutMonitor
  <2>1. CutWatching /\ ~up
    BY <1>7 DEF CutMonitor
  <2>2. monitor = "COMPLETED"
    BY <2>1 DEF CutWatching, Watching
  <2> QED
    BY <2>1, <2>2 DEF CutWatching
<1>8. CASE MonitorDies \/ ShutDown
  BY <1>8 DEF MonitorDies, ShutDown
<1>9. CASE RequestCancellation \/ CancelWorkflow \/ CutCanceller
  BY <1>9 DEF RequestCancellation, CancelWorkflow, CutCanceller
<1>10. ASSUME NEW a \in Actions,
              SubmitAction(a) \/ RequestStep(a) \/ CutRequest(a)
       PROVE  status' = status
  BY <1>10 DEF SubmitAction, RequestStep, AcceptActionIfOpen, RecordAction,
               ResumeTask, MarkDispatched, CutRequest
<1> QED
  BY <1>1, <1>2, <1>3, <1>4, <1>5, <1>6, <1>7, <1>8, <1>9, <1>10 DEF Next

\* A terminal status is overwritten only when the append of TASK_COMPLETED
\* fails or is cut off: COMPLETED by FAILED or by CANCELLED.
THEOREM OutcomeIsFinal == Spec => TerminalIsFinal
<1>1. IInv /\ [Next]_vars
        => [(status \in Terminals /\ status' # status)
              => /\ status = "COMPLETED"
                 /\ \/ status' = "FAILED" /\ faults' # faults
                    \/ status' = "CANCELLED" /\ ~up]_vars
  BY StatusStays
<1> QED
  BY <1>1, HostInvariant, PTL DEF Spec, TerminalIsFinal

-----------------------------------------------------------------------------
(* The terminal events.                                                    *)

NoTerminal == \A i \in DOMAIN log : log[i] \notin Terminals

\* The only terminal event is TASK_COMPLETED, once, or there is none.
OnlyCompleted ==
    \A i, j \in DOMAIN log :
      {log[i], log[j]} \subseteq Terminals => i = j /\ log[i] = "COMPLETED"

Early == {"none", "progress", "suspend", "announce", "result", "COMPLETED"}

\* What a handler of the monitor finds in the log when it starts.
EventInv ==
    /\ monitor \in Early => NoTerminal
    /\ monitor = "FAILED" => NoTerminal \/ (faults > 0 /\ OnlyCompleted)
    /\ monitor = "CANCELLED" => OnlyCompleted
    /\ TerminalEventAgrees

\* A step that stores no terminal event and ends no handler.
Neutral ==
    /\ log' = log \/ \E e \in Events \ Terminals : AppendEvent(e)
    /\ \/ monitor' = monitor /\ (monitor = "done" => status' = status)
       \/ monitor \in Early /\ monitor' \in Early \cup {"FAILED"}
       \/ monitor \in Early /\ monitor' \in {"CANCELLED", "done"} /\ ~up'
    /\ faults > 0 => faults' > 0
    /\ ~up => ~up'

\* An append of TASK_COMPLETED that does not return hands over to a handler.
HandsOver ==
    /\ monitor = "COMPLETED"
    /\ MayAppend("COMPLETED")
    /\ \/ monitor' = "FAILED" /\ faults' > 0
       \/ monitor' = "CANCELLED" /\ ~up'

\* The monitor ends with the event of the status it has written.
Ends ==
    /\ monitor \in Terminals
    /\ AppendEvent(monitor)
    /\ monitor' = "done"
    /\ status' = status
    /\ faults > 0 => faults' > 0
    /\ up' = up

\* A handler ends without its event.
EndsSilently ==
    /\ monitor \in {"FAILED", "CANCELLED"}
    /\ log' = log
    /\ monitor' = "done"
    /\ faults' > 0 \/ ~up'
    /\ faults > 0 => faults' > 0
    /\ ~up => ~up'

\* What an append does to the places of the log.
LEMMA PlacesAfter ==
    ASSUME log \in Seq(Events), NEW e \in Events, AppendEvent(e)
    PROVE  /\ Len(log) \in Nat /\ DOMAIN log = 1..Len(log)
           /\ DOMAIN log' = 1..Len(log) + 1
           /\ \A i \in 1..Len(log) : log'[i] = log[i]
           /\ log'[Len(log) + 1] = e
  BY DEF AppendEvent

\* Every step is of one of these kinds.
LEMMA StepKinds ==
    ASSUME IInv, Next
    PROVE  Neutral \/ HandsOver \/ Ends \/ EndsSilently
<1>1. \A e \in {"STARTED", "PROGRESS", "SUSPENDED", "ACTION_ACCEPTED"} :
        /\ e \in Events \ Terminals
        /\ MayAppend(e) => log' = log \/ AppendEvent(e)
  BY DEF Events, Terminals, MayAppend, AppendEvent
<1>2. /\ faults \in Nat /\ (Fault => faults' > 0)
      /\ monitor \in Early \cup {"FAILED", "CANCELLED", "done"}
      /\ creator # "done" => monitor = "none"
      /\ monitor = "CANCELLED" => ~up
  BY TemporalHostAssumption
     DEF IInv, TypeOK, CreatorInv, MonitorInv, Fault, Early, Terminals,
         TemporalHostAssumption
<1> USE DEF task, service, review
<1>3. CASE CreatorStep
  BY <1>1, <1>2, <1>3
     DEF CreatorStep, StartWorkflow, BeginRun, EmitStarted, Neutral, Early
<1>4. CASE SubmitFails \/ CutCreator
  BY <1>1, <1>2, <1>4 DEF SubmitFails, CutCreator, AppendFails, Neutral, Early
<1>5. CASE WorkflowStep
  BY <1>5 DEF WorkflowStep, RunActivity, DecideReview, EndCancelled, Neutral
<1>6. CASE MonitorStep
  <2>1. CASE EmitProgress
    BY <1>1, <2>1 DEF EmitProgress, Neutral, Early
  <2>2. CASE OpenSuspension
    BY <2>2 DEF OpenSuspension, Neutral, Early
  <2>3. CASE EmitSuspended
    BY <1>1, <2>3 DEF EmitSuspended, Neutral, Early
  <2>4. CASE AwaitResult
    BY <2>4 DEF AwaitResult, Neutral, Early
  <2>5. CASE EmitTerminal
    BY <2>5 DEF EmitTerminal, Ends
  <2> QED
    BY <1>6, <2>1, <2>2, <2>3, <2>4, <2>5 DEF MonitorStep
<1>7. CASE MonitorFails
  <2>1. faults' > 0 /\ monitor' = "FAILED" /\ up' = up
    BY <1>2, <1>7 DEF MonitorFails, AppendFails
  <2>2. CASE monitor \in {"progress", "announce", "result"}
    BY <1>1, <1>7, <2>1, <2>2
       DEF MonitorFails, AppendFails, Writes, Neutral, Early
  <2>3. CASE monitor = "COMPLETED"
    BY <1>7, <2>1, <2>3 DEF MonitorFails, AppendFails, Writes, HandsOver
  <2> QED
    BY <1>7, <2>2, <2>3 DEF MonitorFails
<1>8. CASE MonitorDies
  <2>1. /\ faults' > 0 /\ monitor \in {"FAILED", "CANCELLED"}
        /\ log' = log \/ AppendEvent(monitor)
    BY <1>2, <1>8 DEF MonitorDies, AppendFails, MayAppend, AppendEvent
  <2> QED
    BY <1>8, <2>1 DEF MonitorDies, Ends, EndsSilently, Terminals
<1>9. CASE CutMonitor
  <2>1. ~up /\ ~up' /\ faults' = faults
    BY <1>9 DEF CutMonitor
  <2>2. CASE CutWatching /\ monitor # "COMPLETED"
    BY <1>1, <2>1, <2>2 DEF CutWatching, Watching, Writes, Neutral, Early
  <2>3. CASE CutWatching /\ monitor = "COMPLETED"
    BY <2>1, <2>3 DEF CutWatching, Writes, HandsOver
  <2>4. CASE monitor = "progress" /\ UNCHANGED log /\ monitor' = "done"
    BY <2>1, <2>4 DEF Neutral, Early
  <2>5. CASE /\ monitor = "FAILED" /\ MayAppend("FAILED")
             /\ monitor' = "done" /\ UNCHANGED status
    BY <1>9, <2>1, <2>5
       DEF CutMonitor, MayAppend, AppendEvent, Ends, EndsSilently, Terminals
  <2> QED
    BY <1>9, <2>2, <2>3, <2>4, <2>5 DEF CutMonitor
<1>10. CASE ShutDown
  BY <1>10 DEF ShutDown, Neutral
<1>11. CASE RequestCancellation \/ CancelWorkflow \/ CutCanceller
  <2>1. CASE RequestCancellation \/ CutCanceller
    BY <2>1 DEF RequestCancellation, CutCanceller, Neutral
  <2>2. CASE CancelWorkflow
    BY <1>2, <2>2 DEF CancelWorkflow, Neutral
  <2> QED
    BY <1>11, <2>1, <2>2
<1>12. ASSUME NEW a \in Actions,
              SubmitAction(a) \/ RequestStep(a) \/ CutRequest(a)
       PROVE  Neutral
  <2>1. CASE SubmitAction(a) \/ AcceptActionIfOpen(a) \/ MarkDispatched(a)
    BY <2>1 DEF SubmitAction, AcceptActionIfOpen, MarkDispatched, Neutral
  <2>2. CASE RecordAction(a)
    BY <1>1, <1>2, <2>2 DEF RecordAction, AppendFails, Neutral
  <2>3. CASE ResumeTask(a)
    BY <1>2, <2>3 DEF ResumeTask, Neutral
  <2>4. CASE CutRequest(a)
    BY <1>1, <2>4 DEF CutRequest, Neutral
  <2> QED
    BY <1>12, <2>1, <2>2, <2>3, <2>4 DEF RequestStep
<1> QED
  BY <1>3, <1>4, <1>5, <1>6, <1>7, <1>8, <1>9, <1>10, <1>11, <1>12 DEF Next

\* An event that is not terminal changes nothing about those that are.
LEMMA OtherEventsDoNotCount ==
    ASSUME log \in Seq(Events), NEW e \in Events \ Terminals, AppendEvent(e)
    PROVE  /\ NoTerminal => NoTerminal'
           /\ OnlyCompleted => OnlyCompleted'
           /\ OneTerminal /\ status' = status => OneTerminal'
           /\ \A i, j \in DOMAIN log' :
                i < j /\ {log'[i], log'[j]} \subseteq Terminals
                  => /\ i \in DOMAIN log /\ j \in DOMAIN log
                     /\ log'[i] = log[i] /\ log'[j] = log[j]
<1>1. /\ \A i \in DOMAIN log : i \in DOMAIN log' /\ log'[i] = log[i]
      /\ \A i \in DOMAIN log' : log'[i] \in Terminals
           => i \in DOMAIN log /\ log'[i] = log[i]
  BY PlacesAfter
<1>2. NoTerminal => NoTerminal'
  BY <1>1 DEF NoTerminal
<1>3. OnlyCompleted => OnlyCompleted'
  BY <1>1 DEF OnlyCompleted
<1>4. ASSUME OneTerminal, status' = status
      PROVE  OneTerminal'
  BY <1>1, <1>4 DEF OneTerminal
<1> QED
  BY <1>1, <1>2, <1>3, <1>4

\* A step that stores no terminal event preserves the invariant.
LEMMA NeutralKeeps ==
    ASSUME IInv, EventInv, Neutral
    PROVE  EventInv'
<1>1. CASE log' = log
  <2>1. /\ NoTerminal => NoTerminal'
        /\ OnlyCompleted => OnlyCompleted'
        /\ OneTerminal /\ status' = status => OneTerminal'
        /\ NoTerminal => OnlyCompleted
    BY <1>1 DEF NoTerminal, OnlyCompleted, OneTerminal
  <2>2. \A i, j \in DOMAIN log' :
          i < j /\ {log'[i], log'[j]} \subseteq Terminals
            => Supersedes(log[j], log[i])'
    BY <1>1 DEF EventInv, TerminalEventAgrees, Supersedes, Neutral
  <2> QED
    BY <2>1, <2>2 DEF EventInv, TerminalEventAgrees, Neutral, Early, IInv,
                      TypeOK
<1>2. ASSUME NEW e \in Events \ Terminals, AppendEvent(e)
      PROVE  EventInv'
  <2>1. /\ NoTerminal => NoTerminal'
        /\ OnlyCompleted => OnlyCompleted'
        /\ OneTerminal /\ status' = status => OneTerminal'
        /\ NoTerminal => OnlyCompleted
    BY <1>2, OtherEventsDoNotCount
       DEF IInv, TypeOK, NoTerminal, OnlyCompleted
  <2>2. \A i, j \in DOMAIN log' :
          i < j /\ {log'[i], log'[j]} \subseteq Terminals
            => Supersedes(log[j], log[i])'
    BY <1>2, OtherEventsDoNotCount
       DEF IInv, TypeOK, EventInv, TerminalEventAgrees, Supersedes, Neutral
  <2> QED
    BY <2>1, <2>2 DEF EventInv, TerminalEventAgrees, Neutral, Early, IInv,
                      TypeOK
<1> QED
  BY <1>1, <1>2 DEF Neutral

\* When the append of TASK_COMPLETED does not return, a handler finds that
\* event or none.
LEMMA HandsOverKeeps ==
    ASSUME IInv, EventInv, HandsOver
    PROVE  EventInv'
<1>1. NoTerminal /\ monitor' \in {"FAILED", "CANCELLED"}
  BY DEF EventInv, HandsOver, Early
<1>2. OnlyCompleted'
  <2>1. CASE log' = log
    BY <1>1, <2>1 DEF NoTerminal, OnlyCompleted
  <2>2. CASE AppendEvent("COMPLETED")
    <3>1. "COMPLETED" \in Events
      BY DEF Events, Terminals
    <3>2. \A i \in DOMAIN log' : log'[i] \in Terminals
            => i = Len(log) + 1 /\ log'[i] = "COMPLETED"
      BY <1>1, <2>2, <3>1, PlacesAfter DEF IInv, TypeOK, NoTerminal
    <3> QED
      BY <3>2 DEF OnlyCompleted
  <2> QED
    BY <2>1, <2>2 DEF HandsOver, MayAppend, AppendEvent
<1>3. \A i, j \in DOMAIN log' :
        {log'[i], log'[j]} \subseteq Terminals => i = j
  BY <1>2 DEF OnlyCompleted
<1>4. \A i, j \in DOMAIN log' : i < j => i # j
  BY DEF HandsOver, MayAppend, IInv, TypeOK
<1>5. TerminalEventAgrees'
  BY <1>1, <1>3, <1>4 DEF TerminalEventAgrees
<1> QED
  BY <1>1, <1>2, <1>5 DEF EventInv, HandsOver, Early

\* The event a monitor ends with is the only one, or stands beside
\* TASK_COMPLETED.
LEMMA EndsKeeps ==
    ASSUME IInv, EventInv, Ends
    PROVE  EventInv'
<1>1. /\ monitor \in Terminals /\ monitor \in Events /\ AppendEvent(monitor)
      /\ monitor' = "done" /\ status' = monitor
      /\ faults \in Nat /\ (faults > 0 => faults' > 0) /\ up' = up
      /\ monitor = "CANCELLED" => ~up
  BY TemporalHostAssumption DEF Ends, IInv, TypeOK, MonitorInv, Events,
                                TemporalHostAssumption
<1>2. /\ Len(log) \in Nat /\ DOMAIN log = 1..Len(log)
      /\ DOMAIN log' = 1..Len(log) + 1
      /\ \A i \in 1..Len(log) : log'[i] = log[i]
      /\ log'[Len(log) + 1] = monitor
  BY <1>1, PlacesAfter DEF IInv, TypeOK
<1>3. /\ monitor = "COMPLETED" => NoTerminal
      /\ monitor = "FAILED" => NoTerminal \/ (faults > 0 /\ OnlyCompleted)
      /\ monitor = "CANCELLED" => OnlyCompleted
  BY DEF EventInv, Early
<1>4. ASSUME faults' = 0, up'
      PROVE  OneTerminal'
  <2>1. NoTerminal
    BY <1>1, <1>3, <1>4 DEF Terminals
  <2>2. \A j \in DOMAIN log' : log'[j] \in Terminals => j = Len(log) + 1
    BY <1>2, <2>1 DEF NoTerminal
  <2>3. Len(log) + 1 \in DOMAIN log'
    BY <1>2
  <2> QED
    BY <1>1, <1>2, <2>2, <2>3 DEF OneTerminal
<1>5. ASSUME NEW i \in DOMAIN log', NEW j \in DOMAIN log', i < j,
             {log'[i], log'[j]} \subseteq Terminals
      PROVE  Supersedes(log[j], log[i])'
  <2>1. i \in DOMAIN log /\ log'[i] = log[i] /\ log[i] \in Terminals
    BY <1>2, <1>5
  <2>2. OnlyCompleted
    BY <1>1, <1>3, <2>1 DEF Terminals, NoTerminal
  <2>3. j = Len(log) + 1
    <3>1. j \in DOMAIN log => j = i
      BY <1>2, <1>5, <2>1, <2>2 DEF OnlyCompleted
    <3> QED
      BY <1>2, <1>5, <3>1
  <2>4. log[i] = "COMPLETED"
    BY <2>1, <2>2 DEF OnlyCompleted
  <2>5. \/ monitor = "FAILED" /\ faults > 0
        \/ monitor = "CANCELLED" /\ ~up
    BY <1>1, <1>3, <2>1 DEF Terminals, NoTerminal
  <2> QED
    BY <1>1, <1>2, <2>1, <2>3, <2>4, <2>5 DEF Supersedes
<1>6. TerminalEventAgrees'
  BY <1>1, <1>4, <1>5 DEF TerminalEventAgrees
<1> QED
  BY <1>1, <1>6 DEF EventInv, Early

\* A handler that ends without its event leaves the stored ones.
LEMMA EndsSilentlyKeeps ==
    ASSUME IInv, EventInv, EndsSilently
    PROVE  EventInv'
<1>1. \A i, j \in DOMAIN log' :
        i < j /\ {log'[i], log'[j]} \subseteq Terminals
          => Supersedes(log[j], log[i])'
  BY DEF EventInv, TerminalEventAgrees, EndsSilently, Supersedes
<1>2. monitor' = "done" /\ ~(faults' = 0 /\ up')
  BY DEF EndsSilently
<1> QED
  BY <1>1, <1>2 DEF EventInv, TerminalEventAgrees, Early

\* The events follow the monitor at any time.
THEOREM EventsFollow == Spec => []EventInv
<1>1. Init => EventInv
  BY DEF Init, EventInv, NoTerminal, TerminalEventAgrees
<1>2. IInv /\ EventInv /\ [Next]_vars => EventInv'
  <2>1. ASSUME IInv, EventInv, Next
        PROVE  EventInv'
    BY <2>1, StepKinds, NeutralKeeps, HandsOverKeeps, EndsKeeps,
       EndsSilentlyKeeps
  <2>2. ASSUME EventInv, UNCHANGED vars
        PROVE  EventInv'
    BY <2>2 DEF vars, task, EventInv, TerminalEventAgrees, OneTerminal,
                NoTerminal, OnlyCompleted, Supersedes
  <2> QED
    BY <2>1, <2>2
<1> QED
  BY <1>1, <1>2, HostInvariant, PTL DEF Spec

\* A task whose monitor is done has one terminal event, the one of its
\* status, if no call has failed and the host is up; a failure or a shutdown
\* at any await adds at most one, after TASK_COMPLETED (_monitor_task).
THEOREM OneTerminalEvent == Spec => []TerminalEventAgrees
<1>1. EventInv => TerminalEventAgrees
  BY DEF EventInv
<1> QED
  BY <1>1, EventsFollow, PTL

=============================================================================
