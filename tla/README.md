# TaskBridge: TLA+ models and proofs

TaskBridge lets an Android app start a long-running task on a FastAPI backend,
follow its events over WebSocket, SSE or polling, cancel it, and answer it when
it suspends for a decision. This directory holds TLA+ modules that model the
parts of the repository where the order of events matters, the TLC
configurations that check them on small instances, and proofs of the most
important results for instances of every size. Paths below are relative to the
repository's root; `services.py` and the other bare Python names are under
`backend/taskbridge-fastapi/taskbridge/`, bare Kotlin names under
`android/taskbridge-core/src/main/kotlin/io/github/nikkiw/taskbridge/`.

## The system

| Part | State it keeps | Operations | Hard behaviour |
|---|---|---|---|
| Action acceptance (`services.py` TaskActionService, suspension and receipt stores) | suspensions with a resume handoff, receipts | `submit_action` | concurrent and retried requests, expiry, a crash between the compare-and-set, the receipt, the event and the resume |
| Resume reconciliation and retention (`services.py`) | none of its own | `reconcile_pending_resumes`, `prune_expired_state` | works from a list read earlier, next to live requests and other reconcilers |
| Task creation and cancellation (`services.py`, `task_registry.py`) | task records | `create_task`, `cancel_task` | lookup and creation are two steps; cancellation races completion |
| Deterministic executor (`worker.py`, `fakes.py`) | runs, a cancellation set | `submit_task`, `request_cancellation`, the run | status and event are two writes; a run may die between them |
| Event store and stream endpoints (`event_store.py`, `handlers.py`, `stream_runtime.py`, `routes_ws.py`) | the event log of each task, a cursor per connection | append, read after, wait for, replay then live | replay to live hand-over, lost wake-ups, trimming and expiry, a client that goes while the session reads, terminal close |
| Temporal host (`examples/fastapi-host/app/`, `backend/adapters/temporal/`) | the task, its events, a workflow in the service, a review | submit, monitor, suspend, signal, cancel, shut down | three stores without a transaction; signals before the wait; a call that fails on either side of its effect |
| Stream observation on Android (`transport/`) | watermark, recent ids, channel, checkpoint | `observeTaskEvents` | fallback between transports, retries, backoff, buffered delivery, death of the app, several observers |
| Checkpoint store (`checkpoint/`) | one event id per task | load, save, clear | shared by observers, outlives the process |
| Suspension acknowledgements (`api/SuspensionAcknowledgementState.kt`) | keys of acknowledged suspensions | remember, isAcknowledged, clear, clearTask | key store and in-memory index are two writes |
| Client commands (`api/TaskBridgeClient.kt` `runCommand`) | none | create, cancel, submit with retries | a retry overlaps the request it repeats |
| HTTP routes, identity, ownership, readiness (`routes_http.py`, `dependencies.py`, `security.py`, `readiness.py`, the hosts' wirings) | none of its own | parse, resolve the caller, authorise, translate exceptions, probe | the order of the checks, four wirings, three transports |
| Observability | counters, log records | count, log | - |
| OkHttp binding, sample app, build logic, scripts, schemas | - | adapters and text processing | - |

The client's commands reach the services over HTTP. The services keep their
state in stores the host supplies, and call the host's executor and resume hook.
The executor writes the registry and the event store; the stream endpoints read
the event store from a cursor the client sends; the client derives that cursor
from its watermark or its checkpoint store. Every part is a set of coroutines
that can be suspended, cancelled or lost at each `await` or suspension point, and
this is where the models cut them.

What makes each part correct:

* acceptance: a suspension has one winning action; an answer given stays true;
  the host only ever resumes with the accepted command; a stored acceptance is
  eventually handed over;
* lifecycle: one task per client request id; a terminal status is final, agrees
  with the one terminal event and is announced;
* observation: every event once and in order; the checkpoint follows what was
  handed over; every observation ends;
* event store and endpoints: no reader misses or repeats a retained event, over
  any sequence of connections; none is left to its timeout; a connection closes
  normally only after the terminal event;
* Temporal host: the registry and the events say what became of the workflow; the
  accepted action, and only that, decides a review;
* front door: another's task is answered for like one that does not exist; the
  status of an answer says what the request changed.

## Modules

| Module | Models | Kind |
|---|---|---|
| `ActionAcceptance` | what accepting an action promises: resolve, record, announce, hand over, dispatch, expire | abstract specification |
| `NaturalLoops` | induction over the naturals and the existence of loops, for the proofs about sequences | lemmas |
| `TaskAction` | `submit_action`, `reconcile_pending_resumes`, `prune_expired_state`, cut at every await | detailed specification |
| `TaskActionProofs` | the inductive invariant of `TaskAction` and the safety theorems | proofs |
| `TaskActionRefinement` | `TaskAction` implements `ActionAcceptance` | proof |
| `StreamTransport` | the observation loop, its phases, retries, fallback and backoff, the flow's channel and collector, the checkpoint store | detailed specification |
| `StreamTransportProofs` | the inductive invariant of `StreamTransport` and its theorems | proofs |
| `TaskLifecycle` | `create_task`, `cancel_task` and the deterministic executor | detailed specification |
| `TaskLifecycleProofs` | the inductive invariant of `TaskLifecycle` and its theorems | proofs |
| `ResumableFeed` | what an event store and its endpoints promise an observer | abstract specification |
| `EventFeed` | the event stores and the WebSocket, SSE and polling sessions over them | detailed specification |
| `EventFeedProofs` | the inductive invariant of `EventFeed`, its theorems, and that it implements `ResumableFeed` | proofs |
| `TemporalHost` | the Temporal executor, its monitor, the workflow and the review of the example host | detailed specification, composing executor, suspension and action |
| `TemporalHostProofs` | the inductive invariant of `TemporalHost` and its theorems | proofs |
| `FrontDoor` | what the routes make of a request | specification over sequential requests |
| `FrontDoorProofs` | the inductive invariants of `FrontDoor`, what its two loops compute, and its theorems | proofs |
| `MCTaskAction`, `MCStreamTransport`, `MCTaskLifecycle`, `MCFrontDoor` | the instances TLC checks | model checking |

Definitions introduced as a *faulty variant* are not part of a specification.
Each is a plausible mistake in one operation, used to confirm that the property
it is paired with notices the mistake.

### TaskAction

A request is a program counter `pc[r]` over the awaits of `submit_action`
(`services.py:197-336`): suspension lookup, receipt lookup and validation,
compare-and-set, the re-reads of a request that lost, receipt, event, resume
hook, handoff mark. `seen[r]` is what it read and still acts upon. The stores
are `status`, `winner`, `handoff` and `due` for each suspension, `receipts`
by action identifier, the published acknowledgements `acks` and the calls
`resumed` of the host's hook. A reconciler pass holds the list it read and walks
it (`services.py:80-130`). `AbortRequest` and `AbortPass` stand for an exception
or a stop of the server at any await, bounded by `MaxFaults`; `Broken` is the set
of suspensions whose hook always raises. `HasHostResume` and `Hosted` say which
services the host wired with a resume hook of its own. A retry of a client is a second request
with the same command. Contents of a command are model values: `Disallowed`
ones the suspension does not allow, `A2ui` ones are of type `a2ui_action`,
`NoMetadata` ones carry no metadata.

| Property | Says |
|---|---|
| `AcceptanceExclusive` | at most one request is told ACCEPTED for a suspension, and it is the winner |
| `AcceptedIsDurable` | ACCEPTED and DEDUPLICATED are answered only when the receipt of that very command is stored |
| `RejectionsAreFinal` | a rejection remains true in every later state |
| `ResumedWithAcceptedCommand` | each call of the host's hook carries the winning, stored and resumable command |
| `ImplementsAcceptance` | every step is a step of `ActionAcceptance` or changes nothing it sees |
| `RecoveryGuaranteed` | once receipt and event are stored, the handoff is eventually closed |

### StreamTransport

`log` is the task's event log; the event with id *n* is its *n*-th, of kind
`event`, `terminal` or `malformed` (one the client cannot decode). Each
observation is a record: `mode` is where its coroutine is suspended, `transport`
and `attempt` place it in `runFastCycle` or `runProgressiveSticky`, `cursor` is
the watermark, `pos` what its connection handed over, `sent` and `taken` the
flow's channel. `RecentEventIds` is the last `RecentCapacity` ids of `sent`,
because an id is marked seen exactly when it is then sent. `Send`, `Save` and
`Clear` are the three suspension points of `emitObservedEvent`. The collector
(`Collect`) is the `transformWhile` of `TaskBridgeClient.kt:371-411`: it takes
events at its own pace and, on a terminal one, cancels the producer wherever it
is. `Cancel` stands for a cancelled collection and for the death of the app: the
channel is lost, the checkpoint stays. A phase fails in one of three ways, as
`TaskBridgeFailureClassifier` and `isFatalError` sort them. A connection, with
its threads, timers and incoming channel, is one step that delivers the next
event, ends, or fails. The server reads strictly after the cursor and keeps every
event; the tasks of the instances end within `MaxEvents` events.

| Property | Says |
|---|---|
| `ContiguousDelivery` | an observation delivers every well-formed event after its start, once, in order |
| `NoRepeats` | no observation delivers an event twice, although another one moves the shared checkpoint |
| `CheckpointWasSent` | every event up to the checkpoint was put into a flow, or left out by the caller's own event id |
| `ClosedAtTerminal` | a flow closes after the terminal event and leaves no checkpoint |
| `CheckpointOnlyAdvances` | until the terminal event the checkpoint never moves back |
| `UnfinishedObservationEnds` | an observation started before the terminal event completes or fails, unless it is cancelled or polls over malformed events |
| `ObservationEnds` | every observation ends: stated by the documentation, violated |

### TaskLifecycle

A task is named by the creation request that made it, as its uuid is fresh.
`registry` is the sequence of stored tasks: the lookup by client request id
returns the first in insertion order (`demo_adapters.py:60-66`). Creation
requests, cancellation requests and runs each have a program counter over the
awaits of `create_task`, `cancel_task` and `DeterministicFakeExecutor._run`.
`Failing` says which of them may raise or be lost, `MaxFaults` how often.

| Property | Says |
|---|---|
| `TerminalEventAgrees` | the terminal event is the last and says what the registry says |
| `TerminalIsFinal` | no step takes a task out of a terminal status |
| `CancellationHonest` | CANCELLED only after a recorded request; ALREADY_TERMINAL only of an ended task |
| `IdempotencyAnswersHold` | duplicates and conflicts are true of the registry, and a request begun after an answered one with its key stores nothing |
| `RunsEnd` | time and again every run that has begun has ended with its terminal event, or a call it made has failed |
| `OneTaskPerKey` | one task for one client request id: stated by the documentation, violated |

### EventFeed

The events of one task are numbered as they are appended; the store has dropped
the first `trimmed` of them. `store` is one of the three event stores: the Redis
Stream (`event_store.py`), which trims to `MaxLength` and may expire, and whose
blocking read returns when an event is there; the list with a `Condition`
(`01-minimal-greeter/app.py`), whose waiter must have been notified; the list
that is polled after a sleep (`examples/fastapi-host/app/demo_adapters.py`). A
session is one coroutine of `handlers.py` or `stream_runtime.py`: `pc[s]` is the
await it is suspended at, `cursor` the last event it handed on, `batch` what it
read and has not sent. `attached` are the sessions whose connection is up: a
client whose connection is lost comes back with its own last event as the
cursor, while the session it left still reads, waits and sends until an await
tells it. `received` is what a client got, one set for each frame or answer.

| Property | Says |
|---|---|
| `NoGapNoRepeat` | over all its connections a client gets no event twice and misses none the store kept |
| `NormalCloseIsFinal` | the normal close comes only after the terminal event |
| `NoLostWakeup` | a session blocked while unread events exist has been notified |
| `ImplementsFeed` | the stores and their sessions implement `ResumableFeed` |
| `EveryClientFinishes` | once the task has ended every client gets the terminal event, unless the stream expired |
| `OrphansEnd` | time and again no session is left whose client has gone |

### TemporalHost

One task on the host of `examples/fastapi-host`. The registry, the suspension and
the receipts are in the host's memory, the events in Redis, the workflow in the
Temporal service; each call between them is an action, and may fail before or
after its effect (`MaxFaults`). `creator` is the request in `submit_task`,
`monitor` the background task that narrates the workflow
(`temporal_streaming_executor.py:106-213`), `request[a]` the submission of an
action with the awaits of `submit_action` that matter here, `canceller` the
cancellation. `workflow`, `cancelling` and `decision` are the execution in the
service: a review waits until the signal has set `decision`.

`ShutDown` begins the end of the host: the event loop cancels every coroutine at the
await it is in, and each `Cut` action is one of them taking notice. A call that is
cut off may have had its effect or not, so an append (`MayAppend`) may have stored
its event: `append_event` awaits `EXPIRE` after `XADD` (`event_store.py:121-128`).
Where the monitor is inside its `try`, the handler of CancelledError writes
CANCELLED and appends TASK_CANCELLED, also when what was cut off is the append of
TASK_COMPLETED (`CutWatching`); a monitor in the handler of exceptions, or one that
has not run yet, just ends (`CutMonitor`). After `ShutDown` no call begins but the
append of that handler; the workflow goes on.

| Property | Says |
|---|---|
| `OutcomeAgrees` | COMPLETED only of a completed workflow; FAILED and CANCELLED have the causes the executor gives them |
| `TerminalEventAgrees` | while no call has failed and the host is up, a finished monitor leaves one terminal event, that of the status; failures and a shutdown at any await add at most one, after TASK_COMPLETED |
| `AcceptedActionDecides` | a completed review was decided by the accepted action |
| `SuspensionBeforeEvent` | whoever sees TASK_SUSPENDED finds the suspension |
| `TerminalIsFinal` | of the terminal statuses only COMPLETED is overwritten: by FAILED when the append of its event fails, by CANCELLED when a shutdown cuts that append off |
| `TaskEnds` | a task that nothing holds up gets its terminal event |
| `CancelledAsRequested` | a cancelled workflow is reported CANCELLED: stated by the documentation, violated |

### FrontDoor

One action per route and outcome, one request at a time: `mode` is the wiring of
resolver and ownership policy (the demo one, Firebase, a host's own, and the
package's default that allows nothing), `tasks` the registry, where a task also has
`requested`, its `cancellation_requested`; `receipts` are the stored receipts of
actions, by task and client action id; `exchange` is the last request and its answer. `CreateError` is the order of the checks of a creation:
identity, parsing of body or form, attachments, ownership, idempotency. A
cancellation records its request before it asks the executor, which may raise: its
answer is then 500, and the request is recorded all the same (`CancelOutcomes`). An
action may be refused, accepted, or raise before or after its receipt is stored
(`ActionOutcomes`, `ReceiptsAfter`). How suspensions and events change behind these
routes, when a receipt expires, and how the services interleave is the subject of
`TaskAction`, `TaskLifecycle` and `EventFeed`.

| Property | Says |
|---|---|
| `ForeignLikeUnknown` | on every route another's task is answered for like an unknown one, and only the owner is served |
| `UploadsBounded` | a stored attachment is of an allowed type and size and has a one-segment name |
| `KeyIsSpent` | successive requests never make two tasks of one owner under one key, not even after a failed submission |
| `AnswerTellsOutcome` | 201 and 503 of a creation have added one task; 202 and 500 of a cancellation have at most recorded its request, those of an action at most stored its receipt, in each case for a task of the caller; any other answer changed neither registry nor receipts; 200 from readiness means all probes are well |

## Runs

Every configuration names its bounds. The runs with `CHECK_DEADLOCK FALSE` are
those of systems that stop when every request is answered or every event is
delivered.

| Run | Instance | Shows |
|---|---|---|
| `action_safety` | three requests (a retry, a competing command and an A2UI command among them), two reconcilers without a host hook, one suspension, policy, one fault | exclusive, durable and final answers; the inductive invariant; `TaskAction` implements `ActionAcceptance` |
| `action_recovery` | two requests, one reconciler, two suspensions, policy without a host hook, every early return, two faults, fairness | recovery after the faults; the hook is only given accepted, resumable commands |
| `action_broken_hook` | one hook raises always | violation: the other suspension is never retried |
| `stream_resume` | one observer, sticky strategy, four events, malformed ones among them, pages of two, four faults, one cancellation, fairness | delivery and checkpoint safety; observations end |
| `stream_shared` | two observers, fast cycle, four events, window of two ids, an explicit event id, one fault | no repetition across a shared checkpoint |
| `stream_uncleared` | no fault at all | violation: the terminal id stays stored and the next observation never ends |
| `lifecycle_cancel` | a request, its retry, an edited retry whose run fails, a cancellation, one fault anywhere, fairness | status, event and answers agree; runs end |
| `lifecycle_race` | a request and its overlapping retry | violation: two tasks |
| `feed` | one client, two sessions, three transports, three stores, three events of which two are kept, batches of two, one lost connection or refusal, fairness | no gap, no repetition, every client finishes; `EventFeed` implements `ResumableFeed` |
| `temporal_host` | the three task types, two competing actions, a cancellation, a shutdown at any await, two failing calls, fairness | status, events and review agree with the workflow; tasks end |
| `temporal_cancel` | no fault at all | violation: a cancelled workflow is reported FAILED |
| `front_door` | two users, four wirings, two keys, an input and what does not parse, four attachment lists, two tasks, one action id; symmetric in the users | who is served, what is stored, which status answers |

Why the bounds are enough to be interesting. Two requests can race for one
compare-and-set, a third is needed for a retry of the loser to meet the winner's
receipt. In `action_safety` two reconcilers make a stale list; in
`action_recovery` two suspensions let one handoff wait behind another, and two
faults strike one after the other. Four faults take a sticky observation through WebSocket, SSE
and polling into backoff and beyond; four events exceed a page, the channel and,
in `stream_shared`, the window. Two sessions are the one a client lost and the one
it came back with; three events with two kept make a batch, a rest, and a cursor
behind what was trimmed. Two failing calls reach the handler of a failure and
fail there too. One fault may strike at any await of any coroutine.

Fairness. `TaskAction`'s `FairSpec` runs requests and reconcilers whenever they
can move: their awaits complete, and the host calls the reconciler periodically,
as its documentation asks. Faults are not fair. In `StreamTransport` the
coroutine of an observation and its collector are weakly fair, as a dispatcher
is, and the task goes on appending until it ends; failures and endings of
connections are not fair. In `TaskLifecycle` the event loop resumes every
coroutine. In `EventFeed` a session whose await completed goes on, and a blocked
wait ends with its notification or its timeout (weak fairness); the socket of a
client that has gone reports it, and a client that is not done connects again,
both strongly fair, as the session they need comes and goes. In `TemporalHost` the
worker runs what the service schedules and the event loop resumes the host's
coroutines; nobody has to cancel, to submit an action or to stop the host.

## What the violated runs say

Each violated run states a sentence of the repository's documentation, and the
counterexample is a behaviour of the code.

* `action_broken_hook`: the reconciliation loop has no `try` around the hook
  (`services.py:113`); one that raises ends every pass before the rest.
* `stream_uncleared`: the collector's `transformWhile` cancels the producer
  between saving and clearing the terminal event's id.
* `lifecycle_race`: lookup and creation are not atomic and no uniqueness is asked
  of the registry.
* `temporal_cancel`: the result of a cancelled workflow raises in the monitor, and
  the handler of exceptions writes FAILED and TASK_FAILED
  (`temporal_streaming_executor.py:175`).

What else the models show. The bounds and properties of the passing runs leave
out behaviour of the code that a reader should know of:

* with an explicit event id, `ContiguousDelivery` does not hold:
  `applyTransportBackoff` prefers the stored checkpoint to the watermark, also
  when the caller overrode the store, so a backoff may go back to, or skip to, the
  checkpoint of an earlier observation;
* with malformed events, `UnfinishedObservationEnds` does not hold: a polling
  response that holds nothing else neither moves the cursor nor counts as a
  failure, and is requested again for ever;
* for two observers neither of the two holds: the slower one, backing off to the
  faster one's checkpoint, skips the events between, and waits for ever if that
  checkpoint is the terminal event's;
* `NoRepeats` needs a window that covers how far one observation may move the
  checkpoint back for another: a slow observation saves the id it has just sent,
  whatever the checkpoint is (`TaskBridgeStreamTransport.kt:296`), and a fast one that then backs
  off replays from there. With a window of one id and the four events of
  `stream_shared` TLC finds an event delivered twice; the code's window is 256 ids;
* `CheckpointWasSent` stops at the flow's channel: `send` returns when the event is
  buffered, so an app that dies may have saved a checkpoint past events its
  collector did not take;
* `TerminalEventAgrees` allows a terminal status without an event: a failed
  submission (`services.py:442`) writes FAILED and appends nothing;
* two commands with one `client_action_id` for two suspensions, submitted at the
  same time, are both accepted, and the second receipt overwrites the first: the
  receipt is looked up (`services.py:226`) before, and saved after, the
  compare-and-set of another key. The proofs exclude it by `UniqueActionIds`;
* on the Temporal host an action may be accepted after the terminal event of its
  task; a handoff whose signal failed stays pending, as that host runs no
  reconciler; a COMPLETED task turns FAILED when the append of its terminal event
  raises, although `TaskStatus.is_terminal` (`models.py`) calls the status final;
  and a restart loses the registry, which is in memory, while workflow and events
  survive;
* on that host a shutdown that meets the append of TASK_COMPLETED may leave
  TASK_COMPLETED followed by TASK_CANCELLED, with no call failing
  (`temporal_streaming_executor.py:162-174`); one that meets the append of
  TASK_FAILED in the handler may leave FAILED without an event; one that meets the
  creating request, or a monitor that has not run yet, leaves the task ACCEPTED or
  RUNNING while its workflow goes on. `executor-integration.md:18` says that status
  and event must align; `TerminalEventAgrees` says it of a host that is up;
* a cancellation answered 500, because the executor raised, has recorded
  `cancellation_requested` (`services.py:596`), so the client that takes the answer
  for a refusal is mistaken; an action answered 500 may have stored its receipt;
* a cancellation is counted twice (`routes_http.py:195` and `services.py:599`);
* with Firebase a WebSocket knows nobody, so a socket is closed with 1008 for
  every task; a JSON body that does not validate is answered 500, outside the
  error envelope; a blank `clientRequestId` is accepted in JSON and refused in a
  form.

## Proofs

`TaskActionProofs` proves, for every set of requests, reconcilers, suspensions,
commands and every number of faults, that `IInv` is an invariant, and from it
`TypeOK`, `AcceptanceExclusive`, `AcceptedIsDurable`, `RejectionsAreFinal` and
`ResumedWithAcceptedCommand`. `TaskActionRefinement` proves `Spec =>
ImplementsAcceptance`.

None of the safety properties is inductive: an answer at one program counter
rests on what the request read several steps earlier. `IInv` closes the gap. It
ties every program counter to the stores: a request past the compare-and-set is
the winner of its suspension and is the only one; a request past the receipt
finds its own command there; what a request or a reconciler holds in `seen` is
still what is stored, or has been overtaken in one of the ways its later steps
allow for; a handoff is PENDING only with a winner, DISPATCHED only after a
resume. The proof of its preservation has one lemma per action and one step for
each conjunct the action can disturb. Each theorem is then a consequence of
`IInv` in one state, and, for the refinement, of one step under `IInv`.

The assumptions are the constants' types and `UniqueActionIds`: commands with
one action identifier are for one suspension. Receipts are never overwritten by
another command under it, and the theorems need nothing else.

`TaskLifecycleProofs` proves, for any requests, cancellations, commands, length
of a run and number of faults, `TypeOK`, `TerminalEventAgrees`,
`CancellationHonest`, `IdempotencyAnswersHold` and the action property
`TerminalIsFinal`. Its invariant says of each run what it has written by the point
it has reached (`RunOK`: RUNNING until it settles, no terminal event before it has
ended, CANCELLED only on request), of each creation request what it knows
(`CreatorOK`: whoever was answered finds its task stored; a request that began
after another with its key was answered cannot store one), and that the executor
is told only of recorded cancellations (`SignalOK`). A request that is not
answered has no run: this is why the steps of a run, whose lemmas go through
`RunStepNext`, disturb no request. Two lemmas are about sequences: what an append
adds to the stored tasks, and that the lookup's first match exists, which rests
on the least element of a set of naturals (`LeastNatural` of `NaturalLoops`).

`StreamTransportProofs` has two kinds of theorem. For any number of observations
of one task, explicit event ids among them, it proves `TypeOK` and
`CheckpointWasSent`, and that an observation that completed had sent the terminal
event last (`CompletesAtTerminal`). The invariant behind them says, at each
suspension point of an observation, that every event up to its watermark was put
into a flow by somebody, is malformed, or was left out by a caller's event id
(`Reached`, `ProgressOK`); the shared checkpoint is only ever moved to such a
watermark, so it may be adopted by another observation's backoff.
The others need a hypothesis, since a second observation or a caller's event id
makes them false, as the section above tells. `ContiguousDelivery` and
`CheckpointOnlyAdvances` are proved under `Alone`: one observer of the task, who
starts from the stored checkpoint. The invariant is then that the checkpoint is the
last event sent, except between sending and saving, and that only malformed events
lie between that event and the position of the connection (`AloneOK`). An event id
other than the checkpoint breaks the first, one before it the second. `ClosedAtTerminal` and
`NoRepeats` are proved under `Single`: one observer, from whichever event. Once the
observation has sent something the checkpoint is what it sent last, so a backoff
returns there, and what comes in lies above all it has sent (`SingleOK`). With two
observers `ClosedAtTerminal` is false, because the slower one saves after the faster
one has cleared; `NoRepeats` is proved for any number of them when the window holds
the ids of a whole log (`RecentCapacity >= MaxEvents`; the window has 256 in the
code), by counting. Its core, `RepeatsAreFarApart`, has no such hypothesis: two sends
of one id are more than `RecentCapacity` sends apart.

`EventFeedProofs` proves, for any clients, sessions, stores, bounds and lost
connections, `TypeOK`, `NoGapNoRepeat`, `NormalCloseIsFinal`, `NoLostWakeup`, and
that `Spec` implements `ResumableFeed`. What makes them inductive: each frame a
client received is an interval of event numbers that continues the frame before
it, or begins where the store had dropped what lay between (`Continues`); a
connected session's batch continues what its client has received in the same
sense, and its cursor is the end of the one or the other (`AttachedOK`); a client
has one connection at a time (`OneConnection`); a session that lost its client may
hold anything, since nothing it sends is received. The refinement maps `got` to the
union of a client's frames; that a step of a session hands over what the feed
allows follows from the maximum of that union being the end of the last frame.

`TemporalHostProofs` proves, for any set of actions, any types and any number of
failing calls, `TypeOK`, `OutcomeAgrees`, `AcceptedActionDecides`,
`SuspensionBeforeEvent`, `TerminalEventAgrees` and `TerminalIsFinal`. The invariant
adds where the creating request and the monitor stand relative to status and
workflow (`CreatorInv`, `MonitorInv`) and that only the holder of the accepted
action is past the compare-and-set (`ReviewInv`). `TerminalEventAgrees` needs to
know what each handler of the monitor finds in the log when it starts (`EventInv`):
nothing terminal, or TASK_COMPLETED alone, which the handler of exceptions finds
only after a failed call. Every step is of one of four kinds (`StepKinds`): it
stores no terminal event and ends no handler (`Neutral`), it leaves an append of
TASK_COMPLETED that did not return to a handler (`HandsOver`), it ends the monitor
with the event of its status (`Ends`), or without one because a call failed or the
host went down (`EndsSilently`). Each kind has a lemma.

`FrontDoorProofs` proves `KeyIsSpent`, `ForeignLikeUnknown`, `TypeOK`,
`UploadsBounded` and `AnswerTellsOutcome` for any users, keys, inputs, attachment
lists and wirings. The first two and the type of the registry are inductive
together: a creation stores a record only when the lookup found none, and every
route that serves a task has looked it up as its caller's; that a cancellation
writes to the registry disturbs neither, as it leaves every other field of every
task alone (`Kept`). `AnswerTellsOutcome` compares the registry and the receipts
before and after each route with what its answer says: `CancelTaskTells` and
`SubmitActionTells` are about the two that change something without adding a task.
It rests, as `TypeOK` and `UploadsBounded` do, on `FieldsOK`: every stored task is
sound, which for its attachments is a fact about the loop over the fields of a form,
as readiness is one about the loop over the probes. Both loops are recursive
functions, and what they compute is proved for lists of every length by
`SetInduction` of `NaturalLoops`: a set of naturals with 0 and the successor of each
of its members is all of them, as its complement would have a least element
(`LeastNatural`, from `WFMin` of the library). `LoopExists` shows that such a
function exists, without which its recursive equation could not be used.

Apart from the hypotheses named here the proofs assume of the constants what the
modules' ASSUMEs say: their types; `UniqueActionIds`; for `EventFeed` at least one
client and one transport; for the lists of `FrontDoor` that they are lists.

Only model-checked, because liveness is out of the prover's reach:
`RecoveryGuaranteed`, `UnfinishedObservationEnds`, `RunsEnd`,
`EveryClientFinishes`, `OrphansEnd` and `TaskEnds`. So is `NoRepeats` for two
observations whose window is smaller than their log, within the bounds of
`stream_shared`.

## Not modelled

* Formatting, the wording of errors, logging, metrics: nothing reads them.
* Delays and time-outs as durations: they are steps that may happen at any time.
* The threads and incoming channels inside one connection of the client, and the
  OkHttp binding: a connection is one step that delivers, ends or fails.
* Suspension acknowledgements (`SuspensionAcknowledgementState.kt`): a key per
  answered suspension and its index in memory. The race of `remember` with
  `clearTask` leaves a key of a finished task, which is true and which nothing
  reads.
* On the Temporal host, cancellation modes other than the default one, and
  `events.py` of the adapter, which the host does not use.
* The in-memory stores' behaviour across a restart of the process: they lose
  everything, and so does a model that starts again.
* Protocol schemas and their validator, the sample app, build logic, release and
  documentation scripts: documents, user interface and text processing.

## Plan

Done: all modules above; every safety property and every action property that the
passing runs check is stated by a theorem, and both abstract specifications are
shown to be implemented. What is left:

1. An abstract specification of `TaskLifecycle`, of tasks with a status and a
   terminal event, and the proof that the detailed one implements it.
2. `NoRepeats` for two observations from a bound on how far the checkpoint goes
   back, in place of the length of the log.
