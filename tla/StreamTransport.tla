--------------------------- MODULE StreamTransport --------------------------
(***************************************************************************)
(* TaskBridgeStreamTransport: how the Android SDK observes the events of   *)
(* one task.  An observation walks the transports WebSocket, SSE and       *)
(* polling, resumes each of them after the last event it saw, drops what   *)
(* it saw already, hands events to the collector of a flow through the     *)
(* flow's channel, and keeps a checkpoint in a store that outlives it.     *)
(* The event with id n is the n-th of the task's log; 0 stands for null.   *)
(* A cancelled collection and the death of the app's process leave the     *)
(* same trace: the checkpoint survives, the channel does not.              *)
(***************************************************************************)
EXTENDS Integers, Sequences

CONSTANTS
    Observers,        \* concurrent observations of the task
    Strategy,         \* FallbackStrategy
    MaxAttempts,      \* wsMaxAttempts = sseMaxAttempts
    PollMaxEvents,    \* events in one polling response
    BufferCapacity,   \* of the flow's channel
    RecentCapacity,   \* of RecentEventIds
    MaxMalformed,     \* maxMalformedPayloadsBeforeFailure
    Kinds,            \* what a task may append to its log
    ExplicitCursors,  \* event ids a caller may pass as lastEventId
    MaxEvents,        \* bound on the log
    MaxFaults,        \* bound on connection and store failures
    MaxCancels        \* bound on cancelled collections

Strategies == {"FAST_CYCLE", "PROGRESSIVE_STICKY"}
EventKinds == {"event", "terminal", "malformed"}

ConstantsAssumption ==
    /\ Strategy \in Strategies
    /\ {MaxAttempts, PollMaxEvents, BufferCapacity, RecentCapacity}
          \subseteq Nat \ {0}
    /\ Kinds \subseteq EventKinds
    /\ ExplicitCursors \subseteq 1..MaxEvents
    /\ {MaxMalformed, MaxEvents, MaxFaults, MaxCancels} \subseteq Nat

ASSUME ConstantsAssumption

VARIABLES
    log,         \* the kinds of the task's events, in the order of their ids
    checkpoint,  \* the stored event id
    obs,         \* the observations
    emitted,     \* the events any observation put into its channel
    faults, cancels

vars == <<log, checkpoint, obs, emitted, faults, cancels>>

Transports == {"ws", "sse", "poll"}
Modes == {"idle", "load", "connect", "collect", "send", "save", "clear",
          "backoff", "closed", "finished", "failed"}
Ids == 1..MaxEvents
Cursors == 0..MaxEvents

Observation ==
    [mode : Modes,
     transport : Transports,
     attempt : 0..MaxAttempts,   \* failed attempts on the transport
     start : Cursors,            \* the event it began after
     cursor : Cursors,           \* the watermark
     pos : Cursors,              \* the last event its connection handed over
     horizon : Cursors,          \* the last event its connection can reach
     malformed : 0..MaxMalformed,
     sent : Seq(Ids),            \* the events it put into its channel
     taken : Nat]                \* how many of them the collector took

TypeOK ==
    /\ log \in Seq(EventKinds)
    /\ checkpoint \in Cursors
    /\ obs \in [Observers -> Observation]
    /\ emitted \subseteq Ids
    /\ faults \in 0..MaxFaults
    /\ cancels \in 0..MaxCancels

Fresh ==
    [mode |-> "idle", transport |-> "ws", attempt |-> 0, start |-> 0,
     cursor |-> 0, pos |-> 0, horizon |-> 0, malformed |-> 0,
     sent |-> <<>>, taken |-> 0]

Init ==
    /\ log = <<>>
    /\ checkpoint = 0
    /\ obs = [o \in Observers |-> Fresh]
    /\ emitted = {}
    /\ faults = 0
    /\ cancels = 0

Smaller(m, n) == IF m < n THEN m ELSE n
TaskEnded == \E n \in DOMAIN log : log[n] = "terminal"
Become(o, observation) == obs' = [obs EXCEPT ![o] = observation]
Undrained(o) == obs[o].taken < Len(obs[o].sent)
Fault == faults < MaxFaults /\ faults' = faults + 1

-----------------------------------------------------------------------------
(* The task appends events; nothing follows a terminal one, for which the  *)
(* bound leaves room.                                                      *)

AppendEvent(kind) ==
    /\ Len(log) < MaxEvents
    /\ Len(log) + 1 = MaxEvents => kind = "terminal"
    /\ ~TaskEnded
    /\ log' = Append(log, kind)
    /\ UNCHANGED <<checkpoint, obs, emitted, faults, cancels>>

-----------------------------------------------------------------------------
(* The observation starts from the caller's event id or the checkpoint.    *)

Observe(o, after) ==
    /\ obs[o].mode \in {"idle", "finished", "failed"}
    /\ obs[o].mode = "failed" => ~Undrained(o)
    /\ after <= Len(log)
    /\ Become(o, [Fresh EXCEPT !.mode = "load", !.start = after])
    /\ UNCHANGED <<log, checkpoint, emitted, faults, cancels>>

(* Faulty variant of Load: the stored checkpoint is not read.              *)
LoadIgnoringCheckpoint(o) ==
    /\ obs[o].mode = "load"
    /\ Become(o, [obs[o] EXCEPT !.mode = "connect", !.cursor = obs[o].start])
    /\ UNCHANGED <<log, checkpoint, emitted, faults, cancels>>

Load(o) ==
    LET first == IF obs[o].start # 0 THEN obs[o].start ELSE checkpoint IN
    /\ obs[o].mode = "load"
    /\ Become(o, [obs[o] EXCEPT !.mode = "connect", !.start = first,
                                !.cursor = first])
    /\ UNCHANGED <<log, checkpoint, emitted, faults, cancels>>

-----------------------------------------------------------------------------
(* A connection hands over what follows the cursor it was opened with: a   *)
(* stream whatever the log gets, a polling response a page of what it has. *)

(* Faulty variant of Connect: the stream resumes at its last event.        *)
ConnectInclusive(o) ==
    /\ obs[o].mode = "connect"
    /\ obs[o].transport \in {"ws", "sse"}
    /\ Become(o, [obs[o] EXCEPT
           !.mode = "collect", !.horizon = MaxEvents,
           !.pos = IF obs[o].cursor = 0 THEN 0 ELSE obs[o].cursor - 1])
    /\ UNCHANGED <<log, checkpoint, emitted, faults, cancels>>

Connect(o) ==
    /\ obs[o].mode = "connect"
    /\ obs[o].transport \in {"ws", "sse"}
    /\ Become(o, [obs[o] EXCEPT !.mode = "collect", !.pos = obs[o].cursor,
                                !.horizon = MaxEvents])
    /\ UNCHANGED <<log, checkpoint, emitted, faults, cancels>>

AwaitsPoll(o) ==
    /\ obs[o].transport = "poll"
    /\ \/ obs[o].mode = "connect"
       \/ obs[o].mode = "collect" /\ obs[o].pos = obs[o].horizon

(* Faulty variant of Poll: the newest event is left for the next response. *)
PollBeforeLast(o) ==
    /\ AwaitsPoll(o)
    /\ obs[o].cursor < Len(log) - 1
    /\ Become(o, [obs[o] EXCEPT
           !.mode = "collect", !.pos = obs[o].cursor,
           !.horizon = Smaller(Len(log) - 1, obs[o].cursor + PollMaxEvents)])
    /\ UNCHANGED <<log, checkpoint, emitted, faults, cancels>>

Poll(o) ==
    /\ AwaitsPoll(o)
    /\ obs[o].cursor < Len(log)
    /\ Become(o, [obs[o] EXCEPT
           !.mode = "collect", !.pos = obs[o].cursor,
           !.horizon = Smaller(Len(log), obs[o].cursor + PollMaxEvents)])
    /\ UNCHANGED <<log, checkpoint, emitted, faults, cancels>>

Incoming(o) == obs[o].pos + 1
Delivers(o) ==
    /\ obs[o].mode = "collect"
    /\ Incoming(o) <= Smaller(Len(log), obs[o].horizon)

(* Faulty variant of ReceiveMalformed: one malformed payload too many.     *)
ReceiveMalformedOnceMore(o) ==
    LET tolerated == obs[o].transport = "poll"
                     \/ obs[o].malformed <= MaxMalformed
        counted == IF obs[o].transport = "poll" \/ ~tolerated THEN 0 ELSE 1 IN
    /\ Delivers(o)
    /\ log[Incoming(o)] = "malformed"
    /\ Become(o, [obs[o] EXCEPT
           !.mode = IF tolerated THEN "collect" ELSE "failed",
           !.pos = Incoming(o), !.malformed = @ + counted])
    /\ UNCHANGED <<log, checkpoint, emitted, faults, cancels>>

ReceiveMalformed(o) ==
    LET tolerated == obs[o].transport = "poll"
                     \/ obs[o].malformed < MaxMalformed
        counted == IF obs[o].transport = "poll" \/ ~tolerated THEN 0 ELSE 1 IN
    /\ Delivers(o)
    /\ log[Incoming(o)] = "malformed"
    /\ Become(o, [obs[o] EXCEPT
           !.mode = IF tolerated THEN "collect" ELSE "failed",
           !.pos = Incoming(o), !.malformed = @ + counted])
    /\ UNCHANGED <<log, checkpoint, emitted, faults, cancels>>

-----------------------------------------------------------------------------
(* emitObservedEvent                                                       *)

(* Faulty variant of Recent: one event id too few.                         *)
RecentTooShort(o) ==
    {obs[o].sent[i] : i \in {j \in DOMAIN obs[o].sent :
                               j > Len(obs[o].sent) - RecentCapacity + 1}}

Recent(o) ==
    {obs[o].sent[i] : i \in {j \in DOMAIN obs[o].sent :
                               j > Len(obs[o].sent) - RecentCapacity}}
Terminal(id) == log[id] = "terminal"

ReceiveDuplicate(o) ==
    /\ Delivers(o)
    /\ Incoming(o) \in Recent(o)
    /\ Become(o, [obs[o] EXCEPT
           !.mode = IF Terminal(Incoming(o)) THEN "closed" ELSE "collect",
           !.cursor = Incoming(o), !.pos = Incoming(o)])
    /\ UNCHANGED <<log, checkpoint, emitted, faults, cancels>>

(* Faulty variant of ReceiveNew: the checkpoint is saved before the send.  *)
ReceiveNewSaved(o) ==
    /\ Delivers(o)
    /\ log[Incoming(o)] # "malformed"
    /\ Incoming(o) \notin Recent(o)
    /\ checkpoint' = Incoming(o)
    /\ Become(o, [obs[o] EXCEPT !.mode = "send", !.cursor = Incoming(o),
                                !.pos = Incoming(o)])
    /\ UNCHANGED <<log, emitted, faults, cancels>>

ReceiveNew(o) ==
    /\ Delivers(o)
    /\ log[Incoming(o)] # "malformed"
    /\ Incoming(o) \notin Recent(o)
    /\ Become(o, [obs[o] EXCEPT !.mode = "send", !.cursor = Incoming(o),
                                !.pos = Incoming(o)])
    /\ UNCHANGED <<log, checkpoint, emitted, faults, cancels>>

Send(o) ==
    /\ obs[o].mode = "send"
    /\ Len(obs[o].sent) - obs[o].taken < BufferCapacity
    /\ Become(o, [obs[o] EXCEPT !.mode = "save",
                                !.sent = Append(@, obs[o].cursor)])
    /\ emitted' = emitted \cup {obs[o].cursor}
    /\ UNCHANGED <<log, checkpoint, faults, cancels>>

Save(o) ==
    /\ obs[o].mode = "save"
    /\ checkpoint' = obs[o].cursor
    /\ Become(o, [obs[o] EXCEPT
           !.mode = IF Terminal(obs[o].cursor) THEN "clear" ELSE "collect"])
    /\ UNCHANGED <<log, emitted, faults, cancels>>

(* Faulty variant of Clear: the checkpoint of an ended task is kept.       *)
ClearNothing(o) ==
    /\ obs[o].mode = "clear"
    /\ Become(o, [obs[o] EXCEPT !.mode = "closed"])
    /\ UNCHANGED <<log, checkpoint, emitted, faults, cancels>>

Clear(o) ==
    /\ obs[o].mode = "clear"
    /\ checkpoint' = 0
    /\ Become(o, [obs[o] EXCEPT !.mode = "closed"])
    /\ UNCHANGED <<log, emitted, faults, cancels>>

StoreFails(o) ==
    /\ \/ obs[o].mode \in {"save", "clear", "backoff"}
       \/ obs[o].mode = "load" /\ obs[o].start = 0
    /\ Become(o, [obs[o] EXCEPT !.mode = "failed"])
    /\ Fault
    /\ UNCHANGED <<log, checkpoint, emitted, cancels>>

-----------------------------------------------------------------------------
(* How a phase ends, and what the cycle and the loop around it do then.    *)

FallBack(o) ==
    Become(o, [obs[o] EXCEPT
        !.mode = "connect", !.attempt = 0,
        !.transport = IF @ = "ws" THEN "sse" ELSE "poll"])

StreamEnds(o) ==
    /\ obs[o].mode = "collect"
    /\ obs[o].transport \in {"ws", "sse"}
    /\ FallBack(o)
    /\ UNCHANGED <<log, checkpoint, emitted, faults, cancels>>

Phase(o) == AwaitsPoll(o) \/ /\ obs[o].mode \in {"connect", "collect"}
                             /\ obs[o].transport \in {"ws", "sse"}

RetriesPhase(o) ==
    /\ Strategy = "PROGRESSIVE_STICKY"
    /\ obs[o].attempt + 1 < MaxAttempts

PhaseRetryable(o) ==
    /\ Phase(o)
    /\ \/ /\ obs[o].transport = "poll"
          /\ Become(o, [obs[o] EXCEPT !.mode = "backoff"])
       \/ /\ obs[o].transport # "poll"
          /\ RetriesPhase(o)
          /\ Become(o, [obs[o] EXCEPT !.mode = "connect", !.attempt = @ + 1])
       \/ /\ obs[o].transport # "poll"
          /\ ~RetriesPhase(o)
          /\ FallBack(o)
    /\ Fault
    /\ UNCHANGED <<log, checkpoint, emitted, cancels>>

PhaseRejected(o) ==
    /\ Phase(o)
    /\ IF obs[o].transport = "poll"
         THEN Become(o, [obs[o] EXCEPT !.mode = "failed"])
         ELSE FallBack(o)
    /\ Fault
    /\ UNCHANGED <<log, checkpoint, emitted, cancels>>

PhaseFatal(o) ==
    /\ Phase(o)
    /\ Become(o, [obs[o] EXCEPT !.mode = "failed"])
    /\ Fault
    /\ UNCHANGED <<log, checkpoint, emitted, cancels>>

Backoff(o) ==
    /\ obs[o].mode = "backoff"
    /\ Become(o, [obs[o] EXCEPT
           !.mode = "connect", !.transport = "ws", !.malformed = 0,
           !.cursor = IF checkpoint # 0 THEN checkpoint ELSE @])
    /\ UNCHANGED <<log, checkpoint, emitted, faults, cancels>>

-----------------------------------------------------------------------------
(* The collector takes events until a terminal one, and then cancels the   *)
(* observation whatever it is doing.                                       *)

Collect(o) ==
    LET id == obs[o].sent[obs[o].taken + 1] IN
    /\ obs[o].mode \notin {"idle", "finished"}
    /\ Undrained(o)
    /\ Become(o, [obs[o] EXCEPT
           !.taken = @ + 1, !.mode = IF Terminal(id) THEN "finished" ELSE @])
    /\ UNCHANGED <<log, checkpoint, emitted, faults, cancels>>

Cancel(o) ==
    /\ obs[o].mode \notin {"idle", "finished"}
    /\ cancels < MaxCancels
    /\ cancels' = cancels + 1
    /\ Become(o, Fresh)
    /\ UNCHANGED <<log, checkpoint, emitted, faults>>

-----------------------------------------------------------------------------
Works(o) ==
    \/ Load(o) \/ Connect(o) \/ Poll(o)
    \/ ReceiveMalformed(o) \/ ReceiveDuplicate(o) \/ ReceiveNew(o)
    \/ Send(o) \/ Save(o) \/ Clear(o) \/ Backoff(o)

Disturbed(o) ==
    \/ StoreFails(o) \/ StreamEnds(o) \/ Cancel(o)
    \/ PhaseRetryable(o) \/ PhaseRejected(o) \/ PhaseFatal(o)

Next ==
    \/ \E kind \in Kinds : AppendEvent(kind)
    \/ \E o \in Observers :
         \/ \E after \in ExplicitCursors \cup {0} : Observe(o, after)
         \/ Works(o)
         \/ Collect(o)
         \/ Disturbed(o)

Spec == Init /\ [][Next]_vars

(* The observation's coroutine and its collector run while they can, and   *)
(* the task goes on until it ends.                                         *)
FairSpec ==
    /\ Spec
    /\ WF_vars(\E kind \in Kinds : AppendEvent(kind))
    /\ \A o \in Observers : WF_vars(Works(o)) /\ WF_vars(Collect(o))

-----------------------------------------------------------------------------
(* Properties.                                                             *)

Malformed(id) == log[id] = "malformed"
Previous(o, i) == IF i = 1 THEN obs[o].start ELSE obs[o].sent[i - 1]
Over(o) == obs[o].mode \in {"closed", "finished"}

(* Whatever connections failed and however often it resumed, backed off or *)
(* changed transports, an observation delivers every well-formed event     *)
(* after the one it started from, once and in order: nothing is skipped by *)
(* the watermark and nothing comes twice (runObservationLoop,              *)
(* emitObservedEvent, applyTransportBackoff).                              *)
ContiguousDelivery ==
    \A o \in Observers : \A i \in DOMAIN obs[o].sent :
        /\ Previous(o, i) < obs[o].sent[i]
        /\ \A id \in Previous(o, i) + 1 .. obs[o].sent[i] - 1 : Malformed(id)

(* No observation hands over an event twice, although another observation  *)
(* of the task moves the checkpoint it backs off to (RecentEventIds).      *)
NoRepeats ==
    \A o \in Observers : \A i, j \in DOMAIN obs[o].sent :
        obs[o].sent[i] = obs[o].sent[j] => i = j

(* The checkpoint never passes an event that was not put into a flow: an   *)
(* app that restarts from it misses nothing it was not handed, but for     *)
(* what a caller's own event id left out (emitObservedEvent).              *)
LeftOut(id) == \E after \in ExplicitCursors : id <= after
CheckpointWasSent ==
    \A id \in 1..checkpoint : Malformed(id) \/ LeftOut(id) \/ id \in emitted

(* An observation that completes normally has handed over the terminal     *)
(* event last, and has left no checkpoint once it closed its flow.         *)
ClosedAtTerminal ==
    \A o \in Observers :
        /\ Over(o) => /\ obs[o].sent # <<>>
                      /\ Terminal(obs[o].sent[Len(obs[o].sent)])
        /\ obs[o].mode = "closed" => checkpoint = 0

(* Until the terminal event is handed over the checkpoint only moves       *)
(* forward, over restarts, reconnections and failures.                     *)
CheckpointOnlyAdvances ==
    [][checkpoint' >= checkpoint \/ \E id \in emitted : Terminal(id)]_vars

(* A whole page of malformed events, on which polling makes no progress.   *)
MalformedPage ==
    \E first \in 1 .. Len(log) - PollMaxEvents + 1 :
        \A id \in first .. first + PollMaxEvents - 1 : Malformed(id)

(* An observation that started before the task's terminal event completes  *)
(* or fails, unless it is cancelled: it does not wait for ever, and polls  *)
(* for ever only on a page of malformed events (observePollingPhase).      *)
StartedBeforeEnd(o) ==
    /\ obs[o].mode = "connect"
    /\ \A id \in 1..obs[o].start : id \in DOMAIN log => ~Terminal(id)
UnfinishedObservationEnds ==
    \A o \in Observers :
        StartedBeforeEnd(o) ~> \/ obs[o].mode \in {"finished", "failed", "idle"}
                               \/ MalformedPage

(* Every observation completes or fails once its task has ended.           *)
ObservationEnds ==
    \A o \in Observers :
        obs[o].mode = "connect" ~> obs[o].mode \in {"finished", "failed"}

=============================================================================
