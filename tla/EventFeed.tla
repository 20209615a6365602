----------------------------- MODULE EventFeed ------------------------------
(***************************************************************************)
(* The event stream of one task and the backend sessions that read it: the *)
(* event stores (a Redis Stream, a list with or without a Condition) and   *)
(* the WebSocket handler, the SSE generator and long polling over them.  A *)
(* session is a coroutine cut at every await: its client may go, and come  *)
(* back in another session, while it reads, waits or sends.                *)
(***************************************************************************)
EXTENDS Integers, Sequences, FiniteSets, SequencesExt

CONSTANTS
    Clients,    \* observers of the task
    Transports, \* how a session may read: "ws", "sse", "poll"
    Sessions,   \* sessions the backend runs at a time
    Stores,     \* which event stores are checked: "redis", "memory", "demo"
    MaxEvents,  \* bound on the events of the task
    MaxLength,  \* max_stream_length
    Batch,      \* replay_batch_size, live_batch_size and the poll limit
    MaxFaults   \* bound on lost connections and refused requests

ConstantsAssumption ==
    /\ Clients # {} /\ Transports # {}
    /\ Transports \subseteq {"ws", "sse", "poll"}
    /\ Stores \subseteq {"redis", "memory", "demo"}
    /\ MaxEvents \in Nat
    /\ MaxLength \in Nat \ {0}
    /\ Batch \in Nat \ {0}
    /\ MaxFaults \in Nat

(* The in-memory store compares the identifiers "1-0", "2-0", ... as       *)
(* strings, which agrees with their order for one digit.                   *)
IdentifiersAssumption == "memory" \in Stores => MaxEvents < 10

ASSUME ConstantsAssumption
ASSUME IdentifiersAssumption

VARIABLES
    store,      \* the event store of this backend
    written,    \* events appended so far, numbered from 1
    trimmed,    \* how many of the oldest the store has dropped
    ended,      \* the last one is the terminal event
    pc, peer, via, cursor, batch, seen,  \* the sessions
    attached,   \* the sessions whose connection is up
    woken,      \* the parked sessions that an append has notified
    received,   \* what each client got, one set of events per frame or answer
    code,       \* how the backend last closed on each client
    faults

storeVars == <<store, written, trimmed, ended>>
sessionVars == <<pc, peer, via, cursor, batch, seen, attached>>
clientVars == <<received, code>>
vars == <<storeVars, sessionVars, woken, clientVars, faults>>

TypeOK ==
    /\ store \in Stores
    /\ written \in 0..MaxEvents
    /\ trimmed \in 0..written
    /\ ended \in BOOLEAN
    /\ pc \in [Sessions -> {"none", "prepare", "confirm", "send", "wait",
                            "parked", "idle"}]
    /\ peer \in [Sessions -> Clients]
    /\ via \in [Sessions -> Transports]
    /\ cursor \in [Sessions -> 0..written]
    /\ batch \in [Sessions -> SUBSET (1..written)]
    /\ seen \in [Sessions -> BOOLEAN]
    /\ attached \subseteq Sessions
    /\ woken \subseteq Sessions
    /\ received \in [Clients -> Seq(SUBSET (1..written))]
    /\ code \in [Clients -> {"open", "normal", "refused"}]
    /\ faults \in 0..MaxFaults

(* What a session not in use holds.                                        *)
NoPeer == CHOOSE c \in Clients : TRUE
NoTransport == CHOOSE v \in Transports : TRUE

Init ==
    /\ store \in Stores
    /\ written = 0
    /\ trimmed = 0
    /\ ended = FALSE
    /\ pc = [s \in Sessions |-> "none"]
    /\ peer = [s \in Sessions |-> NoPeer]
    /\ via = [s \in Sessions |-> NoTransport]
    /\ cursor = [s \in Sessions |-> 0]
    /\ batch = [s \in Sessions |-> {}]
    /\ seen = [s \in Sessions |-> FALSE]
    /\ attached = {}
    /\ woken = {}
    /\ received = [c \in Clients |-> <<>>]
    /\ code = [c \in Clients |-> "open"]
    /\ faults = 0

Terminal(n) == ended /\ n = written
EndOf(c, i) == IF i = 0 THEN 0 ELSE Max(received[c][i])
LastOf(c) == EndOf(c, Len(received[c]))
Finished(c) == ended /\ LastOf(c) = written

-----------------------------------------------------------------------------
(* The event store.                                                        *)

(* Faulty variant of Trimmed: short streams are not told from long ones.   *)
TrimmedToMaximum(length) == {length - MaxLength}

(* XADD trims whole blocks of the oldest events and never below the        *)
(* maximum; the list of the in-memory store only grows.                    *)
Trimmed(length) ==
    {trimmed} \cup IF store = "redis" THEN trimmed .. length - MaxLength
                                     ELSE {}

(* Faulty variant of AppendEvent: a blocked reader is not notified.        *)
AppendEventUnnoticed ==
    /\ ~ended /\ written < MaxEvents
    /\ written' = written + 1
    /\ trimmed' \in Trimmed(written + 1)
    /\ ended' \in BOOLEAN
    /\ UNCHANGED store
    /\ UNCHANGED <<sessionVars, woken, clientVars, faults>>

AppendEvent ==
    /\ ~ended /\ written < MaxEvents
    /\ written' = written + 1
    /\ trimmed' \in Trimmed(written + 1)
    /\ ended' \in BOOLEAN
    /\ UNCHANGED store
    /\ woken' = {s \in Sessions : pc[s] = "parked"}
    /\ UNCHANGED <<sessionVars, clientVars, faults>>

(* The time to live of the Redis key runs out.                             *)
ExpireStream ==
    /\ store = "redis"
    /\ trimmed < written
    /\ trimmed' = written
    /\ UNCHANGED <<store, written, ended, sessionVars, woken, clientVars,
                   faults>>

(* The condition of the in-memory store is shared by all tasks.            *)
AppendOtherTask ==
    /\ store = "memory"
    /\ woken' = {s \in Sessions : pc[s] = "parked"}
    /\ woken' # woken
    /\ UNCHANGED <<storeVars, sessionVars, clientVars, faults>>

StringKey(n) == IF n < 10 THEN 11 * n ELSE 11 * (n \div 10) + 1 + (n % 10)
Newer(n, after) == IF store = "memory" THEN StringKey(n) > StringKey(after)
                                       ELSE n > after

(* Faulty variant of EventsAfter: the newest events come first.            *)
NewestAfter(after) ==
    LET newer == {n \in trimmed + 1 .. written : Newer(n, after)}
    IN {n \in newer : Cardinality({m \in newer : m >= n}) <= Batch}

EventsAfter(after) ==
    LET newer == {n \in trimmed + 1 .. written : Newer(n, after)}
    IN {n \in newer : Cardinality({m \in newer : m <= n}) <= Batch}

-----------------------------------------------------------------------------
(* The connections, and what a session sends over one that is down: the    *)
(* socket takes frames until the disconnect is noticed.                    *)

Proceed(s, next) == pc' = [pc EXCEPT ![s] = next]
Receive(s, events) ==
    received' = IF s \in attached /\ events # {}
                  THEN [received EXCEPT ![peer[s]] = Append(@, events)]
                  ELSE received

End(s) ==
    /\ pc' = [pc EXCEPT ![s] = "none"]
    /\ batch' = [batch EXCEPT ![s] = {}]
    /\ seen' = [seen EXCEPT ![s] = FALSE]
    /\ peer' = [peer EXCEPT ![s] = NoPeer]
    /\ via' = [via EXCEPT ![s] = NoTransport]
    /\ cursor' = [cursor EXCEPT ![s] = 0]
    /\ attached' = attached \ {s}
    /\ woken' = woken \ {s}

Close(s, why) ==
    /\ End(s)
    /\ code' = IF s \in attached THEN [code EXCEPT ![peer[s]] = why] ELSE code

(* Sessions are created as they are needed: a name not in use is as good   *)
(* as any other.                                                           *)
FreeSession == CHOOSE s \in Sessions : pc[s] = "none"

Connect(s, c, transport) ==
    /\ pc[s] = "none" /\ s = FreeSession
    /\ \A t \in attached : peer[t] # c
    /\ ~Finished(c)
    /\ pc' = [pc EXCEPT ![s] = "prepare"]
    /\ peer' = [peer EXCEPT ![s] = c]
    /\ via' = [via EXCEPT ![s] = transport]
    /\ cursor' = [cursor EXCEPT ![s] = LastOf(c)]
    /\ attached' = attached \cup {s}
    /\ code' = [code EXCEPT ![c] = "open"]
    /\ UNCHANGED <<storeVars, batch, seen, woken, received, faults>>

Reconnect(s, c) == \E v \in Transports : Connect(s, c, v)

LoseConnection(s) ==
    /\ s \in attached
    /\ faults < MaxFaults
    /\ faults' = faults + 1
    /\ attached' = attached \ {s}
    /\ UNCHANGED <<storeVars, pc, peer, via, cursor, batch, seen, woken,
                   clientVars>>

(* Faulty variant of HangUp: an idle session sends no heartbeat.           *)
HangUpOnEvents(s) ==
    /\ s \notin attached
    /\ pc[s] \in {"confirm", "send"}
    /\ End(s)
    /\ UNCHANGED <<storeVars, clientVars, faults>>

(* A send raises WebSocketDisconnect, or the generator is closed.          *)
HangUp(s) ==
    /\ s \notin attached
    /\ pc[s] \in {"confirm", "send", "idle"}
    /\ End(s)
    /\ UNCHANGED <<storeVars, clientVars, faults>>

-----------------------------------------------------------------------------
(* handle_websocket_subscription, task_events_ws, sse_event_generator and  *)
(* handle_http_polling                                                     *)

(* The subscribe frame of a WebSocket is malformed.                        *)
RefuseFrame(s) ==
    /\ via[s] = "ws" /\ pc[s] = "prepare"
    /\ faults < MaxFaults
    /\ faults' = faults + 1
    /\ Close(s, "refused")
    /\ UNCHANGED <<storeVars, received>>

(* The task is unknown or another's: a poll is answered 404 and a socket   *)
(* closed with 1008, but the generator raises under its status of 200.     *)
RefuseTask(s) ==
    /\ pc[s] = "prepare"
    /\ faults < MaxFaults
    /\ faults' = faults + 1
    /\ IF via[s] = "sse" THEN End(s) /\ UNCHANGED code
                         ELSE Close(s, "refused")
    /\ UNCHANGED <<storeVars, received>>

(* The registry, the store or the session itself raises.                   *)
FailSession(s) ==
    /\ pc[s] \in {"prepare", "wait"}
    /\ faults < MaxFaults
    /\ faults' = faults + 1
    /\ End(s)
    /\ UNCHANGED <<storeVars, clientVars>>

(* Faulty variant of Hand: the WebSocket cursor stays where it was.        *)
HandOnly(s, events) ==
    /\ batch' = [batch EXCEPT ![s] = events]
    /\ UNCHANGED cursor

(* prepare_subscription reads the replay; only the WebSocket loops take    *)
(* the end of the batch for their cursor before they send it.              *)
Hand(s, events) ==
    /\ batch' = [batch EXCEPT ![s] = events]
    /\ cursor' = IF via[s] = "ws" /\ events # {}
                   THEN [cursor EXCEPT ![s] = Max(events)] ELSE cursor

PrepareSubscription(s) ==
    /\ pc[s] = "prepare"
    /\ Hand(s, EventsAfter(cursor[s]))
    /\ Proceed(s, IF via[s] = "ws" THEN "confirm" ELSE "send")
    /\ UNCHANGED <<storeVars, peer, via, seen, attached, woken, clientVars,
                   faults>>

StartPoll(s) ==
    /\ pc[s] = "prepare"
    /\ Proceed(s, "wait")
    /\ UNCHANGED <<storeVars, peer, via, cursor, batch, seen, attached, woken,
                   clientVars, faults>>

Confirm(s) ==
    /\ pc[s] = "confirm"
    /\ Proceed(s, "send")
    /\ UNCHANGED <<storeVars, peer, via, cursor, batch, seen, attached, woken,
                   clientVars, faults>>

SendEvent(s) ==
    /\ pc[s] = "send"
    /\ batch[s] # {}
    /\ LET n == Min(batch[s])
       IN /\ batch' = [batch EXCEPT ![s] = @ \ {n}]
          /\ seen' = [seen EXCEPT ![s] =
                                @ \/ (via[s] = "ws" /\ Terminal(n))]
          /\ cursor' = IF via[s] = "sse" THEN [cursor EXCEPT ![s] = n]
                                         ELSE cursor
          /\ Receive(s, {n})
    /\ UNCHANGED <<storeVars, pc, peer, via, attached, woken, code, faults>>

(* Faulty variant of CloseAtTerminal: the end of a batch ends the stream.  *)
CloseAtEndOfBatch(s) ==
    /\ pc[s] = "send"
    /\ batch[s] = {}
    /\ Close(s, "normal")
    /\ UNCHANGED <<storeVars, received, faults>>

CloseAtTerminal(s) ==
    /\ pc[s] = "send"
    /\ batch[s] = {} /\ seen[s]
    /\ Close(s, "normal")
    /\ UNCHANGED <<storeVars, received, faults>>

SentAll(s) ==
    /\ pc[s] = "send"
    /\ batch[s] = {}
    /\ ~seen[s]
    /\ Proceed(s, "wait")
    /\ UNCHANGED <<storeVars, peer, via, cursor, batch, seen, attached, woken,
                   clientVars, faults>>

(* wait_for_events: a read, and when it is empty a wait for an append,     *)
(* which the store of the demo host leaves out.  The generator looks for a *)
(* disconnect before it and after it.                                      *)
Blocks == store # "demo"
Detached(s) == via[s] = "sse" /\ s \notin attached

(* Faulty variant of WaitForEvents: the live read starts at the tail.      *)
WaitForNewEvents(s) ==
    /\ pc[s] = "wait" /\ ~Detached(s)
    /\ cursor' = [cursor EXCEPT ![s] = written]
    /\ Proceed(s, "parked")
    /\ UNCHANGED <<storeVars, peer, via, batch, seen, attached, woken,
                   clientVars, faults>>

WaitForEvents(s) ==
    /\ pc[s] = "wait" /\ ~Detached(s)
    /\ LET events == EventsAfter(cursor[s])
       IN /\ Hand(s, events)
          /\ Proceed(s, IF events # {} THEN "send"
                        ELSE IF Blocks THEN "parked" ELSE "idle")
    /\ UNCHANGED <<storeVars, peer, via, seen, attached, woken, clientVars,
                   faults>>

Wake(s) ==
    /\ pc[s] = "parked" /\ s \in woken /\ ~Detached(s)
    /\ LET events == EventsAfter(cursor[s])
       IN /\ Hand(s, events)
          /\ Proceed(s, IF events = {} THEN "idle" ELSE "send")
    /\ woken' = woken \ {s}
    /\ UNCHANGED <<storeVars, peer, via, seen, attached, clientVars, faults>>

TimeOut(s) ==
    /\ pc[s] = "parked" /\ ~Detached(s)
    /\ Proceed(s, "idle")
    /\ woken' = woken \ {s}
    /\ UNCHANGED <<storeVars, peer, via, cursor, batch, seen, attached,
                   clientVars, faults>>

StopGenerator(s) ==
    /\ pc[s] \in {"wait", "parked"} /\ Detached(s)
    /\ End(s)
    /\ UNCHANGED <<storeVars, clientVars, faults>>

Heartbeat(s) ==
    /\ pc[s] = "idle"
    /\ Proceed(s, "wait")
    /\ UNCHANGED <<storeVars, peer, via, cursor, batch, seen, attached, woken,
                   clientVars, faults>>

AnswerPoll(s) ==
    /\ pc[s] \in {"send", "idle"}
    /\ Receive(s, batch[s])
    /\ End(s)
    /\ UNCHANGED <<storeVars, code, faults>>

-----------------------------------------------------------------------------
StoreStep == AppendEvent \/ ExpireStream \/ AppendOtherTask

WaitStep(s) == WaitForEvents(s) \/ Wake(s) \/ TimeOut(s)

WebSocketStep(s) ==
    /\ via[s] = "ws"
    /\ \/ PrepareSubscription(s) \/ Confirm(s) \/ SendEvent(s)
       \/ CloseAtTerminal(s) \/ SentAll(s) \/ WaitStep(s) \/ Heartbeat(s)

GeneratorStep(s) ==
    /\ via[s] = "sse"
    /\ \/ PrepareSubscription(s) \/ SendEvent(s) \/ SentAll(s)
       \/ WaitStep(s) \/ Heartbeat(s) \/ StopGenerator(s)

PollStep(s) ==
    /\ via[s] = "poll"
    /\ StartPoll(s) \/ WaitStep(s) \/ AnswerPoll(s)

ReaderStep(s) == WebSocketStep(s) \/ GeneratorStep(s) \/ PollStep(s)

Next ==
    \/ StoreStep
    \/ \E s \in Sessions :
         \/ ReaderStep(s) \/ HangUp(s)
         \/ RefuseFrame(s) \/ RefuseTask(s) \/ FailSession(s)
         \/ LoseConnection(s)
         \/ \E c \in Clients : Reconnect(s, c)

Spec == Init /\ [][Next]_vars

(* The event loop resumes every coroutine whose await completed, a wait    *)
(* ends in a notification or in its timeout, a client that is not done     *)
(* connects again, and the socket of a client that has gone reports it.    *)
FairSpec ==
    /\ Spec
    /\ \A s \in Sessions :
         /\ WF_vars(ReaderStep(s))
         /\ SF_vars(HangUp(s))
    /\ \A c \in Clients : SF_vars(\E s \in Sessions : Reconnect(s, c))

-----------------------------------------------------------------------------
(* Properties.                                                             *)

(* However often its connection is lost and whatever it was reading then,  *)
(* a client that resumes after its last event gets no event twice, and     *)
(* misses none but those the store had dropped.                            *)
NoGapNoRepeat ==
    \A c \in Clients : \A i \in DOMAIN received[c] :
        LET before == EndOf(c, i - 1)
        IN /\ \A n \in received[c][i] : n > before
           /\ (before + 1 .. Max(received[c][i])) \ (1 .. trimmed)
                \subseteq received[c][i]

(* A client sees the normal close only after the terminal event, and no    *)
(* event follows it (_send_events_and_check_terminal).                     *)
NormalCloseIsFinal ==
    \A c \in Clients : code[c] = "normal" => Finished(c)

(* A session blocked on the store while events it has not read are there   *)
(* has been notified: none is left to its timeout (wait_for_events).       *)
NoLostWakeup ==
    \A s \in Sessions :
        (pc[s] = "parked" /\ EventsAfter(cursor[s]) # {}) => s \in woken

(* Once the task has ended, every client gets its terminal event, unless   *)
(* the stream expired first.                                               *)
EveryClientFinishes ==
    \A c \in Clients : ended ~> (Finished(c) \/ trimmed = written)

(* Sessions whose clients have gone do not run for ever: time and again    *)
(* none of them is left (the heartbeats of both transports).               *)
OrphansEnd ==
    []<>(\A s \in Sessions : s \notin attached => pc[s] = "none")

Feed == INSTANCE ResumableFeed
            WITH got <- [c \in Clients |-> UNION ToSet(received[c])]

(* The store and its sessions implement the feed they promise.             *)
ImplementsFeed == Feed!Spec

=============================================================================
