----------------------- MODULE StreamTransportProofs ------------------------
(***************************************************************************)
(* The safety properties of StreamTransport: for any number of concurrent  *)
(* observations where they hold so, and for the only observation of a task *)
(* where a second one would break them.                                    *)
(***************************************************************************)
EXTENDS StreamTransport, FiniteSetTheorems, NaturalLoops, TLAPS

-----------------------------------------------------------------------------
(* The inductive invariant.                                                *)

\* Nothing up to this event is missing from what was handed over, but
\* malformed events and what a caller's own event id left out.
Reached(last, events, handed) ==
    \A id \in 1..last : \/ events[id] = "malformed"
                        \/ LeftOut(id)
                        \/ id \in handed

Ends(events, id) == events[id] = "terminal"

\* An event that was sent is in the log, was handed over, and is the last one
\* when it is terminal.
SentOK(ob, events, handed) ==
    \A i \in DOMAIN ob.sent :
        /\ ob.sent[i] <= Len(events)
        /\ ob.sent[i] \in handed
        /\ Ends(events, ob.sent[i]) =>
             /\ i = Len(ob.sent)
             /\ ob.mode \in {"save", "clear", "closed", "finished", "failed"}

\* Two sends of an event are further apart than what RecentEventIds holds.
WindowOK(sent) ==
    \A i, j \in DOMAIN sent :
        i < j /\ j <= i + RecentCapacity => sent[i] # sent[j]

\* Where an observation has got to, by what it does.
ProgressOK(ob, events, handed) ==
    /\ ob.start <= Len(events) /\ ob.cursor <= Len(events)
    /\ ob.pos <= Len(events)
    /\ ob.mode = "load" => /\ ob.sent = <<>>
                           /\ Reached(ob.start, events, handed)
    /\ ob.mode \in {"connect", "collect", "backoff", "save", "clear"}
         => Reached(ob.cursor, events, handed)
    /\ ob.mode = "collect" => Reached(ob.pos, events, handed)
    /\ ob.mode \in {"send", "save"} => ob.pos = ob.cursor
    /\ ob.mode = "send" =>
         /\ ob.cursor >= 1
         /\ Reached(ob.cursor - 1, events, handed)
         /\ \A i \in DOMAIN ob.sent :
              i > Len(ob.sent) - RecentCapacity => ob.sent[i] # ob.cursor
    /\ ob.mode \in {"save", "clear"} =>
         ob.sent # <<>> /\ ob.sent[Len(ob.sent)] = ob.cursor
    /\ ob.mode = "clear" => Ends(events, ob.cursor)
    /\ ob.mode \in {"closed", "finished"} =>
         ob.sent # <<>> /\ Ends(events, ob.sent[Len(ob.sent)])

ObservationOK(ob, events, handed) ==
    /\ ob.taken <= Len(ob.sent)
    /\ SentOK(ob, events, handed)
    /\ WindowOK(ob.sent)
    /\ ProgressOK(ob, events, handed)

\* One observation of the task at a time, and no caller that skips events.
Single == \A o, p \in Observers : o = p
Alone == Single /\ ExplicitCursors = {}

LastSent(ob) == IF ob.sent = <<>> THEN ob.start ELSE ob.sent[Len(ob.sent)]

\* Between the two events there are only malformed ones.
Adjacent(before, after, events) ==
    /\ before < after
    /\ \A id \in before + 1 .. after - 1 : events[id] = "malformed"

ContiguousIn(ob, events) ==
    \A i \in DOMAIN ob.sent :
        /\ Adjacent(IF i = 1 THEN ob.start ELSE ob.sent[i - 1], ob.sent[i],
                    events)
        /\ ob.sent[i] <= LastSent(ob)

\* The checkpoint is the last event that was sent, except while it is saved.
AloneOK(ob, saved, events) ==
    /\ ContiguousIn(ob, events)
    /\ ob.mode = "load" => ob.start = 0
    /\ ob.mode \in {"connect", "collect", "backoff", "send"} =>
         saved = LastSent(ob)
    /\ ob.mode \in {"connect", "collect", "backoff", "save"} =>
         ob.cursor = LastSent(ob)
    /\ ob.mode = "collect" => Adjacent(ob.cursor, ob.pos + 1, events)
    /\ ob.mode = "send" => Adjacent(LastSent(ob), ob.cursor, events)
    /\ ob.mode = "save" => saved <= ob.cursor
    /\ ob.mode = "closed" => saved = 0

IInv ==
    /\ TypeOK
    /\ Len(log) <= MaxEvents
    /\ checkpoint <= Len(log) /\ Reached(checkpoint, log, emitted)
    /\ \A o \in Observers : ObservationOK(obs[o], log, emitted)
    /\ Alone => \A o \in Observers : AloneOK(obs[o], checkpoint, log)

-----------------------------------------------------------------------------
(* What the invariant says of an observation lasts while the log grows and *)
(* more events are handed over.                                            *)

\* Events handed over later take nothing back.
LEMMA HandedLater ==
    ASSUME NEW ob, NEW events, NEW handed, NEW more, handed \subseteq more
    PROVE  /\ \A last : Reached(last, events, handed)
                          => Reached(last, events, more)
           /\ ObservationOK(ob, events, handed)
                => ObservationOK(ob, events, more)
<1>1. \A last : Reached(last, events, handed) => Reached(last, events, more)
  BY DEF Reached
<1>2. SentOK(ob, events, handed) => SentOK(ob, events, more)
  BY DEF SentOK
<1>3. ProgressOK(ob, events, handed) => ProgressOK(ob, events, more)
  BY <1>1, Zenon DEF ProgressOK
<1> QED
  BY <1>1, <1>2, <1>3, Zenon DEF ObservationOK

\* An event appended to the log leaves the earlier ones as they were.
LEMMA AppendFacts ==
    ASSUME NEW events \in Seq(EventKinds), NEW kind \in EventKinds
    PROVE  /\ Append(events, kind) \in Seq(EventKinds)
           /\ Len(events) \in Nat
           /\ Len(Append(events, kind)) = Len(events) + 1
           /\ \A id \in 1..Len(events) : Append(events, kind)[id] = events[id]
  OBVIOUS

\* What was reached before an event was appended is still reached.
LEMMA ReachedLater ==
    ASSUME NEW events \in Seq(EventKinds), NEW kind \in EventKinds,
           NEW handed, NEW last \in Int, last <= Len(events),
           Reached(last, events, handed)
    PROVE  Reached(last, Append(events, kind), handed)
<1>1. \A id \in 1..last : id \in 1..Len(events)
  BY AppendFacts
<1> QED
  BY <1>1, AppendFacts DEF Reached

\* The parts of an observation.
LEMMA Fields ==
    ASSUME NEW ob \in Observation
    PROVE  /\ ob.start \in Cursors /\ ob.cursor \in Cursors
           /\ ob.pos \in Cursors /\ ob.horizon \in Cursors
           /\ ob.sent \in Seq(Ids) /\ ob.taken \in Nat
           /\ Len(ob.sent) \in Nat /\ DOMAIN ob.sent = 1..Len(ob.sent)
           /\ \A i \in DOMAIN ob.sent : ob.sent[i] \in Ids
  BY DEF Observation

\* Numbers of events are integers.
LEMMA Numbers ==
    /\ MaxEvents \in Nat /\ RecentCapacity \in Nat \ {0}
    /\ \A n \in Cursors : n \in Int /\ 0 <= n /\ n <= MaxEvents
    /\ \A n \in Ids : n \in Int /\ 1 <= n /\ n <= MaxEvents
    /\ \A n \in Int : 0 <= n /\ n <= MaxEvents => n \in Cursors
    /\ \A n \in Int : 1 <= n /\ n <= MaxEvents => n \in Ids
  BY ConstantsAssumption DEF ConstantsAssumption, Cursors, Ids

\* An event that the task appends changes nothing for an observation.
LEMMA ObservationLater ==
    ASSUME NEW events \in Seq(EventKinds), NEW kind \in EventKinds,
           NEW handed, NEW ob \in Observation,
           ObservationOK(ob, events, handed)
    PROVE  ObservationOK(ob, Append(events, kind), handed)
<1> DEFINE later == Append(events, kind)
<1>0. /\ later \in Seq(EventKinds)
      /\ Len(events) \in Nat /\ Len(later) = Len(events) + 1
      /\ \A id \in 1..Len(events) : later[id] = events[id]
  BY AppendFacts
<1>1. \A last \in Int : last <= Len(events) /\ Reached(last, events, handed)
        => Reached(last, later, handed)
  BY ReachedLater
<1> HIDE DEF later
<1>2. /\ ob.start \in Int /\ ob.cursor \in Int /\ ob.pos \in Int
      /\ 0 <= ob.cursor
      /\ Len(ob.sent) \in Nat /\ DOMAIN ob.sent = 1..Len(ob.sent)
      /\ \A i \in DOMAIN ob.sent : ob.sent[i] \in Int /\ 1 <= ob.sent[i]
  BY Fields, Numbers
<1>3. \A i \in DOMAIN ob.sent : ob.sent[i] \in 1..Len(events)
  BY <1>2 DEF ObservationOK, SentOK
<1>4. SentOK(ob, later, handed)
  BY <1>0, <1>2, <1>3 DEF ObservationOK, SentOK, Ends
<1>5. ProgressOK(ob, later, handed)
  <2> USE DEF ObservationOK, ProgressOK
  <2>1. /\ ob.start <= Len(later) /\ ob.cursor <= Len(later)
        /\ ob.pos <= Len(later)
    BY <1>0, <1>2
  <2>2. /\ ob.mode = "load" => /\ ob.sent = <<>>
                               /\ Reached(ob.start, later, handed)
        /\ ob.mode \in {"connect", "collect", "backoff", "save", "clear"}
             => Reached(ob.cursor, later, handed)
        /\ ob.mode = "collect" => Reached(ob.pos, later, handed)
    BY <1>1, <1>2
  <2>3. ob.mode = "send" =>
          /\ ob.cursor >= 1
          /\ Reached(ob.cursor - 1, later, handed)
          /\ \A i \in DOMAIN ob.sent :
               i > Len(ob.sent) - RecentCapacity => ob.sent[i] # ob.cursor
    <3>1. ob.cursor - 1 \in Int /\ ob.cursor - 1 <= Len(events)
      BY <1>0, <1>2
    <3> QED
      BY <1>1, <3>1
  <2>4. /\ ob.mode \in {"save", "clear"} =>
             ob.sent # <<>> /\ ob.sent[Len(ob.sent)] = ob.cursor
        /\ ob.mode \in {"send", "save"} => ob.pos = ob.cursor
    OBVIOUS
  <2>5. ob.sent # <<>> => Len(ob.sent) \in DOMAIN ob.sent
    BY Fields
  <2>6. ob.mode = "clear" => Ends(later, ob.cursor)
    BY <1>0, <1>3, <2>4, <2>5 DEF Ends
  <2>7. ob.mode \in {"closed", "finished"} =>
          ob.sent # <<>> /\ Ends(later, ob.sent[Len(ob.sent)])
    BY <1>0, <1>3, <2>5 DEF Ends
  <2> QED
    BY <2>1, <2>2, <2>3, <2>4, <2>6, <2>7
<1> QED
  BY <1>4, <1>5 DEF ObservationOK, later

\* Nor does it change what the only observation has delivered.
LEMMA AloneLater ==
    ASSUME NEW events \in Seq(EventKinds), NEW kind \in EventKinds,
           NEW handed, NEW saved, NEW ob \in Observation,
           ObservationOK(ob, events, handed), AloneOK(ob, saved, events)
    PROVE  AloneOK(ob, saved, Append(events, kind))
<1> DEFINE later == Append(events, kind)
<1>0. /\ Len(events) \in Nat
      /\ \A id \in 1..Len(events) : later[id] = events[id]
  BY AppendFacts
<1> HIDE DEF later
<1>1. \A before \in Cursors : \A after \in Int :
        after <= Len(events) + 1 /\ Adjacent(before, after, events)
          => Adjacent(before, after, later)
  <2> SUFFICES ASSUME NEW before \in Cursors, NEW after \in Int,
                      after <= Len(events) + 1,
                      Adjacent(before, after, events)
               PROVE  Adjacent(before, after, later)
    OBVIOUS
  <2>1. \A id \in before + 1 .. after - 1 : id \in 1..Len(events)
    BY <1>0, Numbers
  <2> QED
    BY <1>0, <2>1 DEF Adjacent
<1>2. /\ ob.start \in Cursors /\ ob.cursor \in Cursors /\ ob.pos \in Int
      /\ ob.cursor \in Int /\ ob.cursor <= Len(events)
      /\ ob.pos + 1 <= Len(events) + 1
      /\ DOMAIN ob.sent = 1..Len(ob.sent) /\ Len(ob.sent) \in Nat
      /\ \A i \in DOMAIN ob.sent : /\ ob.sent[i] \in Cursors
                                   /\ ob.sent[i] \in Int
                                   /\ ob.sent[i] <= Len(events)
  BY <1>0, Fields, Numbers DEF ObservationOK, ProgressOK, SentOK
<1>3. ContiguousIn(ob, later)
  <2> SUFFICES ASSUME NEW i \in DOMAIN ob.sent
               PROVE  /\ Adjacent(IF i = 1 THEN ob.start ELSE ob.sent[i - 1],
                                  ob.sent[i], later)
                      /\ ob.sent[i] <= LastSent(ob)
    BY DEF ContiguousIn
  <2>1. /\ Adjacent(IF i = 1 THEN ob.start ELSE ob.sent[i - 1], ob.sent[i],
                    events)
        /\ ob.sent[i] <= LastSent(ob)
    BY DEF AloneOK, ContiguousIn
  <2>2. i # 1 => i - 1 \in DOMAIN ob.sent
    BY <1>2
  <2>3. CASE i = 1
    BY <1>0, <1>1, <1>2, <2>1, <2>3
  <2>4. CASE i # 1
    BY <1>0, <1>1, <1>2, <2>1, <2>2, <2>4
  <2> QED
    BY <2>3, <2>4
<1>4. ob.mode = "collect" => Adjacent(ob.cursor, ob.pos + 1, later)
  <2>1. ob.pos + 1 \in Int
    BY <1>2
  <2> QED
    BY <1>1, <1>2, <2>1 DEF AloneOK
<1>5. ob.mode = "send" => Adjacent(LastSent(ob), ob.cursor, later)
  <2>1. LastSent(ob) \in Cursors
    BY <1>2 DEF LastSent
  <2>2. ob.cursor <= Len(events) + 1
    BY <1>0, <1>2
  <2> QED
    BY <1>1, <1>2, <2>1, <2>2 DEF AloneOK
<1> QED
  BY <1>3, <1>4, <1>5 DEF AloneOK, later

\* An observation that has not begun.
LEMMA FreshFacts ==
    /\ Fresh \in Observation
    /\ Fresh.sent = <<>> /\ Fresh.taken = 0 /\ Fresh.start = 0
    /\ Fresh.cursor = 0 /\ Fresh.pos = 0 /\ Fresh.mode = "idle"
<1>1. MaxAttempts \in Nat /\ MaxMalformed \in Nat
  BY ConstantsAssumption DEF ConstantsAssumption
<1>2. <<>> \in Seq(Ids) /\ 0 \in Cursors
  BY Numbers
<1> QED
  BY <1>1, <1>2 DEF Fresh, Observation, Modes, Transports

\* Before anybody observes the task there is nothing.
LEMMA InitInv == Init => IInv
<1> SUFFICES ASSUME Init
             PROVE  IInv
  OBVIOUS
<1>0. MaxFaults \in Nat /\ MaxCancels \in Nat
  BY ConstantsAssumption DEF ConstantsAssumption
<1>2. TypeOK
  BY <1>0, FreshFacts, Numbers DEF Init, TypeOK
<1>3. Reached(0, log, emitted)
  BY DEF Reached
<1>4. ObservationOK(Fresh, log, emitted)
  BY FreshFacts DEF Init, ObservationOK, SentOK, WindowOK, ProgressOK
<1>5. AloneOK(Fresh, 0, log)
  BY FreshFacts DEF AloneOK, ContiguousIn
<1> QED
  BY <1>2, <1>3, <1>4, <1>5, Numbers DEF Init, IInv

\* The task appends an event.
LEMMA AppendEventInv ==
    ASSUME IInv, NEW kind \in Kinds, AppendEvent(kind)
    PROVE  IInv'
<1>1. /\ log \in Seq(EventKinds) /\ kind \in EventKinds
      /\ log' = Append(log, kind) /\ Len(log) < MaxEvents
      /\ UNCHANGED <<checkpoint, obs, emitted, faults, cancels>>
  BY ConstantsAssumption DEF ConstantsAssumption, AppendEvent, IInv, TypeOK
<1>2. /\ log' \in Seq(EventKinds) /\ Len(log) \in Nat
      /\ Len(log') = Len(log) + 1
  BY <1>1, AppendFacts
<1>3. TypeOK'
  BY <1>1, <1>2 DEF IInv, TypeOK
<1>4. Len(log') <= MaxEvents
  BY <1>1, <1>2, Numbers
<1>5. checkpoint' <= Len(log') /\ Reached(checkpoint', log', emitted')
  <2>1. checkpoint \in Int
    BY Numbers DEF IInv, TypeOK
  <2> QED
    BY <1>1, <1>2, <2>1, ReachedLater DEF IInv
<1>6. \A o \in Observers : obs[o] \in Observation
  BY DEF IInv, TypeOK
<1>7. \A o \in Observers : ObservationOK(obs'[o], log', emitted')
  BY <1>1, <1>6, ObservationLater DEF IInv
<1>8. Alone => \A o \in Observers : AloneOK(obs'[o], checkpoint', log')
  BY <1>1, <1>6, AloneLater DEF IInv
<1> QED
  BY <1>3, <1>4, <1>5, <1>7, <1>8 DEF IInv

\* A step of one observation keeps the invariant when it keeps what the
\* invariant says of that observation and of what it saved.
LEMMA Moves ==
    ASSUME IInv, NEW o \in Observers, NEW nb \in Observation, Become(o, nb),
           UNCHANGED log,
           emitted' \subseteq Ids, emitted \subseteq emitted',
           checkpoint' \in Cursors, checkpoint' <= Len(log),
           Reached(checkpoint', log, emitted'),
           faults' \in 0..MaxFaults, cancels' \in 0..MaxCancels,
           ObservationOK(nb, log, emitted'),
           Alone => AloneOK(nb, checkpoint', log)
    PROVE  IInv'
<1>1. /\ obs' \in [Observers -> Observation]
      /\ \A p \in Observers : obs'[p] = IF p = o THEN nb ELSE obs[p]
  BY DEF Become, IInv, TypeOK
<1>2. TypeOK'
  BY <1>1 DEF IInv, TypeOK
<1>3. \A p \in Observers : ObservationOK(obs'[p], log', emitted')
  BY <1>1, HandedLater DEF IInv
<1>4. Alone => \A p \in Observers : AloneOK(obs'[p], checkpoint', log')
  BY <1>1 DEF Alone, Single
<1>5. Len(log') <= MaxEvents /\ checkpoint' <= Len(log')
  BY DEF IInv
<1> QED
  BY <1>2, <1>3, <1>4, <1>5 DEF IInv

\* So does a step that saves and hands over nothing.
LEMMA QuietMoves ==
    ASSUME IInv, NEW o \in Observers, NEW nb \in Observation, Become(o, nb),
           UNCHANGED <<log, checkpoint, emitted>>,
           faults' \in 0..MaxFaults, cancels' \in 0..MaxCancels,
           ObservationOK(nb, log, emitted),
           Alone => AloneOK(nb, checkpoint, log)
    PROVE  IInv'
<1>1. /\ emitted \subseteq Ids /\ checkpoint \in Cursors
      /\ checkpoint <= Len(log) /\ Reached(checkpoint, log, emitted)
  BY DEF IInv, TypeOK
<1> QED
  BY <1>1, Moves

-----------------------------------------------------------------------------
(* Steps that send nothing.                                                *)

\* What the invariant says of one observation and of what it shares.
LEMMA Current ==
    ASSUME IInv, NEW o \in Observers
    PROVE  /\ obs[o] \in Observation
           /\ log \in Seq(EventKinds) /\ Len(log) \in Nat
           /\ Len(log) <= MaxEvents
           /\ ObservationOK(obs[o], log, emitted)
           /\ Alone => AloneOK(obs[o], checkpoint, log)
           /\ checkpoint \in Cursors /\ checkpoint <= Len(log)
           /\ Reached(checkpoint, log, emitted)
           /\ emitted \subseteq Ids
           /\ faults \in 0..MaxFaults /\ cancels \in 0..MaxCancels
  BY DEF IInv, TypeOK

\* A fault is counted within its bound.
LEMMA FaultCounted ==
    ASSUME IInv, Fault
    PROVE  faults' \in 0..MaxFaults
  BY ConstantsAssumption DEF ConstantsAssumption, Fault, IInv, TypeOK

\* An observation that gives up keeps what it has delivered.
LEMMA Fails ==
    ASSUME NEW ob \in Observation, NEW nb \in Observation,
           NEW events, NEW handed, NEW saved,
           nb.sent = ob.sent, nb.taken = ob.taken, nb.start = ob.start,
           nb.cursor = ob.cursor, nb.pos <= Len(events), nb.mode = "failed",
           ObservationOK(ob, events, handed)
    PROVE  /\ ObservationOK(nb, events, handed)
           /\ AloneOK(ob, saved, events) => AloneOK(nb, saved, events)
<1>1. SentOK(nb, events, handed) /\ WindowOK(nb.sent)
  BY DEF ObservationOK, SentOK, WindowOK
<1>2. ProgressOK(nb, events, handed)
  BY DEF ObservationOK, ProgressOK
<1>3. AloneOK(ob, saved, events) => AloneOK(nb, saved, events)
  BY DEF AloneOK, ContiguousIn, LastSent
<1> QED
  BY <1>1, <1>2, <1>3 DEF ObservationOK

\* An observation that leaves a connection, or opens one, is where it was.
LEMMA Reconnects ==
    ASSUME NEW ob \in Observation, NEW nb \in Observation,
           NEW events, NEW handed, NEW saved,
           nb.sent = ob.sent, nb.taken = ob.taken, nb.start = ob.start,
           nb.cursor = ob.cursor, nb.pos \in {ob.pos, ob.cursor},
           ob.mode \in {"connect", "collect"},
           nb.mode \in {"connect", "collect", "backoff"},
           nb.mode = "collect" => nb.pos = ob.cursor,
           ObservationOK(ob, events, handed)
    PROVE  /\ ObservationOK(nb, events, handed)
           /\ AloneOK(ob, saved, events) => AloneOK(nb, saved, events)
<1>0. nb.cursor \in Int
  BY Fields, Numbers
<1>1. SentOK(nb, events, handed) /\ WindowOK(nb.sent)
  BY DEF ObservationOK, SentOK, WindowOK
<1>2. ProgressOK(nb, events, handed)
  BY DEF ObservationOK, ProgressOK
<1>3. AloneOK(ob, saved, events) => AloneOK(nb, saved, events)
  BY <1>0 DEF AloneOK, ContiguousIn, LastSent, Adjacent
<1> QED
  BY <1>1, <1>2, <1>3 DEF ObservationOK

\* An observation starts after the caller's event, or loads the checkpoint.
LEMMA ObserveInv ==
    ASSUME IInv, NEW o \in Observers, NEW after \in ExplicitCursors \cup {0},
           Observe(o, after)
    PROVE  IInv'
<1> DEFINE nb == [Fresh EXCEPT !.mode = "load", !.start = after]
<1>0. after \in Cursors /\ after \in Int /\ after <= Len(log)
  BY ConstantsAssumption, Numbers DEF ConstantsAssumption, Observe
<1>1. /\ nb \in Observation
      /\ nb.sent = <<>> /\ nb.taken = 0 /\ nb.start = after
      /\ nb.cursor = 0 /\ nb.pos = 0 /\ nb.mode = "load"
  BY <1>0, FreshFacts DEF Observation, Modes
<1>2. Become(o, nb) /\ UNCHANGED <<log, checkpoint, emitted, faults, cancels>>
  BY DEF Observe
<1> HIDE DEF nb
<1>3. Reached(after, log, emitted)
  BY <1>0 DEF Reached, LeftOut
<1>4. ObservationOK(nb, log, emitted)
  BY <1>0, <1>1, <1>3, Current
     DEF ObservationOK, SentOK, WindowOK, ProgressOK
<1>5. Alone => AloneOK(nb, checkpoint, log)
  BY <1>1 DEF Alone, AloneOK, ContiguousIn
<1> QED
  BY <1>1, <1>2, <1>4, <1>5, Current, QuietMoves

\* It begins after the caller's event or after the checkpoint.
LEMMA LoadInv ==
    ASSUME IInv, NEW o \in Observers, Load(o)
    PROVE  IInv'
<1> DEFINE first == IF obs[o].start # 0 THEN obs[o].start ELSE checkpoint
           nb == [obs[o] EXCEPT !.mode = "connect", !.start = first,
                                !.cursor = first]
<1>0. /\ obs[o].mode = "load" /\ Become(o, nb)
      /\ UNCHANGED <<log, checkpoint, emitted, faults, cancels>>
  BY DEF Load
<1>1. /\ first \in Cursors /\ first <= Len(log)
      /\ Reached(first, log, emitted) /\ obs[o].sent = <<>>
      /\ Alone => first = checkpoint
  BY <1>0, Current, Fields DEF ObservationOK, ProgressOK, AloneOK
<1> HIDE DEF first
<1>2. /\ nb \in Observation /\ nb.mode = "connect"
      /\ nb.start = first /\ nb.cursor = first /\ nb.sent = obs[o].sent
      /\ nb.pos = obs[o].pos /\ nb.taken = obs[o].taken
  BY <1>1, Current DEF Observation, Modes
<1> HIDE DEF nb
<1>3. ObservationOK(nb, log, emitted)
  BY <1>1, <1>2, Current DEF ObservationOK, SentOK, WindowOK, ProgressOK
<1>4. Alone => AloneOK(nb, checkpoint, log)
  BY <1>1, <1>2 DEF AloneOK, ContiguousIn, LastSent
<1> QED
  BY <1>0, <1>2, <1>3, <1>4, Current, QuietMoves

\* A stream is opened at the cursor.
LEMMA ConnectInv ==
    ASSUME IInv, NEW o \in Observers, Connect(o)
    PROVE  IInv'
<1> DEFINE nb == [obs[o] EXCEPT !.mode = "collect", !.pos = obs[o].cursor,
                                !.horizon = MaxEvents]
<1>0. /\ obs[o].mode = "connect" /\ Become(o, nb)
      /\ UNCHANGED <<log, checkpoint, emitted, faults, cancels>>
  BY DEF Connect
<1>1. MaxEvents \in Cursors
  BY Numbers
<1>2. /\ nb \in Observation /\ nb.mode = "collect"
      /\ nb.start = obs[o].start /\ nb.cursor = obs[o].cursor
      /\ nb.sent = obs[o].sent /\ nb.pos = obs[o].cursor
      /\ nb.taken = obs[o].taken
  BY <1>1, Current DEF Observation, Modes
<1> HIDE DEF nb
<1>3. /\ ObservationOK(nb, log, emitted)
      /\ Alone => AloneOK(nb, checkpoint, log)
  BY <1>0, <1>2, Current, Reconnects
<1> QED
  BY <1>0, <1>2, <1>3, Current, QuietMoves

\* So is a page of polling.
LEMMA PollInv ==
    ASSUME IInv, NEW o \in Observers, Poll(o)
    PROVE  IInv'
<1> DEFINE last == Smaller(Len(log), obs[o].cursor + PollMaxEvents)
           nb == [obs[o] EXCEPT !.mode = "collect", !.pos = obs[o].cursor,
                                !.horizon = last]
<1>0. /\ obs[o].mode \in {"connect", "collect"} /\ Become(o, nb)
      /\ UNCHANGED <<log, checkpoint, emitted, faults, cancels>>
  BY DEF Poll, AwaitsPoll
<1>1. last \in Cursors
  <2>1. PollMaxEvents \in Nat /\ obs[o].cursor \in Int /\ 0 <= obs[o].cursor
    BY ConstantsAssumption, Current, Fields, Numbers DEF ConstantsAssumption
  <2> QED
    BY <2>1, Current, Numbers DEF Smaller
<1> HIDE DEF last
<1>2. /\ nb \in Observation /\ nb.mode = "collect"
      /\ nb.start = obs[o].start /\ nb.cursor = obs[o].cursor
      /\ nb.sent = obs[o].sent /\ nb.pos = obs[o].cursor
      /\ nb.taken = obs[o].taken
  BY <1>1, Current DEF Observation, Modes
<1> HIDE DEF nb
<1>3. /\ ObservationOK(nb, log, emitted)
      /\ Alone => AloneOK(nb, checkpoint, log)
  BY <1>0, <1>2, Current, Reconnects
<1> QED
  BY <1>0, <1>2, <1>3, Current, QuietMoves

-----------------------------------------------------------------------------
(* Steps that receive, send and save an event.                             *)

\* The next event of a connection is in the log.
LEMMA IncomingFacts ==
    ASSUME IInv, NEW o \in Observers, Delivers(o)
    PROVE  /\ Incoming(o) = obs[o].pos + 1 /\ obs[o].mode = "collect"
           /\ Incoming(o) \in Ids /\ Incoming(o) \in Cursors
           /\ Incoming(o) \in 1..Len(log)
           /\ Reached(Incoming(o) - 1, log, emitted)
           /\ \A i \in DOMAIN obs[o].sent : ~Terminal(obs[o].sent[i])
<1>1. /\ obs[o].pos \in Int /\ 0 <= obs[o].pos /\ Len(log) \in Nat
      /\ Len(log) <= MaxEvents /\ obs[o].horizon \in Int
      /\ ObservationOK(obs[o], log, emitted)
  BY Current, Fields, Numbers
<1>2. obs[o].mode = "collect" /\ Incoming(o) = obs[o].pos + 1
  BY DEF Delivers, Incoming
<1>3. Incoming(o) \in Int /\ 1 <= Incoming(o) /\ Incoming(o) <= Len(log)
  BY <1>1, <1>2 DEF Delivers, Smaller
<1>4. Incoming(o) <= MaxEvents
  BY <1>1, <1>3, Numbers
<1>5. Reached(Incoming(o) - 1, log, emitted)
  <2>1. Incoming(o) - 1 = obs[o].pos
    BY <1>1, <1>2
  <2> QED
    BY <1>1, <1>2, <2>1 DEF ObservationOK, ProgressOK
<1>6. \A i \in DOMAIN obs[o].sent : ~Terminal(obs[o].sent[i])
  BY <1>1, <1>2 DEF ObservationOK, SentOK, Ends, Terminal
<1> QED
  BY <1>1, <1>2, <1>3, <1>4, <1>5, <1>6, Numbers

\* One event more is reached when it is malformed or was handed over.
LEMMA ReachedNext ==
    ASSUME NEW id \in Int, 1 <= id, NEW events, NEW handed,
           Reached(id - 1, events, handed),
           events[id] = "malformed" \/ id \in handed
    PROVE  Reached(id, events, handed)
<1>1. \A n \in 1..id : n \in 1..id - 1 \/ n = id
  OBVIOUS
<1> QED
  BY <1>1 DEF Reached

\* A malformed event is passed over, or one too many fails the observation.
LEMMA ReceiveMalformedInv ==
    ASSUME IInv, NEW o \in Observers, ReceiveMalformed(o)
    PROVE  IInv'
<1> DEFINE tolerated == obs[o].transport = "poll"
                        \/ obs[o].malformed < MaxMalformed
           counted == IF obs[o].transport = "poll" \/ ~tolerated
                        THEN 0 ELSE 1
           nb == [obs[o] EXCEPT
                    !.mode = IF tolerated THEN "collect" ELSE "failed",
                    !.pos = Incoming(o), !.malformed = @ + counted]
<1>0. /\ Delivers(o) /\ Become(o, nb)
      /\ log[Incoming(o)] = "malformed"
      /\ UNCHANGED <<log, checkpoint, emitted, faults, cancels>>
  BY DEF ReceiveMalformed
<1>1. obs[o].malformed + counted \in 0..MaxMalformed
  <2>1. MaxMalformed \in Nat /\ obs[o].malformed \in 0..MaxMalformed
    BY Current, ConstantsAssumption DEF ConstantsAssumption, Observation
  <2>2. CASE counted = 0
    BY <2>1, <2>2
  <2>3. CASE counted = 1 /\ obs[o].malformed < MaxMalformed
    BY <2>1, <2>3
  <2> QED
    BY <2>2, <2>3
<1> HIDE DEF counted
<1>2. /\ nb \in Observation
      /\ nb.mode = IF tolerated THEN "collect" ELSE "failed"
      /\ nb.start = obs[o].start /\ nb.cursor = obs[o].cursor
      /\ nb.sent = obs[o].sent /\ nb.pos = Incoming(o)
      /\ nb.taken = obs[o].taken
  BY <1>0, <1>1, Current, IncomingFacts DEF Observation, Modes
<1> HIDE DEF nb, tolerated
<1>3. Incoming(o) \in Int /\ 1 <= Incoming(o) /\ Incoming(o) <= Len(log)
      /\ Incoming(o) = obs[o].pos + 1 /\ obs[o].mode = "collect"
      /\ obs[o].cursor \in Int /\ obs[o].pos \in Int
  BY <1>0, IncomingFacts, Current, Fields, Numbers
<1>4. CASE nb.mode = "failed"
  <2>1. /\ ObservationOK(nb, log, emitted)
        /\ Alone => AloneOK(nb, checkpoint, log)
    BY <1>2, <1>3, <1>4, Current, Fails
  <2> QED
    BY <1>0, <1>2, <2>1, Current, QuietMoves
<1>5. CASE nb.mode = "collect"
  <2>1. Reached(Incoming(o), log, emitted)
    BY <1>0, <1>3, IncomingFacts, ReachedNext
  <2>2. ObservationOK(nb, log, emitted)
    BY <1>2, <1>3, <1>5, <2>1, Current
       DEF ObservationOK, SentOK, WindowOK, ProgressOK
  <2>3. Alone => AloneOK(nb, checkpoint, log)
    <3> SUFFICES ASSUME Alone
                 PROVE  AloneOK(nb, checkpoint, log)
      OBVIOUS
    <3>1. AloneOK(obs[o], checkpoint, log)
      BY Current
    <3>2. Adjacent(obs[o].cursor, Incoming(o), log)
      BY <1>3, <3>1 DEF AloneOK
    <3>3. Adjacent(obs[o].cursor, Incoming(o) + 1, log)
      <4>1. \A id \in obs[o].cursor + 1 .. (Incoming(o) + 1) - 1 :
              id \in obs[o].cursor + 1 .. Incoming(o) - 1 \/ id = Incoming(o)
        BY <1>3
      <4> QED
        BY <1>0, <1>3, <3>2, <4>1 DEF Adjacent
    <3> QED
      BY <1>2, <1>3, <1>5, <3>1, <3>3 DEF AloneOK, ContiguousIn, LastSent
  <2> QED
    BY <1>0, <1>2, <2>2, <2>3, Current, QuietMoves
<1> QED
  BY <1>2, <1>4, <1>5

\* An event that is still among the recent ones was handed over.
LEMMA ReceiveDuplicateInv ==
    ASSUME IInv, NEW o \in Observers, ReceiveDuplicate(o)
    PROVE  IInv'
<1> DEFINE id == Incoming(o)
           nb == [obs[o] EXCEPT
                    !.mode = IF Terminal(id) THEN "closed" ELSE "collect",
                    !.cursor = id, !.pos = id]
<1>0. /\ Delivers(o) /\ Become(o, nb) /\ id \in Recent(o)
      /\ UNCHANGED <<log, checkpoint, emitted, faults, cancels>>
  BY DEF ReceiveDuplicate
<1>1. /\ id \in Int /\ 1 <= id /\ id <= Len(log) /\ id \in Cursors
      /\ id = obs[o].pos + 1 /\ obs[o].mode = "collect"
      /\ obs[o].cursor \in Int /\ obs[o].pos \in Int
  BY <1>0, IncomingFacts, Current, Fields, Numbers
<1>2. PICK i \in DOMAIN obs[o].sent : obs[o].sent[i] = id
  BY <1>0 DEF Recent
<1>3. ~Terminal(id)
  BY <1>0, <1>2, IncomingFacts
<1>4. id \in emitted
  BY <1>2, Current DEF ObservationOK, SentOK
<1> HIDE DEF id
<1>5. /\ nb \in Observation /\ nb.mode = "collect"
      /\ nb.start = obs[o].start /\ nb.cursor = id
      /\ nb.sent = obs[o].sent /\ nb.pos = id /\ nb.taken = obs[o].taken
  BY <1>1, <1>3, Current DEF Observation, Modes
<1> HIDE DEF nb
<1>6. Reached(id, log, emitted)
  BY <1>0, <1>1, <1>4, IncomingFacts, ReachedNext DEF id
<1>7. ObservationOK(nb, log, emitted)
  <2>1. /\ obs[o].taken <= Len(obs[o].sent) /\ WindowOK(obs[o].sent)
        /\ SentOK(obs[o], log, emitted) /\ ProgressOK(obs[o], log, emitted)
    BY Current DEF ObservationOK
  <2>2. SentOK(nb, log, emitted)
    BY <1>1, <1>5, <2>1 DEF SentOK
  <2>3. ProgressOK(nb, log, emitted)
    BY <1>1, <1>5, <1>6, <2>1 DEF ProgressOK
  <2> QED
    BY <1>5, <2>1, <2>2, <2>3 DEF ObservationOK
<1>8. ~Alone
  <2> SUFFICES ASSUME Alone
               PROVE  FALSE
    OBVIOUS
  <2>1. AloneOK(obs[o], checkpoint, log)
    BY Current
  <2>2. obs[o].cursor < id /\ id <= obs[o].cursor
    BY <1>1, <1>2, <2>1 DEF AloneOK, ContiguousIn, Adjacent
  <2> QED
    BY <1>1, <2>2
<1> QED
  BY <1>0, <1>5, <1>7, <1>8, Current, QuietMoves

\* An event that is not among the recent ones moves the watermark.
LEMMA ReceiveNewInv ==
    ASSUME IInv, NEW o \in Observers, ReceiveNew(o)
    PROVE  IInv'
<1> DEFINE id == Incoming(o)
           nb == [obs[o] EXCEPT !.mode = "send", !.cursor = id, !.pos = id]
<1>0. /\ Delivers(o) /\ Become(o, nb) /\ id \notin Recent(o)
      /\ UNCHANGED <<log, checkpoint, emitted, faults, cancels>>
  BY DEF ReceiveNew
<1>1. /\ id \in Int /\ 1 <= id /\ id <= Len(log) /\ id \in Cursors
      /\ id = obs[o].pos + 1 /\ obs[o].mode = "collect"
      /\ Reached(id - 1, log, emitted)
      /\ \A i \in DOMAIN obs[o].sent : ~Terminal(obs[o].sent[i])
  BY <1>0, IncomingFacts
<1>2. \A i \in DOMAIN obs[o].sent :
        i > Len(obs[o].sent) - RecentCapacity => obs[o].sent[i] # id
  BY <1>0 DEF Recent
<1> HIDE DEF id
<1>3. /\ nb \in Observation /\ nb.mode = "send"
      /\ nb.start = obs[o].start /\ nb.cursor = id
      /\ nb.sent = obs[o].sent /\ nb.pos = id /\ nb.taken = obs[o].taken
  BY <1>1, Current DEF Observation, Modes
<1> HIDE DEF nb
<1>4. ObservationOK(nb, log, emitted)
  <2>1. SentOK(nb, log, emitted) /\ WindowOK(nb.sent)
    BY <1>1, <1>3, Current DEF ObservationOK, SentOK, WindowOK, Ends, Terminal
  <2>2. ProgressOK(nb, log, emitted)
    BY <1>1, <1>2, <1>3, Current DEF ObservationOK, ProgressOK
  <2> QED
    BY <1>3, <2>1, <2>2, Current DEF ObservationOK
<1>5. Alone => AloneOK(nb, checkpoint, log)
  <2> SUFFICES ASSUME Alone
               PROVE  AloneOK(nb, checkpoint, log)
    OBVIOUS
  <2>1. AloneOK(obs[o], checkpoint, log)
    BY Current
  <2>2. Adjacent(LastSent(obs[o]), id, log)
    BY <1>1, <2>1 DEF AloneOK
  <2> QED
    BY <1>1, <1>3, <2>1, <2>2 DEF AloneOK, ContiguousIn, LastSent
<1> QED
  BY <1>0, <1>3, <1>4, <1>5, Current, QuietMoves

\* The entries of a sequence that has got one more.
LEMMA AppendSent ==
    ASSUME NEW s \in Seq(Ids), NEW id \in Ids
    PROVE  /\ Append(s, id) \in Seq(Ids)
           /\ Len(s) \in Nat /\ Len(Append(s, id)) = Len(s) + 1
           /\ DOMAIN s = 1..Len(s)
           /\ DOMAIN Append(s, id) = 1..Len(s) + 1
           /\ \A i \in 1..Len(s) : Append(s, id)[i] = s[i]
           /\ Append(s, id)[Len(s) + 1] = id
           /\ Append(s, id) # <<>>
  OBVIOUS

\* The event goes into the channel.
LEMMA SendInv ==
    ASSUME IInv, NEW o \in Observers, Send(o)
    PROVE  IInv'
<1> DEFINE ob == obs[o]
           id == obs[o].cursor
           sent == Append(obs[o].sent, id)
           size == Len(obs[o].sent)
           nb == [obs[o] EXCEPT !.mode = "save", !.sent = sent]
<1>0. /\ ob.mode = "send" /\ Become(o, nb)
      /\ emitted' = emitted \cup {id}
      /\ UNCHANGED <<log, checkpoint, faults, cancels>>
  <2>1. [obs[o] EXCEPT !.mode = "save", !.sent = Append(@, id)] = nb
    OBVIOUS
  <2> QED
    BY <2>1 DEF Send
<1>1. /\ ob \in Observation /\ ObservationOK(ob, log, emitted)
      /\ ob.sent \in Seq(Ids) /\ ob.taken \in Int /\ ob.taken <= size
      /\ Len(log) \in Nat /\ Len(log) <= MaxEvents
  BY Current, Fields DEF ObservationOK
<1>2. /\ id \in Int /\ 1 <= id /\ id <= Len(log) /\ id \in Ids
      /\ ob.pos = id /\ Reached(id - 1, log, emitted)
      /\ \A i \in 1..size : i > size - RecentCapacity => ob.sent[i] # id
  <2>1. id \in Cursors /\ id >= 1 /\ id <= Len(log)
    BY <1>0, <1>1, Fields DEF ObservationOK, ProgressOK
  <2>2. /\ ob.pos = id /\ Reached(id - 1, log, emitted)
        /\ \A i \in 1..size : i > size - RecentCapacity => ob.sent[i] # id
    BY <1>0, <1>1, Fields DEF ObservationOK, ProgressOK
  <2> QED
    BY <2>1, <2>2, Numbers
<1>3. /\ sent \in Seq(Ids) /\ size \in Nat /\ Len(sent) = size + 1
      /\ DOMAIN ob.sent = 1..size /\ DOMAIN sent = 1..size + 1
      /\ \A i \in 1..size : sent[i] = ob.sent[i]
      /\ sent[size + 1] = id /\ sent # <<>>
      /\ \A i \in 1..size + 1 : i \in 1..size \/ i = size + 1
      /\ size + 1 \in 1..size + 1
  <2>1. size \in Nat
    BY <1>1
  <2> QED
    BY <1>1, <1>2, <2>1, AppendSent
<1> HIDE DEF sent
<1>4. /\ nb \in Observation /\ nb.mode = "save"
      /\ nb.start = ob.start /\ nb.cursor = id
      /\ nb.sent = sent /\ nb.pos = id /\ nb.taken = ob.taken
  BY <1>1, <1>2, <1>3 DEF Observation, Modes
<1> HIDE DEF nb, id, size, ob
<1>5. emitted' \subseteq Ids /\ emitted \subseteq emitted' /\ id \in emitted'
  BY <1>0, <1>2, Current
<1>6. ObservationOK(nb, log, emitted')
  <2>1. SentOK(nb, log, emitted')
    <3>1. \A i \in 1..size : /\ ob.sent[i] <= Len(log)
                             /\ ob.sent[i] \in emitted'
                             /\ ~Ends(log, ob.sent[i])
      BY <1>0, <1>1, <1>3, <1>5 DEF ObservationOK, SentOK
    <3> QED
      BY <1>2, <1>3, <1>4, <1>5, <3>1 DEF SentOK
  <2>2. WindowOK(nb.sent)
    <3> SUFFICES ASSUME NEW i \in 1..size + 1, NEW j \in 1..size + 1,
                        i < j, j <= i + RecentCapacity
                 PROVE  sent[i] # sent[j]
      BY <1>3, <1>4 DEF WindowOK
    <3>1. CASE j \in 1..size
      <4>1. i \in 1..size
        BY <1>3, <3>1
      <4> QED
        BY <1>1, <1>3, <3>1, <4>1 DEF ObservationOK, WindowOK
    <3>2. CASE j = size + 1
      <4>1. i \in 1..size /\ i > size - RecentCapacity
        BY <1>3, <3>2, Numbers
      <4> QED
        BY <1>2, <1>3, <3>2, <4>1
    <3> QED
      BY <1>3, <3>1, <3>2
  <2>3. Reached(id, log, emitted')
    <3>1. Reached(id - 1, log, emitted')
      BY <1>2, <1>5, HandedLater
    <3> QED
      BY <1>2, <1>5, <3>1, ReachedNext
  <2>4. ProgressOK(nb, log, emitted')
    BY <1>1, <1>2, <1>3, <1>4, <2>3 DEF ObservationOK, ProgressOK
  <2>5. nb.taken <= Len(nb.sent)
    BY <1>1, <1>3, <1>4
  <2> QED
    BY <2>1, <2>2, <2>4, <2>5 DEF ObservationOK
<1>7. Alone => AloneOK(nb, checkpoint, log)
  <2> SUFFICES ASSUME Alone
               PROVE  AloneOK(nb, checkpoint, log)
    OBVIOUS
  <2> DEFINE last == LastSent(ob)
  <2>1. AloneOK(ob, checkpoint, log)
    BY Current DEF ob
  <2>2. checkpoint = last /\ Adjacent(last, id, log)
    BY <1>0, <2>1 DEF AloneOK, id, ob
  <2>3. last < id /\ last \in Int
    BY <2>2, Current, Numbers DEF Adjacent
  <2>4. LastSent(nb) = id
    BY <1>3, <1>4 DEF LastSent
  <2>5. ASSUME NEW i \in 1..size
        PROVE  /\ Adjacent(IF i = 1 THEN nb.start ELSE nb.sent[i - 1],
                           nb.sent[i], log)
               /\ nb.sent[i] <= LastSent(nb)
    <3>1. /\ Adjacent(IF i = 1 THEN ob.start ELSE ob.sent[i - 1],
                      ob.sent[i], log)
          /\ ob.sent[i] <= last
      BY <1>3, <2>1 DEF AloneOK, ContiguousIn
    <3>2. i # 1 => i - 1 \in 1..size
      BY <1>3
    <3>3. ob.sent[i] \in Int
      BY <1>1, <1>3, Fields, Numbers
    <3> QED
      BY <1>2, <1>3, <1>4, <2>3, <2>4, <3>1, <3>2, <3>3
  <2>6. /\ Adjacent(IF size + 1 = 1 THEN nb.start ELSE nb.sent[(size + 1) - 1],
                    nb.sent[size + 1], log)
        /\ nb.sent[size + 1] <= LastSent(nb)
    <3>1. CASE size = 0
      <4>1. ob.sent = <<>>
        BY <1>1, <3>1 DEF size, ob
      <4> QED
        BY <1>2, <1>3, <1>4, <2>2, <2>4, <3>1, <4>1 DEF LastSent
    <3>2. CASE size # 0
      <4>1. /\ ob.sent # <<>> /\ size \in 1..size /\ (size + 1) - 1 = size
            /\ size + 1 # 1
        BY <1>3, <3>2 DEF size, ob
      <4>2. last = ob.sent[size]
        BY <4>1 DEF LastSent, size, ob
      <4> QED
        BY <1>2, <1>3, <1>4, <2>2, <2>4, <4>1, <4>2
    <3> QED
      BY <3>1, <3>2
  <2>7. ContiguousIn(nb, log)
    BY <1>3, <1>4, <2>5, <2>6 DEF ContiguousIn
  <2> HIDE DEF last
  <2> QED
    BY <1>2, <1>4, <2>2, <2>3, <2>4, <2>7 DEF AloneOK
<1> QED
  BY <1>0, <1>4, <1>5, <1>6, <1>7, Current, HandedLater, Moves

\* The event becomes the checkpoint; a terminal one is cleared next.
LEMMA SaveInv ==
    ASSUME IInv, NEW o \in Observers, Save(o)
    PROVE  IInv'
<1> DEFINE ob == obs[o]
           id == obs[o].cursor
           nb == [obs[o] EXCEPT
                    !.mode = IF Terminal(id) THEN "clear" ELSE "collect"]
<1>0. /\ ob.mode = "save" /\ Become(o, nb) /\ checkpoint' = id
      /\ UNCHANGED <<log, emitted, faults, cancels>>
  BY DEF Save
<1>1. /\ ob \in Observation /\ ObservationOK(ob, log, emitted)
      /\ id \in Cursors /\ id \in Int /\ id <= Len(log)
      /\ ob.pos = id /\ Reached(id, log, emitted)
      /\ ob.sent # <<>> /\ ob.sent[Len(ob.sent)] = id
  BY <1>0, Current, Fields, Numbers DEF ObservationOK, ProgressOK
<1>2. /\ nb \in Observation
      /\ nb.mode = IF Terminal(id) THEN "clear" ELSE "collect"
      /\ nb.start = ob.start /\ nb.cursor = id
      /\ nb.sent = ob.sent /\ nb.pos = id /\ nb.taken = ob.taken
  BY <1>1 DEF Observation, Modes
<1> HIDE DEF nb, id
<1>3. SentOK(nb, log, emitted) /\ WindowOK(nb.sent)
  BY <1>1, <1>2 DEF ObservationOK, SentOK, WindowOK, Ends, Terminal
<1>4. ProgressOK(nb, log, emitted)
  BY <1>1, <1>2 DEF ObservationOK, ProgressOK, Ends, Terminal
<1>5. ObservationOK(nb, log, emitted)
  BY <1>1, <1>2, <1>3, <1>4 DEF ObservationOK
<1>6. Alone => AloneOK(nb, id, log)
  <2> SUFFICES ASSUME Alone
               PROVE  AloneOK(nb, id, log)
    OBVIOUS
  <2>1. AloneOK(ob, checkpoint, log)
    BY Current
  <2>2. LastSent(nb) = id /\ LastSent(ob) = id
    BY <1>1, <1>2 DEF LastSent
  <2>3. ContiguousIn(nb, log)
    BY <1>2, <2>1, <2>2 DEF AloneOK, ContiguousIn
  <2>4. Adjacent(nb.cursor, nb.pos + 1, log)
    BY <1>1, <1>2 DEF Adjacent
  <2> QED
    BY <1>2, <2>2, <2>3, <2>4 DEF AloneOK
<1> QED
  BY <1>0, <1>1, <1>2, <1>5, <1>6, Current, Moves

\* The checkpoint of an ended task is cleared and the flow closed.
LEMMA ClearInv ==
    ASSUME IInv, NEW o \in Observers, Clear(o)
    PROVE  IInv'
<1> DEFINE nb == [obs[o] EXCEPT !.mode = "closed"]
<1>0. /\ obs[o].mode = "clear" /\ Become(o, nb) /\ checkpoint' = 0
      /\ UNCHANGED <<log, emitted, faults, cancels>>
  BY DEF Clear
<1>1. /\ obs[o].sent # <<>>
      /\ Ends(log, obs[o].sent[Len(obs[o].sent)])
  BY <1>0, Current DEF ObservationOK, ProgressOK
<1>2. /\ nb \in Observation /\ nb.mode = "closed"
      /\ nb.start = obs[o].start /\ nb.cursor = obs[o].cursor
      /\ nb.sent = obs[o].sent /\ nb.pos = obs[o].pos
      /\ nb.taken = obs[o].taken
  BY Current DEF Observation, Modes
<1> HIDE DEF nb
<1>3. ObservationOK(nb, log, emitted)
  BY <1>0, <1>1, <1>2, Current
     DEF ObservationOK, SentOK, WindowOK, ProgressOK
<1>4. Alone => AloneOK(nb, 0, log)
  BY <1>2, Current DEF AloneOK, ContiguousIn, LastSent
<1>5. 0 \in Cursors /\ 0 <= Len(log) /\ Reached(0, log, emitted)
  BY Current, Numbers DEF Reached
<1> QED
  BY <1>0, <1>2, <1>3, <1>4, <1>5, Current, Moves

\* A failing store, or a refused connection, ends the observation.
LEMMA GivesUpInv ==
    ASSUME IInv, NEW o \in Observers,
           Become(o, [obs[o] EXCEPT !.mode = "failed"]), Fault,
           UNCHANGED <<log, checkpoint, emitted, cancels>>
    PROVE  IInv'
<1> DEFINE nb == [obs[o] EXCEPT !.mode = "failed"]
<1>1. /\ nb \in Observation /\ nb.mode = "failed"
      /\ nb.start = obs[o].start /\ nb.cursor = obs[o].cursor
      /\ nb.sent = obs[o].sent /\ nb.pos = obs[o].pos
      /\ nb.taken = obs[o].taken
  BY Current DEF Observation, Modes
<1>2. Become(o, nb)
  OBVIOUS
<1> HIDE DEF nb
<1>3. nb.pos <= Len(log)
  BY <1>1, Current DEF ObservationOK, ProgressOK
<1>4. /\ ObservationOK(nb, log, emitted)
      /\ Alone => AloneOK(nb, checkpoint, log)
  BY <1>1, <1>3, Current, Fails
<1> QED
  BY <1>1, <1>2, <1>4, Current, FaultCounted, QuietMoves

\* An observation that changes its transport, tries it again or waits for the
\* next cycle stays where it was.
LEMMA ReconnectInv ==
    ASSUME IInv, NEW o \in Observers, obs[o].mode \in {"connect", "collect"},
           NEW mode \in {"connect", "backoff"}, NEW transport \in Transports,
           NEW attempt \in 0..MaxAttempts,
           Become(o, [obs[o] EXCEPT !.mode = mode, !.attempt = attempt,
                                    !.transport = transport]),
           faults' \in 0..MaxFaults,
           UNCHANGED <<log, checkpoint, emitted, cancels>>
    PROVE  IInv'
<1> DEFINE nb == [obs[o] EXCEPT !.mode = mode, !.attempt = attempt,
                                !.transport = transport]
<1>1. /\ nb \in Observation /\ nb.mode = mode
      /\ nb.start = obs[o].start /\ nb.cursor = obs[o].cursor
      /\ nb.sent = obs[o].sent /\ nb.pos = obs[o].pos
      /\ nb.taken = obs[o].taken
  BY Current DEF Observation, Modes
<1>2. Become(o, nb)
  OBVIOUS
<1> HIDE DEF nb
<1>3. /\ ObservationOK(nb, log, emitted)
      /\ Alone => AloneOK(nb, checkpoint, log)
  BY <1>1, Current, Reconnects
<1> QED
  BY <1>1, <1>2, <1>3, Current, QuietMoves

\* So does one that falls back to the next transport.
LEMMA FallBackInv ==
    ASSUME IInv, NEW o \in Observers, obs[o].mode \in {"connect", "collect"},
           FallBack(o), faults' \in 0..MaxFaults,
           UNCHANGED <<log, checkpoint, emitted, cancels>>
    PROVE  IInv'
<1> DEFINE next == IF obs[o].transport = "ws" THEN "sse" ELSE "poll"
<1>1. next \in Transports /\ 0 \in 0..MaxAttempts
  BY ConstantsAssumption DEF ConstantsAssumption, Transports
<1>2. Become(o, [obs[o] EXCEPT !.mode = "connect", !.attempt = 0,
                               !.transport = next])
  BY DEF FallBack
<1> HIDE DEF next
<1> QED
  BY <1>1, <1>2, ReconnectInv

\* A phase that ends in a retryable failure.
LEMMA PhaseRetryableInv ==
    ASSUME IInv, NEW o \in Observers, PhaseRetryable(o)
    PROVE  IInv'
<1>0. /\ obs[o].mode \in {"connect", "collect"}
      /\ faults' \in 0..MaxFaults
      /\ UNCHANGED <<log, checkpoint, emitted, cancels>>
  BY FaultCounted DEF PhaseRetryable, Phase, AwaitsPoll
<1>1. /\ obs[o] \in Observation
      /\ obs[o].transport \in Transports /\ obs[o].attempt \in 0..MaxAttempts
      /\ obs[o] = [obs[o] EXCEPT !.attempt = obs[o].attempt,
                                 !.transport = obs[o].transport]
  BY Current DEF Observation
<1>2. CASE Become(o, [obs[o] EXCEPT !.mode = "backoff"])
  <2>1. [obs[o] EXCEPT !.mode = "backoff"]
          = [obs[o] EXCEPT !.mode = "backoff", !.attempt = obs[o].attempt,
                           !.transport = obs[o].transport]
    BY <1>1 DEF Observation
  <2> QED
    BY <1>0, <1>1, <1>2, <2>1, ReconnectInv
<1>3. CASE /\ RetriesPhase(o)
           /\ Become(o, [obs[o] EXCEPT !.mode = "connect", !.attempt = @ + 1])
  <2>1. [obs[o] EXCEPT !.mode = "connect", !.attempt = @ + 1]
          = [obs[o] EXCEPT !.mode = "connect",
                           !.attempt = obs[o].attempt + 1,
                           !.transport = obs[o].transport]
    BY <1>1 DEF Observation
  <2>2. obs[o].attempt + 1 \in 0..MaxAttempts
    BY <1>1, <1>3, ConstantsAssumption DEF ConstantsAssumption, RetriesPhase
  <2> QED
    BY <1>0, <1>1, <1>3, <2>1, <2>2, ReconnectInv
<1>4. CASE FallBack(o)
  BY <1>0, <1>4, FallBackInv
<1> QED
  BY <1>2, <1>3, <1>4 DEF PhaseRetryable

\* A stream that ends, and a phase that is rejected.
LEMMA PhaseEndsInv ==
    ASSUME IInv, NEW o \in Observers,
           StreamEnds(o) \/ PhaseRejected(o) \/ PhaseFatal(o) \/ StoreFails(o)
    PROVE  IInv'
<1>1. CASE StreamEnds(o)
  BY <1>1, Current, FallBackInv DEF StreamEnds
<1>2. CASE PhaseRejected(o)
  <2>1. /\ obs[o].mode \in {"connect", "collect"} /\ Fault
        /\ UNCHANGED <<log, checkpoint, emitted, cancels>>
        /\ \/ Become(o, [obs[o] EXCEPT !.mode = "failed"])
           \/ FallBack(o)
    BY <1>2 DEF PhaseRejected, Phase, AwaitsPoll
  <2> QED
    BY <2>1, FaultCounted, FallBackInv, GivesUpInv
<1>3. CASE PhaseFatal(o) \/ StoreFails(o)
  BY <1>3, GivesUpInv DEF PhaseFatal, StoreFails
<1> QED
  BY <1>1, <1>2, <1>3

\* After the backoff a cycle starts at the checkpoint.
LEMMA BackoffInv ==
    ASSUME IInv, NEW o \in Observers, Backoff(o)
    PROVE  IInv'
<1> DEFINE from == IF checkpoint # 0 THEN checkpoint ELSE obs[o].cursor
           nb == [obs[o] EXCEPT !.mode = "connect", !.transport = "ws",
                                !.malformed = 0, !.cursor = from]
<1>0. /\ obs[o].mode = "backoff" /\ Become(o, nb)
      /\ UNCHANGED <<log, checkpoint, emitted, faults, cancels>>
  BY DEF Backoff
<1>1. /\ from \in Cursors /\ from <= Len(log) /\ Reached(from, log, emitted)
      /\ Alone => from = LastSent(obs[o]) /\ checkpoint = LastSent(obs[o])
  BY <1>0, Current, Fields DEF ObservationOK, ProgressOK, AloneOK
<1> HIDE DEF from
<1>2. /\ 0 \in 0..MaxMalformed /\ "ws" \in Transports /\ "connect" \in Modes
      /\ obs[o] \in Observation
  BY Current, ConstantsAssumption DEF ConstantsAssumption, Modes, Transports
<1>3. /\ nb \in Observation /\ nb.mode = "connect"
      /\ nb.start = obs[o].start /\ nb.cursor = from
      /\ nb.sent = obs[o].sent /\ nb.pos = obs[o].pos
      /\ nb.taken = obs[o].taken
  BY <1>1, <1>2 DEF Observation
<1> HIDE DEF nb
<1>4. ObservationOK(nb, log, emitted)
  BY <1>0, <1>1, <1>3, Current
     DEF ObservationOK, SentOK, WindowOK, ProgressOK
<1>5. Alone => AloneOK(nb, checkpoint, log)
  BY <1>1, <1>3, Current DEF AloneOK, ContiguousIn, LastSent
<1> QED
  BY <1>0, <1>3, <1>4, <1>5, Current, QuietMoves

\* The collector takes an event, and stops the observation at a terminal one.
LEMMA CollectInv ==
    ASSUME IInv, NEW o \in Observers, Collect(o)
    PROVE  IInv'
<1> DEFINE ob == obs[o]
           next == obs[o].taken + 1
           id == obs[o].sent[next]
           mode == IF Terminal(id) THEN "finished" ELSE obs[o].mode
           nb == [obs[o] EXCEPT !.taken = next, !.mode = mode]
<1>0. /\ Become(o, nb) /\ ob.taken < Len(ob.sent)
      /\ UNCHANGED <<log, checkpoint, emitted, faults, cancels>>
  <2>1. nb = [obs[o] EXCEPT
                !.taken = @ + 1,
                !.mode = IF Terminal(id) THEN "finished" ELSE @]
    OBVIOUS
  <2> QED
    BY <2>1 DEF Collect, Undrained
<1>1. /\ ob \in Observation /\ ObservationOK(ob, log, emitted)
      /\ next \in Nat /\ next <= Len(ob.sent) /\ next \in DOMAIN ob.sent
      /\ Len(ob.sent) \in Nat
  BY <1>0, Current, Fields
<1>2. Terminal(id) => next = Len(ob.sent)
  BY <1>1 DEF ObservationOK, SentOK, Ends, Terminal
<1>3. /\ mode = "finished" \/ mode = ob.mode
      /\ mode \in Modes
      /\ mode = "finished" /\ mode # ob.mode
           => Terminal(ob.sent[Len(ob.sent)]) /\ ob.sent # <<>>
  BY <1>1, <1>2 DEF Observation, Modes
<1> HIDE DEF next, mode
<1>4. /\ nb \in Observation /\ nb.mode = mode
      /\ nb.start = ob.start /\ nb.cursor = ob.cursor
      /\ nb.sent = ob.sent /\ nb.pos = ob.pos /\ nb.taken = next
  BY <1>1, <1>3 DEF Observation
<1> HIDE DEF nb, ob
<1>5. SentOK(nb, log, emitted) /\ WindowOK(nb.sent)
  BY <1>1, <1>3, <1>4 DEF ObservationOK, SentOK, WindowOK
<1>6. ProgressOK(nb, log, emitted)
  <2>1. CASE mode = ob.mode
    BY <1>1, <1>4, <2>1 DEF ObservationOK, ProgressOK
  <2>2. CASE mode = "finished" /\ mode # ob.mode
    BY <1>1, <1>3, <1>4, <2>2 DEF ObservationOK, ProgressOK, Ends, Terminal
  <2> QED
    BY <1>3, <2>1, <2>2
<1>7. Alone => AloneOK(nb, checkpoint, log)
  <2>1. Alone => AloneOK(ob, checkpoint, log)
    BY Current DEF ob
  <2> QED
    BY <1>3, <1>4, <2>1 DEF AloneOK, ContiguousIn, LastSent
<1>8. ObservationOK(nb, log, emitted)
  BY <1>1, <1>4, <1>5, <1>6 DEF ObservationOK
<1> QED
  BY <1>0, <1>4, <1>7, <1>8, Current, QuietMoves

\* A cancelled collection leaves nothing but the checkpoint.
LEMMA CancelInv ==
    ASSUME IInv, NEW o \in Observers, Cancel(o)
    PROVE  IInv'
<1>1. /\ Become(o, Fresh) /\ cancels' \in 0..MaxCancels
      /\ UNCHANGED <<log, checkpoint, emitted, faults>>
  <2>1. MaxCancels \in Nat /\ cancels \in 0..MaxCancels
    BY Current, ConstantsAssumption DEF ConstantsAssumption
  <2> QED
    BY <2>1 DEF Cancel
<1>2. ObservationOK(Fresh, log, emitted)
  BY Current, FreshFacts DEF ObservationOK, SentOK, WindowOK, ProgressOK
<1>3. AloneOK(Fresh, checkpoint, log)
  BY FreshFacts DEF AloneOK, ContiguousIn
<1> QED
  BY <1>1, <1>2, <1>3, Current, FreshFacts, QuietMoves

-----------------------------------------------------------------------------
(* The theorems.                                                           *)

\* No step of the task, of an observation or of a collector breaks the
\* invariant.
LEMMA NextInv == IInv /\ [Next]_vars => IInv'
<1> SUFFICES ASSUME IInv, [Next]_vars
             PROVE  IInv'
  OBVIOUS
<1>1. CASE \E kind \in Kinds : AppendEvent(kind)
  BY <1>1, AppendEventInv
<1>2. ASSUME NEW o \in Observers,
             \/ \E after \in ExplicitCursors \cup {0} : Observe(o, after)
             \/ Works(o) \/ Collect(o) \/ Disturbed(o)
      PROVE  IInv'
  <2>1. CASE \E after \in ExplicitCursors \cup {0} : Observe(o, after)
    BY <2>1, ObserveInv
  <2>2. CASE Works(o)
    BY <2>2, LoadInv, ConnectInv, PollInv, ReceiveMalformedInv,
       ReceiveDuplicateInv, ReceiveNewInv, SendInv, SaveInv, ClearInv,
       BackoffInv, Zenon DEF Works
  <2>3. CASE Collect(o)
    BY <2>3, CollectInv
  <2>4. CASE Disturbed(o)
    BY <2>4, CancelInv, PhaseRetryableInv, PhaseEndsInv, Zenon DEF Disturbed
  <2> QED
    BY <1>2, <2>1, <2>2, <2>3, <2>4
<1>3. CASE UNCHANGED vars
  BY <1>3 DEF vars, IInv, TypeOK
<1> QED
  BY <1>1, <1>2, <1>3 DEF Next

\* The invariant that the theorems below rest on.
THEOREM Invariance == Spec => []IInv
<1>1. Init => IInv
  BY InitInv
<1>2. IInv /\ [Next]_vars => IInv'
  BY NextInv
<1> QED
  BY <1>1, <1>2, PTL DEF Spec

\* Every variable keeps its type, whatever the observations do.
THEOREM TypeCorrect == Spec => []TypeOK
<1>1. IInv => TypeOK
  BY DEF IInv
<1> QED
  BY <1>1, Invariance, PTL

\* However many observations share the checkpoint, whichever of them fail or
\* are cancelled, it never passes an event that nobody was handed.
THEOREM CheckpointCovered == Spec => []CheckpointWasSent
<1>1. IInv => CheckpointWasSent
  BY DEF IInv, Reached, CheckpointWasSent, Malformed
<1> QED
  BY <1>1, Invariance, PTL

\* Any observation that completes has sent the terminal event last, with
\* other observations of the task beside it or not.
THEOREM CompletesAtTerminal ==
    Spec => [](\A o \in Observers :
                 Over(o) => /\ obs[o].sent # <<>>
                            /\ Terminal(obs[o].sent[Len(obs[o].sent)]))
<1>1. IInv => \A o \in Observers :
                Over(o) => /\ obs[o].sent # <<>>
                           /\ Terminal(obs[o].sent[Len(obs[o].sent)])
  BY DEF IInv, ObservationOK, ProgressOK, Over, Ends, Terminal
<1> QED
  BY <1>1, Invariance, PTL

\* The only observation of a task, started without an event id, sends every
\* well-formed event after the one it began with, once and in order.
THEOREM DeliversInOrder ==
    ASSUME Alone
    PROVE  Spec => []ContiguousDelivery
<1>1. IInv => ContiguousDelivery
  BY DEF IInv, AloneOK, ContiguousIn, Adjacent, ContiguousDelivery, Previous,
         Malformed
<1> QED
  BY <1>1, Invariance, PTL

\* Two sends of one event by an observation are further apart than the ids
\* that RecentEventIds holds.
THEOREM RepeatsAreFarApart ==
    Spec => [](\A o \in Observers : WindowOK(obs[o].sent))
<1>1. IInv => \A o \in Observers : WindowOK(obs[o].sent)
  BY DEF IInv, ObservationOK
<1> QED
  BY <1>1, Invariance, PTL

\* A sequence of numbers up to n whose repeats would lie further apart than n
\* has none: its first n + 1 entries could not all be different.
LEMMA NoRepeatsInWindow ==
    ASSUME RecentCapacity >= MaxEvents, NEW s \in Seq(Ids), WindowOK(s),
           NEW i \in DOMAIN s, NEW j \in DOMAIN s, s[i] = s[j]
    PROVE  i = j
<1>0. /\ MaxEvents \in Nat /\ RecentCapacity \in Nat
      /\ Len(s) \in Nat /\ DOMAIN s = 1..Len(s)
      /\ \A k \in 1..Len(s) : s[k] \in Ids
  BY Numbers
<1>1. Len(s) <= MaxEvents
  <2> SUFFICES ASSUME Len(s) > MaxEvents
               PROVE  FALSE
    BY <1>0
  <2> DEFINE D == 1..MaxEvents + 1
             f == [k \in D |-> s[k]]
  <2>1. /\ IsFiniteSet(D) /\ Cardinality(D) = MaxEvents + 1
    <3>1. MaxEvents + 1 \in Int /\ ~(1 > MaxEvents + 1)
          /\ (MaxEvents + 1) - 1 + 1 = MaxEvents + 1
      BY <1>0
    <3> QED
      BY <3>1, FS_Interval
  <2>2. IsFiniteSet(Ids) /\ Cardinality(Ids) = MaxEvents
    <3>1. IsFiniteSet(1..MaxEvents)
          /\ Cardinality(1..MaxEvents)
               = IF 1 > MaxEvents THEN 0 ELSE MaxEvents - 1 + 1
      BY <1>0, FS_Interval
    <3> QED
      BY <1>0, <3>1 DEF Ids
  <2>3. Cardinality(Ids) < Cardinality(D)
    BY <1>0, <2>1, <2>2
  <2>4. D \subseteq 1..Len(s)
    BY <1>0
  <2>5. f \in [D -> Ids]
    BY <1>0, <2>4
  <2> HIDE DEF D, f
  <2>6. PICK x \in D, y \in D : x # y /\ f[x] = f[y]
    BY <2>1, <2>2, <2>3, <2>5, FS_PigeonHole
  <2>7. /\ x \in 1..Len(s) /\ y \in 1..Len(s) /\ s[x] = s[y] /\ x # y
        /\ x \in Int /\ y \in Int
        /\ x <= y + RecentCapacity /\ y <= x + RecentCapacity
    BY <1>0, <2>4, <2>6 DEF D, f
  <2> QED
    BY <1>0, <2>7 DEF WindowOK
<1>2. j <= i + RecentCapacity /\ i <= j + RecentCapacity
  BY <1>0, <1>1
<1> QED
  BY <1>0, <1>2 DEF WindowOK

\* While RecentEventIds holds the ids of the whole log no observation sends an
\* event twice, whatever the others do to the checkpoint it backs off to.
THEOREM SendsOnce ==
    ASSUME RecentCapacity >= MaxEvents
    PROVE  Spec => []NoRepeats
<1>1. IInv => NoRepeats
  <2> SUFFICES ASSUME IInv, NEW o \in Observers,
                      NEW i \in DOMAIN obs[o].sent,
                      NEW j \in DOMAIN obs[o].sent,
                      obs[o].sent[i] = obs[o].sent[j]
               PROVE  i = j
    BY DEF NoRepeats
  <2>1. obs[o].sent \in Seq(Ids) /\ WindowOK(obs[o].sent)
    BY Current, Fields DEF ObservationOK
  <2> QED
    BY <2>1, NoRepeatsInWindow
<1> QED
  BY <1>1, Invariance, PTL

\* A sequence of numbers each of which is below the next has no repeats.
LEMMA AscendingHasNoRepeats ==
    ASSUME NEW s \in Seq(Ids),
           \A i \in DOMAIN s : i > 1 => s[i - 1] < s[i],
           NEW i \in DOMAIN s, NEW j \in DOMAIN s, i < j
    PROVE  s[i] < s[j]
<1> DEFINE T == {n \in Nat : i + n + 1 <= Len(s) => s[i] < s[i + n + 1]}
<1>1. /\ Len(s) \in Nat /\ DOMAIN s = 1..Len(s)
      /\ \A k \in 1..Len(s) : s[k] \in Int
  BY Numbers
<1>2. 0 \in T
  <2> SUFFICES ASSUME i + 1 <= Len(s)
               PROVE  s[i] < s[i + 1]
    BY <1>1
  <2>1. i + 1 \in DOMAIN s /\ i + 1 > 1 /\ (i + 1) - 1 = i
    BY <1>1
  <2> QED
    BY <2>1
<1>3. ASSUME NEW n \in Nat, n \in T
      PROVE  n + 1 \in T
  <2> SUFFICES ASSUME i + (n + 1) + 1 <= Len(s)
               PROVE  s[i] < s[i + (n + 1) + 1]
    BY <1>1
  <2> DEFINE k == i + (n + 1) + 1
  <2>1. /\ k \in DOMAIN s /\ k > 1 /\ k - 1 = i + n + 1
        /\ k - 1 \in DOMAIN s /\ i + n + 1 <= Len(s)
    BY <1>1
  <2>2. s[i] < s[k - 1]
    BY <1>3, <2>1
  <2>3. s[k - 1] < s[k]
    BY <2>1
  <2>4. s[i] \in Int /\ s[k - 1] \in Int /\ s[k] \in Int
    BY <1>1, <2>1
  <2> HIDE DEF k
  <2>5. s[i] < s[k]
    BY <2>2, <2>3, <2>4
  <2> QED
    BY <2>5 DEF k
<1> HIDE DEF T
<1>4. Nat \subseteq T
  BY <1>2, <1>3, SetInduction
<1>5. (j - i) - 1 \in Nat /\ i + ((j - i) - 1) + 1 = j /\ j <= Len(s)
  BY <1>1
<1> QED
  BY <1>4, <1>5 DEF T

\* Only a save and the clearing of an ended task touch the checkpoint.
LEMMA CheckpointSteps ==
    ASSUME [Next]_vars
    PROVE  \/ UNCHANGED checkpoint
           \/ \E o \in Observers : Save(o) \/ Clear(o)
<1>1. CASE \E kind \in Kinds : AppendEvent(kind)
  BY <1>1 DEF AppendEvent
<1>2. ASSUME NEW o \in Observers,
             \/ \E after \in ExplicitCursors \cup {0} : Observe(o, after)
             \/ Collect(o) \/ Disturbed(o)
      PROVE  UNCHANGED checkpoint
  BY <1>2 DEF Observe, Collect, Disturbed, StoreFails, StreamEnds, Cancel,
              PhaseRetryable, PhaseRejected, PhaseFatal
<1>3. ASSUME NEW o \in Observers, Works(o)
      PROVE  UNCHANGED checkpoint \/ Save(o) \/ Clear(o)
  BY <1>3 DEF Works, Load, Connect, Poll, ReceiveMalformed, ReceiveDuplicate,
              ReceiveNew, Send, Backoff
<1>4. CASE UNCHANGED vars
  BY <1>4 DEF vars
<1> QED
  BY <1>1, <1>2, <1>3, <1>4 DEF Next

\* Until the terminal event was sent the only observation of a task moves the
\* checkpoint forward, over cancellations, failures and backoffs.
THEOREM CheckpointAdvances ==
    ASSUME Alone
    PROVE  Spec => CheckpointOnlyAdvances
<1> DEFINE Advances ==
             checkpoint' >= checkpoint \/ \E id \in emitted : Terminal(id)
<1>1. ASSUME IInv, [Next]_vars
      PROVE  Advances
  <2>1. CASE UNCHANGED checkpoint
    <3>1. checkpoint \in Int
      BY <1>1, Numbers DEF IInv, TypeOK
    <3> QED
      BY <2>1, <3>1
  <2>2. ASSUME NEW o \in Observers, Save(o)
        PROVE  Advances
    <3>1. obs[o].mode = "save" /\ checkpoint' = obs[o].cursor
      BY <2>2 DEF Save
    <3>2. checkpoint <= obs[o].cursor
      BY <1>1, <3>1, Current DEF AloneOK
    <3>3. checkpoint \in Int /\ obs[o].cursor \in Int
      BY <1>1, Current, Fields, Numbers
    <3> QED
      BY <3>1, <3>2, <3>3
  <2>3. ASSUME NEW o \in Observers, Clear(o)
        PROVE  Advances
    <3>1. obs[o].mode = "clear"
      BY <2>3 DEF Clear
    <3>2. /\ obs[o].sent # <<>> /\ Ends(log, obs[o].cursor)
          /\ obs[o].sent[Len(obs[o].sent)] = obs[o].cursor
          /\ obs[o] \in Observation
      BY <1>1, <3>1, Current DEF ObservationOK, ProgressOK
    <3>3. Len(obs[o].sent) \in DOMAIN obs[o].sent
      BY <3>2, Fields
    <3>4. obs[o].cursor \in emitted
      BY <1>1, <3>2, <3>3, Current DEF ObservationOK, SentOK
    <3> QED
      BY <3>2, <3>4 DEF Ends, Terminal
  <2> QED
    BY <1>1, <2>1, <2>2, <2>3, CheckpointSteps
<1>2. IInv /\ [Next]_vars => [Advances]_vars
  BY <1>1
<1> QED
  BY <1>2, Invariance, PTL DEF Spec, CheckpointOnlyAdvances

-----------------------------------------------------------------------------
(* The only observation of a task, from wherever it begins.                *)

\* What is sent ascends, and once something was the checkpoint is the last of
\* it, except while it is saved.
SingleOK(ob, saved) ==
    LET last == ob.sent[Len(ob.sent)] IN
    /\ \A i \in DOMAIN ob.sent : /\ i > 1 => ob.sent[i - 1] < ob.sent[i]
                                 /\ ob.sent[i] <= last
    /\ ob.sent # <<>> =>
         /\ ob.mode \notin {"idle", "load"}
         /\ ob.mode \in {"connect", "collect", "backoff", "send"}
              => saved = last
         /\ ob.mode \in {"connect", "collect", "backoff", "save"}
              => ob.cursor = last
         /\ ob.mode = "collect" => last <= ob.pos
         /\ ob.mode = "send" => last < ob.cursor
    /\ ob.mode = "closed" => saved = 0

SingleInv == Single => \A o \in Observers : SingleOK(obs[o], checkpoint)

\* With one observer it is enough to look at the one that moves.
LEMMA SingleMoves ==
    ASSUME IInv, NEW o \in Observers, NEW nb, Become(o, nb),
           Single => SingleOK(nb, checkpoint')
    PROVE  SingleInv'
<1>1. obs \in [Observers -> Observation]
  BY DEF IInv, TypeOK
<1>2. \A p \in Observers : p = o => obs'[p] = nb
  BY <1>1 DEF Become
<1> QED
  BY <1>2 DEF SingleInv, Single

\* An observation that has sent nothing.
LEMMA NothingSent ==
    ASSUME NEW ob, NEW saved, ob.sent = <<>>, ob.mode # "closed"
    PROVE  SingleOK(ob, saved)
  BY DEF SingleOK

\* One that has failed or finished, or that does what it did before.
LEMMA SameSent ==
    ASSUME NEW ob, NEW nb, NEW saved, SingleOK(ob, saved), nb.sent = ob.sent,
           \/ nb.mode \in {"failed", "finished"}
           \/ nb.mode = ob.mode /\ nb.cursor = ob.cursor /\ nb.pos = ob.pos
    PROVE  SingleOK(nb, saved)
  BY DEF SingleOK

\* One that connects, is connected, or backs off.
LEMMA SingleReconnects ==
    ASSUME NEW ob \in Observation, NEW nb, NEW saved, SingleOK(ob, saved),
           nb.sent = ob.sent, nb.cursor = ob.cursor,
           ob.mode \in {"connect", "collect"},
           nb.mode \in {"connect", "collect", "backoff"},
           nb.mode = "collect" =>
             \/ nb.pos = ob.cursor
             \/ ob.mode = "collect" /\ nb.pos = ob.pos + 1
    PROVE  SingleOK(nb, saved)
<1>1. ob.pos \in Int /\ ob.cursor \in Int
  BY Fields, Numbers
<1>2. CASE ob.sent = <<>>
  BY <1>2 DEF SingleOK
<1>3. CASE ob.sent # <<>>
  <2> DEFINE last == ob.sent[Len(ob.sent)]
  <2>1. last \in Int
    BY <1>3, Fields, Numbers
  <2>2. ob.cursor = last /\ saved = last
    BY <1>3 DEF SingleOK
  <2>3. ob.mode = "collect" => last <= ob.pos
    BY <1>3 DEF SingleOK
  <2>4. nb.mode = "collect" => last <= nb.pos
    BY <1>1, <2>1, <2>2, <2>3
  <2>5. \A i \in DOMAIN ob.sent :
          (i > 1 => ob.sent[i - 1] < ob.sent[i]) /\ ob.sent[i] <= last
    BY DEF SingleOK
  <2> HIDE DEF last
  <2>6. nb.sent[Len(nb.sent)] = last
    BY DEF last
  <2> QED
    BY <2>2, <2>4, <2>5, <2>6 DEF SingleOK
<1> QED
  BY <1>2, <1>3

\* The steps that send and save nothing.
LEMMA SingleQuiet ==
    ASSUME IInv, Single, NEW o \in Observers, SingleOK(obs[o], checkpoint),
           \/ \E after \in ExplicitCursors \cup {0} : Observe(o, after)
           \/ Load(o) \/ Connect(o) \/ Poll(o) \/ ReceiveMalformed(o)
           \/ Collect(o) \/ Disturbed(o)
    PROVE  SingleInv'
<1> DEFINE ob == obs[o]
<1>1. ob \in Observation /\ checkpoint' = checkpoint
  BY Current DEF Observe, Load, Connect, Poll, ReceiveMalformed, Collect,
                 Disturbed, StoreFails, StreamEnds, Cancel, PhaseRetryable,
                 PhaseRejected, PhaseFatal
<1>2. ob.mode = "load" => ob.sent = <<>>
  BY Current DEF ObservationOK, ProgressOK
<1>3. ASSUME NEW after, Observe(o, after)
      PROVE  SingleInv'
  <2> DEFINE nb == [Fresh EXCEPT !.mode = "load", !.start = after]
  <2>1. Become(o, nb) /\ nb.sent = <<>> /\ nb.mode = "load"
    BY <1>3 DEF Observe, Fresh
  <2> HIDE DEF nb
  <2> QED
    BY <2>1, SingleMoves, NothingSent
<1>4. CASE Load(o)
  <2> DEFINE first == IF ob.start # 0 THEN ob.start ELSE checkpoint
             nb == [ob EXCEPT !.mode = "connect", !.start = first,
                              !.cursor = first]
  <2>1. Become(o, nb) /\ ob.mode = "load"
    BY <1>4 DEF Load
  <2>2. nb.sent = <<>> /\ nb.mode = "connect"
    BY <1>1, <1>2, <2>1 DEF Observation
  <2> HIDE DEF nb
  <2> QED
    BY <2>1, <2>2, SingleMoves, NothingSent
<1>5. ASSUME NEW nb, Become(o, nb), nb.sent = ob.sent, nb.cursor = ob.cursor,
             ob.mode \in {"connect", "collect"},
             nb.mode \in {"connect", "collect", "backoff"},
             nb.mode = "collect" =>
               \/ nb.pos = ob.cursor
               \/ ob.mode = "collect" /\ nb.pos = ob.pos + 1
      PROVE  SingleInv'
  <2> HIDE DEF ob
  <2>1. SingleOK(nb, checkpoint)
    BY <1>1, <1>5, SingleReconnects DEF ob
  <2> QED
    BY <1>1, <1>5, <2>1, SingleMoves
<1>6. ASSUME NEW nb, Become(o, nb), nb.sent = ob.sent,
             \/ nb.mode \in {"failed", "finished"}
             \/ nb.mode = ob.mode /\ nb.cursor = ob.cursor /\ nb.pos = ob.pos
      PROVE  SingleInv'
  BY <1>1, <1>6, SingleMoves, SameSent
<1>7. CASE Connect(o)
  <2> DEFINE nb == [ob EXCEPT !.mode = "collect", !.pos = ob.cursor,
                              !.horizon = MaxEvents]
  <2>1. Become(o, nb) /\ ob.mode = "connect"
    BY <1>7 DEF Connect
  <2>2. /\ nb.sent = ob.sent /\ nb.cursor = ob.cursor
        /\ nb.mode = "collect" /\ nb.pos = ob.cursor
    BY <1>1 DEF Observation
  <2> HIDE DEF nb
  <2> QED
    BY <1>5, <2>1, <2>2
<1>8. CASE Poll(o)
  <2> DEFINE nb == [ob EXCEPT !.mode = "collect", !.pos = ob.cursor,
               !.horizon = Smaller(Len(log), ob.cursor + PollMaxEvents)]
  <2>1. Become(o, nb) /\ ob.mode \in {"connect", "collect"}
    BY <1>8 DEF Poll, AwaitsPoll
  <2>2. /\ nb.sent = ob.sent /\ nb.cursor = ob.cursor
        /\ nb.mode = "collect" /\ nb.pos = ob.cursor
    BY <1>1 DEF Observation
  <2> HIDE DEF nb
  <2> QED
    BY <1>5, <2>1, <2>2
<1>9. CASE ReceiveMalformed(o)
  <2> DEFINE tolerated == ob.transport = "poll" \/ ob.malformed < MaxMalformed
             counted == IF ob.transport = "poll" \/ ~tolerated THEN 0 ELSE 1
             nb == [ob EXCEPT
                      !.mode = IF tolerated THEN "collect" ELSE "failed",
                      !.pos = Incoming(o), !.malformed = @ + counted]
  <2>1. Become(o, nb) /\ ob.mode = "collect"
    BY <1>9 DEF ReceiveMalformed, Delivers
  <2>2. /\ nb.sent = ob.sent /\ nb.cursor = ob.cursor
        /\ nb.mode \in {"collect", "failed"} /\ nb.pos = ob.pos + 1
    BY <1>1 DEF Observation, Incoming
  <2> HIDE DEF nb
  <2> QED
    BY <1>5, <1>6, <2>1, <2>2
<1>10. CASE Collect(o)
  <2> DEFINE id == ob.sent[ob.taken + 1]
             nb == [ob EXCEPT !.taken = @ + 1,
                        !.mode = IF Terminal(id) THEN "finished" ELSE @]
  <2>1. Become(o, nb)
    BY <1>10 DEF Collect
  <2>2. /\ nb.sent = ob.sent /\ nb.cursor = ob.cursor /\ nb.pos = ob.pos
        /\ nb.mode \in {"finished", ob.mode}
    BY <1>1 DEF Observation
  <2> HIDE DEF nb
  <2> QED
    BY <1>6, <2>1, <2>2
<1>11. ASSUME NEW nb, nb = [ob EXCEPT !.mode = "failed"], Become(o, nb)
       PROVE  SingleInv'
  <2>1. nb.sent = ob.sent /\ nb.mode = "failed"
    BY <1>1, <1>11 DEF Observation
  <2> QED
    BY <1>6, <1>11, <2>1
<1>12. ASSUME FallBack(o), ob.mode \in {"connect", "collect"}
       PROVE  SingleInv'
  <2> DEFINE nb == [ob EXCEPT
                      !.mode = "connect", !.attempt = 0,
                      !.transport = IF @ = "ws" THEN "sse" ELSE "poll"]
  <2>1. Become(o, nb)
    BY <1>12 DEF FallBack
  <2>2. /\ nb.sent = ob.sent /\ nb.cursor = ob.cursor
        /\ nb.mode = "connect"
    BY <1>1 DEF Observation
  <2> HIDE DEF nb
  <2> QED
    BY <1>5, <1>12, <2>1, <2>2
<1>13. Phase(o) => ob.mode \in {"connect", "collect"}
  BY DEF Phase, AwaitsPoll
<1>14. CASE StoreFails(o)
  BY <1>11, <1>14 DEF StoreFails
<1>15. CASE StreamEnds(o)
  BY <1>12, <1>15 DEF StreamEnds
<1>16. CASE Cancel(o)
  BY <1>16, FreshFacts, SingleMoves, NothingSent DEF Cancel
<1>17. CASE PhaseRetryable(o)
  <2>1. CASE Become(o, [ob EXCEPT !.mode = "backoff"])
    <3> DEFINE nb == [ob EXCEPT !.mode = "backoff"]
    <3>1. /\ nb.sent = ob.sent /\ nb.cursor = ob.cursor
          /\ nb.mode = "backoff"
      BY <1>1 DEF Observation
    <3>2. Become(o, nb) /\ ob.mode \in {"connect", "collect"}
      BY <1>13, <1>17, <2>1 DEF PhaseRetryable
    <3> HIDE DEF nb
    <3> QED
      BY <1>5, <3>1, <3>2
  <2>2. CASE Become(o, [ob EXCEPT !.mode = "connect", !.attempt = @ + 1])
    <3> DEFINE nb == [ob EXCEPT !.mode = "connect", !.attempt = @ + 1]
    <3>1. /\ nb.sent = ob.sent /\ nb.cursor = ob.cursor
          /\ nb.mode = "connect"
      BY <1>1 DEF Observation
    <3>2. Become(o, nb) /\ ob.mode \in {"connect", "collect"}
      BY <1>13, <1>17, <2>2 DEF PhaseRetryable
    <3> HIDE DEF nb
    <3> QED
      BY <1>5, <3>1, <3>2
  <2>3. CASE FallBack(o)
    BY <1>12, <1>13, <1>17, <2>3 DEF PhaseRetryable
  <2> QED
    BY <1>17, <2>1, <2>2, <2>3 DEF PhaseRetryable
<1>18. CASE PhaseRejected(o)
  BY <1>11, <1>12, <1>13, <1>18 DEF PhaseRejected
<1>19. CASE PhaseFatal(o)
  BY <1>11, <1>19 DEF PhaseFatal
<1> QED
  BY <1>3, <1>4, <1>7, <1>8, <1>9, <1>10, <1>14, <1>15, <1>16, <1>17, <1>18,
     <1>19 DEF Disturbed

\* What comes in next is above everything the observation has sent.
LEMMA ComesNext ==
    ASSUME IInv, NEW o \in Observers, obs[o].mode = "collect",
           SingleOK(obs[o], checkpoint)
    PROVE  /\ \A i \in DOMAIN obs[o].sent : obs[o].sent[i] < Incoming(o)
           /\ obs[o].sent # <<>> =>
                /\ obs[o].sent[Len(obs[o].sent)] < Incoming(o)
                /\ checkpoint = obs[o].sent[Len(obs[o].sent)]
<1> DEFINE ob == obs[o]
           last == ob.sent[Len(ob.sent)]
<1>1. /\ ob.pos \in Int /\ Len(ob.sent) \in Nat
      /\ DOMAIN ob.sent = 1..Len(ob.sent)
      /\ \A i \in DOMAIN ob.sent : ob.sent[i] \in Int
  BY Current, Fields, Numbers
<1>2. ob.sent # <<>> => Len(ob.sent) \in DOMAIN ob.sent
  BY Current, Fields
<1>3. ob.sent # <<>> => checkpoint = last /\ last <= ob.pos
  BY DEF SingleOK
<1>4. \A i \in DOMAIN ob.sent : ob.sent[i] <= last /\ ob.sent # <<>>
  BY <1>1 DEF SingleOK
<1> HIDE DEF last, ob
<1>5. last \in Int \/ ob.sent = <<>>
  BY <1>1, <1>2 DEF last
<1>6. \A i \in DOMAIN ob.sent : ob.sent[i] < ob.pos + 1
  BY <1>1, <1>3, <1>4, <1>5
<1> QED
  BY <1>1, <1>2, <1>3, <1>6 DEF Incoming, last, ob

\* So it is no duplicate.
LEMMA SingleDuplicate ==
    ASSUME IInv, NEW o \in Observers, SingleOK(obs[o], checkpoint)
    PROVE  ~ReceiveDuplicate(o)
<1> SUFFICES ASSUME ReceiveDuplicate(o)
             PROVE  FALSE
  OBVIOUS
<1>1. obs[o].mode = "collect" /\ Incoming(o) \in Recent(o)
  BY DEF ReceiveDuplicate, Delivers
<1>2. PICK i \in DOMAIN obs[o].sent : Incoming(o) = obs[o].sent[i]
  BY <1>1 DEF Recent
<1>3. Incoming(o) \in Int
  BY Current, Fields, Numbers DEF Incoming
<1> QED
  BY <1>1, <1>2, <1>3, ComesNext

\* It is taken to be sent.
LEMMA SingleNew ==
    ASSUME IInv, NEW o \in Observers, SingleOK(obs[o], checkpoint),
           ReceiveNew(o)
    PROVE  SingleInv'
<1> DEFINE ob == obs[o]
           nb == [obs[o] EXCEPT !.mode = "send", !.cursor = Incoming(o),
                                !.pos = Incoming(o)]
<1>1. /\ Become(o, nb) /\ checkpoint' = checkpoint /\ ob.mode = "collect"
  BY DEF ReceiveNew, Delivers
<1>2. nb.sent = ob.sent /\ nb.mode = "send" /\ nb.cursor = Incoming(o)
  BY Current DEF Observation
<1>3. \A i \in DOMAIN ob.sent :
        /\ i > 1 => ob.sent[i - 1] < ob.sent[i]
        /\ ob.sent[i] <= ob.sent[Len(ob.sent)]
  BY DEF SingleOK
<1>4. ob.sent # <<>> => /\ ob.sent[Len(ob.sent)] < Incoming(o)
                        /\ checkpoint = ob.sent[Len(ob.sent)]
  BY <1>1, ComesNext
<1> HIDE DEF nb, ob
<1>5. SingleOK(nb, checkpoint)
  BY <1>2, <1>3, <1>4 DEF SingleOK
<1> QED
  BY <1>1, <1>5, SingleMoves

\* It is sent.
LEMMA SingleSend ==
    ASSUME IInv, NEW o \in Observers, SingleOK(obs[o], checkpoint), Send(o)
    PROVE  SingleInv'
<1> DEFINE ob == obs[o]
           id == ob.cursor
           size == Len(ob.sent)
           sent == Append(ob.sent, id)
           nb == [obs[o] EXCEPT !.mode = "save", !.sent = sent]
<1>0. ob.mode = "send" /\ Become(o, nb)
  <2>1. [obs[o] EXCEPT !.mode = "save", !.sent = Append(@, id)] = nb
    OBVIOUS
  <2> QED
    BY <2>1 DEF Send
<1>1. /\ ob \in Observation /\ ob.sent \in Seq(Ids)
      /\ size \in Nat /\ DOMAIN ob.sent = 1..size
      /\ \A i \in 1..size : ob.sent[i] \in Int
  BY Current, Fields, Numbers
<1>2. id \in Ids /\ id \in Int
  <2>1. id \in Cursors /\ id >= 1
    BY <1>0, Current, Fields DEF ObservationOK, ProgressOK
  <2> QED
    BY <2>1, Numbers
<1>3. \A i \in 1..size : /\ i > 1 => ob.sent[i - 1] < ob.sent[i]
                         /\ ob.sent[i] <= ob.sent[size]
  BY <1>1 DEF SingleOK
<1>4. size # 0 => ob.sent[size] < id
  BY <1>0, <1>1 DEF SingleOK
<1>5. /\ sent \in Seq(Ids) /\ Len(sent) = size + 1
      /\ DOMAIN sent = 1..size + 1
      /\ \A i \in 1..size : sent[i] = ob.sent[i]
      /\ sent[size + 1] = id
  BY <1>1, <1>2, AppendSent
<1> HIDE DEF sent
<1>6. nb.sent = sent /\ nb.mode = "save" /\ nb.cursor = id
  BY <1>1 DEF Observation
<1> HIDE DEF nb, ob, id, size
<1>7. ASSUME NEW i \in 1..size + 1
      PROVE  (i > 1 => sent[i - 1] < sent[i]) /\ sent[i] <= id
  <2>1. CASE i = size + 1
    <3>1. i > 1 => i - 1 = size /\ size \in 1..size /\ size # 0
      BY <1>1, <2>1
    <3> QED
      BY <1>2, <1>4, <1>5, <2>1, <3>1
  <2>2. CASE i # size + 1
    <3>1. i \in 1..size /\ size \in 1..size /\ size # 0
      BY <1>1, <2>2
    <3>2. i > 1 => i - 1 \in 1..size
      BY <1>1, <3>1
    <3>3. ob.sent[i] <= ob.sent[size] /\ ob.sent[size] < id
      BY <1>3, <1>4, <3>1
    <3>4. ob.sent[i] <= id
      BY <1>1, <1>2, <3>1, <3>3
    <3> QED
      BY <1>3, <1>5, <3>1, <3>2, <3>4
  <2> QED
    BY <2>1, <2>2
<1>8. SingleOK(nb, checkpoint')
  BY <1>5, <1>6, <1>7 DEF SingleOK
<1> QED
  BY <1>0, <1>8, SingleMoves

\* It is saved, and after a terminal event the checkpoint is cleared.
LEMMA SingleSaves ==
    ASSUME IInv, NEW o \in Observers, SingleOK(obs[o], checkpoint),
           Save(o) \/ Clear(o)
    PROVE  SingleInv'
<1> DEFINE ob == obs[o]
<1>0. ob \in Observation /\ ProgressOK(ob, log, emitted)
  BY Current DEF ObservationOK
<1>1. CASE Save(o)
  <2> DEFINE mode == IF Terminal(ob.cursor) THEN "clear" ELSE "collect"
             nb == [ob EXCEPT !.mode = mode]
  <2>1. Become(o, nb) /\ ob.mode = "save" /\ checkpoint' = ob.cursor
    BY <1>1 DEF Save
  <2>2. /\ nb.sent = ob.sent /\ nb.cursor = ob.cursor /\ nb.pos = ob.pos
        /\ nb.mode \in {"clear", "collect"}
    BY <1>0 DEF Observation
  <2>3. /\ ob.sent # <<>> /\ ob.sent[Len(ob.sent)] = ob.cursor
        /\ ob.pos = ob.cursor /\ ob.cursor <= ob.cursor
    <3>1. ob.cursor \in Int
      BY <1>0, Fields, Numbers
    <3> QED
      BY <1>0, <2>1, <3>1 DEF ProgressOK
  <2>4. \A i \in DOMAIN ob.sent :
          /\ i > 1 => ob.sent[i - 1] < ob.sent[i]
          /\ ob.sent[i] <= ob.sent[Len(ob.sent)]
    BY DEF SingleOK
  <2> HIDE DEF nb, mode, ob
  <2>5. SingleOK(nb, checkpoint')
    BY <2>1, <2>2, <2>3, <2>4 DEF SingleOK
  <2> QED
    BY <2>1, <2>5, SingleMoves
<1>2. CASE Clear(o)
  <2> DEFINE nb == [ob EXCEPT !.mode = "closed"]
  <2>1. Become(o, nb) /\ checkpoint' = 0
    BY <1>2 DEF Clear
  <2>2. nb.sent = ob.sent /\ nb.mode = "closed"
    BY <1>0 DEF Observation
  <2>3. \A i \in DOMAIN ob.sent :
          /\ i > 1 => ob.sent[i - 1] < ob.sent[i]
          /\ ob.sent[i] <= ob.sent[Len(ob.sent)]
    BY DEF SingleOK
  <2> HIDE DEF nb, ob
  <2>4. SingleOK(nb, checkpoint')
    BY <2>1, <2>2, <2>3 DEF SingleOK
  <2> QED
    BY <2>1, <2>4, SingleMoves
<1> QED
  BY <1>1, <1>2

\* After the backoff the cycle resumes at the last event that was sent.
LEMMA SingleBackoff ==
    ASSUME IInv, NEW o \in Observers, SingleOK(obs[o], checkpoint),
           Backoff(o)
    PROVE  SingleInv'
<1> DEFINE ob == obs[o]
           nb == [obs[o] EXCEPT
                    !.mode = "connect", !.transport = "ws", !.malformed = 0,
                    !.cursor = IF checkpoint # 0 THEN checkpoint ELSE @]
<1>1. Become(o, nb) /\ ob.mode = "backoff" /\ checkpoint' = checkpoint
  BY DEF Backoff
<1>2. /\ nb.sent = ob.sent /\ nb.mode = "connect"
      /\ nb.cursor = IF checkpoint # 0 THEN checkpoint ELSE ob.cursor
  BY Current DEF Observation
<1>3. \A i \in DOMAIN ob.sent :
        /\ i > 1 => ob.sent[i - 1] < ob.sent[i]
        /\ ob.sent[i] <= ob.sent[Len(ob.sent)]
  BY DEF SingleOK
<1>4. ob.sent # <<>> => /\ checkpoint = ob.sent[Len(ob.sent)]
                        /\ ob.cursor = ob.sent[Len(ob.sent)]
  BY <1>1 DEF SingleOK
<1> HIDE DEF nb, ob
<1>5. SingleOK(nb, checkpoint)
  BY <1>2, <1>3, <1>4 DEF SingleOK
<1> QED
  BY <1>1, <1>5, SingleMoves

\* What the only observation of a task has sent ascends, and the checkpoint
\* follows it.
THEOREM SingleInvariant == Spec => []SingleInv
<1>1. Init => SingleInv
  <2>1. SingleOK(Fresh, 0)
    BY FreshFacts, NothingSent
  <2>2. Init => checkpoint = 0 /\ \A o \in Observers : obs[o] = Fresh
    BY DEF Init
  <2> QED
    BY <2>1, <2>2, Zenon DEF SingleInv
<1>2. ASSUME IInv, SingleInv, [Next]_vars
      PROVE  SingleInv'
  <2>1. CASE ~Single
    BY <2>1 DEF SingleInv, Single
  <2>2. CASE (\E kind \in Kinds : AppendEvent(kind)) \/ UNCHANGED vars
    BY <1>2, <2>2 DEF AppendEvent, vars, SingleInv, Single
  <2>3. ASSUME Single, NEW o \in Observers,
               \/ \E after \in ExplicitCursors \cup {0} : Observe(o, after)
               \/ Works(o) \/ Collect(o) \/ Disturbed(o)
        PROVE  SingleInv'
    <3>1. SingleOK(obs[o], checkpoint)
      BY <1>2, <2>3 DEF SingleInv
    <3>2. CASE \/ \E after \in ExplicitCursors \cup {0} : Observe(o, after)
               \/ Collect(o) \/ Disturbed(o)
      BY <1>2, <2>3, <3>1, <3>2, SingleQuiet
    <3>3. CASE Works(o)
      BY <1>2, <2>3, <3>1, <3>3, SingleQuiet, SingleDuplicate, SingleNew,
         SingleSend, SingleSaves, SingleBackoff, Zenon DEF Works
    <3> QED
      BY <2>3, <3>2, <3>3
  <2> QED
    BY <1>2, <2>1, <2>2, <2>3 DEF Next
<1> QED
  BY <1>1, <1>2, Invariance, PTL DEF Spec

\* The only observation of a task, from whichever event it starts, completes
\* with the terminal event last and leaves no checkpoint.
THEOREM ClosedWithoutCheckpoint ==
    ASSUME Single
    PROVE  Spec => []ClosedAtTerminal
<1>1. IInv => \A o \in Observers :
                Over(o) => /\ obs[o].sent # <<>>
                           /\ Terminal(obs[o].sent[Len(obs[o].sent)])
  BY Current DEF ObservationOK, ProgressOK, Over, Ends, Terminal
<1>2. SingleInv => \A o \in Observers :
                     obs[o].mode = "closed" => checkpoint = 0
  BY DEF SingleInv, SingleOK
<1>3. IInv /\ SingleInv => ClosedAtTerminal
  BY <1>1, <1>2, Zenon DEF ClosedAtTerminal
<1> QED
  BY <1>3, Invariance, SingleInvariant, PTL

\* Nor does it send any event twice, however small RecentEventIds is.
THEOREM SendsOnceSingle ==
    ASSUME Single
    PROVE  Spec => []NoRepeats
<1>1. IInv /\ SingleInv => NoRepeats
  <2> SUFFICES ASSUME IInv, SingleInv, NEW o \in Observers,
                      NEW i \in DOMAIN obs[o].sent,
                      NEW j \in DOMAIN obs[o].sent,
                      obs[o].sent[i] = obs[o].sent[j]
               PROVE  i = j
    BY DEF NoRepeats
  <2> DEFINE s == obs[o].sent
  <2>1. /\ s \in Seq(Ids)
        /\ \A k \in DOMAIN s : s[k] \in Int
        /\ DOMAIN s = 1..Len(s)
    BY Current, Fields, Numbers
  <2>2. \A k \in DOMAIN s : k > 1 => s[k - 1] < s[k]
    BY DEF SingleInv, SingleOK
  <2> HIDE DEF s
  <2>3. \A k, m \in DOMAIN s : k < m => s[k] < s[m]
    BY <2>1, <2>2, AscendingHasNoRepeats
  <2>4. i \in DOMAIN s /\ j \in DOMAIN s /\ s[i] = s[j]
    BY DEF s
  <2>5. ~(i < j) /\ ~(j < i)
    BY <2>1, <2>3, <2>4
  <2> QED
    BY <2>1, <2>4, <2>5
<1> QED
  BY <1>1, Invariance, SingleInvariant, PTL

=============================================================================
