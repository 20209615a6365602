-------------------------- MODULE EventFeedProofs ---------------------------
(***************************************************************************)
(* The safety properties of EventFeed, and that it implements              *)
(* ResumableFeed, for any clients, sessions, stores and bounds.            *)
(***************************************************************************)
EXTENDS EventFeed, FiniteSetTheorems, TLAPS

-----------------------------------------------------------------------------
(* The inductive invariant.                                                *)

\* A run of events that leaves out nothing after this one but what has been
\* dropped.
Continues(before, events, published, dropped) ==
    \E first, last \in 1..published :
        /\ before < first /\ first <= last
        /\ events = first .. last
        /\ first = before + 1 \/ first <= dropped + 1

\* Each frame of a client continues the one before, and none is past the end
\* of the last.
EndIn(frames, i) == IF i = 0 THEN 0 ELSE Max(frames[i])
LastIn(frames) == EndIn(frames, Len(frames))

RunsIn(frames, published, dropped) ==
    \A i \in DOMAIN frames :
        /\ Continues(EndIn(frames, i - 1), frames[i], published, dropped)
        /\ \A n \in frames[i] : n <= LastIn(frames)

FramesOK(c) == RunsIn(received[c], written, trimmed)

\* A session holds a run of events, and only while it sends.
BatchOK(s) ==
    /\ batch[s] = {} \/ \E a, b \in 1..written : a <= b /\ batch[s] = a .. b
    /\ pc[s] \notin {"confirm", "send"} => batch[s] = {}
    /\ pc[s] = "none" => ~seen[s]

\* What a connected session holds continues what its client has, and its
\* cursor is the end of the one or, except for a WebSocket, of the other.
AttachedOK(s) ==
    /\ pc[s] # "none"
    /\ \/ batch[s] = {}
       \/ Continues(LastOf(peer[s]), batch[s], written, trimmed)
    /\ cursor[s] = IF via[s] = "ws" /\ batch[s] # {} THEN Max(batch[s])
                                                     ELSE LastOf(peer[s])
    /\ seen[s] => Finished(peer[s])

SessionOK(s) ==
    /\ BatchOK(s)
    /\ s \in attached => AttachedOK(s)
    /\ (pc[s] = "parked" /\ EventsAfter(cursor[s]) # {}) => s \in woken

OneConnection == \A s, t \in attached : peer[s] = peer[t] => s = t

IInv ==
    /\ TypeOK
    /\ \A c \in Clients : FramesOK(c)
    /\ OneConnection
    /\ \A s \in Sessions : SessionOK(s)
    /\ NormalCloseIsFinal

-----------------------------------------------------------------------------
(* Sets of event numbers.                                                  *)

\* The maximum of a set is the element that none exceeds.
LEMMA MaxIs ==
    ASSUME NEW S, S \subseteq Int, NEW m \in S, \A n \in S : n <= m
    PROVE  Max(S) = m
<1>1. Max(S) \in S /\ \A n \in S : Max(S) >= n
  BY DEF Max
<1>2. Max(S) \in Int /\ m \in Int /\ Max(S) <= m /\ Max(S) >= m
  BY <1>1
<1>3. QED
  BY <1>2

\* A run of events is a finite, non-empty set with its ends as extremes.
LEMMA RunEnds ==
    ASSUME NEW a \in Int, NEW b \in Int, a <= b
    PROVE  /\ Max(a .. b) = b
           /\ Min(a .. b) = a
           /\ (a .. b) # {}
           /\ (a .. b) \ {a} = (a + 1) .. b
<1>1. Max(a .. b) = b
  <2>1. b \in a .. b /\ a .. b \subseteq Int /\ \A n \in a .. b : n <= b
    OBVIOUS
  <2>2. QED
    BY <2>1, MaxIs
<1>2. Min(a .. b) = a
  <2>1. Min(a .. b) \in a .. b /\ \A n \in a .. b : Min(a .. b) <= n
    <3>1. a \in a .. b /\ \A n \in a .. b : a <= n
      OBVIOUS
    <3>2. QED
      BY <3>1 DEF Min
  <2>2. QED
    BY <2>1
<1>3. a \in a .. b /\ (a .. b) \ {a} = (a + 1) .. b
  OBVIOUS
<1>4. QED
  BY <1>1, <1>2, <1>3

\* The identifiers of the in-memory store are in the order of the events.
LEMMA NewerIsGreater ==
    ASSUME TypeOK, NEW n \in 1..written, NEW after \in 0..written
    PROVE  Newer(n, after) <=> n > after
<1>1. CASE store = "memory"
  <2>1. written <= 9
    BY <1>1, ConstantsAssumption, IdentifiersAssumption
       DEF TypeOK, ConstantsAssumption, IdentifiersAssumption
  <2>2. StringKey(n) = 11 * n /\ StringKey(after) = 11 * after
    BY <2>1 DEF StringKey, TypeOK
  <2>3. QED
    BY <1>1, <2>2 DEF Newer, TypeOK
<1>2. CASE store # "memory"
  BY <1>2 DEF Newer
<1>3. QED
  BY <1>1, <1>2

\* A read returns the run of events that follows the cursor or what has been
\* dropped, and nothing only when nothing follows.
LEMMA EventsAfterIsRun ==
    ASSUME TypeOK, NEW after \in 0..written
    PROVE  \/ EventsAfter(after) = {}
           \/ Continues(after, EventsAfter(after), written, trimmed)
<1> DEFINE start == IF after < trimmed THEN trimmed ELSE after
           end == IF written <= start + Batch THEN written ELSE start + Batch
           newer == {n \in trimmed + 1 .. written : Newer(n, after)}
<1>1. /\ written \in Nat /\ trimmed \in 0..written /\ Batch \in Nat \ {0}
      /\ start \in 0..written /\ end \in start..written
      /\ end <= start + Batch
      /\ end = written \/ end = start + Batch
  BY ConstantsAssumption DEF TypeOK, ConstantsAssumption
<1>2. newer = start + 1 .. written
  <2>1. \A n \in trimmed + 1 .. written : Newer(n, after) <=> n > after
    BY <1>1, NewerIsGreater
  <2>2. QED
    BY <1>1, <2>1
<1>4. EventsAfter(after)
        = {n \in newer : Cardinality({m \in newer : m <= n}) <= Batch}
  BY Zenon DEF EventsAfter
<1>10. start = after \/ start = trimmed
  OBVIOUS
<1>11. start >= after
  BY <1>1
<1> HIDE DEF start, end, newer
<1>3. ASSUME NEW n \in newer
      PROVE  Cardinality({m \in newer : m <= n}) = n - start
  <2>1. {m \in newer : m <= n} = start + 1 .. n
    BY <1>1, <1>2
  <2>2. n \in Int /\ start + 1 \in Int /\ start + 1 <= n
    BY <1>1, <1>2
  <2>3. Cardinality(start + 1 .. n) = n - (start + 1) + 1
    BY <2>2, FS_Interval
  <2>4. start \in Int /\ n - (start + 1) + 1 = n - start
    BY <1>1, <2>2
  <2>5. QED
    BY <2>1, <2>2, <2>3, <2>4
<1>5. EventsAfter(after) = {n \in newer : n - start <= Batch}
  BY <1>3, <1>4
<1>6. EventsAfter(after) = start + 1 .. end
  BY <1>1, <1>2, <1>5
<1>7. CASE start + 1 <= end
  <2>1. start + 1 = after + 1 \/ start + 1 <= trimmed + 1
    BY <1>1, <1>10
  <2>2. /\ start + 1 \in 1..written /\ end \in 1..written
        /\ after < start + 1
    BY <1>1, <1>7, <1>11
  <2>3. QED
    BY <1>6, <1>7, <2>1, <2>2 DEF Continues
<1>8. CASE ~(start + 1 <= end)
  BY <1>1, <1>6, <1>8
<1>9. QED
  BY <1>7, <1>8

-----------------------------------------------------------------------------
(* Runs and frames.                                                        *)

\* What a run is made of.
LEMMA RunFacts ==
    ASSUME NEW published \in Nat, NEW dropped \in Nat, NEW before,
           NEW events, Continues(before, events, published, dropped)
    PROVE  /\ events # {} /\ events \subseteq 1..published
           /\ \E a, b \in 1..published : a <= b /\ events = a .. b
           /\ Max(events) \in events
           /\ \A n \in events : n <= Max(events)
           /\ Min(events) \in events
<1>1. PICK a \in 1..published, b \in 1..published :
        before < a /\ a <= b /\ events = a .. b
  BY DEF Continues
<1>2. a \in Int /\ b \in Int /\ a \in events /\ b \in events
  BY <1>1
<1>3. Max(events) = b /\ Min(events) = a
  BY <1>1, <1>2, RunEnds
<1>4. \A n \in events : n \in 1..published /\ n <= b
  BY <1>1
<1>5. QED
  BY <1>1, <1>2, <1>3, <1>4

\* It lies past the event it continues.
LEMMA RunPast ==
    ASSUME NEW published \in Nat, NEW dropped \in Nat, NEW before \in Nat,
           NEW events, Continues(before, events, published, dropped)
    PROVE  /\ Max(events) \in 1..published /\ before < Max(events)
           /\ \A n \in events : before < n
<1>1. PICK a \in 1..published, b \in 1..published :
        before < a /\ a <= b /\ events = a .. b
  BY DEF Continues
<1>2. a \in Int /\ b \in Int
  BY <1>1
<1>3. Max(events) = b
  BY <1>1, <1>2, RunEnds
<1>4. before < b /\ \A n \in events : before < n
  BY <1>1, <1>2
<1>5. QED
  BY <1>1, <1>3, <1>4

\* It stays one when more is published and more is dropped.
LEMMA ContinuesLater ==
    ASSUME NEW published \in Nat, NEW later \in Nat, published <= later,
           NEW dropped \in Nat, NEW more \in Nat, dropped <= more,
           NEW before, NEW events,
           Continues(before, events, published, dropped)
    PROVE  Continues(before, events, later, more)
<1>1. PICK a \in 1..published, b \in 1..published :
        /\ before < a /\ a <= b /\ events = a .. b
        /\ a = before + 1 \/ a <= dropped + 1
  BY DEF Continues
<1>2. a \in 1..later /\ b \in 1..later
  BY <1>1
<1>3. a <= dropped + 1 => a <= more + 1
  BY <1>1
<1>4. QED
  BY <1>1, <1>2, <1>3 DEF Continues

\* The first event of a run goes out, and the rest continues it.
SplitsAt(n, before, events, published, dropped) ==
    /\ Continues(before, {n}, published, dropped)
    /\ Max({n}) = n
    /\ \/ events \ {n} = {} /\ n = Max(events)
       \/ /\ Continues(n, events \ {n}, published, dropped)
          /\ Max(events \ {n}) = Max(events)

LEMMA FirstOfRun ==
    ASSUME NEW published \in Nat, NEW dropped \in Nat, NEW before,
           NEW events, Continues(before, events, published, dropped)
    PROVE  SplitsAt(Min(events), before, events, published, dropped)
<1>1. PICK a \in 1..published, b \in 1..published :
        /\ before < a /\ a <= b /\ events = a .. b
        /\ a = before + 1 \/ a <= dropped + 1
  BY DEF Continues
<1>2. /\ a \in Int /\ b \in Int
      /\ Max(events) = b /\ Min(events) = a /\ events \ {a} = (a + 1) .. b
  <2>1. a \in Int /\ b \in Int
    BY <1>1
  <2>2. QED
    BY <1>1, <2>1, RunEnds
<1>3. {a} = a .. a /\ Max(a .. a) = a
  <2>1. {a} = a .. a /\ a <= a
    BY <1>2
  <2>2. QED
    BY <2>1, <1>2, RunEnds
<1>4. Continues(before, {a}, published, dropped)
  BY <1>1, <1>3 DEF Continues
<1>5. CASE a = b
  <2>1. events \ {a} = {}
    BY <1>1, <1>5, <1>3
  <2>2. QED
    BY <2>1, <1>2, <1>3, <1>4, <1>5 DEF SplitsAt
<1>6. CASE a # b
  <2>1. a + 1 \in 1..published /\ a + 1 <= b /\ a < a + 1
    BY <1>1, <1>6
  <2>2. Max((a + 1) .. b) = b
    BY <2>1, RunEnds
  <2>3. Continues(a, (a + 1) .. b, published, dropped)
    BY <2>1 DEF Continues
  <2>4. QED
    BY <2>2, <2>3, <1>2, <1>3, <1>4 DEF SplitsAt
<1>7. QED
  BY <1>5, <1>6

\* The end of a frame is an event, or zero before the first.
LEMMA EndInRange ==
    ASSUME NEW published \in Nat, NEW dropped \in Nat,
           NEW frames \in Seq(SUBSET (1..published)),
           RunsIn(frames, published, dropped)
    PROVE  /\ \A i \in 0..Len(frames) : EndIn(frames, i) \in 0..published
           /\ LastIn(frames) \in 0..published
           /\ Len(frames) # 0 => LastIn(frames) \in frames[Len(frames)]
<1>1. ASSUME NEW i \in DOMAIN frames
      PROVE  /\ Max(frames[i]) \in frames[i]
             /\ frames[i] \subseteq 1..published
  BY RunFacts DEF RunsIn
<1>2. ASSUME NEW i \in 0..Len(frames)
      PROVE  EndIn(frames, i) \in 0..published
  <2>1. CASE i = 0
    BY <2>1 DEF EndIn
  <2>2. CASE i # 0
    <3>1. i \in DOMAIN frames
      BY <2>2
    <3>2. Max(frames[i]) \in 1..published
      BY <3>1, <1>1
    <3>3. QED
      BY <2>2, <3>2 DEF EndIn
  <2>3. QED
    BY <2>1, <2>2
<1>3. Len(frames) \in 0..Len(frames)
  OBVIOUS
<1>4. Len(frames) # 0 => LastIn(frames) \in frames[Len(frames)]
  <2>1. Len(frames) # 0 => Len(frames) \in DOMAIN frames
    OBVIOUS
  <2>2. QED
    BY <1>1, <2>1 DEF LastIn, EndIn
<1>5. QED
  BY <1>2, <1>3, <1>4 DEF LastIn

LEMMA RunsLater ==
    ASSUME NEW published \in Nat, NEW later \in Nat, published <= later,
           NEW dropped \in Nat, NEW more \in Nat, dropped <= more,
           NEW frames, RunsIn(frames, published, dropped)
    PROVE  RunsIn(frames, later, more)
<1>1. ASSUME NEW i \in DOMAIN frames
      PROVE  Continues(EndIn(frames, i - 1), frames[i], later, more)
  BY ContinuesLater DEF RunsIn
<1>2. QED
  BY <1>1 DEF RunsIn

\* A client that is sent a run which continues what it has.
LEMMA RunsAppend ==
    ASSUME NEW published \in Nat, NEW dropped \in Nat,
           NEW frames \in Seq(SUBSET (1..published)),
           RunsIn(frames, published, dropped),
           NEW events \in SUBSET (1..published),
           Continues(LastIn(frames), events, published, dropped)
    PROVE  /\ Append(frames, events) \in Seq(SUBSET (1..published))
           /\ RunsIn(Append(frames, events), published, dropped)
           /\ LastIn(Append(frames, events)) = Max(events)
<1> DEFINE longer == Append(frames, events)
<1>1. /\ longer \in Seq(SUBSET (1..published))
      /\ Len(longer) = Len(frames) + 1
      /\ DOMAIN longer = 1 .. Len(frames) + 1
      /\ \A i \in 1..Len(frames) : longer[i] = frames[i]
      /\ longer[Len(frames) + 1] = events
      /\ Len(frames) \in Nat
      /\ DOMAIN frames = 1..Len(frames)
  OBVIOUS
<1> HIDE DEF longer
<1>2. LastIn(longer) = Max(events)
  BY <1>1 DEF LastIn, EndIn
<1>3. LastIn(frames) \in 0..published
  BY EndInRange
<1>4. /\ Max(events) \in 1..published /\ LastIn(frames) < Max(events)
      /\ \A n \in events : n <= Max(events)
  BY <1>3, RunFacts, RunPast
<1>5. ASSUME NEW i \in DOMAIN longer
      PROVE  /\ Continues(EndIn(longer, i - 1), longer[i], published, dropped)
             /\ \A n \in longer[i] : n <= LastIn(longer)
  <2>1. CASE i = Len(frames) + 1
    <3>1. EndIn(longer, i - 1) = LastIn(frames)
      <4>1. i - 1 = Len(frames)
        BY <1>1, <2>1
      <4>2. Len(frames) # 0 => longer[Len(frames)] = frames[Len(frames)]
        BY <1>1
      <4>3. QED
        BY <4>1, <4>2 DEF EndIn, LastIn
    <3>2. longer[i] = events
      BY <1>1, <2>1
    <3>3. QED
      BY <3>1, <3>2, <1>2, <1>4
  <2>2. CASE i \in DOMAIN frames
    <3>1. longer[i] = frames[i]
      BY <1>1, <2>2
    <3>2. EndIn(longer, i - 1) = EndIn(frames, i - 1)
      <4>1. i - 1 # 0 => i - 1 \in 1..Len(frames)
        BY <1>1, <2>2
      <4>2. QED
        BY <4>1, <1>1 DEF EndIn
    <3>3. Continues(EndIn(frames, i - 1), frames[i], published, dropped)
      BY <2>2 DEF RunsIn
    <3>4. ASSUME NEW n \in frames[i]
          PROVE  n <= LastIn(longer)
      <4>1. n <= LastIn(frames)
        BY <2>2, <3>4 DEF RunsIn
      <4>2. n \in 1..published
        BY <2>2
      <4>3. QED
        BY <4>1, <4>2, <1>2, <1>3, <1>4
    <3>5. QED
      BY <3>1, <3>2, <3>3, <3>4
  <2>3. QED
    BY <1>1, <1>5, <2>1, <2>2
<1>6. QED
  BY <1>1, <1>2, <1>5 DEF RunsIn, longer

-----------------------------------------------------------------------------
(* What the steps of one session do to the others and to the clients.      *)

SessionKept(t) ==
    /\ pc'[t] = pc[t] /\ peer'[t] = peer[t] /\ via'[t] = via[t]
    /\ cursor'[t] = cursor[t] /\ batch'[t] = batch[t] /\ seen'[t] = seen[t]
    /\ t \in attached' <=> t \in attached
    /\ t \in woken' <=> t \in woken

\* A session keeps its connection to its client, or is new to one that has
\* no other.
ConnectionOK(s) ==
    s \in attached' =>
        \/ s \in attached /\ peer'[s] = peer[s]
        \/ \A t \in attached : peer[t] # peer'[s]

LEMMA ConnectionsKept ==
    ASSUME IInv, TypeOK', NEW s \in Sessions,
           \A t \in Sessions \ {s} : SessionKept(t), ConnectionOK(s)
    PROVE  OneConnection'
<1>1. \A t \in attached' : t # s => t \in attached /\ peer'[t] = peer[t]
  BY DEF TypeOK, SessionKept
<1>2. OneConnection
  BY DEF IInv
<1>3. ASSUME NEW t \in attached', NEW u \in attached', peer'[t] = peer'[u]
      PROVE  t = u
  <2>1. CASE t # s /\ u # s
    BY <1>1, <1>2, <1>3, <2>1 DEF OneConnection
  <2>2. CASE t = s /\ u # s
    BY <1>1, <1>2, <1>3, <2>2 DEF OneConnection, ConnectionOK
  <2>3. CASE t # s /\ u = s
    BY <1>1, <1>2, <1>3, <2>3 DEF OneConnection, ConnectionOK
  <2>4. QED
    BY <2>1, <2>2, <2>3
<1>4. QED
  BY <1>3 DEF OneConnection

\* The last event of a client is that of its last frame.
LEMMA LastOfRange ==
    ASSUME IInv, NEW c \in Clients
    PROVE  /\ LastOf(c) = LastIn(received[c])
           /\ LastOf(c) \in 0..written
           /\ written \in Nat /\ trimmed \in Nat
           /\ received[c] \in Seq(SUBSET (1..written))
<1>1. LastOf(c) = LastIn(received[c])
  BY DEF LastOf, EndOf, LastIn, EndIn
<1>2. /\ written \in Nat /\ trimmed \in Nat
      /\ received[c] \in Seq(SUBSET (1..written))
      /\ RunsIn(received[c], written, trimmed)
  BY ConstantsAssumption DEF IInv, TypeOK, FramesOK, ConstantsAssumption
<1>3. QED
  BY <1>1, <1>2, EndInRange

\* A step of a session that sends nothing.
LEMMA QuietStep ==
    ASSUME IInv, TypeOK', NEW s \in Sessions,
           UNCHANGED <<storeVars, received>>,
           \A t \in Sessions \ {s} : SessionKept(t), ConnectionOK(s),
           \A c \in Clients : code'[c] = "normal" => Finished(c),
           SessionOK(s)'
    PROVE  IInv'
<1>1. \A c \in Clients : LastOf(c)' = LastOf(c) /\ Finished(c)' = Finished(c)
  BY DEF storeVars, LastOf, EndOf, Finished
<1>2. \A c \in Clients : FramesOK(c)'
  BY DEF IInv, FramesOK, storeVars
<1>3. OneConnection'
  BY ConnectionsKept
<1>4. NormalCloseIsFinal'
  BY <1>1 DEF NormalCloseIsFinal
<1>5. ASSUME NEW t \in Sessions \ {s}
      PROVE  SessionOK(t)'
  <2>1. SessionOK(t) /\ SessionKept(t) /\ peer[t] \in Clients
    BY DEF IInv, TypeOK
  <2>2. BatchOK(t)'
    BY <2>1 DEF SessionOK, SessionKept, BatchOK, storeVars
  <2>3. t \in attached' => AttachedOK(t)'
    BY <2>1, <1>1 DEF SessionOK, SessionKept, AttachedOK, storeVars
  <2>4. EventsAfter(cursor[t])' = EventsAfter(cursor[t])
    BY <2>1 DEF SessionKept, EventsAfter, Newer, storeVars
  <2>5. QED
    BY <2>1, <2>2, <2>3, <2>4 DEF SessionOK, SessionKept
<1>6. \A t \in Sessions : SessionOK(t)'
  BY <1>5
<1>7. QED
  BY <1>2, <1>3, <1>4, <1>6 DEF IInv

\* What a client has after it was sent a run.
LEMMA DeliverFrames ==
    ASSUME IInv, NEW s \in attached, NEW events,
           Continues(LastOf(peer[s]), events, written, trimmed),
           UNCHANGED storeVars,
           received' = [received EXCEPT ![peer[s]] = Append(@, events)]
    PROVE  /\ \A c \in Clients : FramesOK(c)'
           /\ LastIn(received'[peer[s]]) = Max(events)
           /\ LastOf(peer[s]) < Max(events) /\ Max(events) \in 1..written
           /\ received' \in [Clients -> Seq(SUBSET (1..written'))]
           /\ \A c \in Clients \ {peer[s]} : received'[c] = received[c]
<1> DEFINE c == peer[s]
<1>1. s \in Sessions /\ c \in Clients
  BY DEF IInv, TypeOK
<1>2. /\ LastOf(c) = LastIn(received[c]) /\ LastOf(c) \in 0..written
      /\ written \in Nat /\ trimmed \in Nat
      /\ received[c] \in Seq(SUBSET (1..written))
  BY <1>1, LastOfRange
<1>3. events \in SUBSET (1..written)
  BY <1>2, RunFacts
<1>4. RunsIn(received[c], written, trimmed)
  BY <1>1 DEF IInv, FramesOK
<1>5. received'[c] = Append(received[c], events)
  BY <1>1 DEF IInv, TypeOK
<1>6. /\ received'[c] \in Seq(SUBSET (1..written))
      /\ RunsIn(received'[c], written, trimmed)
      /\ LastIn(received'[c]) = Max(events)
  <2>1. Continues(LastIn(received[c]), events, written, trimmed)
    BY <1>2
  <2>2. /\ Append(received[c], events) \in Seq(SUBSET (1..written))
        /\ RunsIn(Append(received[c], events), written, trimmed)
        /\ LastIn(Append(received[c], events)) = Max(events)
    BY <1>2, <1>3, <1>4, <2>1, RunsAppend, Zenon
  <2>3. QED
    BY <2>2, <1>5
<1>7. LastOf(c) < Max(events) /\ Max(events) \in 1..written
  BY <1>2, RunPast
<1>8. \A d \in Clients \ {c} : received'[d] = received[d]
  BY <1>1 DEF IInv, TypeOK
<1>9. \A d \in Clients : FramesOK(d)'
  BY <1>6, <1>8 DEF IInv, FramesOK, storeVars
<1>10. received' \in [Clients -> Seq(SUBSET (1..written'))]
  BY <1>1, <1>6, <1>8 DEF IInv, TypeOK, storeVars
<1>11. QED
  BY <1>6, <1>7, <1>8, <1>9, <1>10

\* A step of a session that sends its client a run.
LEMMA DeliverStep ==
    ASSUME IInv, TypeOK', NEW s \in attached, NEW events,
           Continues(LastOf(peer[s]), events, written, trimmed),
           UNCHANGED storeVars, UNCHANGED code,
           received' = [received EXCEPT ![peer[s]] = Append(@, events)],
           \A t \in Sessions \ {s} : SessionKept(t), ConnectionOK(s),
           SessionOK(s)'
    PROVE  IInv'
<1> DEFINE c == peer[s]
<1>1. s \in Sessions /\ c \in Clients
  BY DEF IInv, TypeOK
<1>2. /\ \A d \in Clients : FramesOK(d)'
      /\ LastOf(c) < Max(events) /\ Max(events) \in 1..written
      /\ \A d \in Clients \ {c} : received'[d] = received[d]
  BY DeliverFrames
<1>3. \A d \in Clients \ {c} :
        LastOf(d)' = LastOf(d) /\ Finished(d)' = Finished(d)
  BY <1>2 DEF storeVars, LastOf, EndOf, Finished
<1>4. ~Finished(c)
  <2>1. LastOf(c) \in 0..written /\ written \in Nat
    BY <1>1, LastOfRange
  <2>2. LastOf(c) # written
    BY <1>2, <2>1
  <2>3. QED
    BY <2>2 DEF Finished
<1>5. NormalCloseIsFinal'
  BY <1>3, <1>4 DEF IInv, NormalCloseIsFinal
<1>6. OneConnection'
  BY <1>1, ConnectionsKept
<1>7. ASSUME NEW t \in Sessions \ {s}
      PROVE  SessionOK(t)'
  <2>1. SessionOK(t) /\ SessionKept(t) /\ peer[t] \in Clients
    BY DEF IInv, TypeOK
  <2>2. BatchOK(t)'
    BY <2>1 DEF SessionOK, SessionKept, BatchOK, storeVars
  <2>3. ASSUME t \in attached
        PROVE  AttachedOK(t)'
    <3>1. peer[t] \in Clients \ {c}
      BY <2>1, <2>3 DEF IInv, OneConnection
    <3>2. QED
      BY <2>1, <2>3, <3>1, <1>3
         DEF SessionOK, SessionKept, AttachedOK, storeVars
  <2>4. EventsAfter(cursor[t])' = EventsAfter(cursor[t])
    BY <2>1 DEF SessionKept, EventsAfter, Newer, storeVars
  <2>5. QED
    BY <2>1, <2>2, <2>3, <2>4 DEF SessionOK, SessionKept
<1>8. \A t \in Sessions : SessionOK(t)'
  BY <1>7
<1>9. QED
  BY <1>2, <1>5, <1>6, <1>8 DEF IInv

-----------------------------------------------------------------------------
(* Initial states and steps of the store.                                  *)

LEMMA InitInv == Init => IInv
<1> SUFFICES ASSUME Init PROVE IInv
  OBVIOUS
<1>1. TypeOK
  <2>1. NoPeer \in Clients /\ NoTransport \in Transports
    BY ConstantsAssumption DEF NoPeer, NoTransport, ConstantsAssumption
  <2>2. MaxEvents \in Nat /\ MaxFaults \in Nat
    BY ConstantsAssumption DEF ConstantsAssumption
  <2>3. store \in Stores /\ ended \in BOOLEAN
    BY DEF Init
  <2>4. /\ written \in 0..MaxEvents /\ trimmed \in 0..written
        /\ faults \in 0..MaxFaults
    <3>1. written = 0 /\ trimmed = 0 /\ faults = 0
      BY DEF Init
    <3>2. QED
      BY <2>2, <3>1
  <2>5. /\ pc \in [Sessions -> {"none", "prepare", "confirm", "send", "wait",
                                "parked", "idle"}]
        /\ peer \in [Sessions -> Clients] /\ via \in [Sessions -> Transports]
        /\ cursor \in [Sessions -> 0..written]
        /\ batch \in [Sessions -> SUBSET (1..written)]
        /\ seen \in [Sessions -> BOOLEAN]
    BY <2>1 DEF Init
  <2>6. /\ attached \subseteq Sessions /\ woken \subseteq Sessions
        /\ received \in [Clients -> Seq(SUBSET (1..written))]
        /\ code \in [Clients -> {"open", "normal", "refused"}]
    BY DEF Init
  <2>7. QED
    BY <2>3, <2>4, <2>5, <2>6 DEF TypeOK
<1>2. \A c \in Clients : FramesOK(c)
  BY DEF Init, FramesOK, RunsIn
<1>3. OneConnection /\ NormalCloseIsFinal
  BY DEF Init, OneConnection, NormalCloseIsFinal
<1>4. \A s \in Sessions : SessionOK(s)
  BY DEF Init, SessionOK, BatchOK
<1>5. QED
  BY <1>1, <1>2, <1>3, <1>4 DEF IInv

\* What the store has dropped and published.
LEMMA StoreFacts ==
    ASSUME IInv, AppendEvent \/ ExpireStream \/ AppendOtherTask
    PROVE  /\ written' \in 0..MaxEvents /\ trimmed' \in 0..written'
           /\ written <= written' /\ trimmed <= trimmed'
           /\ written \in Nat /\ trimmed \in Nat
           /\ written' \in Nat /\ trimmed' \in Nat
<1>1. /\ written \in 0..MaxEvents /\ trimmed \in 0..written
      /\ MaxEvents \in Nat /\ MaxLength \in Nat \ {0}
  BY ConstantsAssumption DEF IInv, TypeOK, ConstantsAssumption
<1>2. CASE AppendEvent
  <2>1. written' = written + 1 /\ written' \in 0..MaxEvents
    BY <1>1, <1>2 DEF AppendEvent
  <2>2. \/ trimmed' = trimmed
        \/ trimmed' \in trimmed .. (written + 1) - MaxLength
    <3>1. trimmed' \in Trimmed(written + 1)
      BY <1>2 DEF AppendEvent
    <3>2. CASE store = "redis"
      BY <3>1, <3>2 DEF Trimmed
    <3>3. CASE store # "redis"
      BY <3>1, <3>3 DEF Trimmed
    <3>4. QED
      BY <3>2, <3>3
  <2>3. QED
    BY <1>1, <2>1, <2>2
<1>3. CASE ExpireStream
  BY <1>1, <1>3 DEF ExpireStream
<1>4. CASE AppendOtherTask
  BY <1>1, <1>4 DEF AppendOtherTask, storeVars
<1>5. QED
  BY <1>2, <1>3, <1>4

LEMMA StoreStepInv ==
    ASSUME IInv, AppendEvent \/ ExpireStream \/ AppendOtherTask
    PROVE  IInv'
<1>1. /\ written' \in 0..MaxEvents /\ trimmed' \in 0..written'
      /\ written <= written' /\ trimmed <= trimmed'
      /\ written \in Nat /\ trimmed \in Nat
      /\ written' \in Nat /\ trimmed' \in Nat
  BY StoreFacts
<1>2. UNCHANGED <<store, sessionVars, clientVars, faults>>
  BY DEF AppendEvent, ExpireStream, AppendOtherTask, storeVars
<1>3. 0..written \subseteq 0..written' /\ 1..written \subseteq 1..written'
  BY <1>1
<1>4. woken' \subseteq Sessions /\ ended' \in BOOLEAN
  BY DEF AppendEvent, ExpireStream, AppendOtherTask, storeVars, IInv, TypeOK
<1>5. TypeOK'
  <2>1. received' \in [Clients -> Seq(SUBSET (1..written'))]
    <3>1. ASSUME NEW c \in Clients
          PROVE  received[c] \in Seq(SUBSET (1..written'))
      BY <1>3 DEF IInv, TypeOK
    <3>2. QED
      BY <3>1, <1>2 DEF IInv, TypeOK, clientVars
  <2>2. /\ cursor' \in [Sessions -> 0..written']
        /\ batch' \in [Sessions -> SUBSET (1..written')]
    BY <1>2, <1>3 DEF IInv, TypeOK, sessionVars
  <2>3. QED
    BY <1>1, <1>2, <1>4, <2>1, <2>2
       DEF IInv, TypeOK, sessionVars, clientVars
<1>6. \A c \in Clients : FramesOK(c)'
  BY <1>1, <1>2, RunsLater DEF IInv, FramesOK, clientVars
<1>7. OneConnection'
  BY <1>2 DEF IInv, OneConnection, sessionVars
<1>8. ASSUME NEW c \in Clients, Finished(c)
      PROVE  Finished(c)' /\ LastOf(c)' = LastOf(c)
  <2>1. LastOf(c)' = LastOf(c)
    BY <1>2 DEF LastOf, EndOf, clientVars
  <2>2. ended' = ended /\ written' = written
    BY <1>8
       DEF AppendEvent, ExpireStream, AppendOtherTask, storeVars, Finished
  <2>3. QED
    BY <1>8, <2>1, <2>2 DEF Finished
<1>9. NormalCloseIsFinal'
  BY <1>2, <1>8 DEF IInv, NormalCloseIsFinal, clientVars, TypeOK
<1>10. ASSUME NEW s \in Sessions
       PROVE  SessionOK(s)'
  <2>1. SessionOK(s) /\ peer[s] \in Clients
    BY DEF IInv, TypeOK
  <2>2. BatchOK(s)'
    BY <1>2, <1>3, <2>1 DEF SessionOK, BatchOK, sessionVars
  <2>3. s \in attached' => AttachedOK(s)'
    <3> SUFFICES ASSUME s \in attached PROVE AttachedOK(s)'
      BY <1>2 DEF sessionVars
    <3>1. LastOf(peer[s])' = LastOf(peer[s])
      BY <1>2 DEF LastOf, EndOf, clientVars, sessionVars
    <3>2. \/ batch'[s] = {}
          \/ Continues(LastOf(peer[s]), batch'[s], written', trimmed')
      BY <1>1, <1>2, <2>1, ContinuesLater
         DEF SessionOK, AttachedOK, sessionVars
    <3>3. seen[s] => Finished(peer[s])'
      <4>1. seen[s] => Finished(peer[s])
        BY <2>1 DEF SessionOK, AttachedOK
      <4>2. peer'[s] = peer[s]
        BY <1>2 DEF sessionVars
      <4>3. QED
        BY <4>1, <4>2, <2>1, <1>8 DEF Finished, LastOf, EndOf
    <3>4. QED
      BY <1>2, <2>1, <3>1, <3>2, <3>3 DEF SessionOK, AttachedOK, sessionVars
  <2>4. (pc'[s] = "parked" /\ EventsAfter(cursor[s])' # {}) => s \in woken'
    <3>1. CASE AppendEvent
      BY <1>2, <3>1 DEF AppendEvent, sessionVars
    <3>2. CASE ExpireStream
      <4>1. trimmed' + 1 .. written' = {}
        BY <1>1, <3>2 DEF ExpireStream
      <4>2. EventsAfter(cursor[s])' = {}
        BY <4>1 DEF EventsAfter
      <4>3. QED
        BY <4>2
    <3>3. CASE AppendOtherTask
      BY <1>2, <3>3 DEF AppendOtherTask, sessionVars
    <3>4. QED
      BY <3>1, <3>2, <3>3
  <2>5. QED
    BY <2>2, <2>3, <2>4 DEF SessionOK
<1>11. QED
  BY <1>5, <1>6, <1>7, <1>9, <1>10 DEF IInv

-----------------------------------------------------------------------------
(* Steps of a session.                                                     *)

\* A session that ends, whatever ended it.
LEMMA EndInv ==
    ASSUME IInv, NEW s \in Sessions, End(s), UNCHANGED <<storeVars, received>>,
           code' \in [Clients -> {"open", "normal", "refused"}],
           \A c \in Clients : code'[c] = "normal" => Finished(c),
           faults' \in 0..MaxFaults
    PROVE  IInv'
<1>1. NoPeer \in Clients /\ NoTransport \in Transports
  BY ConstantsAssumption DEF NoPeer, NoTransport, ConstantsAssumption
<1>2. TypeOK
  BY DEF IInv
<1>3. written \in Nat
  BY <1>2, ConstantsAssumption DEF TypeOK, ConstantsAssumption
<1>4. TypeOK'
  <2>1. /\ pc' \in [Sessions -> {"none", "prepare", "confirm", "send", "wait",
                                 "parked", "idle"}]
        /\ peer' \in [Sessions -> Clients]
        /\ via' \in [Sessions -> Transports]
    BY <1>1, <1>2 DEF End, TypeOK
  <2>2. /\ cursor' \in [Sessions -> 0..written]
        /\ batch' \in [Sessions -> SUBSET (1..written)]
        /\ seen' \in [Sessions -> BOOLEAN]
    BY <1>2, <1>3 DEF End, TypeOK
  <2>3. attached' \subseteq Sessions /\ woken' \subseteq Sessions
    BY <1>2 DEF End, TypeOK
  <2>4. QED
    BY <1>2, <2>1, <2>2, <2>3 DEF TypeOK, storeVars
<1>5. \A t \in Sessions \ {s} : SessionKept(t)
  BY <1>2 DEF End, SessionKept, TypeOK
<1>6. /\ pc'[s] = "none" /\ batch'[s] = {} /\ s \notin attached'
      /\ seen'[s] = FALSE
  BY <1>2 DEF End, TypeOK
<1>7. ConnectionOK(s) /\ SessionOK(s)'
  BY <1>6 DEF ConnectionOK, SessionOK, BatchOK
<1>8. QED
  BY <1>4, <1>5, <1>7, QuietStep

\* What closes a connection tells its client.
LEMMA CloseInv ==
    ASSUME IInv, NEW s \in Sessions, NEW why \in {"normal", "refused"},
           Close(s, why), UNCHANGED <<storeVars, received>>,
           faults' \in 0..MaxFaults,
           why = "normal" /\ s \in attached => Finished(peer[s])
    PROVE  IInv'
<1>1. TypeOK /\ NormalCloseIsFinal
  BY DEF IInv
<1>2. End(s)
  BY DEF Close
<1>3. CASE s \in attached
  <2>1. code' = [code EXCEPT ![peer[s]] = why] /\ peer[s] \in Clients
    BY <1>1, <1>3 DEF Close, TypeOK
  <2>2. code' \in [Clients -> {"open", "normal", "refused"}]
    BY <1>1, <2>1 DEF TypeOK
  <2>3. \A c \in Clients : code'[c] = "normal" => Finished(c)
    BY <1>1, <1>3, <2>1 DEF TypeOK, NormalCloseIsFinal
  <2>4. QED
    BY <1>2, <2>2, <2>3, EndInv
<1>4. CASE s \notin attached
  <2>1. code' = code
    BY <1>4 DEF Close
  <2>2. QED
    BY <1>1, <1>2, <2>1, EndInv DEF TypeOK, NormalCloseIsFinal
<1>5. QED
  BY <1>3, <1>4

LEMMA FaultInv ==
    ASSUME IInv, NEW s \in Sessions,
           \/ HangUp(s) \/ RefuseFrame(s) \/ RefuseTask(s)
           \/ FailSession(s) \/ StopGenerator(s) \/ CloseAtTerminal(s)
    PROVE  IInv'
<1>1. /\ TypeOK /\ NormalCloseIsFinal /\ MaxFaults \in Nat
      /\ faults \in 0..MaxFaults
      /\ code \in [Clients -> {"open", "normal", "refused"}]
  BY ConstantsAssumption DEF IInv, TypeOK, ConstantsAssumption
<1>2. CASE HangUp(s) \/ FailSession(s) \/ StopGenerator(s)
  <2>1. End(s) /\ UNCHANGED <<storeVars, received>> /\ code' = code
    BY <1>2 DEF HangUp, FailSession, StopGenerator, clientVars
  <2>2. faults' \in 0..MaxFaults
    BY <1>1, <1>2 DEF HangUp, FailSession, StopGenerator
  <2>3. QED
    BY <1>1, <2>1, <2>2, EndInv DEF NormalCloseIsFinal
<1>3. CASE RefuseFrame(s) \/ (RefuseTask(s) /\ via[s] # "sse")
  <2>1. Close(s, "refused") /\ UNCHANGED <<storeVars, received>>
    BY <1>3 DEF RefuseFrame, RefuseTask
  <2>2. faults' \in 0..MaxFaults
    BY <1>1, <1>3 DEF RefuseFrame, RefuseTask
  <2>3. QED
    BY <2>1, <2>2, CloseInv
<1>4. CASE RefuseTask(s) /\ via[s] = "sse"
  <2>1. End(s) /\ UNCHANGED <<storeVars, received>> /\ code' = code
    BY <1>4 DEF RefuseTask
  <2>2. faults' \in 0..MaxFaults
    BY <1>1, <1>4 DEF RefuseTask
  <2>3. QED
    BY <1>1, <2>1, <2>2, EndInv DEF NormalCloseIsFinal
<1>5. CASE CloseAtTerminal(s)
  <2>1. Close(s, "normal") /\ UNCHANGED <<storeVars, received, faults>>
    BY <1>5 DEF CloseAtTerminal
  <2>2. s \in attached => Finished(peer[s])
    BY <1>5 DEF CloseAtTerminal, IInv, SessionOK, AttachedOK
  <2>3. QED
    BY <1>1, <2>1, <2>2, CloseInv
<1>6. QED
  BY <1>2, <1>3, <1>4, <1>5

\* A client that connects, or whose connection is lost.
LEMMA ConnectInv ==
    ASSUME IInv, NEW s \in Sessions, NEW c \in Clients, Reconnect(s, c)
    PROVE  IInv'
<1> PICK v \in Transports : Connect(s, c, v)
  BY DEF Reconnect
<1>1. TypeOK /\ NormalCloseIsFinal /\ SessionOK(s)
  BY DEF IInv
<1>2. LastOf(c) \in 0..written
  BY LastOfRange
<1>3. UNCHANGED <<storeVars, received>>
  BY DEF Connect
<1>4. TypeOK'
  <2>1. /\ pc' \in [Sessions -> {"none", "prepare", "confirm", "send", "wait",
                                 "parked", "idle"}]
        /\ peer' \in [Sessions -> Clients]
        /\ via' \in [Sessions -> Transports]
        /\ cursor' \in [Sessions -> 0..written]
    BY <1>1, <1>2 DEF Connect, TypeOK
  <2>2. /\ attached' \subseteq Sessions
        /\ code' \in [Clients -> {"open", "normal", "refused"}]
    BY <1>1 DEF Connect, TypeOK
  <2>3. QED
    BY <1>1, <2>1, <2>2 DEF Connect, TypeOK, storeVars
<1>5. \A t \in Sessions \ {s} : SessionKept(t)
  BY <1>1 DEF Connect, SessionKept, TypeOK
<1>6. /\ pc'[s] = "prepare" /\ peer'[s] = c /\ cursor'[s] = LastOf(c)
      /\ batch'[s] = {} /\ ~seen'[s]
  BY <1>1 DEF Connect, TypeOK, SessionOK, BatchOK
<1>7. ConnectionOK(s)
  BY <1>6 DEF Connect, ConnectionOK
<1>8. \A d \in Clients : code'[d] = "normal" => Finished(d)
  BY <1>1 DEF Connect, TypeOK, NormalCloseIsFinal
<1>9. SessionOK(s)'
  <2>1. LastOf(peer[s])' = LastOf(c)
    BY <1>3, <1>6 DEF LastOf, EndOf
  <2>2. AttachedOK(s)'
    BY <1>6, <2>1 DEF AttachedOK
  <2>3. BatchOK(s)'
    BY <1>6 DEF BatchOK
  <2>4. QED
    BY <2>2, <2>3, <1>6 DEF SessionOK
<1>10. QED
  BY <1>3, <1>4, <1>5, <1>7, <1>8, <1>9, QuietStep

LEMMA LoseConnectionInv ==
    ASSUME IInv, NEW s \in Sessions, LoseConnection(s)
    PROVE  IInv'
<1>1. TypeOK /\ NormalCloseIsFinal /\ SessionOK(s)
  BY DEF IInv
<1>2. UNCHANGED <<storeVars, received>> /\ code' = code
  BY DEF LoseConnection, clientVars
<1>3. faults' \in 0..MaxFaults
  BY <1>1, ConstantsAssumption
     DEF LoseConnection, TypeOK, ConstantsAssumption
<1>4. TypeOK'
  BY <1>1, <1>3 DEF LoseConnection, TypeOK, storeVars, clientVars
<1>5. \A t \in Sessions \ {s} : SessionKept(t)
  BY DEF LoseConnection, SessionKept
<1>6. ConnectionOK(s) /\ s \notin attached'
  BY DEF LoseConnection, ConnectionOK
<1>7. SessionOK(s)'
  <2>1. BatchOK(s)'
    BY <1>1, <1>2 DEF LoseConnection, SessionOK, BatchOK, storeVars
  <2>2. EventsAfter(cursor[s])' = EventsAfter(cursor[s])
    BY DEF LoseConnection, EventsAfter, Newer, storeVars
  <2>3. QED
    BY <1>1, <1>6, <2>1, <2>2 DEF LoseConnection, SessionOK
<1>8. QED
  BY <1>1, <1>2, <1>4, <1>5, <1>6, <1>7, QuietStep DEF NormalCloseIsFinal

\* A session that goes on without reading or sending.
LEMMA MoveInv ==
    ASSUME IInv, NEW s \in Sessions, NEW next \in {"send", "wait", "idle"},
           pc[s] # "none", next # "send" => batch[s] = {}, Proceed(s, next),
           woken' = woken \/ woken' = woken \ {s},
           UNCHANGED <<storeVars, peer, via, cursor, batch, seen, attached,
                       clientVars, faults>>
    PROVE  IInv'
<1>1. TypeOK /\ NormalCloseIsFinal /\ SessionOK(s)
  BY DEF IInv
<1>2. TypeOK'
  BY <1>1 DEF Proceed, TypeOK, storeVars, clientVars
<1>3. \A t \in Sessions \ {s} : SessionKept(t)
  BY <1>1 DEF Proceed, SessionKept, TypeOK
<1>4. pc'[s] = next
  BY <1>1 DEF Proceed, TypeOK
<1>5. ConnectionOK(s)
  BY DEF ConnectionOK
<1>6. SessionOK(s)'
  <2>1. BatchOK(s)'
    BY <1>1, <1>4 DEF SessionOK, BatchOK, storeVars
  <2>2. s \in attached => AttachedOK(s)'
    BY <1>1, <1>4
       DEF SessionOK, AttachedOK, LastOf, EndOf, Finished, storeVars,
           clientVars
  <2>3. QED
    BY <1>4, <2>1, <2>2 DEF SessionOK
<1>7. QED
  BY <1>1, <1>2, <1>3, <1>5, <1>6, QuietStep
     DEF NormalCloseIsFinal, clientVars

\* A session that reads the store.
LEMMA ReadInv ==
    ASSUME IInv, NEW s \in Sessions,
           NEW next \in {"confirm", "send", "parked", "idle"},
           pc[s] # "none", batch[s] = {}, Proceed(s, next),
           Hand(s, EventsAfter(cursor[s])),
           next \in {"parked", "idle"} => EventsAfter(cursor[s]) = {},
           woken' = woken \/ woken' = woken \ {s},
           UNCHANGED <<storeVars, peer, via, seen, attached, clientVars,
                       faults>>
    PROVE  IInv'
<1> DEFINE events == EventsAfter(cursor[s])
<1>1. TypeOK /\ NormalCloseIsFinal /\ SessionOK(s)
  BY DEF IInv
<1>2. /\ written \in Nat /\ trimmed \in Nat /\ cursor[s] \in 0..written
      /\ peer[s] \in Clients
  BY <1>1, ConstantsAssumption DEF TypeOK, ConstantsAssumption
<1>3. events = {} \/ Continues(cursor[s], events, written, trimmed)
  BY <1>1, <1>2, EventsAfterIsRun
<1> HIDE DEF events
<1>4. events # {} =>
        /\ events \subseteq 1..written /\ Max(events) \in 1..written
        /\ \E a, b \in 1..written : a <= b /\ events = a .. b
  BY <1>2, <1>3, RunFacts
<1>5. /\ batch' = [batch EXCEPT ![s] = events]
      /\ cursor' = IF via[s] = "ws" /\ events # {}
                     THEN [cursor EXCEPT ![s] = Max(events)] ELSE cursor
  BY DEF Hand, events
<1>6. /\ batch'[s] = events
      /\ cursor'[s] = IF via[s] = "ws" /\ events # {} THEN Max(events)
                                                     ELSE cursor[s]
  BY <1>1, <1>5 DEF TypeOK
<1>7. /\ cursor' \in [Sessions -> 0..written]
      /\ batch' \in [Sessions -> SUBSET (1..written)]
  BY <1>1, <1>4, <1>5 DEF TypeOK
<1>8. TypeOK'
  BY <1>1, <1>7 DEF Proceed, TypeOK, storeVars, clientVars
<1>9. \A t \in Sessions \ {s} : SessionKept(t)
  BY <1>1, <1>5 DEF Proceed, SessionKept, TypeOK
<1>10. pc'[s] = next
  BY <1>1 DEF Proceed, TypeOK
<1>11. ConnectionOK(s)
  BY DEF ConnectionOK
<1>12. SessionOK(s)'
  <2>1. BatchOK(s)'
    BY <1>4, <1>6, <1>10 DEF BatchOK, storeVars, events
  <2>2. ASSUME s \in attached PROVE AttachedOK(s)'
    <3>1. cursor[s] = LastOf(peer[s])
      BY <1>1, <2>2 DEF SessionOK, AttachedOK
    <3>2. LastOf(peer[s])' = LastOf(peer[s])
      BY DEF LastOf, EndOf, clientVars
    <3>3. (seen[s] => Finished(peer[s]))'
      BY <1>1, <2>2, <3>2 DEF SessionOK, AttachedOK, Finished, storeVars
    <3>4. \/ batch'[s] = {}
          \/ Continues(LastOf(peer[s])', batch'[s], written', trimmed')
      BY <1>3, <1>6, <3>1, <3>2 DEF storeVars
    <3>5. QED
      BY <1>6, <1>10, <3>1, <3>2, <3>3, <3>4 DEF AttachedOK
  <2>3. (pc'[s] = "parked" /\ EventsAfter(cursor[s])' # {}) => s \in woken'
    <3>1. ASSUME next = "parked" PROVE EventsAfter(cursor[s])' = {}
      <4>1. events = {} /\ cursor'[s] = cursor[s]
        BY <1>6, <3>1 DEF events
      <4>2. EventsAfter(cursor[s])' = events
        BY <4>1 DEF events, EventsAfter, Newer, storeVars
      <4>3. QED
        BY <4>1, <4>2
    <3>2. QED
      BY <1>10, <3>1
  <2>4. QED
    BY <2>1, <2>2, <2>3 DEF SessionOK
<1>13. QED
  BY <1>1, <1>8, <1>9, <1>11, <1>12, QuietStep
     DEF NormalCloseIsFinal, clientVars

LEMMA ReadOrMoveInv ==
    ASSUME IInv, NEW s \in Sessions,
           \/ PrepareSubscription(s) \/ StartPoll(s) \/ Confirm(s)
           \/ SentAll(s) \/ WaitStep(s) \/ Heartbeat(s)
    PROVE  IInv'
<1>1. BatchOK(s)
  BY DEF IInv, SessionOK
<1>2. CASE PrepareSubscription(s)
  BY <1>1, <1>2, ReadInv DEF PrepareSubscription, BatchOK
<1>3. CASE StartPoll(s)
  BY <1>1, <1>3, MoveInv DEF StartPoll, BatchOK
<1>4. CASE Confirm(s)
  BY <1>4, MoveInv DEF Confirm
<1>5. CASE SentAll(s)
  BY <1>5, MoveInv DEF SentAll
<1>6. CASE WaitForEvents(s)
  BY <1>1, <1>6, ReadInv DEF WaitForEvents, BatchOK
<1>7. CASE Wake(s)
  BY <1>1, <1>7, ReadInv DEF Wake, BatchOK
<1>8. CASE TimeOut(s)
  BY <1>1, <1>8, MoveInv DEF TimeOut, BatchOK
<1>9. CASE Heartbeat(s)
  BY <1>1, <1>9, MoveInv DEF Heartbeat, BatchOK
<1>10. QED
  BY <1>2, <1>3, <1>4, <1>5, <1>6, <1>7, <1>8, <1>9 DEF WaitStep

\* A session sends the first event it holds.
LEMMA SendEventInv ==
    ASSUME IInv, NEW s \in Sessions, SendEvent(s), via[s] # "poll"
    PROVE  IInv'
<1> DEFINE n == Min(batch[s])
<1>1. /\ TypeOK /\ NormalCloseIsFinal /\ SessionOK(s) /\ BatchOK(s)
      /\ pc[s] = "send" /\ batch[s] # {}
  BY DEF IInv, SendEvent, SessionOK
<1>2. /\ written \in Nat /\ trimmed \in Nat /\ peer[s] \in Clients
      /\ via[s] \in {"ws", "sse"}
  <2>1. Transports \subseteq {"ws", "sse", "poll"} /\ MaxEvents \in Nat
    BY ConstantsAssumption DEF ConstantsAssumption
  <2>2. via[s] \in Transports /\ peer[s] \in Clients
    BY <1>1 DEF TypeOK
  <2>3. written \in 0..MaxEvents /\ trimmed \in 0..written
    BY <1>1 DEF TypeOK
  <2>4. via[s] \in {"ws", "sse"}
    BY <2>1, <2>2
  <2>5. QED
    BY <2>1, <2>2, <2>3, <2>4
<1>3. n \in 1..written
  <2>1. PICK a \in 1..written, b \in 1..written : a <= b /\ batch[s] = a .. b
    BY <1>1 DEF BatchOK
  <2>2. a \in Int /\ b \in Int
    BY <2>1
  <2>3. n = a
    BY <2>1, <2>2, RunEnds
  <2>4. QED
    BY <2>3
<1> HIDE DEF n
<1>4. /\ batch' = [batch EXCEPT ![s] = @ \ {n}]
      /\ cursor' = IF via[s] = "sse" THEN [cursor EXCEPT ![s] = n] ELSE cursor
      /\ Receive(s, {n})
      /\ UNCHANGED <<storeVars, pc, peer, via, attached, woken, code, faults>>
  BY DEF SendEvent, n
<1>5. seen' = [seen EXCEPT ![s] = @ \/ (via[s] = "ws" /\ Terminal(n))]
  BY Zenon DEF SendEvent, n
<1>6. /\ batch'[s] = batch[s] \ {n}
      /\ cursor'[s] = IF via[s] = "sse" THEN n ELSE cursor[s]
      /\ pc'[s] = "send" /\ via'[s] = via[s] /\ peer'[s] = peer[s]
  BY <1>1, <1>4 DEF TypeOK
<1>7. seen'[s] => seen[s] \/ Terminal(n)
  BY <1>1, <1>5 DEF TypeOK
<1>8. seen' \in [Sessions -> BOOLEAN]
  BY <1>1, <1>5 DEF TypeOK
<1>9. /\ cursor' \in [Sessions -> 0..written]
      /\ batch' \in [Sessions -> SUBSET (1..written)]
  BY <1>1, <1>3, <1>4 DEF TypeOK
<1>10. received' \in [Clients -> Seq(SUBSET (1..written))]
  <2>1. received[peer[s]] \in Seq(SUBSET (1..written))
    BY <1>1, <1>2 DEF TypeOK
  <2>2. Append(received[peer[s]], {n}) \in Seq(SUBSET (1..written))
    BY <1>3, <2>1
  <2>3. QED
    BY <1>1, <1>4, <2>2 DEF Receive, TypeOK
<1>11. TypeOK'
  BY <1>1, <1>4, <1>8, <1>9, <1>10 DEF TypeOK, storeVars
<1>12. ASSUME NEW t \in Sessions \ {s}
       PROVE  SessionKept(t)
  <2>1. seen'[t] = seen[t]
    BY <1>1, <1>5 DEF TypeOK
  <2>2. QED
    BY <1>1, <1>4, <2>1 DEF SessionKept, TypeOK
<1>13. ConnectionOK(s)
  BY <1>4 DEF ConnectionOK
<1>14. BatchOK(s)'
  <2>1. PICK a \in 1..written, b \in 1..written : a <= b /\ batch[s] = a .. b
    BY <1>1 DEF BatchOK
  <2>2. a \in Int /\ b \in Int
    BY <2>1
  <2>3. batch'[s] = (a + 1) .. b
    <3>1. Min(a .. b) = a /\ (a .. b) \ {a} = (a + 1) .. b
      BY <2>1, <2>2, RunEnds
    <3>2. QED
      BY <2>1, <3>1, <1>6 DEF n
  <2>4. CASE a = b
    <3>1. batch'[s] = {}
      BY <2>2, <2>3, <2>4
    <3>2. QED
      BY <3>1, <1>6 DEF BatchOK
  <2>5. CASE a # b
    <3>1. a + 1 \in 1..written /\ a + 1 <= b
      BY <2>1, <2>2, <2>5, <1>2
    <3>2. QED
      BY <2>3, <3>1, <1>4, <1>6 DEF BatchOK, storeVars
  <2>6. QED
    BY <2>4, <2>5
<1>15. CASE s \notin attached
  <2>1. received' = received
    BY <1>4, <1>15 DEF Receive
  <2>2. SessionOK(s)'
    BY <1>4, <1>6, <1>14, <1>15 DEF SessionOK
  <2>3. QED
    BY <1>1, <1>4, <1>11, <1>12, <1>13, <2>1, <2>2, QuietStep
       DEF NormalCloseIsFinal
<1>16. CASE s \in attached
  <2>1. received' = [received EXCEPT ![peer[s]] = Append(@, {n})]
    BY <1>4, <1>16 DEF Receive
  <2>2. AttachedOK(s) /\ Continues(LastOf(peer[s]), batch[s], written, trimmed)
    BY <1>1, <1>16 DEF SessionOK, AttachedOK
  <2>3. /\ Continues(LastOf(peer[s]), {n}, written, trimmed)
        /\ Max({n}) = n
        /\ \/ batch[s] \ {n} = {} /\ n = Max(batch[s])
           \/ /\ Continues(n, batch[s] \ {n}, written, trimmed)
              /\ Max(batch[s] \ {n}) = Max(batch[s])
    <3>1. written \in Nat /\ trimmed \in Nat
      BY <1>2
    <3>2. Continues(LastOf(peer[s]), batch[s], written, trimmed)
      BY <2>2
    <3>3. SplitsAt(n, LastOf(peer[s]), batch[s], written, trimmed)
      BY <3>1, <3>2, FirstOfRun DEF n
    <3>4. QED
      BY <3>3 DEF SplitsAt
  <2>4. LastIn(received'[peer[s]]) = n /\ LastOf(peer[s]) < n
    <3>1. /\ LastIn(received'[peer[s]]) = Max({n})
          /\ LastOf(peer[s]) < Max({n})
      BY <1>4, <1>16, <2>1, <2>3, DeliverFrames, Zenon
    <3>2. QED
      BY <3>1, <2>3
  <2>5. LastOf(peer[s])' = n
    BY <1>6, <2>4 DEF LastOf, EndOf, LastIn, EndIn
  <2>6. AttachedOK(s)'
    <3>1. \/ batch'[s] = {}
          \/ Continues(LastOf(peer[s])', batch'[s], written', trimmed')
      BY <1>4, <1>6, <2>3, <2>5 DEF storeVars
    <3>2. cursor'[s] = IF via'[s] = "ws" /\ batch'[s] # {} THEN Max(batch'[s])
                                                          ELSE n
      <4>1. CASE via[s] = "sse"
        BY <1>6, <4>1
      <4>2. CASE via[s] = "ws"
        <5>1. cursor[s] = Max(batch[s])
          BY <1>1, <2>2, <4>2 DEF AttachedOK
        <5>2. batch'[s] # {} => Max(batch'[s]) = Max(batch[s])
          BY <1>6, <2>3
        <5>3. batch'[s] = {} => n = Max(batch[s])
          <6>1. batch[s] \ {n} = {} => n = Max(batch[s])
            BY <1>2, <2>3, RunFacts
          <6>2. QED
            BY <6>1, <1>6
        <5>4. QED
          BY <1>6, <4>2, <5>1, <5>2, <5>3
      <4>3. QED
        BY <1>2, <4>1, <4>2
    <3>3. seen'[s] => Finished(peer[s])'
      <4>1. ~seen[s]
        <5>1. seen[s] => LastOf(peer[s]) = written
          BY <2>2 DEF AttachedOK, Finished
        <5>2. LastOf(peer[s]) # written
          BY <1>2, <1>3, <2>4, LastOfRange
        <5>3. QED
          BY <5>1, <5>2
      <4>2. Terminal(n) => ended /\ n = written
        BY DEF Terminal
      <4>3. QED
        BY <1>4, <1>7, <2>5, <4>1, <4>2 DEF Finished, storeVars
    <3>4. QED
      BY <1>6, <2>5, <3>1, <3>2, <3>3 DEF AttachedOK
  <2>7. SessionOK(s)'
    BY <1>6, <1>14, <2>6 DEF SessionOK
  <2>8. QED
    BY <1>4, <1>11, <1>12, <1>13, <1>16, <2>1, <2>3, <2>7, DeliverStep
<1>17. QED
  BY <1>15, <1>16

\* An answer to a poll ends its session with all it holds.
LEMMA AnswerPollInv ==
    ASSUME IInv, NEW s \in Sessions, AnswerPoll(s)
    PROVE  IInv'
<1>1. TypeOK /\ NormalCloseIsFinal /\ SessionOK(s)
  BY DEF IInv
<1>2. /\ End(s) /\ Receive(s, batch[s])
      /\ UNCHANGED <<storeVars, code, faults>>
  BY DEF AnswerPoll
<1>3. CASE s \in attached /\ batch[s] # {}
  <2>1. received' = [received EXCEPT ![peer[s]] = Append(@, batch[s])]
    BY <1>2, <1>3 DEF Receive
  <2>2. Continues(LastOf(peer[s]), batch[s], written, trimmed)
    BY <1>1, <1>3 DEF SessionOK, AttachedOK
  <2>3. received' \in [Clients -> Seq(SUBSET (1..written'))]
    BY <1>2, <1>3, <2>1, <2>2, DeliverFrames
  <2>4. TypeOK'
    <3>1. NoPeer \in Clients /\ NoTransport \in Transports /\ written \in Nat
      BY <1>1, ConstantsAssumption
         DEF NoPeer, NoTransport, ConstantsAssumption, TypeOK
    <3>2. /\ pc' \in [Sessions -> {"none", "prepare", "confirm", "send",
                                   "wait", "parked", "idle"}]
          /\ peer' \in [Sessions -> Clients]
          /\ via' \in [Sessions -> Transports]
      BY <1>1, <1>2, <3>1 DEF End, TypeOK
    <3>3. /\ cursor' \in [Sessions -> 0..written]
          /\ batch' \in [Sessions -> SUBSET (1..written)]
          /\ seen' \in [Sessions -> BOOLEAN]
      BY <1>1, <1>2, <3>1 DEF End, TypeOK
    <3>4. attached' \subseteq Sessions /\ woken' \subseteq Sessions
      BY <1>1, <1>2 DEF End, TypeOK
    <3>5. QED
      BY <1>1, <1>2, <2>3, <3>2, <3>3, <3>4 DEF TypeOK, storeVars
  <2>5. \A t \in Sessions \ {s} : SessionKept(t)
    BY <1>1, <1>2 DEF End, SessionKept, TypeOK
  <2>6. /\ pc'[s] = "none" /\ batch'[s] = {} /\ s \notin attached'
        /\ seen'[s] = FALSE
    BY <1>1, <1>2 DEF End, TypeOK
  <2>7. ConnectionOK(s) /\ SessionOK(s)'
    BY <2>6 DEF ConnectionOK, SessionOK, BatchOK
  <2>8. QED
    BY <1>2, <1>3, <2>1, <2>2, <2>4, <2>5, <2>7, DeliverStep
<1>4. CASE ~(s \in attached /\ batch[s] # {})
  <2>1. received' = received
    BY <1>2, <1>4 DEF Receive
  <2>2. QED
    BY <1>1, <1>2, <2>1, EndInv DEF TypeOK, NormalCloseIsFinal
<1>5. QED
  BY <1>3, <1>4

LEMMA ReaderStepInv ==
    ASSUME IInv, NEW s \in Sessions, ReaderStep(s)
    PROVE  IInv'
<1>1. CASE WebSocketStep(s)
  BY <1>1, ReadOrMoveInv, SendEventInv, FaultInv DEF WebSocketStep
<1>2. CASE GeneratorStep(s)
  BY <1>2, ReadOrMoveInv, SendEventInv, FaultInv DEF GeneratorStep
<1>3. CASE PollStep(s)
  BY <1>3, ReadOrMoveInv, AnswerPollInv DEF PollStep
<1>4. QED
  BY <1>1, <1>2, <1>3 DEF ReaderStep

LEMMA NextInv == IInv /\ [Next]_vars => IInv'
<1> SUFFICES ASSUME IInv, [Next]_vars PROVE IInv'
  OBVIOUS
<1>1. CASE StoreStep
  BY <1>1, StoreStepInv DEF StoreStep
<1>2. ASSUME NEW s \in Sessions, ReaderStep(s)
      PROVE  IInv'
  BY <1>2, ReaderStepInv
<1>3. ASSUME NEW s \in Sessions,
             \/ HangUp(s) \/ RefuseFrame(s) \/ RefuseTask(s) \/ FailSession(s)
      PROVE  IInv'
  BY <1>3, FaultInv
<1>4. ASSUME NEW s \in Sessions, LoseConnection(s)
      PROVE  IInv'
  BY <1>4, LoseConnectionInv
<1>5. ASSUME NEW s \in Sessions, NEW c \in Clients, Reconnect(s, c)
      PROVE  IInv'
  BY <1>5, ConnectInv
<1>6. CASE UNCHANGED vars
  <2>1. TypeOK'
    BY <1>6
       DEF IInv, TypeOK, vars, storeVars, sessionVars, clientVars
  <2>2. \A c \in Clients :
          FramesOK(c)' /\ LastOf(c)' = LastOf(c) /\ Finished(c)' = Finished(c)
    BY <1>6 DEF IInv, FramesOK, LastOf, EndOf, Finished, vars, storeVars,
                clientVars
  <2>3. OneConnection' /\ NormalCloseIsFinal'
    BY <1>6, <2>2 DEF IInv, OneConnection, NormalCloseIsFinal, vars,
                sessionVars, clientVars
  <2>4. ASSUME NEW s \in Sessions
        PROVE  SessionOK(s)'
    <3>1. SessionOK(s)
      BY DEF IInv
    <3>2. BatchOK(s)' /\ EventsAfter(cursor[s])' = EventsAfter(cursor[s])
      BY <1>6, <3>1 DEF SessionOK, BatchOK, EventsAfter, Newer, vars,
                        storeVars, sessionVars
    <3>3. s \in attached => AttachedOK(s)'
      BY <1>6, <3>1 DEF SessionOK, AttachedOK, LastOf, EndOf, Finished, vars,
                        storeVars, sessionVars, clientVars
    <3>4. QED
      BY <1>6, <3>1, <3>2, <3>3 DEF SessionOK, vars, sessionVars
  <2>5. QED
    BY <2>1, <2>2, <2>3, <2>4 DEF IInv
<1>7. QED
  BY <1>1, <1>2, <1>3, <1>4, <1>5, <1>6 DEF Next

-----------------------------------------------------------------------------
(* Theorems.                                                               *)

THEOREM Invariance == Spec => []IInv
  BY InitInv, NextInv, PTL DEF Spec

\* The store and its sessions hold what they are meant to (event_store.py,
\* handlers.py, stream_runtime.py).
THEOREM TypeCorrect == Spec => []TypeOK
<1>1. IInv => TypeOK
  BY DEF IInv
<1>2. QED
  BY <1>1, Invariance, PTL

\* No session is left to its timeout while events wait for it
\* (wait_for_events).
THEOREM WakeupsKept == Spec => []NoLostWakeup
<1>1. IInv => NoLostWakeup
  BY DEF IInv, NoLostWakeup, SessionOK
<1>2. QED
  BY <1>1, Invariance, PTL

\* The normal close comes after the terminal event and nothing after it, over
\* any sequence of connections (_send_events_and_check_terminal).
THEOREM NormalCloseFinal == Spec => []NormalCloseIsFinal
<1>1. IInv => NormalCloseIsFinal
  BY DEF IInv
<1>2. QED
  BY <1>1, Invariance, PTL

\* A client that resumes after its last event gets no event twice and misses
\* none that the store kept (handle_websocket_subscription,
\* sse_event_generator, handle_http_polling).
THEOREM ResumesWithoutGap == Spec => []NoGapNoRepeat
<1>1. ASSUME IInv
      PROVE  NoGapNoRepeat
  <2> SUFFICES ASSUME NEW c \in Clients, NEW i \in DOMAIN received[c]
               PROVE
                 LET before == EndOf(c, i - 1)
                 IN /\ \A n \in received[c][i] : n > before
                    /\ (before + 1 .. Max(received[c][i])) \ (1 .. trimmed)
                         \subseteq received[c][i]
    BY DEF NoGapNoRepeat
  <2> DEFINE before == EndOf(c, i - 1)
  <2>1. /\ written \in Nat /\ trimmed \in Nat
        /\ received[c] \in Seq(SUBSET (1..written))
        /\ RunsIn(received[c], written, trimmed)
    BY <1>1, LastOfRange DEF IInv, FramesOK
  <2>2. before = EndIn(received[c], i - 1)
    BY DEF EndOf, EndIn
  <2>3. i - 1 \in 0..Len(received[c])
    BY <2>1
  <2>4. before \in 0..written
    BY <2>1, <2>2, <2>3, EndInRange
  <2>5. Continues(before, received[c][i], written, trimmed)
    BY <2>1, <2>2 DEF RunsIn
  <2> HIDE DEF before
  <2>6. PICK a \in 1..written, b \in 1..written :
          /\ before < a /\ a <= b /\ received[c][i] = a .. b
          /\ a = before + 1 \/ a <= trimmed + 1
    BY <2>5 DEF Continues
  <2>7. a \in Int /\ b \in Int /\ before \in Nat
    BY <2>4, <2>6
  <2>8. Max(received[c][i]) = b
    BY <2>6, <2>7, RunEnds
  <2>9. \A n \in received[c][i] : n > before
    BY <2>6, <2>7
  <2>10. ASSUME NEW n \in before + 1 .. b, n \notin 1 .. trimmed
         PROVE  n \in a .. b
    BY <2>1, <2>6, <2>7, <2>10
  <2>11. QED
    BY <2>6, <2>8, <2>9, <2>10 DEF before
<1>2. QED
  BY <1>1, Invariance, PTL

-----------------------------------------------------------------------------
(* The refinement of ResumableFeed.                                        *)

Got(frames) == UNION ToSet(frames)

LEMMA GotEnds ==
    ASSUME NEW published \in Nat, NEW dropped \in Nat,
           NEW frames \in Seq(SUBSET (1..published)),
           RunsIn(frames, published, dropped)
    PROVE  Max(Got(frames) \cup {0}) = LastIn(frames)
<1> DEFINE all == Got(frames) \cup {0}
<1>1. Got(frames) = UNION {frames[i] : i \in DOMAIN frames}
  BY DEF Got, ToSet
<1>2. all \subseteq Int
  BY <1>1
<1>3. LastIn(frames) \in 0..published
  BY EndInRange
<1>4. LastIn(frames) \in all
  <2>1. CASE Len(frames) = 0
    BY <2>1 DEF LastIn, EndIn
  <2>2. CASE Len(frames) # 0
    <3>1. Len(frames) \in DOMAIN frames
      BY <2>2
    <3>2. LastIn(frames) \in frames[Len(frames)]
      BY <2>2, EndInRange
    <3>3. QED
      BY <3>1, <3>2, <1>1
  <2>3. QED
    BY <2>1, <2>2
<1>5. ASSUME NEW n \in all PROVE n <= LastIn(frames)
  <2>1. CASE n = 0
    BY <1>3, <2>1
  <2>2. CASE n \in Got(frames)
    BY <1>1, <2>2 DEF RunsIn
  <2>3. QED
    BY <2>1, <2>2
<1>6. QED
  BY <1>2, <1>4, <1>5, MaxIs

LEMMA GotMore ==
    ASSUME NEW published \in Nat,
           NEW frames \in Seq(SUBSET (1..published)),
           NEW events \in SUBSET (1..published)
    PROVE  Got(Append(frames, events)) = Got(frames) \cup events
<1> DEFINE longer == Append(frames, events)
<1>1. /\ DOMAIN longer = 1 .. Len(frames) + 1
      /\ Len(frames) \in Nat /\ DOMAIN frames = 1..Len(frames)
      /\ \A i \in 1..Len(frames) : longer[i] = frames[i]
      /\ longer[Len(frames) + 1] = events
  OBVIOUS
<1> HIDE DEF longer
<1>2. DOMAIN longer = DOMAIN frames \cup {Len(frames) + 1}
  BY <1>1
<1>3. ToSet(longer) = ToSet(frames) \cup {events}
  BY <1>1, <1>2 DEF ToSet
<1>4. QED
  BY <1>3 DEF Got, longer

\* A session leaves what the clients have, or sends its own a run that
\* continues it.
LEMMA SessionSends ==
    ASSUME IInv, NEW s \in Sessions,
           \/ ReaderStep(s) \/ HangUp(s) \/ RefuseFrame(s) \/ RefuseTask(s)
           \/ FailSession(s) \/ LoseConnection(s)
           \/ \E c \in Clients : Reconnect(s, c)
    PROVE  /\ UNCHANGED storeVars
           /\ \/ received' = received
              \/ /\ s \in attached
                 /\ \E events :
                      /\ Continues(LastOf(peer[s]), events, written, trimmed)
                      /\ received' =
                           [received EXCEPT ![peer[s]] = Append(@, events)]
<1>1. /\ TypeOK /\ (s \in attached => AttachedOK(s))
      /\ written \in Nat /\ trimmed \in Nat
  BY ConstantsAssumption DEF IInv, SessionOK, TypeOK, ConstantsAssumption
<1>2. CASE SendEvent(s)
  <2>1. UNCHANGED storeVars /\ batch[s] # {} /\ Receive(s, {Min(batch[s])})
    BY <1>2 DEF SendEvent
  <2>2. CASE s \in attached
    <3>1. Continues(LastOf(peer[s]), {Min(batch[s])}, written, trimmed)
      BY <1>1, <2>1, <2>2, FirstOfRun DEF AttachedOK, SplitsAt
    <3>2. QED
      BY <2>1, <2>2, <3>1 DEF Receive
  <2>3. CASE s \notin attached
    BY <2>1, <2>3 DEF Receive
  <2>4. QED
    BY <2>2, <2>3
<1>3. CASE AnswerPoll(s)
  <2>1. UNCHANGED storeVars /\ Receive(s, batch[s])
    BY <1>3 DEF AnswerPoll
  <2>2. CASE s \in attached /\ batch[s] # {}
    BY <1>1, <2>1, <2>2 DEF Receive, AttachedOK
  <2>3. CASE ~(s \in attached /\ batch[s] # {})
    BY <2>1, <2>3 DEF Receive
  <2>4. QED
    BY <2>2, <2>3
<1>4. CASE \/ PrepareSubscription(s) \/ StartPoll(s) \/ Confirm(s)
           \/ SentAll(s) \/ WaitStep(s) \/ Heartbeat(s)
  BY <1>4 DEF PrepareSubscription, StartPoll, Confirm, SentAll, WaitStep,
              WaitForEvents, Wake, TimeOut, Heartbeat, clientVars
<1>5. CASE \/ HangUp(s) \/ RefuseFrame(s) \/ RefuseTask(s) \/ FailSession(s)
           \/ StopGenerator(s) \/ CloseAtTerminal(s) \/ LoseConnection(s)
           \/ \E c \in Clients : Reconnect(s, c)
  BY <1>5 DEF HangUp, RefuseFrame, RefuseTask, FailSession, StopGenerator,
              CloseAtTerminal, LoseConnection, Reconnect, Connect, clientVars
<1>6. QED
  BY <1>2, <1>3, <1>4, <1>5
     DEF ReaderStep, WebSocketStep, GeneratorStep, PollStep

\* What the clients have, as ResumableFeed sees it.
GotByAll == [c \in Clients |-> Got(received[c])]

LEMMA StoreRefines ==
    ASSUME IInv, StoreStep
    PROVE  Feed!Publish \/ Feed!Drop \/ UNCHANGED Feed!vars
<1>1. /\ written \in 0..MaxEvents /\ trimmed \in 0..written
      /\ MaxEvents \in Nat /\ MaxLength \in Nat \ {0}
  BY ConstantsAssumption DEF IInv, TypeOK, ConstantsAssumption
<1>2. received' = received
  BY DEF StoreStep, AppendEvent, ExpireStream, AppendOtherTask, clientVars
<1>3. CASE AppendEvent
  <2>1. trimmed' = trimmed \/ trimmed' \in trimmed .. (written + 1) - MaxLength
    BY <1>3 DEF AppendEvent, Trimmed
  <2>2. trimmed' \in trimmed .. written
    BY <1>1, <2>1
  <2>3. QED
    BY <1>2, <1>3, <2>2 DEF AppendEvent, Feed!Publish
<1>4. CASE ExpireStream
  <2>1. trimmed' \in trimmed + 1 .. written
    BY <1>1, <1>4 DEF ExpireStream
  <2>2. QED
    BY <1>2, <1>4, <2>1 DEF ExpireStream, Feed!Drop
<1>5. CASE AppendOtherTask
  BY <1>2, <1>5 DEF AppendOtherTask, storeVars, Feed!vars
<1>6. QED
  BY <1>3, <1>4, <1>5 DEF StoreStep

LEMMA SendRefines ==
    ASSUME IInv, NEW s \in attached, NEW events,
           Continues(LastOf(peer[s]), events, written, trimmed),
           UNCHANGED storeVars,
           received' = [received EXCEPT ![peer[s]] = Append(@, events)]
    PROVE  \E c \in Clients : Feed!Deliver(c)
<1> DEFINE c == peer[s]
<1>1. /\ c \in Clients
      /\ received \in [Clients -> Seq(SUBSET (1..written))]
  BY DEF IInv, TypeOK
<1>2. /\ LastOf(c) = LastIn(received[c]) /\ LastOf(c) \in 0..written
      /\ written \in Nat /\ trimmed \in Nat
      /\ received[c] \in Seq(SUBSET (1..written))
      /\ RunsIn(received[c], written, trimmed)
  BY <1>1, LastOfRange DEF IInv, FramesOK
<1>3. events \in SUBSET (1..written)
  BY <1>2, RunFacts
<1>4. PICK first \in 1..written, last \in 1..written :
        /\ LastOf(c) < first /\ first <= last /\ events = first .. last
        /\ first = LastOf(c) + 1 \/ first <= trimmed + 1
  BY DEF Continues
<1>5. Max(GotByAll[c] \cup {0}) = LastOf(c)
  BY <1>1, <1>2, GotEnds DEF GotByAll
<1>6. GotByAll' = [GotByAll EXCEPT ![c] = @ \cup (first .. last)]
  <2>1. received'[c] = Append(received[c], events)
    BY <1>1
  <2>2. Got(Append(received[c], events)) = Got(received[c]) \cup events
    BY <1>2, <1>3, GotMore
  <2>3. \A d \in Clients \ {c} : received'[d] = received[d]
    BY <1>1
  <2>4. QED
    BY <1>1, <1>4, <2>1, <2>2, <2>3 DEF GotByAll
<1>7. first \in LastOf(c) + 1 .. written /\ last \in LastOf(c) + 1 .. written
  BY <1>2, <1>4
<1>8. Feed!Last(c) = LastOf(c)
  <2>1. Feed!Last(c) = Feed!Max(GotByAll[c] \cup {0})
    BY Zenon DEF Feed!Last, GotByAll, Got
  <2>2. Feed!Max(GotByAll[c] \cup {0}) = Max(GotByAll[c] \cup {0})
    BY Zenon DEF Feed!Max, Max
  <2>3. QED
    BY <2>1, <2>2, <1>5
<1> HIDE DEF c
<1>9. Feed!Deliver(c)
  BY <1>4, <1>6, <1>7, <1>8
     DEF Feed!Deliver, storeVars, GotByAll, Got
<1>10. QED
  BY <1>1, <1>9

LEMMA StepRefines == IInv /\ [Next]_vars => [Feed!Next]_(Feed!vars)
<1> SUFFICES ASSUME IInv, [Next]_vars
             PROVE  Feed!Next \/ UNCHANGED Feed!vars
  OBVIOUS
<1>1. CASE StoreStep
  BY <1>1, StoreRefines DEF Feed!Next
<1>2. ASSUME NEW s \in Sessions,
             \/ ReaderStep(s) \/ HangUp(s) \/ RefuseFrame(s) \/ RefuseTask(s)
             \/ FailSession(s) \/ LoseConnection(s)
             \/ \E c \in Clients : Reconnect(s, c)
      PROVE  Feed!Next \/ UNCHANGED Feed!vars
  <2>1. CASE received' = received
    <3>1. UNCHANGED storeVars
      BY <1>2, SessionSends
    <3>2. QED
      BY <2>1, <3>1 DEF Feed!vars, storeVars
  <2>2. CASE received' # received
    BY <1>2, <2>2, SessionSends, SendRefines DEF Feed!Next
  <2>3. QED
    BY <2>1, <2>2
<1>3. CASE UNCHANGED vars
  BY <1>3 DEF vars, storeVars, clientVars, Feed!vars
<1>4. QED
  BY <1>1, <1>2, <1>3 DEF Next

LEMMA InitRefines == Init => Feed!Init
<1> SUFFICES ASSUME Init PROVE Feed!Init
  OBVIOUS
<1>1. \A c \in Clients : UNION ToSet(received[c]) = {}
  BY DEF Init, ToSet
<1>2. QED
  BY <1>1 DEF Init, Feed!Init

\* The stores and the sessions that read them implement the feed they promise,
\* over any number of lost connections (event_store.py, handlers.py,
\* stream_runtime.py).
THEOREM RefinesFeed == Spec => ImplementsFeed
  BY InitRefines, StepRefines, Invariance, PTL
     DEF Spec, ImplementsFeed, Feed!Spec

=============================================================================
