------------------------ MODULE TaskLifecycleProofs -------------------------
(***************************************************************************)
(* Proofs about TaskLifecycle for any sets of creation and cancellation    *)
(* requests, any commands, any length of a run and any number of faults.   *)
(***************************************************************************)
EXTENDS TaskLifecycle, NaturalLoops, NaturalsInduction, TLAPS

\* Where the run of a task stands, its status and its log are those the run
\* has written.
RunOK(t) ==
    /\ run[t] = "begin" => status[t] = "ACCEPTED"
    /\ run[t] \in {"started", "check", "tick", "settle"}
         => status[t] = "RUNNING"
    /\ run[t] \in {"settle", "announce"} => outcome[t] \in Terminals
    /\ run[t] = "announce" => status[t] = outcome[t]
    /\ run[t] \notin {"ended", "dead"} => ~Announced(t)
    /\ run[t] = "tick" => ticks[t] < ProgressTicks
    /\ outcome[t] = "CANCELLED" => t \in requested

\* A creation request that is not answered has no run; whoever was answered
\* with a task finds it stored; and a request that began after another with
\* its key was answered never gets to store one.
CreatorOK(c) ==
    /\ pc[c] # "done" => /\ run[c] = "none"
                         /\ status[c] = "ACCEPTED"
                         /\ answer[c] = "none"
    /\ pc[c] \in {"idle", "lookup", "create"} => c \notin Stored
    /\ pc[c] \in {"submit", "fail"} => c \in Stored
    /\ Named(c) => result[c] \in Stored /\ SameKey(c, result[c])
    /\ \A d \in earlier[c] : Named(d)
    /\ pc[c] \in {"create", "submit", "fail"} \/ c \in Stored
         => \A d \in earlier[c] : ~SameKey(c, d)

\* The executor is told only of cancellations the registry knows of.
SignalOK ==
    /\ signalled \subseteq requested
    /\ \A k \in Cancellers : step[k] = "signal" => target[k] \in requested

IInv ==
    /\ TypeOK
    /\ \A t \in Tasks : RunOK(t)
    /\ \A c \in Creators : CreatorOK(c)
    /\ SignalOK
    /\ TerminalEventAgrees
    /\ CancellationHonest
    /\ IdempotencyAnswersHold

-----------------------------------------------------------------------------
(* What the operations do to the registry and to the log.                  *)

\* Storing a task adds it to the stored ones.
LEMMA StoredAfter ==
    ASSUME registry \in Seq(Tasks), NEW c \in Tasks,
           registry' = Append(registry, c)
    PROVE  registry' \in Seq(Tasks) /\ Stored' = Stored \cup {c}
<1>1. /\ registry' \in Seq(Tasks)
      /\ Len(registry') = Len(registry) + 1
      /\ \A i \in 1..Len(registry) : registry'[i] = registry[i]
      /\ registry'[Len(registry) + 1] = c
  OBVIOUS
<1>2. /\ Len(registry) \in Nat
      /\ DOMAIN registry = 1..Len(registry)
      /\ DOMAIN registry' = 1..Len(registry) + 1
  BY <1>1
<1>3. ASSUME NEW t \in Stored'
      PROVE  t \in Stored \cup {c}
  <2>1. PICK i \in 1..Len(registry) + 1 : t = registry'[i]
    BY <1>2, <1>3 DEF Stored
  <2>2. i \in 1..Len(registry) \/ i = Len(registry) + 1
    BY <1>2
  <2> QED
    BY <2>1, <2>2, <1>1, <1>2 DEF Stored
<1>4. ASSUME NEW t \in Stored
      PROVE  t \in Stored'
  <2>1. PICK i \in 1..Len(registry) : t = registry[i]
    BY <1>2, <1>4 DEF Stored
  <2>2. i \in DOMAIN registry' /\ t = registry'[i]
    BY <2>1, <1>1, <1>2
  <2> QED
    BY <2>2 DEF Stored
<1>5. c \in Stored'
  <2>1. Len(registry) + 1 \in DOMAIN registry'
    BY <1>2
  <2> QED
    BY <2>1, <1>1 DEF Stored
<1> QED
  BY <1>1, <1>3, <1>4, <1>5

\* The lookup by client request id finds a stored task with that key.
LEMMA ExistingMatches ==
    ASSUME registry \in Seq(Tasks), NEW c \in Creators, Matches(c) # {}
    PROVE  /\ Existing(c) \in Stored
           /\ Existing(c) \in Tasks
           /\ SameKey(c, Existing(c))
<1> DEFINE first == CHOOSE i \in Matches(c) : \A j \in Matches(c) : i <= j
<1>1. DOMAIN registry = 1..Len(registry) /\ Len(registry) \in Nat
  OBVIOUS
<1>2. Matches(c) \subseteq Nat
  BY <1>1 DEF Matches
<1>3. \E i \in Matches(c) : \A j \in Matches(c) : i <= j
  BY <1>2, LeastNatural
<1>5. first \in Matches(c)
  BY <1>3
<1>6. first \in DOMAIN registry /\ SameKey(c, registry[first])
  BY <1>5 DEF Matches
<1>7. Existing(c) = registry[first]
  BY DEF Existing
<1>8. registry[first] \in Tasks
  BY <1>1, <1>6
<1> QED
  BY <1>6, <1>7, <1>8 DEF Stored

\* A stored task with the key of a request is one the lookup matches.
LEMMA StoredMatches ==
    ASSUME NEW c \in Creators, NEW t \in Stored, SameKey(c, t)
    PROVE  Matches(c) # {}
<1>1. PICK i \in DOMAIN registry : t = registry[i]
  BY DEF Stored
<1> QED
  BY <1>1 DEF Matches

\* An event is appended to one log; a terminal one is then its last.
LEMMA EmitAppends ==
    ASSUME TypeOK, NEW t \in Tasks, NEW e \in Events, Emit(t, e)
    PROVE  /\ log' \in [Tasks -> Seq(Events)]
           /\ \A u \in Tasks \ {t} : log'[u] = log[u]
           /\ e \notin Terminals => (Announced(t)' => Announced(t))
           /\ ~Announced(t) =>
                /\ LastEvent(t)' = e
                /\ \A i \in 1 .. Len(log'[t]) - 1 : log'[t][i] \notin Terminals
<1>1. log \in [Tasks -> Seq(Events)]
  BY DEF TypeOK
<1>2. log' = [log EXCEPT ![t] = Append(log[t], e)]
  BY DEF Emit
<1>3. /\ log'[t] = Append(log[t], e)
      /\ \A u \in Tasks \ {t} : log'[u] = log[u]
      /\ log[t] \in Seq(Events)
  BY <1>1, <1>2
<1>4. log' \in [Tasks -> Seq(Events)]
  <2>1. Append(log[t], e) \in Seq(Events)
    BY <1>3
  <2> QED
    BY <1>1, <1>2, <2>1
<1>5. /\ Len(log'[t]) = Len(log[t]) + 1
      /\ \A i \in 1..Len(log[t]) : log'[t][i] = log[t][i]
      /\ log'[t][Len(log[t]) + 1] = e
      /\ Len(log[t]) \in Nat
      /\ DOMAIN log[t] = 1..Len(log[t])
      /\ DOMAIN log'[t] = 1..Len(log[t]) + 1
  BY <1>3
<1>6. ASSUME e \notin Terminals, Announced(t)'
      PROVE  Announced(t)
  <2>1. PICK i \in 1..Len(log[t]) + 1 : log'[t][i] \in Terminals
    BY <1>5, <1>6 DEF Announced, Terminals
  <2>2. i \in 1..Len(log[t])
    BY <2>1, <1>5, <1>6
  <2> QED
    BY <2>1, <2>2, <1>5 DEF Announced
<1>7. ASSUME ~Announced(t)
      PROVE  /\ LastEvent(t)' = e
             /\ \A i \in 1 .. Len(log'[t]) - 1 : log'[t][i] \notin Terminals
  <2>1. LastEvent(t)' = e
    BY <1>5 DEF LastEvent
  <2>2. ASSUME NEW i \in 1 .. Len(log'[t]) - 1
        PROVE  log'[t][i] \notin Terminals
    <3>1. i \in DOMAIN log[t]
      BY <1>5
    <3> QED
      BY <3>1, <1>5, <1>7 DEF Announced
  <2> QED
    BY <2>1, <2>2
<1> QED
  BY <1>3, <1>4, <1>6, <1>7

-----------------------------------------------------------------------------

\* Before the first request the invariant holds.
LEMMA InitInv == Init => IInv
<1> SUFFICES ASSUME Init
             PROVE  IInv
  OBVIOUS
<1>1. Stored = {} /\ \A t \in Tasks : ~Announced(t)
  BY DEF Init, Stored, Announced
<1>2. TypeOK
  <2>1. faults \in 0..MaxFaults /\ ticks \in [Tasks -> 0..ProgressTicks]
    BY ConstantsAssumption DEF Init, ConstantsAssumption
  <2>2. registry \in Seq(Tasks) /\ log \in [Tasks -> Seq(Events)]
    BY DEF Init
  <2> QED
    BY <2>1, <2>2
       DEF Init, TypeOK, Tasks, Statuses, Answers, Runs, Terminals
<1>3. \A t \in Tasks : RunOK(t)
  BY <1>1 DEF Init, RunOK, Terminals
<1>4. \A c \in Creators : CreatorOK(c)
  BY <1>1 DEF Init, CreatorOK, Named, Tasks
<1>5. SignalOK /\ TerminalEventAgrees /\ CancellationHonest
  BY <1>1 DEF Init, SignalOK, TerminalEventAgrees, CancellationHonest
<1>6. IdempotencyAnswersHold
  BY <1>1 DEF Init, IdempotencyAnswersHold
<1> QED
  BY <1>2, <1>3, <1>4, <1>5, <1>6 DEF IInv

-----------------------------------------------------------------------------
(* What a step leaves alone.                                               *)

\* A step that writes neither the tasks, nor the runs, nor a cancellation.
LEMMA RunsUntouched ==
    ASSUME IInv, UNCHANGED <<registryVars, cancellerVars, executorVars>>
    PROVE  /\ Stored' = Stored
           /\ \A t \in Tasks : RunOK(t)'
           /\ SignalOK' /\ TerminalEventAgrees' /\ CancellationHonest'
<1> USE DEF IInv, registryVars, cancellerVars, executorVars
<1>1. Stored' = Stored /\ \A t \in Tasks : Announced(t)' = Announced(t)
  BY DEF Stored, Announced
<1>2. ASSUME NEW t \in Tasks
      PROVE  RunOK(t)'
  <2>1. RunOK(t)
    OBVIOUS
  <2> QED
    BY <1>1, <2>1 DEF RunOK
<1>3. SignalOK' /\ CancellationHonest'
  BY DEF SignalOK, CancellationHonest
<1>4. TerminalEventAgrees'
  BY <1>1 DEF TerminalEventAgrees, LastEvent
<1> QED
  BY <1>1, <1>2, <1>3, <1>4

\* A step that writes no creation request, and no task that has none answered.
LEMMA CreatorsUntouched ==
    ASSUME IInv, UNCHANGED <<registry, creatorVars>>,
           \A c \in Creators : pc[c] # "done" =>
               run'[c] = run[c] /\ status'[c] = status[c]
    PROVE  (\A c \in Creators : CreatorOK(c)') /\ IdempotencyAnswersHold'
<1> USE DEF IInv, creatorVars
<1>1. Stored' = Stored /\ \A c \in Creators : Named(c)' = Named(c)
  BY DEF Stored, Named
<1>2. ASSUME NEW c \in Creators
      PROVE  CreatorOK(c)'
  <2>1. CreatorOK(c)
    OBVIOUS
  <2>2. \A d \in earlier[c] : Named(d)'
    BY <2>1 DEF CreatorOK, Named
  <2> QED
    BY <1>1, <2>1, <2>2 DEF CreatorOK, SameKey
<1>3. IdempotencyAnswersHold'
  BY <1>1 DEF IdempotencyAnswersHold, SameKey, SamePayload
<1> QED
  BY <1>2, <1>3

\* A step of the run of a task, which has one, disturbs no creation request.
LEMMA RunningIsAnswered ==
    ASSUME IInv, NEW t \in Tasks, run[t] # "none",
           UNCHANGED <<registry, creatorVars>>,
           \A u \in Tasks \ {t} : run'[u] = run[u] /\ status'[u] = status[u]
    PROVE  (\A c \in Creators : CreatorOK(c)') /\ IdempotencyAnswersHold'
<1>1. ASSUME NEW c \in Creators, pc[c] # "done"
      PROVE  run'[c] = run[c] /\ status'[c] = status[c]
  <2>1. CreatorOK(c)
    BY DEF IInv
  <2>2. c # t
    BY <1>1, <2>1 DEF CreatorOK
  <2> QED
    BY <2>2 DEF Tasks
<1> QED
  BY <1>1, CreatorsUntouched

-----------------------------------------------------------------------------
(* The creation requests.                                                  *)

\* Between the check of its owner and the lookup a request stores nothing, and
\* from here on it knows which requests were answered before it.
LEMMA AssertNext ==
    ASSUME IInv, NEW c \in Creators, AssertTaskCreate(c)
    PROVE  IInv'
<1> USE DEF IInv
<1>1. TypeOK'
  BY DEF TypeOK, AssertTaskCreate, registryVars, cancellerVars, executorVars
<1>2. /\ Stored' = Stored
      /\ \A t \in Tasks : RunOK(t)'
      /\ SignalOK' /\ TerminalEventAgrees' /\ CancellationHonest'
  BY RunsUntouched DEF AssertTaskCreate
<1>3. \A d : Named(d)' = Named(d)
  BY DEF AssertTaskCreate, Named
<1>4. ASSUME NEW d \in Creators
      PROVE  CreatorOK(d)'
  <2>1. CreatorOK(d) /\ CreatorOK(c)
    OBVIOUS
  <2>2. CASE d = c
    <3>1. /\ pc'[c] = "lookup" /\ earlier'[c] = {e \in Creators : Named(e)}
          /\ run' = run /\ status' = status /\ answer' = answer
          /\ result' = result /\ pc[c] = "idle"
      BY DEF AssertTaskCreate, TypeOK, registryVars, executorVars
    <3> QED
      BY <1>2, <1>3, <2>1, <2>2, <3>1 DEF CreatorOK
  <2>3. CASE d # c
    <3>1. /\ pc'[d] = pc[d] /\ earlier'[d] = earlier[d]
          /\ run' = run /\ status' = status /\ answer' = answer
          /\ result' = result
      BY <2>3 DEF AssertTaskCreate, TypeOK, registryVars, executorVars
    <3> QED
      BY <1>2, <1>3, <2>1, <3>1 DEF CreatorOK
  <2> QED
    BY <2>2, <2>3
<1>5. IdempotencyAnswersHold'
  <2>1. ASSUME NEW d \in Creators, NEW e \in earlier'[d], SameKey(d, e)
        PROVE  d \notin Stored
    BY <1>2, <1>4, <2>1 DEF CreatorOK
  <2>2. answer' = answer /\ result' = result
    BY DEF AssertTaskCreate
  <2> QED
    BY <1>2, <2>1, <2>2 DEF IdempotencyAnswersHold
<1> QED
  BY <1>1, <1>2, <1>4, <1>5

\* A request that ends without having named a task: denied, or aborted.
LEMMA GiveUpNext ==
    ASSUME IInv, NEW c \in Creators, DenyTaskCreate(c) \/ AbortCreation(c)
    PROVE  IInv'
<1> USE DEF IInv
<1>1. /\ pc[c] # "done"
      /\ pc' = [pc EXCEPT ![c] = "done"]
      /\ \E value \in {"denied", "error"} :
           answer' = [answer EXCEPT ![c] = value]
      /\ result' = [result EXCEPT ![c] = c]
      /\ earlier' = earlier
      /\ UNCHANGED <<registryVars, cancellerVars, executorVars>>
  BY DEF DenyTaskCreate, AbortCreation, Answer
<1>2. faults' \in 0..MaxFaults
  BY ConstantsAssumption
     DEF DenyTaskCreate, AbortCreation, Raises, TypeOK, ConstantsAssumption
<1>3. TypeOK'
  BY <1>1, <1>2
     DEF TypeOK, registryVars, cancellerVars, executorVars, Answers, Tasks
<1>4. /\ Stored' = Stored
      /\ \A t \in Tasks : RunOK(t)'
      /\ SignalOK' /\ TerminalEventAgrees' /\ CancellationHonest'
  BY <1>1, RunsUntouched
<1>5. CreatorOK(c)
  OBVIOUS
<1>6. /\ answer[c] = "none" /\ answer'[c] \in {"denied", "error"}
      /\ \A d \in Creators : d # c => /\ answer'[d] = answer[d]
                                      /\ result'[d] = result[d]
                                      /\ pc'[d] = pc[d]
      /\ pc'[c] = "done"
      /\ run' = run /\ status' = status
  BY <1>1, <1>5 DEF CreatorOK, TypeOK, registryVars, executorVars
<1>7. \A d \in Creators : Named(d)' = Named(d)
  BY <1>6 DEF Named
<1>8. ASSUME NEW d \in Creators
      PROVE  CreatorOK(d)'
  <2>1. CreatorOK(d) /\ earlier[d] \subseteq Creators
    BY DEF TypeOK
  <2> QED
    BY <1>1, <1>4, <1>6, <1>7, <2>1 DEF CreatorOK, Named
<1>9. IdempotencyAnswersHold'
  BY <1>1, <1>4, <1>6 DEF IdempotencyAnswersHold
<1> QED
  BY <1>3, <1>4, <1>8, <1>9

\* The lookup answers for a stored task with the key of the request, or finds
\* that none of the requests answered before it had that key.
LEMMA LookupNext ==
    ASSUME IInv, NEW c \in Creators, LookupTask(c)
    PROVE  IInv'
<1> USE DEF IInv
<1>1. CreatorOK(c) /\ registry \in Seq(Tasks) /\ pc[c] = "lookup"
  BY DEF TypeOK, LookupTask
<1>2. /\ Stored' = Stored
      /\ \A t \in Tasks : RunOK(t)'
      /\ SignalOK' /\ TerminalEventAgrees' /\ CancellationHonest'
  BY RunsUntouched DEF LookupTask
<1>3. run' = run /\ status' = status /\ earlier' = earlier
  BY DEF LookupTask, registryVars, executorVars
<1>4. \A d \in Creators : d # c => /\ answer'[d] = answer[d]
                                   /\ result'[d] = result[d]
                                   /\ pc'[d] = pc[d]
  BY DEF LookupTask, Answer, TypeOK
<1>5. CASE Matches(c) = {}
  <2>1. pc' = [pc EXCEPT ![c] = "create"] /\ answer' = answer
        /\ result' = result
    BY <1>5 DEF LookupTask
  <2>2. TypeOK'
    BY <2>1, <1>3
       DEF TypeOK, LookupTask, registryVars, cancellerVars, executorVars
  <2>3. \A d \in Creators : Named(d)' = Named(d)
    BY <2>1 DEF Named
  <2>4. \A d \in earlier[c] : ~SameKey(c, d)
    <3>1. SUFFICES ASSUME NEW d \in earlier[c], SameKey(c, d)
                   PROVE  FALSE
      OBVIOUS
    <3>2. d \in Creators /\ CreatorOK(d) /\ Named(d)
      BY <1>1 DEF TypeOK, CreatorOK
    <3>3. result[d] \in Stored /\ SameKey(c, result[d])
      BY <3>1, <3>2 DEF CreatorOK, SameKey
    <3> QED
      BY <3>3, <1>5, StoredMatches
  <2>5. ASSUME NEW d \in Creators
        PROVE  CreatorOK(d)'
    <3>1. CreatorOK(d) /\ earlier[d] \subseteq Creators
      BY DEF TypeOK
    <3>2. CASE d = c
      <4>1. pc'[c] = "create"
        BY <2>1 DEF TypeOK
      <4> QED
        BY <1>1, <1>2, <1>3, <2>1, <2>3, <2>4, <3>1, <3>2, <4>1
           DEF CreatorOK
    <3>3. CASE d # c
      BY <1>2, <1>3, <1>4, <2>1, <2>3, <3>1, <3>3 DEF CreatorOK
    <3> QED
      BY <3>2, <3>3
  <2>6. IdempotencyAnswersHold'
    BY <1>2, <1>3, <2>1 DEF IdempotencyAnswersHold
  <2> QED
    BY <1>2, <2>2, <2>5, <2>6
<1>6. CASE Matches(c) # {}
  <2>1. /\ Existing(c) \in Stored
        /\ Existing(c) \in Tasks
        /\ SameKey(c, Existing(c))
    BY <1>1, <1>6, ExistingMatches
  <2>2. /\ pc' = [pc EXCEPT ![c] = "done"]
        /\ answer' = [answer EXCEPT ![c] =
                        IF SamePayload(c, Existing(c)) THEN "deduplicated"
                                                       ELSE "conflict"]
        /\ result' = [result EXCEPT ![c] = Existing(c)]
    BY <1>6 DEF LookupTask, Answer
  <2>3. TypeOK'
    BY <2>1, <2>2, <1>3
       DEF TypeOK, LookupTask, registryVars, cancellerVars, executorVars,
           Answers
  <2>4. /\ pc'[c] = "done" /\ result'[c] = Existing(c)
        /\ \/ answer'[c] = "deduplicated" /\ SamePayload(c, Existing(c))
           \/ answer'[c] = "conflict" /\ ~SamePayload(c, Existing(c))
        /\ answer[c] = "none"
    <3>1. answer \in [Creators -> Answers] /\ c \in DOMAIN pc
          /\ c \in DOMAIN answer /\ c \in DOMAIN result
      BY DEF TypeOK
    <3>2. answer[c] = "none"
      BY <1>1 DEF CreatorOK
    <3>3. pc'[c] = "done" /\ result'[c] = Existing(c)
      BY <2>2, <3>1, Zenon
    <3>4. CASE SamePayload(c, Existing(c))
      <4>1. answer' = [answer EXCEPT ![c] = "deduplicated"]
        BY <2>2, <3>4, Zenon
      <4> QED
        BY <3>1, <3>2, <3>3, <3>4, <4>1, Zenon
    <3>5. CASE ~SamePayload(c, Existing(c))
      <4>1. answer' = [answer EXCEPT ![c] = "conflict"]
        BY <2>2, <3>5, Zenon
      <4> QED
        BY <3>1, <3>2, <3>3, <3>5, <4>1, Zenon
    <3> QED
      BY <3>4, <3>5
  <2>5. \A d \in Creators : Named(d) => Named(d)' /\ d # c
    BY <1>4, <2>4 DEF Named
  <2>6. ASSUME NEW d \in Creators
        PROVE  CreatorOK(d)'
    <3>1. CreatorOK(d) /\ earlier[d] \subseteq Creators
      BY DEF TypeOK
    <3>2. CASE d = c
      BY <1>1, <1>2, <1>3, <2>1, <2>4, <2>5, <3>1, <3>2
         DEF CreatorOK, SameKey
    <3>3. CASE d # c
      BY <1>2, <1>3, <1>4, <2>5, <3>1, <3>3 DEF CreatorOK, Named
    <3> QED
      BY <3>2, <3>3
  <2>7. IdempotencyAnswersHold'
    <3>1. ASSUME NEW d \in Creators, answer'[d] = "deduplicated"
          PROVE  /\ result'[d] \in Stored
                 /\ SameKey(d, result'[d]) /\ SamePayload(d, result'[d])
      BY <1>4, <2>1, <2>4, <3>1 DEF IdempotencyAnswersHold
    <3>2. ASSUME NEW d \in Creators, answer'[d] = "conflict"
          PROVE  \E t \in Stored : SameKey(d, t) /\ ~SamePayload(d, t)
      BY <1>4, <2>1, <2>4, <3>2 DEF IdempotencyAnswersHold
    <3>3. ASSUME NEW d \in Creators, NEW e \in earlier'[d], SameKey(d, e)
          PROVE  d \notin Stored
      BY <1>3, <3>3 DEF IdempotencyAnswersHold
    <3> QED
      BY <1>2, <3>1, <3>2, <3>3 DEF IdempotencyAnswersHold, SameKey,
                                    SamePayload
  <2> QED
    BY <1>2, <2>3, <2>6, <2>7
<1> QED
  BY <1>5, <1>6

\* A task that nobody has run is stored under its request's key.
LEMMA CreateNext ==
    ASSUME IInv, NEW c \in Creators, CreateTask(c)
    PROVE  IInv'
<1> USE DEF IInv
<1>1. CreatorOK(c) /\ pc[c] = "create" /\ c \in Tasks
  BY DEF CreateTask, Tasks
<1>2. registry' \in Seq(Tasks) /\ Stored' = Stored \cup {c}
  BY <1>1, StoredAfter DEF TypeOK, CreateTask
<1>3. /\ status' = status /\ run' = run /\ log' = log /\ outcome' = outcome
      /\ ticks' = ticks /\ requested' = requested /\ signalled' = signalled
      /\ answer' = answer /\ result' = result /\ earlier' = earlier
      /\ UNCHANGED cancellerVars
  BY <1>1 DEF TypeOK, CreateTask, CreatorOK, executorVars
<1>4. /\ pc'[c] = "submit"
      /\ \A d \in Creators : d # c => pc'[d] = pc[d]
  BY DEF TypeOK, CreateTask
<1>5. TypeOK'
  BY <1>2, <1>3 DEF TypeOK, CreateTask, cancellerVars
<1>6. \A t \in Tasks : RunOK(t)'
  BY <1>3 DEF RunOK, Announced
<1>7. SignalOK' /\ TerminalEventAgrees' /\ CancellationHonest'
  BY <1>3 DEF SignalOK, TerminalEventAgrees, CancellationHonest, Announced,
              LastEvent, cancellerVars
<1>8. \A d \in Creators : Named(d)' = Named(d)
  BY <1>3 DEF Named
<1>9. ASSUME NEW d \in Creators
      PROVE  CreatorOK(d)'
  <2>1. CreatorOK(d) /\ earlier[d] \subseteq Creators
    BY DEF TypeOK
  <2>2. CASE d = c
    BY <1>1, <1>2, <1>3, <1>4, <1>8, <2>1, <2>2 DEF CreatorOK
  <2>3. CASE d # c
    BY <1>2, <1>3, <1>4, <1>8, <2>1, <2>3 DEF CreatorOK
  <2> QED
    BY <2>2, <2>3
<1>10. IdempotencyAnswersHold'
  <2>1. ASSUME NEW d \in Creators, NEW e \in earlier'[d], SameKey(d, e)
        PROVE  d \notin Stored'
    BY <1>9, <2>1 DEF CreatorOK
  <2> QED
    BY <1>2, <1>3, <2>1 DEF IdempotencyAnswersHold
<1> QED
  BY <1>5, <1>6, <1>7, <1>9, <1>10

\* The executor takes the task: its run begins.
LEMMA SubmitNext ==
    ASSUME IInv, NEW c \in Creators, SubmitTask(c)
    PROVE  IInv'
<1> USE DEF IInv
<1>1. CreatorOK(c) /\ RunOK(c) /\ pc[c] = "submit" /\ c \in Tasks
  BY DEF SubmitTask, Tasks
<1>2. /\ registry' = registry /\ status' = status /\ log' = log
      /\ outcome' = outcome /\ ticks' = ticks /\ requested' = requested
      /\ signalled' = signalled /\ earlier' = earlier
      /\ UNCHANGED cancellerVars
  BY DEF SubmitTask, registryVars
<1>3. /\ run'[c] = "begin" /\ pc'[c] = "done" /\ answer'[c] = "created"
      /\ result'[c] = c
      /\ \A d \in Creators : d # c => /\ answer'[d] = answer[d]
                                      /\ result'[d] = result[d]
                                      /\ pc'[d] = pc[d]
                                      /\ run'[d] = run[d]
  BY DEF SubmitTask, Answer, TypeOK, Tasks
<1>4. TypeOK'
  BY <1>2 DEF TypeOK, SubmitTask, Answer, Answers, Runs, Tasks, cancellerVars
<1>5. Stored' = Stored /\ \A t \in Tasks : Announced(t)' = Announced(t)
  BY <1>2 DEF Stored, Announced
<1>6. ASSUME NEW t \in Tasks
      PROVE  RunOK(t)'
  <2>1. RunOK(t) /\ t \in Creators
    BY DEF Tasks
  <2>2. CASE t = c
    BY <1>1, <1>2, <1>3, <1>5, <2>2 DEF RunOK, CreatorOK
  <2>3. CASE t # c
    BY <1>2, <1>3, <1>5, <2>1, <2>3 DEF RunOK
  <2> QED
    BY <2>2, <2>3
<1>7. SignalOK' /\ TerminalEventAgrees' /\ CancellationHonest'
  BY <1>2, <1>5 DEF SignalOK, TerminalEventAgrees, CancellationHonest,
              LastEvent, cancellerVars
<1>8. \A d \in Creators : Named(d) => Named(d)'
  BY <1>3 DEF Named
<1>9. ASSUME NEW d \in Creators
      PROVE  CreatorOK(d)'
  <2>1. CreatorOK(d) /\ earlier[d] \subseteq Creators
    BY DEF TypeOK
  <2>2. CASE d = c
    BY <1>1, <1>2, <1>3, <1>5, <1>8, <2>1, <2>2 DEF CreatorOK, SameKey
  <2>3. CASE d # c
    BY <1>2, <1>3, <1>5, <1>8, <2>1, <2>3 DEF CreatorOK, Named
  <2> QED
    BY <2>2, <2>3
<1>10. IdempotencyAnswersHold'
  BY <1>2, <1>3, <1>5 DEF IdempotencyAnswersHold
<1> QED
  BY <1>4, <1>6, <1>7, <1>9, <1>10

\* The executor raises, and the task that never ran becomes FAILED.
LEMMA SubmissionFailsNext ==
    ASSUME IInv, NEW c \in Creators,
           SubmitTaskFails(c) \/ MarkSubmissionFailed(c)
    PROVE  IInv'
<1> USE DEF IInv
<1>1. CreatorOK(c) /\ RunOK(c) /\ pc[c] \in {"submit", "fail"} /\ c \in Tasks
  BY DEF SubmitTaskFails, MarkSubmissionFailed, Tasks
<1>2. /\ registry' = registry /\ log' = log /\ run' = run
      /\ outcome' = outcome /\ ticks' = ticks /\ requested' = requested
      /\ signalled' = signalled /\ earlier' = earlier
      /\ UNCHANGED cancellerVars
  BY DEF SubmitTaskFails, MarkSubmissionFailed, registryVars, executorVars
<1>3. /\ \/ /\ pc'[c] = "fail" /\ answer'[c] = answer[c]
            /\ status' = status
         \/ /\ pc'[c] = "done" /\ answer'[c] = "submission_failed"
            /\ status'[c] = "FAILED"
      /\ \A d \in Creators : d # c => /\ answer'[d] = answer[d]
                                      /\ result'[d] = result[d]
                                      /\ pc'[d] = pc[d]
                                      /\ status'[d] = status[d]
  BY DEF SubmitTaskFails, MarkSubmissionFailed, Answer, TypeOK, Tasks,
         registryVars
<1>4. faults' \in 0..MaxFaults
  BY ConstantsAssumption
     DEF SubmitTaskFails, MarkSubmissionFailed, Raises, TypeOK,
         ConstantsAssumption
<1>5. TypeOK'
  <2>1. CASE SubmitTaskFails(c)
    <3>1. pc' = [pc EXCEPT ![c] = "fail"] /\ answer' = answer
          /\ result' = result /\ status' = status
      BY <2>1 DEF SubmitTaskFails, registryVars
    <3> QED
      BY <1>2, <1>4, <3>1 DEF TypeOK, cancellerVars
  <2>2. CASE MarkSubmissionFailed(c)
    <3>1. /\ pc' = [pc EXCEPT ![c] = "done"]
          /\ answer' = [answer EXCEPT ![c] = "submission_failed"]
          /\ result' = [result EXCEPT ![c] = c]
          /\ status' = [status EXCEPT ![c] = "FAILED"]
      BY <2>2 DEF MarkSubmissionFailed, Answer
    <3>2. /\ pc' \in [Creators -> {"idle", "lookup", "create", "submit",
                                    "fail", "done"}]
          /\ answer' \in [Creators -> Answers]
          /\ result' \in [Creators -> Tasks]
          /\ status' \in [Tasks -> Statuses]
      BY <3>1 DEF TypeOK, Answers, Tasks, Statuses, Terminals
    <3> QED
      BY <1>2, <1>4, <3>2 DEF TypeOK, cancellerVars
  <2> QED
    BY <2>1, <2>2
<1>6. Stored' = Stored /\ \A t \in Tasks : Announced(t)' = Announced(t)
  BY <1>2 DEF Stored, Announced
<1>7. run[c] = "none" /\ status[c] = "ACCEPTED" /\ answer[c] = "none"
      /\ ~Announced(c)
  BY <1>1 DEF CreatorOK, RunOK
<1>8. ASSUME NEW t \in Tasks
      PROVE  RunOK(t)'
  <2>1. RunOK(t) /\ t \in Creators
    BY DEF Tasks
  <2>2. CASE t = c
    BY <1>1, <1>2, <1>6, <1>7, <2>2 DEF RunOK
  <2>3. CASE t # c
    BY <1>2, <1>3, <1>6, <2>1, <2>3 DEF RunOK
  <2> QED
    BY <2>2, <2>3
<1>9. SignalOK'
  BY <1>2 DEF SignalOK, cancellerVars
<1>10. TerminalEventAgrees'
  BY <1>2, <1>3, <1>6, <1>7 DEF TerminalEventAgrees, LastEvent, Tasks
<1>11. CancellationHonest'
  BY <1>2, <1>3, <1>7
     DEF CancellationHonest, cancellerVars, Terminals, Tasks, TypeOK
<1>12. \A d \in Creators : Named(d) => Named(d)' /\ d # c
  BY <1>3, <1>7 DEF Named
<1>13. ASSUME NEW d \in Creators
      PROVE  CreatorOK(d)'
  <2>1. CreatorOK(d) /\ earlier[d] \subseteq Creators
    BY DEF TypeOK
  <2>2. CASE d = c
    BY <1>1, <1>2, <1>3, <1>6, <1>7, <1>12, <2>1, <2>2 DEF CreatorOK, Named
  <2>3. CASE d # c
    BY <1>2, <1>3, <1>6, <1>12, <2>1, <2>3 DEF CreatorOK, Named
  <2> QED
    BY <2>2, <2>3
<1>14. IdempotencyAnswersHold'
  BY <1>2, <1>3, <1>6, <1>7 DEF IdempotencyAnswersHold
<1> QED
  BY <1>5, <1>8, <1>9, <1>10, <1>11, <1>13, <1>14

-----------------------------------------------------------------------------
(* The cancellation requests.                                              *)

\* A step that writes neither a task nor its run nor its log.
LEMMA TasksUntouched ==
    ASSUME IInv, UNCHANGED <<registry, status, creatorVars, run, ticks,
                             outcome, log>>,
           requested \subseteq requested'
    PROVE  /\ \A t \in Tasks : RunOK(t)'
           /\ \A c \in Creators : CreatorOK(c)'
           /\ TerminalEventAgrees' /\ IdempotencyAnswersHold'
<1> USE DEF IInv
<1>1. (\A c \in Creators : CreatorOK(c)') /\ IdempotencyAnswersHold'
  BY CreatorsUntouched
<1>2. ASSUME NEW t \in Tasks
      PROVE  RunOK(t)'
  <2>1. RunOK(t) /\ Announced(t)' = Announced(t)
    BY DEF Announced
  <2> QED
    BY <2>1 DEF RunOK
<1>3. TerminalEventAgrees'
  BY DEF TerminalEventAgrees, LastEvent, Announced
<1> QED
  BY <1>1, <1>2, <1>3

\* The caller reads the task, and is told at once of one that has ended.
LEMMA GetTaskNext ==
    ASSUME IInv, NEW k \in Cancellers, GetTask(k)
    PROVE  IInv'
<1> USE DEF IInv, registryVars, creatorVars, executorVars
<1>1. /\ \A t \in Tasks : RunOK(t)'
      /\ \A c \in Creators : CreatorOK(c)'
      /\ TerminalEventAgrees' /\ IdempotencyAnswersHold'
  BY TasksUntouched DEF GetTask
<1>2. /\ \/ /\ status[target[k]] \in Terminals
            /\ step' = [step EXCEPT ![k] = "done"]
            /\ reply' = [reply EXCEPT ![k] = "ALREADY_TERMINAL"]
         \/ step' = [step EXCEPT ![k] = "request"] /\ reply' = reply
      /\ UNCHANGED <<status, requested, signalled, target, faults>>
  BY DEF GetTask, Reply
<1>3. TypeOK'
  BY <1>2 DEF TypeOK, GetTask
<1>4. SignalOK'
  BY <1>2 DEF SignalOK, TypeOK
<1>5. CancellationHonest'
  BY <1>2 DEF CancellationHonest, TypeOK
<1> QED
  BY <1>1, <1>3, <1>4, <1>5

\* The registry is told before the executor is.
LEMMA RequestCancellationNext ==
    ASSUME IInv, NEW k \in Cancellers, RequestCancellation(k)
    PROVE  IInv'
<1> USE DEF IInv, creatorVars, executorVars
<1>1. /\ \A t \in Tasks : RunOK(t)'
      /\ \A c \in Creators : CreatorOK(c)'
      /\ TerminalEventAgrees' /\ IdempotencyAnswersHold'
  BY TasksUntouched DEF RequestCancellation
<1>2. TypeOK'
  BY DEF TypeOK, RequestCancellation
<1>3. SignalOK'
  BY DEF SignalOK, RequestCancellation, TypeOK
<1>4. CancellationHonest'
  BY DEF CancellationHonest, RequestCancellation
<1> QED
  BY <1>1, <1>2, <1>3, <1>4

\* The executor is told of a cancellation the registry knows of.
LEMMA SignalExecutorNext ==
    ASSUME IInv, NEW k \in Cancellers, SignalExecutor(k)
    PROVE  IInv'
<1> USE DEF IInv, registryVars, creatorVars
<1>1. /\ \A t \in Tasks : RunOK(t)'
      /\ \A c \in Creators : CreatorOK(c)'
      /\ TerminalEventAgrees' /\ IdempotencyAnswersHold'
  BY TasksUntouched DEF SignalExecutor
<1>2. TypeOK'
  BY DEF TypeOK, SignalExecutor, Reply
<1>3. SignalOK'
  BY DEF SignalOK, SignalExecutor, Reply, TypeOK
<1>4. CancellationHonest'
  BY DEF CancellationHonest, SignalExecutor, Reply, TypeOK
<1> QED
  BY <1>1, <1>2, <1>3, <1>4

\* A cancellation that is lost on the way claims nothing.
LEMMA AbortCancellationNext ==
    ASSUME IInv, NEW k \in Cancellers, AbortCancellation(k)
    PROVE  IInv'
<1> USE DEF IInv, registryVars, creatorVars, executorVars
<1>1. /\ \A t \in Tasks : RunOK(t)'
      /\ \A c \in Creators : CreatorOK(c)'
      /\ TerminalEventAgrees' /\ IdempotencyAnswersHold'
  BY TasksUntouched DEF AbortCancellation
<1>2. faults' \in 0..MaxFaults
  BY ConstantsAssumption
     DEF AbortCancellation, Raises, TypeOK, ConstantsAssumption
<1>3. TypeOK'
  BY <1>2 DEF TypeOK, AbortCancellation, Reply
<1>4. SignalOK'
  BY DEF SignalOK, AbortCancellation, Reply, TypeOK
<1>5. CancellationHonest'
  BY DEF CancellationHonest, AbortCancellation, Reply, TypeOK
<1> QED
  BY <1>1, <1>3, <1>4, <1>5
-----------------------------------------------------------------------------
(* The runs of the executor.                                               *)

\* A step of the run of t, which leaves every other task and every request
\* alone, has only to answer for what the invariant says of t.
LEMMA RunStepNext ==
    ASSUME IInv, TypeOK', NEW t \in Tasks,
           run[t] # "none",
           UNCHANGED <<registry, requested, creatorVars, cancellerVars,
                       signalled>>,
           \A u \in Tasks \ {t} :
               /\ run'[u] = run[u] /\ status'[u] = status[u]
               /\ ticks'[u] = ticks[u] /\ outcome'[u] = outcome[u]
               /\ log'[u] = log[u],
           RunOK(t)',
           \/ status'[t] = status[t]
           \/ /\ status[t] \notin Terminals /\ ~Announced(t)'
              /\ status'[t] = "CANCELLED" => t \in requested,
           \/ log'[t] = log[t]
           \/ ~Announced(t)'
           \/ /\ LastEvent(t)' = status'[t]
              /\ \A i \in 1 .. Len(log'[t]) - 1 :
                   log'[t][i] \notin Terminals
    PROVE  IInv'
<1> USE DEF IInv
<1>1. (\A c \in Creators : CreatorOK(c)') /\ IdempotencyAnswersHold'
  <2>1. \A u \in Tasks \ {t} : run'[u] = run[u] /\ status'[u] = status[u]
    OBVIOUS
  <2> QED
    BY <2>1, RunningIsAnswered
<1>2. ASSUME NEW u \in Tasks
      PROVE  RunOK(u)'
  <2>1. CASE u # t
    <3>1. RunOK(u) /\ Announced(u)' = Announced(u)
      BY <2>1 DEF Announced
    <3> QED
      BY <2>1, <3>1 DEF RunOK
  <2> QED
    BY <2>1
<1>3. SignalOK'
  BY DEF SignalOK, cancellerVars
<1>4. ASSUME NEW u \in Tasks, Announced(u)'
      PROVE  /\ LastEvent(u)' = status'[u]
             /\ \A i \in 1 .. Len(log'[u]) - 1 : log'[u][i] \notin Terminals
  <2>1. CASE u # t
    <3>1. Announced(u) /\ log'[u] = log[u] /\ status'[u] = status[u]
      BY <1>4, <2>1 DEF Announced
    <3> QED
      BY <3>1 DEF TerminalEventAgrees, LastEvent
  <2>2. CASE u = t /\ log'[t] = log[t]
    <3>1. Announced(t) /\ status'[t] = status[t]
      BY <1>4, <2>2 DEF Announced
    <3> QED
      BY <2>2, <3>1 DEF TerminalEventAgrees, LastEvent
  <2>3. CASE u = t /\ log'[t] # log[t]
    BY <1>4, <2>3
  <2> QED
    BY <2>1, <2>2, <2>3
<1>5. TerminalEventAgrees'
  BY <1>4 DEF TerminalEventAgrees
<1>6. CancellationHonest'
  <2>1. ASSUME NEW u \in Tasks, status'[u] = "CANCELLED"
        PROVE  u \in requested'
    BY <2>1 DEF CancellationHonest
  <2>2. ASSUME NEW k \in Cancellers, reply'[k] = "ALREADY_TERMINAL"
        PROVE  status'[target'[k]] \in Terminals
    <3>1. reply[k] = "ALREADY_TERMINAL" /\ target'[k] = target[k]
          /\ target[k] \in Tasks
      BY <2>2 DEF cancellerVars, TypeOK
    <3>2. status[target[k]] \in Terminals
      BY <3>1 DEF CancellationHonest
    <3> QED
      BY <3>1, <3>2
  <2> QED
    BY <2>1, <2>2 DEF CancellationHonest
<1> QED
  BY <1>1, <1>2, <1>3, <1>5, <1>6

\* The run sets its task RUNNING.
LEMMA BeginRunNext ==
    ASSUME IInv, NEW t \in Tasks, BeginRun(t)
    PROVE  IInv'
<1> USE DEF IInv
<1>1. RunOK(t) /\ status[t] = "ACCEPTED" /\ ~Announced(t)
  BY DEF BeginRun, RunOK
<1>2. TypeOK'
  BY DEF TypeOK, BeginRun, Proceed, Runs, Statuses, creatorVars,
         cancellerVars
<1>3. /\ run'[t] = "started" /\ status'[t] = "RUNNING"
      /\ \A u \in Tasks \ {t} : run'[u] = run[u] /\ status'[u] = status[u]
      /\ UNCHANGED <<ticks, outcome, log, requested>>
  BY DEF BeginRun, Proceed, TypeOK
<1>4. ~Announced(t)'
  BY <1>1, <1>3 DEF Announced
<1>5. RunOK(t)'
  BY <1>1, <1>3, <1>4 DEF RunOK
<1> QED
  BY <1>1, <1>2, <1>3, <1>4, <1>5, RunStepNext DEF BeginRun, Terminals

\* STARTED and PROGRESS end nothing.
LEMMA EmitStartedNext ==
    ASSUME IInv, NEW t \in Tasks, EmitStarted(t)
    PROVE  IInv'
<1> USE DEF IInv
<1>1. RunOK(t) /\ status[t] = "RUNNING" /\ ~Announced(t)
  BY DEF EmitStarted, RunOK
<1>2. /\ log' \in [Tasks -> Seq(Events)]
      /\ \A u \in Tasks \ {t} : log'[u] = log[u]
      /\ ~Announced(t)'
  BY <1>1, EmitAppends DEF EmitStarted, Events, Terminals
<1>3. TypeOK'
  BY <1>2 DEF TypeOK, EmitStarted, Proceed, Runs, registryVars, creatorVars,
              cancellerVars
<1>4. /\ run'[t] = "check"
      /\ \A u \in Tasks \ {t} : run'[u] = run[u]
      /\ UNCHANGED <<status, ticks, outcome, requested>>
  BY DEF EmitStarted, Proceed, TypeOK, registryVars
<1>5. RunOK(t)'
  BY <1>1, <1>2, <1>4 DEF RunOK
<1> QED
  BY <1>1, <1>2, <1>3, <1>4, <1>5, RunStepNext DEF EmitStarted, registryVars

\* The run goes on, or concludes; CANCELLED only when it was signalled.
LEMMA CheckCancelledNext ==
    ASSUME IInv, NEW t \in Tasks, CheckCancelled(t)
    PROVE  IInv'
<1> USE DEF IInv
<1>1. RunOK(t) /\ status[t] = "RUNNING" /\ ~Announced(t)
  BY DEF CheckCancelled, RunOK
<1>2. /\ \/ /\ run' = [run EXCEPT ![t] = "settle"]
            /\ outcome' = [outcome EXCEPT ![t] = "CANCELLED"]
            /\ t \in requested
         \/ /\ run' = [run EXCEPT ![t] = "settle"]
            /\ outcome' = [outcome EXCEPT ![t] = "COMPLETED"]
         \/ /\ run' = [run EXCEPT ![t] = "tick"]
            /\ outcome' = outcome
            /\ ticks[t] < ProgressTicks
      /\ UNCHANGED <<registryVars, creatorVars, cancellerVars, signalled,
                     ticks, log, faults>>
  BY DEF CheckCancelled, Conclude, Proceed, SignalOK
<1>3. TypeOK'
  <2>1. run' \in [Tasks -> Runs]
    BY <1>2 DEF TypeOK, Runs
  <2>2. outcome' \in [Tasks -> Terminals \cup {"none"}]
    BY <1>2 DEF TypeOK, Terminals
  <2> QED
    BY <1>2, <2>1, <2>2
       DEF TypeOK, registryVars, creatorVars, cancellerVars
<1>4. Announced(t)' = Announced(t)
  BY <1>2 DEF Announced
<1>5. RunOK(t)'
  BY <1>1, <1>2, <1>4 DEF RunOK, Terminals, TypeOK, registryVars
<1>6. \A u \in Tasks \ {t} : run'[u] = run[u] /\ outcome'[u] = outcome[u]
  BY <1>2 DEF TypeOK
<1>7. run[t] # "none"
  BY DEF CheckCancelled
<1> QED
  BY <1>2, <1>3, <1>5, <1>6, <1>7, RunStepNext DEF registryVars
\* The run counts a tick, and concludes FAILED where the profile says so.
LEMMA EmitProgressNext ==
    ASSUME IInv, NEW t \in Tasks, EmitProgress(t)
    PROVE  IInv'
<1> USE DEF IInv
<1>1. RunOK(t) /\ status[t] = "RUNNING" /\ ~Announced(t)
      /\ ticks[t] < ProgressTicks
  BY DEF EmitProgress, RunOK
<1>2. /\ log' \in [Tasks -> Seq(Events)]
      /\ \A u \in Tasks \ {t} : log'[u] = log[u]
      /\ ~Announced(t)'
  BY <1>1, EmitAppends DEF EmitProgress, Events, Terminals
<1>3. /\ \/ /\ run' = [run EXCEPT ![t] = "settle"]
            /\ outcome' = [outcome EXCEPT ![t] = "FAILED"]
         \/ /\ run' = [run EXCEPT ![t] = "check"]
            /\ outcome' = outcome
      /\ ticks' = [ticks EXCEPT ![t] = @ + 1]
      /\ UNCHANGED <<registryVars, creatorVars, cancellerVars, signalled,
                     faults>>
  BY DEF EmitProgress, Conclude, Proceed
<1>4. TypeOK'
  <2>1. run' \in [Tasks -> Runs]
    BY <1>3 DEF TypeOK, Runs
  <2>2. outcome' \in [Tasks -> Terminals \cup {"none"}]
    BY <1>3 DEF TypeOK, Terminals
  <2>3. ticks' \in [Tasks -> 0..ProgressTicks]
    BY <1>1, <1>3, ConstantsAssumption DEF TypeOK, ConstantsAssumption
  <2> QED
    BY <1>2, <1>3, <2>1, <2>2, <2>3
       DEF TypeOK, registryVars, creatorVars, cancellerVars
<1>5. RunOK(t)'
  BY <1>1, <1>2, <1>3 DEF RunOK, Terminals, TypeOK, registryVars
<1>6. \A u \in Tasks \ {t} : /\ run'[u] = run[u] /\ ticks'[u] = ticks[u]
                            /\ outcome'[u] = outcome[u]
  BY <1>3 DEF TypeOK
<1>7. run[t] # "none"
  BY DEF EmitProgress
<1> QED
  BY <1>2, <1>3, <1>4, <1>5, <1>6, <1>7, RunStepNext DEF registryVars

\* The registry is told how the run concluded before anybody else is.
LEMMA SettleStatusNext ==
    ASSUME IInv, NEW t \in Tasks, SettleStatus(t)
    PROVE  IInv'
<1> USE DEF IInv
<1>1. /\ RunOK(t) /\ status[t] = "RUNNING" /\ ~Announced(t)
      /\ outcome[t] \in Terminals
      /\ outcome[t] = "CANCELLED" => t \in requested
  BY DEF SettleStatus, RunOK
<1>2. TypeOK'
  <2>1. status' \in [Tasks -> Statuses] /\ run' \in [Tasks -> Runs]
    BY <1>1 DEF TypeOK, SettleStatus, Proceed, Runs, Statuses
  <2> QED
    BY <2>1 DEF TypeOK, SettleStatus, creatorVars, cancellerVars
<1>3. /\ run'[t] = "announce" /\ status'[t] = outcome[t]
      /\ \A u \in Tasks \ {t} : run'[u] = run[u] /\ status'[u] = status[u]
      /\ UNCHANGED <<ticks, outcome, log, requested>>
  BY DEF SettleStatus, Proceed, TypeOK
<1>4. ~Announced(t)'
  BY <1>1, <1>3 DEF Announced
<1>5. RunOK(t)'
  BY <1>1, <1>3, <1>4 DEF RunOK
<1> QED
  BY <1>1, <1>2, <1>3, <1>4, <1>5, RunStepNext DEF SettleStatus, Terminals

\* The terminal event says what the registry says, and ends the log.
LEMMA EmitTerminalNext ==
    ASSUME IInv, NEW t \in Tasks, EmitTerminal(t)
    PROVE  IInv'
<1> USE DEF IInv
<1>1. /\ RunOK(t) /\ status[t] = outcome[t] /\ ~Announced(t)
      /\ outcome[t] \in Terminals
  BY DEF EmitTerminal, RunOK
<1>2. /\ log' \in [Tasks -> Seq(Events)]
      /\ \A u \in Tasks \ {t} : log'[u] = log[u]
      /\ LastEvent(t)' = outcome[t]
      /\ \A i \in 1 .. Len(log'[t]) - 1 : log'[t][i] \notin Terminals
  BY <1>1, EmitAppends DEF EmitTerminal, Events
<1>3. TypeOK'
  BY <1>2 DEF TypeOK, EmitTerminal, Proceed, Runs, registryVars, creatorVars,
              cancellerVars
<1>4. /\ run'[t] = "ended"
      /\ \A u \in Tasks \ {t} : run'[u] = run[u]
      /\ UNCHANGED <<status, ticks, outcome, requested>>
  BY DEF EmitTerminal, Proceed, TypeOK, registryVars
<1>5. RunOK(t)'
  BY <1>1, <1>4 DEF RunOK
<1> QED
  BY <1>1, <1>2, <1>3, <1>4, <1>5, RunStepNext DEF EmitTerminal, registryVars

\* A run that dies leaves what it wrote.
LEMMA RunDiesNext ==
    ASSUME IInv, NEW t \in Tasks, RunDies(t)
    PROVE  IInv'
<1> USE DEF IInv
<1>1. RunOK(t) /\ run[t] # "none"
  BY DEF RunDies
<1>2. faults' \in 0..MaxFaults
  BY ConstantsAssumption DEF RunDies, Raises, TypeOK, ConstantsAssumption
<1>3. TypeOK'
  BY <1>2 DEF TypeOK, RunDies, Proceed, Runs, registryVars, creatorVars,
              cancellerVars
<1>4. /\ run'[t] = "dead"
      /\ \A u \in Tasks \ {t} : run'[u] = run[u]
      /\ UNCHANGED <<status, ticks, outcome, log, requested>>
  BY DEF RunDies, Proceed, TypeOK, registryVars
<1>5. RunOK(t)'
  BY <1>1, <1>4 DEF RunOK
<1> QED
  BY <1>1, <1>3, <1>4, <1>5, RunStepNext DEF RunDies, registryVars

-----------------------------------------------------------------------------
(* The theorems.                                                           *)

\* Every step of the server preserves the invariant.
LEMMA NextInv == IInv /\ [Next]_vars => IInv'
<1> SUFFICES ASSUME IInv, [Next]_vars
             PROVE  IInv'
  OBVIOUS
<1>1. ASSUME NEW c \in Creators, CreatorStep(c)
      PROVE  IInv'
  <2>1. CASE SubmitTaskFails(c) \/ MarkSubmissionFailed(c)
    BY <2>1, SubmissionFailsNext
  <2> QED
    BY <1>1, <2>1, AssertNext, LookupNext, CreateNext, SubmitNext
       DEF CreatorStep
<1>2. ASSUME NEW c \in Creators,
             DenyTaskCreate(c) \/ SubmitTaskFails(c) \/ AbortCreation(c)
      PROVE  IInv'
  BY <1>2, SubmissionFailsNext, GiveUpNext
<1>3. ASSUME NEW k \in Cancellers, CancellerStep(k) \/ AbortCancellation(k)
      PROVE  IInv'
  BY <1>3, GetTaskNext, RequestCancellationNext, SignalExecutorNext,
     AbortCancellationNext
     DEF CancellerStep
<1>4. ASSUME NEW t \in Tasks, RunStep(t) \/ RunDies(t)
      PROVE  IInv'
  BY <1>4, BeginRunNext, EmitStartedNext, CheckCancelledNext,
     EmitProgressNext, SettleStatusNext, EmitTerminalNext, RunDiesNext
     DEF RunStep
<1>5. CASE UNCHANGED vars
  <2>1. UNCHANGED <<registryVars, cancellerVars, executorVars>>
        /\ UNCHANGED <<registry, creatorVars>> /\ UNCHANGED faults
        /\ run' = run /\ status' = status
    BY <1>5 DEF vars, registryVars, executorVars
  <2>2. /\ \A t \in Tasks : RunOK(t)'
        /\ SignalOK' /\ TerminalEventAgrees' /\ CancellationHonest'
    BY <2>1, RunsUntouched
  <2>3. (\A c \in Creators : CreatorOK(c)') /\ IdempotencyAnswersHold'
    BY <2>1, CreatorsUntouched
  <2>4. TypeOK'
    BY <2>1 DEF IInv, TypeOK, registryVars, creatorVars, cancellerVars,
                executorVars
  <2> QED
    BY <2>2, <2>3, <2>4 DEF IInv
<1> QED
  BY <1>1, <1>2, <1>3, <1>4, <1>5 DEF Next

\* The inductive invariant holds of every state of the server.
THEOREM LifecycleInvariant == Spec => []IInv
<1>1. Init => IInv
  BY InitInv
<1>2. IInv /\ [Next]_vars => IInv'
  BY NextInv
<1> QED
  BY <1>1, <1>2, PTL DEF Spec

\* Every variable keeps its type.
THEOREM LifecycleTypeCorrect == Spec => []TypeOK
<1>1. IInv => TypeOK
  BY DEF IInv
<1> QED
  BY <1>1, LifecycleInvariant, PTL

\* The terminal event of a task is its last one and says what the registry
\* says (_run), whatever requests, cancellations and faults surround it.
THEOREM TerminalEventCorrect == Spec => []TerminalEventAgrees
<1>1. IInv => TerminalEventAgrees
  BY DEF IInv
<1> QED
  BY <1>1, LifecycleInvariant, PTL

\* A task is CANCELLED only on request, and only ended tasks are reported
\* ALREADY_TERMINAL (cancel_task, _run).
THEOREM CancellationCorrect == Spec => []CancellationHonest
<1>1. IInv => CancellationHonest
  BY DEF IInv
<1> QED
  BY <1>1, LifecycleInvariant, PTL

\* What create_task answers about an idempotency key holds of the registry.
THEOREM IdempotencyCorrect == Spec => []IdempotencyAnswersHold
<1>1. IInv => IdempotencyAnswersHold
  BY DEF IInv
<1> QED
  BY <1>1, LifecycleInvariant, PTL

\* No step takes a task out of a terminal status: those that write a status
\* find it ACCEPTED or RUNNING.
THEOREM TerminalStatusFinal == Spec => TerminalIsFinal
<1>1. IInv /\ [Next]_vars
        => [\A t \in Tasks : status[t] \in Terminals
                            => status'[t] = status[t]]_vars
  <2> SUFFICES ASSUME IInv, [Next]_vars, NEW t \in Tasks,
                      status[t] \in Terminals
               PROVE  status'[t] = status[t]
    OBVIOUS
  <2> USE DEF IInv
  <2>1. CASE \E c \in Creators : CreateTask(c) \/ MarkSubmissionFailed(c)
    <3>1. PICK c \in Creators : CreateTask(c) \/ MarkSubmissionFailed(c)
      BY <2>1
    <3>2. CreatorOK(c) /\ pc[c] # "done"
      BY <3>1 DEF CreateTask, MarkSubmissionFailed
    <3>3. c # t
      BY <3>2 DEF CreatorOK, Terminals
    <3> QED
      BY <3>1, <3>3 DEF CreateTask, MarkSubmissionFailed, TypeOK
  <2>2. CASE \E u \in Tasks : BeginRun(u) \/ SettleStatus(u)
    <3>1. PICK u \in Tasks : BeginRun(u) \/ SettleStatus(u)
      BY <2>2
    <3>2. RunOK(u) /\ run[u] \in {"begin", "settle"}
      BY <3>1 DEF BeginRun, SettleStatus
    <3>3. u # t
      BY <3>2 DEF RunOK, Terminals
    <3> QED
      BY <3>1, <3>3 DEF BeginRun, SettleStatus, TypeOK
  <2>3. \/ \E c \in Creators : CreateTask(c) \/ MarkSubmissionFailed(c)
        \/ \E u \in Tasks : BeginRun(u) \/ SettleStatus(u)
        \/ status' = status
    <3>1. ASSUME NEW c \in Creators,
                 AssertTaskCreate(c) \/ LookupTask(c) \/ SubmitTask(c)
                   \/ DenyTaskCreate(c) \/ SubmitTaskFails(c)
                   \/ AbortCreation(c)
          PROVE  status' = status
      BY <3>1 DEF AssertTaskCreate, LookupTask, SubmitTask, DenyTaskCreate,
                  SubmitTaskFails, AbortCreation, registryVars
    <3>2. ASSUME NEW k \in Cancellers, CancellerStep(k) \/ AbortCancellation(k)
          PROVE  status' = status
      BY <3>2 DEF CancellerStep, GetTask, RequestCancellation, SignalExecutor,
                  AbortCancellation, registryVars
    <3>3. ASSUME NEW u \in Tasks,
                 EmitStarted(u) \/ CheckCancelled(u) \/ EmitProgress(u)
                   \/ EmitTerminal(u) \/ RunDies(u)
          PROVE  status' = status
      BY <3>3 DEF EmitStarted, CheckCancelled, EmitProgress, EmitTerminal,
                  RunDies, registryVars
    <3>4. UNCHANGED vars => status' = status
      BY DEF vars, registryVars
    <3> QED
      BY <3>1, <3>2, <3>3, <3>4 DEF Next, CreatorStep, RunStep
  <2> QED
    BY <2>1, <2>2, <2>3
<1> QED
  BY <1>1, LifecycleInvariant, PTL DEF Spec, TerminalIsFinal

=============================================================================
