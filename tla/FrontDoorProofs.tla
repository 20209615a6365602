-------------------------- MODULE FrontDoorProofs ---------------------------
(***************************************************************************)
(* Proofs about FrontDoor for any users, keys, inputs, attachments, wirings *)
(* and any number of tasks.                                                *)
(***************************************************************************)
EXTENDS FrontDoor, NaturalLoops, TLAPS

Requests == Forms \cup Bodies \cup Others

\* The records a registry may hold.
Records ==
    [owner : Subjects \cup {NoSubject},
     key : {request.key : request \in Requests},
     input : {Command(request).input : request \in Requests},
     files : {Attachments(request.files) : request \in Requests},
     failed : BOOLEAN, requested : BOOLEAN]

IInv ==
    /\ tasks \in Seq(Records)
    /\ KeyIsSpent
    /\ ForeignLikeUnknown

\* A stored record has the owner and the key it was made with.
LEMMA RecordFields ==
    ASSUME NEW subject, NEW request, NEW submitted
    PROVE  /\ TaskRecord(subject, request, submitted).owner = subject
           /\ TaskRecord(subject, request, submitted).key = request.key
  BY DEF TaskRecord, Command

\* What a request that adds no task may do to the registry: record that a
\* cancellation was requested.
Kept ==
    /\ mode' = mode
    /\ tasks' \in Seq(Records)
    /\ DOMAIN tasks' = DOMAIN tasks
    /\ Len(tasks') = Len(tasks)
    /\ \A i \in DOMAIN tasks :
         /\ tasks'[i].owner = tasks[i].owner
         /\ tasks'[i].key = tasks[i].key
         /\ tasks'[i].input = tasks[i].input
         /\ tasks'[i].files = tasks[i].files
         /\ tasks'[i].failed = tasks[i].failed
         /\ tasks'[i].requested \in {tasks[i].requested, TRUE}

\* A registry that is not touched is kept.
LEMMA UntouchedIsKept ==
    ASSUME IInv, UNCHANGED <<mode, tasks>>
    PROVE  Kept
  BY DEF IInv, Kept

\* A registry that records a cancellation is kept.
LEMMA RequestIsKept ==
    ASSUME IInv, NEW id \in DOMAIN tasks, mode' = mode,
           tasks' = WithRequest(id)
    PROVE  Kept
<1>1. tasks \in Seq(Records) /\ tasks[id] \in Records
  BY DEF IInv
<1> DEFINE new == [tasks[id] EXCEPT !.requested = TRUE]
<1>2. /\ new \in Records
      /\ new.owner = tasks[id].owner /\ new.key = tasks[id].key
      /\ new.input = tasks[id].input /\ new.files = tasks[id].files
      /\ new.failed = tasks[id].failed /\ new.requested = TRUE
  BY <1>1 DEF Records
<1>3. tasks' = [tasks EXCEPT ![id] = new]
  BY DEF WithRequest
<1> HIDE DEF new
<1>4. /\ tasks' \in Seq(Records) /\ Len(tasks') = Len(tasks)
      /\ DOMAIN tasks' = DOMAIN tasks
      /\ \A i \in DOMAIN tasks :
           tasks'[i] = IF i = id THEN new ELSE tasks[i]
  BY <1>1, <1>2, <1>3
<1> QED
  BY <1>2, <1>4 DEF Kept

\* The caller is somebody the wiring knows, or nobody.
LEMMA SubjectKnown ==
    ASSUME NEW token \in Tokens, NEW transport
    PROVE  SubjectOf(token, transport) \in Subjects \cup {NoSubject}
  BY DEF SubjectOf, Subjects, Tokens

\* A task that is made is a record of the registry.
LEMMA RecordMade ==
    ASSUME NEW token \in Tokens, NEW request \in Requests,
           NEW submitted \in BOOLEAN
    PROVE  TaskRecord(SubjectOf(token, "http"), request, submitted) \in Records
<1>1. SubjectOf(token, "http") \in Subjects \cup {NoSubject}
  BY SubjectKnown
<1>2. /\ Command(request).key = request.key
      /\ Command(request).files = Attachments(request.files)
  BY DEF Command
<1> QED
  BY <1>1, <1>2 DEF Records, TaskRecord

\* Before the first request nothing is stored and nobody was answered.
LEMMA InitInv == Init => IInv
<1> SUFFICES ASSUME Init
             PROVE  IInv
  OBVIOUS
<1>1. tasks = <<>> /\ tasks \in Seq(Records)
  BY DEF Init
<1>2. KeyIsSpent
  BY <1>1 DEF KeyIsSpent
<1>3. ForeignLikeUnknown
  BY DEF Init, NoExchange, ForeignLikeUnknown, TaskRoutes
<1> QED
  BY <1>1, <1>2, <1>3 DEF IInv

\* A creation stores one record more, under a key that its owner had not used.
LEMMA CreateTaskNext ==
    ASSUME IInv, NEW token \in Tokens, NEW request \in Requests,
           NEW submitted \in BOOLEAN, CreateTask(token, request, submitted)
    PROVE  IInv'
<1> DEFINE subject == SubjectOf(token, "http")
           new == TaskRecord(subject, request, submitted)
<1>1. new \in Records
  BY RecordMade
<1>2. tasks' = Append(tasks, new) /\ tasks \in Seq(Records)
  BY DEF CreateTask, IInv
<1>3. new.owner = subject /\ new.key = request.key
  BY RecordFields
<1>4. \A i \in DOMAIN tasks :
        ~(tasks[i].owner = subject /\ tasks[i].key = request.key)
  BY DEF CreateTask, Existing
<1> HIDE DEF new, subject
<1>5. /\ tasks' \in Seq(Records)
      /\ DOMAIN tasks = 1..Len(tasks) /\ DOMAIN tasks' = 1..Len(tasks) + 1
      /\ Len(tasks) \in Nat /\ Len(tasks') = Len(tasks) + 1
      /\ \A i \in DOMAIN tasks : tasks'[i] = tasks[i]
      /\ tasks'[Len(tasks) + 1] = new
  BY <1>1, <1>2
<1>6. KeyIsSpent'
  <2> SUFFICES ASSUME NEW i \in DOMAIN tasks', NEW j \in DOMAIN tasks',
                      tasks'[i].owner = tasks'[j].owner,
                      tasks'[i].key = tasks'[j].key
               PROVE  i = j
    BY DEF KeyIsSpent
  <2>1. (i \in DOMAIN tasks \/ i = Len(tasks) + 1)
        /\ (j \in DOMAIN tasks \/ j = Len(tasks) + 1)
    BY <1>5
  <2>2. CASE i \in DOMAIN tasks /\ j \in DOMAIN tasks
    BY <2>2, <1>5 DEF IInv, KeyIsSpent
  <2>3. CASE i \in DOMAIN tasks /\ j = Len(tasks) + 1
    BY <2>3, <1>3, <1>4, <1>5
  <2>4. CASE i = Len(tasks) + 1 /\ j \in DOMAIN tasks
    BY <2>4, <1>3, <1>4, <1>5
  <2> QED
    BY <2>1, <2>2, <2>3, <2>4
<1>7. ForeignLikeUnknown'
  <2>1. /\ exchange'.op = "create" /\ exchange'.token = token
        /\ exchange'.task = Len(tasks') /\ mode' = mode
    BY DEF CreateTask, Answer
  <2>2. SubjectOf(token, "http")' = subject
    BY <2>1 DEF subject, SubjectOf
  <2>3. tasks'[exchange'.task].owner = subject
    BY <1>3, <1>5, <2>1
  <2> QED
    BY <2>1, <2>2, <2>3 DEF ForeignLikeUnknown, TaskRoutes, Transport
<1> QED
  BY <1>5, <1>6, <1>7 DEF IInv

\* A request that adds no task has only to serve nobody but the owner.
LEMMA AnswerNext ==
    ASSUME IInv, Kept, ForeignLikeUnknown'
    PROVE  IInv'
<1>1. KeyIsSpent'
  <2> SUFFICES ASSUME NEW i \in DOMAIN tasks', NEW j \in DOMAIN tasks',
                      tasks'[i].owner = tasks'[j].owner,
                      tasks'[i].key = tasks'[j].key
               PROVE  i = j
    BY DEF KeyIsSpent
  <2>1. i \in DOMAIN tasks /\ j \in DOMAIN tasks
    BY DEF Kept
  <2>2. tasks[i].owner = tasks[j].owner /\ tasks[i].key = tasks[j].key
    BY <2>1 DEF Kept
  <2> QED
    BY <2>1, <2>2 DEF IInv, KeyIsSpent
<1> QED
  BY <1>1 DEF IInv, Kept

\* A creation is refused before anything is stored.
LEMMA RejectCreationNext ==
    ASSUME IInv, NEW token, NEW request, RejectCreation(token, request)
    PROVE  IInv'
<1>1. exchange'.op = "create" /\ ~exchange'.served
  BY DEF RejectCreation, Answer
<1>2. ForeignLikeUnknown'
  BY <1>1 DEF ForeignLikeUnknown, TaskRoutes
<1> QED
  BY <1>2, UntouchedIsKept, AnswerNext DEF RejectCreation

\* A repeated creation is answered with a task of its caller.
LEMMA DeduplicateNext ==
    ASSUME IInv, NEW token, NEW request, Deduplicate(token, request)
    PROVE  IInv'
<1>1. PICK id \in Existing(SubjectOf(token, "http"), request.key) :
        Answer("create", token, id, 200, TRUE)
  BY DEF Deduplicate
<1>2. /\ exchange'.op = "create" /\ exchange'.token = token
      /\ exchange'.task = id /\ mode' = mode /\ tasks' = tasks
  BY <1>1 DEF Answer, Deduplicate
<1>3. tasks'[id].owner = SubjectOf(token, "http")'
  BY <1>1, <1>2 DEF Existing, SubjectOf
<1>4. ForeignLikeUnknown'
  BY <1>2, <1>3 DEF ForeignLikeUnknown, TaskRoutes, Transport
<1> QED
  BY <1>2, <1>4, UntouchedIsKept, AnswerNext

\* A route that looks the task up serves its owner, and tells anybody else
\* what it tells of a task that does not exist.
LEMMA RouteNext ==
    ASSUME IInv, NEW op \in TaskRoutes, NEW token, NEW id, NEW code,
           NEW served \in BOOLEAN,
           Kept,
           Answer(op, token, id, code, served),
           served => Owns(SubjectOf(token, Transport(op)), id),
           served \/ code \in {401, 422, Denial(op)}
    PROVE  IInv'
<1>1. /\ exchange'.op = op /\ exchange'.token = token
      /\ exchange'.task = id /\ exchange'.served = served
      /\ exchange'.status = code
  BY DEF Answer
<1>2. served => tasks'[id].owner = SubjectOf(token, Transport(op))'
  BY DEF Owns, MayAccess, SubjectOf, Kept
<1>3. ForeignLikeUnknown'
  BY <1>1, <1>2 DEF ForeignLikeUnknown
<1> QED
  BY <1>3, AnswerNext

\* Whatever is asked of a task, the registry is kept.
LEMMA TaskRoutesKeep ==
    ASSUME IInv, NEW token, NEW id,
           \/ \E inRange \in BOOLEAN : PollEvents(token, id, inRange)
           \/ StreamEvents(token, id) \/ Subscribe(token, id)
           \/ CancelTask(token, id)
           \/ \E action \in Actions : SubmitAction(token, id, action)
    PROVE  Kept
<1>1. CASE UNCHANGED <<mode, tasks>>
  BY <1>1, UntouchedIsKept
<1>2. CASE mode' = mode /\ id \in DOMAIN tasks /\ tasks' = WithRequest(id)
  BY <1>2, RequestIsKept
<1>3. CASE CancelTask(token, id)
  BY <1>1, <1>2, <1>3 DEF CancelTask, Owns
<1> QED
  BY <1>1, <1>3 DEF PollEvents, StreamEvents, Subscribe, SubmitAction

\* Whatever is asked of a task, the answer keeps the invariant.
LEMMA TaskRoutesNext ==
    ASSUME IInv, NEW token \in Tokens, NEW id \in Ids,
           \/ \E inRange \in BOOLEAN : PollEvents(token, id, inRange)
           \/ StreamEvents(token, id) \/ Subscribe(token, id)
           \/ CancelTask(token, id)
           \/ \E action \in Actions : SubmitAction(token, id, action)
    PROVE  IInv'
<1> DEFINE subject == SubjectOf(token, "http")
<1> Kept
  BY TaskRoutesKeep
<1>1. ASSUME NEW inRange \in BOOLEAN, PollEvents(token, id, inRange)
      PROVE  IInv'
  <2> DEFINE served == subject # NoSubject /\ inRange /\ Owns(subject, id)
             code == IF subject = NoSubject
                       THEN StatusOf("AuthenticationError")
                     ELSE IF ~inRange THEN 422
                     ELSE IF ~served THEN StatusOf("TaskNotFoundError")
                     ELSE 200
  <2>1. Answer("poll", token, id, code, served)
    BY <1>1 DEF PollEvents
  <2>2. "poll" \in TaskRoutes /\ Transport("poll") = "http"
        /\ Denial("poll") = 404
    BY DEF TaskRoutes, Transport, Denial
  <2>3. served \/ code \in {401, 422, 404}
    BY DEF StatusOf
  <2>4. served \in BOOLEAN
    BY DEF Owns, MayAccess
  <2>5. served => Owns(SubjectOf(token, Transport("poll")), id)
    BY <2>2
  <2> HIDE DEF served, code
  <2> QED
    BY <2>1, <2>2, <2>3, <2>4, <2>5, RouteNext
<1>2. ASSUME StreamEvents(token, id)
      PROVE  IInv'
  <2>1. "stream" \in TaskRoutes /\ Transport("stream") = "http"
        /\ Denial("stream") = 200
    BY DEF TaskRoutes, Transport, Denial
  <2>2. PICK code \in {200, 401} :
          Answer("stream", token, id, code, Owns(subject, id))
    BY <1>2 DEF StreamEvents, StatusOf
  <2>3. Owns(subject, id) \in BOOLEAN
    BY DEF Owns, MayAccess
  <2> QED
    BY <2>1, <2>2, <2>3, RouteNext
<1>3. ASSUME Subscribe(token, id)
      PROVE  IInv'
  <2> DEFINE peer == SubjectOf(token, "ws")
             code == IF Owns(peer, id) THEN 200 ELSE 1008
  <2>1. "subscribe" \in TaskRoutes /\ Transport("subscribe") = "ws"
        /\ Denial("subscribe") = 1008
    BY DEF TaskRoutes, Transport, Denial
  <2>2. Answer("subscribe", token, id, code, Owns(peer, id))
    BY <1>3 DEF Subscribe
  <2>3. Owns(peer, id) \in BOOLEAN /\ (Owns(peer, id) \/ code = 1008)
    BY DEF Owns, MayAccess
  <2> QED
    BY <2>1, <2>2, <2>3, RouteNext
<1>4. ASSUME CancelTask(token, id)
      PROVE  IInv'
  <2>1. "cancel" \in TaskRoutes /\ Transport("cancel") = "http"
        /\ Denial("cancel") = 404
    BY DEF TaskRoutes, Transport, Denial
  <2>2. CASE subject = NoSubject \/ ~Owns(subject, id)
    <3>1. PICK error \in {"AuthenticationError", "TaskNotFoundError"} :
            Answer("cancel", token, id, StatusOf(error), FALSE)
      BY <1>4, <2>2 DEF CancelTask
    <3>2. StatusOf(error) \in {401, 422, Denial("cancel")}
      BY <2>1 DEF StatusOf
    <3> QED
      BY <2>1, <3>1, <3>2, RouteNext
  <2>3. CASE subject # NoSubject /\ Owns(subject, id)
    <3>1. PICK outcome \in CancelOutcomes(tasks[id]) :
            Answer("cancel", token, id, CancelStatus(outcome), TRUE)
      BY <1>4, <2>3 DEF CancelTask
    <3> QED
      BY <2>1, <2>3, <3>1, RouteNext
  <2> QED
    BY <2>2, <2>3
<1>5. ASSUME NEW action \in Actions, SubmitAction(token, id, action)
      PROVE  IInv'
  <2>1. "action" \in TaskRoutes /\ Transport("action") = "http"
        /\ Denial("action") = 404
    BY DEF TaskRoutes, Transport, Denial
  <2>2. CASE subject = NoSubject \/ ~Owns(subject, id)
    <3>1. PICK error \in {"AuthenticationError", "TaskNotFoundError"} :
            Answer("action", token, id, StatusOf(error), FALSE)
      BY <1>5, <2>2 DEF SubmitAction
    <3>2. StatusOf(error) \in {401, 422, Denial("action")}
      BY <2>1 DEF StatusOf
    <3> QED
      BY <2>1, <3>1, <3>2, RouteNext
  <2>3. CASE subject # NoSubject /\ Owns(subject, id)
    <3>1. PICK outcome \in ActionOutcomes(id, action) :
            Answer("action", token, id, ActionStatus(outcome), TRUE)
      BY <1>5, <2>3 DEF SubmitAction
    <3> QED
      BY <2>1, <2>3, <3>1, RouteNext
  <2> QED
    BY <2>2, <2>3
<1> QED
  BY <1>1, <1>2, <1>3, <1>4, <1>5

\* A probe is answered without looking at a task.
LEMMA ReadyNext ==
    ASSUME IInv, NEW probes, Ready(probes)
    PROVE  IInv'
<1>1. exchange'.op = "ready" /\ exchange'.task = 0
  BY DEF Ready, Answer
<1>2. ForeignLikeUnknown'
  BY <1>1 DEF ForeignLikeUnknown, TaskRoutes
<1> QED
  BY <1>2, UntouchedIsKept, AnswerNext DEF Ready

\* Every request preserves the invariant.
LEMMA NextInv == IInv /\ [Next]_vars => IInv'
<1> SUFFICES ASSUME IInv, [Next]_vars
             PROVE  IInv'
  OBVIOUS
<1>1. ASSUME NEW token \in Tokens, NEW request \in Requests,
             \/ RejectCreation(token, request)
             \/ Deduplicate(token, request)
             \/ \E submitted \in BOOLEAN :
                  CreateTask(token, request, submitted)
      PROVE  IInv'
  BY <1>1, RejectCreationNext, DeduplicateNext, CreateTaskNext
<1>2. ASSUME NEW token \in Tokens, NEW id \in Ids,
             \/ \E inRange \in BOOLEAN : PollEvents(token, id, inRange)
             \/ StreamEvents(token, id) \/ Subscribe(token, id)
             \/ CancelTask(token, id)
             \/ \E action \in Actions : SubmitAction(token, id, action)
      PROVE  IInv'
  BY <1>2, TaskRoutesNext
<1>3. ASSUME NEW probes \in Wirings, Ready(probes)
      PROVE  IInv'
  BY <1>3, ReadyNext
<1>4. CASE UNCHANGED vars
  BY <1>4 DEF vars, IInv, KeyIsSpent, ForeignLikeUnknown, SubjectOf
<1> QED
  BY <1>1, <1>2, <1>3, <1>4 DEF Next, Requests

\* The registry and the last answer satisfy the invariant at any time.
THEOREM FrontDoorInvariant == Spec => []IInv
  BY InitInv, NextInv, PTL DEF Spec

\* Requests that do not overlap make one task of one owner's key
\* (create_task), whatever is asked and whoever asks.
THEOREM KeyUnique == Spec => []KeyIsSpent
<1>1. IInv => KeyIsSpent
  BY DEF IInv
<1> QED
  BY <1>1, FrontDoorInvariant, PTL

\* No route tells a caller of a task that is not its own
\* (_get_owned_task_or_raise_not_found), under any of the wirings.
THEOREM ForeignHidden == Spec => []ForeignLikeUnknown
<1>1. IInv => ForeignLikeUnknown
  BY DEF IInv
<1> QED
  BY <1>1, FrontDoorInvariant, PTL

-----------------------------------------------------------------------------
(* The attachments of a form.                                              *)

\* What an attachment that is stored must be.
Stored(file) ==
    /\ AllowedTypes = {} \/ file.type \in AllowedTypes
    /\ file.size <= MaxUpload
    /\ file.name # ""

\* A file that is acceptable is stored as one that is.
LEMMA AttachmentStored ==
    ASSUME NEW file, Acceptable(file)
    PROVE  Stored(Attachment(file))
<1>1. NormalizedName(file.path) # ""
  BY DEF NormalizedName
<1>2. /\ Attachment(file).name = NormalizedName(file.path)
      /\ Attachment(file).type = MediaType(file)
      /\ Attachment(file).size = file.size
  BY DEF Attachment
<1> QED
  BY <1>1, <1>2 DEF Acceptable, Stored

\* When every file of a form is acceptable all that is stored of them is
\* bounded (_parse_attachments).
LEMMA AttachmentsStored ==
    ASSUME NEW items, Len(items) \in Nat,
           \A i \in 1..Len(items) : IsFile(items[i]) => Acceptable(items[i])
    PROVE  \A file \in ToSet(Attachments(items)) : Stored(file)
<1> DEFINE last == Len(items)
           F == {i \in 1..last : IsFile(items[i])}
           G == {Attachment(items[i]) : i \in F}
           S == Seq(G)
           Loop(f) ==
             f = [n \in 0..last |->
                    IF n = 0 THEN <<>>
                    ELSE IF IsFile(items[n])
                      THEN Append(f[n - 1], Attachment(items[n]))
                    ELSE f[n - 1]]
           step == [p \in S \X Nat |->
                      IF p[2] \in F
                        THEN Append(p[1], Attachment(items[p[2]]))
                        ELSE p[1]]
<1>1. step \in [S \X Nat -> S]
  <2>1. ASSUME NEW p \in S \X Nat, p[2] \in F
        PROVE  Append(p[1], Attachment(items[p[2]])) \in S
    <3>1. p[1] \in S /\ Attachment(items[p[2]]) \in G
      BY <2>1
    <3> HIDE DEF G
    <3> QED
      BY <3>1
  <2> HIDE DEF S, F
  <2> QED
    BY <2>1
<1>2. \E f : Loop(f)
  <2>1. <<>> \in S /\ last \in Nat
    OBVIOUS
  <2>2. PICK f : LoopRuns(S, <<>>, step, last, f)
    <3> HIDE DEF S, step, last
    <3> QED
      BY <1>1, <2>1, LoopExists
  <2>3. /\ f \in [0..last -> S]
        /\ f[0] = <<>>
        /\ \A n \in 1..last : f[n] = step[<<f[n - 1], n>>]
    <3> HIDE DEF S, step, last
    <3> QED
      BY <2>2 DEF LoopRuns
  <2>4. ASSUME NEW n \in 0..last
        PROVE  f[n] = IF n = 0 THEN <<>>
                      ELSE IF IsFile(items[n])
                        THEN Append(f[n - 1], Attachment(items[n]))
                      ELSE f[n - 1]
    <3>1. CASE n = 0
      BY <2>3, <3>1
    <3>2. CASE n # 0
      <4>1. n \in 1..last /\ n - 1 \in 0..last /\ n \in Nat
        BY <2>1, <3>2
      <4>2. f[n - 1] \in S
        BY <2>3, <4>1
      <4>3. <<f[n - 1], n>> \in S \X Nat
        BY <4>1, <4>2
      <4> HIDE DEF S, last
      <4>4. f[n] = IF n \in F THEN Append(f[n - 1], Attachment(items[n]))
                              ELSE f[n - 1]
        BY <2>3, <4>1, <4>3
      <4> QED
        BY <3>2, <4>1, <4>4
    <3> QED
      BY <3>1, <3>2
  <2>5. Loop(f)
    <3> HIDE DEF S, step, last
    <3> QED
      BY <2>3, <2>4
  <2> QED
    BY <2>5
<1> DEFINE upTo == CHOOSE f : Loop(f)
<1>3. Attachments(items) = upTo[last]
  BY DEF Attachments
<1>4. Loop(upTo)
  <2> HIDE DEF Loop
  <2> QED
    BY <1>2
<1> HIDE DEF upTo
<1>5. \A n \in 0..last :
        upTo[n] = IF n = 0 THEN <<>>
                  ELSE IF IsFile(items[n])
                    THEN Append(upTo[n - 1], Attachment(items[n]))
                  ELSE upTo[n - 1]
  BY <1>4
<1> HIDE DEF Loop
<1>6. upTo[last] \in S
  <2> DEFINE T == {n \in Nat : n <= last => upTo[n] \in S}
  <2>1. 0 \in T
    <3>1. 0 \in 0..last /\ <<>> \in S
      OBVIOUS
    <3> QED
      BY <1>5, <3>1
  <2>2. ASSUME NEW n \in Nat, n \in T
        PROVE  n + 1 \in T
    <3> SUFFICES ASSUME n + 1 <= last
                 PROVE  upTo[n + 1] \in S
      OBVIOUS
    <3>1. n + 1 \in 1..last /\ n + 1 \in 0..last /\ (n + 1) - 1 = n
          /\ n + 1 # 0 /\ upTo[n] \in S
      BY <2>2
    <3>2. CASE IsFile(items[n + 1])
      <4>1. Attachment(items[n + 1]) \in G
        BY <3>1, <3>2
      <4>2. upTo[n + 1] = Append(upTo[n], Attachment(items[n + 1]))
        BY <1>5, <3>1, <3>2
      <4> HIDE DEF G
      <4> QED
        BY <3>1, <4>1, <4>2
    <3>3. CASE ~IsFile(items[n + 1])
      BY <1>5, <3>1, <3>3
    <3> QED
      BY <3>2, <3>3
  <2> HIDE DEF T
  <2>3. Nat \subseteq T
    BY <2>1, <2>2, SetInduction
  <2> QED
    BY <2>3 DEF T
<1>7. ToSet(Attachments(items)) \subseteq G
  <2> HIDE DEF G
  <2> QED
    BY <1>3, <1>6 DEF ToSet
<1>8. \A file \in G : Stored(file)
  BY AttachmentStored
<1> QED
  BY <1>7, <1>8

-----------------------------------------------------------------------------
(* What is stored.                                                         *)

\* An answer may name any of the tasks, and the one after the last.
LEMMA TaskBound == MaxTasks \in Nat
  BY FrontDoorAssumption

LEMMA TaskNumbers ==
    /\ 0 \in 0..MaxTasks + 1
    /\ Ids \subseteq 0..MaxTasks + 1
    /\ \A n \in Nat : n <= MaxTasks => n \in 0..MaxTasks + 1
  BY TaskBound DEF Ids

\* A creation is checked by an error only if none of its checks raises one.
LEMMA Unrefused ==
    ASSUME NEW subject, NEW request, CreateError(subject, request) = "none"
    PROVE  subject # NoSubject /\ ParseError(request) = "none"
  BY DEF CreateError

\* What parses is a form of acceptable files, or a body that has no files.
LEMMA Parsed ==
    ASSUME NEW request \in Requests, ParseError(request) = "none"
    PROVE  /\ request.key \in Keys
           /\ Command(request).input \in Inputs
           /\ Len(request.files) \in Nat
           /\ \A i \in 1..Len(request.files) :
                IsFile(request.files[i]) => Acceptable(request.files[i])
<1>1. CASE request \in Forms
  <2>1. /\ request.ctype = "multipart" /\ request.key \in Keys
        /\ request.input \in Inputs \cup BadTexts \cup {"absent"}
        /\ request.files \in FileLists
    BY <1>1 DEF Forms
  <2>2. /\ request.input \notin BadTexts
        /\ \A i \in DOMAIN request.files :
             IsFile(request.files[i]) => Acceptable(request.files[i])
    BY <2>1 DEF ParseError
  <2>3. Command(request).input \in Inputs
    BY <2>1, <2>2, FrontDoorAssumption DEF Command
  <2> QED
    BY <2>1, <2>2, <2>3, FrontDoorAssumption
<1>2. CASE request \in Bodies
  <2>1. /\ request.ctype = "json" /\ request.key \in Keys
        /\ request.files = <<>>
    BY <1>2 DEF Bodies
  <2>2. request.input \in Inputs
    BY <2>1 DEF ParseError
  <2>3. Command(request).input \in Inputs
    BY <2>2, FrontDoorAssumption DEF Command
  <2> QED
    BY <2>1, <2>3
<1>3. CASE request \in Others
  <2>1. request.ctype = "other"
    BY <1>3 DEF Others
  <2> QED
    BY <2>1 DEF ParseError
<1> QED
  BY <1>1, <1>2, <1>3 DEF Requests

\* What the registry may hold of one task.
Sound(task) ==
    /\ task.owner \in Subjects
    /\ task.key \in Keys
    /\ task.input \in Inputs
    /\ task.failed \in BOOLEAN
    /\ task.requested \in BOOLEAN
    /\ \A file \in ToSet(task.files) : Stored(file)

\* A creation that nothing refuses makes such a record.
LEMMA RecordSound ==
    ASSUME NEW token \in Tokens, NEW request \in Requests,
           NEW submitted \in BOOLEAN,
           CreateError(SubjectOf(token, "http"), request) = "none"
    PROVE  Sound(TaskRecord(SubjectOf(token, "http"), request, submitted))
<1> DEFINE subject == SubjectOf(token, "http")
           record == TaskRecord(subject, request, submitted)
<1>1. subject \in Subjects /\ ParseError(request) = "none"
  BY Unrefused, SubjectKnown
<1>2. /\ record.owner = subject /\ record.key = request.key
      /\ record.input = Command(request).input
      /\ record.files = Attachments(request.files)
      /\ record.failed = ~submitted /\ record.requested = FALSE
  BY DEF TaskRecord, Command
<1>3. \A file \in ToSet(Attachments(request.files)) : Stored(file)
  BY <1>1, Parsed, AttachmentsStored
<1>4. request.key \in Keys /\ Command(request).input \in Inputs
  BY <1>1, Parsed
<1> HIDE DEF subject, record
<1>5. Sound(record)
  BY <1>1, <1>2, <1>3, <1>4 DEF Sound
<1> QED
  BY <1>5 DEF record, subject

\* The last answer is one that a client can read.
Readable ==
    /\ exchange.status \in Codes
    /\ exchange.served \in BOOLEAN
    /\ exchange.task \in 0..MaxTasks + 1

\* The registry and the last answer, as far as their fields go.
FieldsOK ==
    /\ mode \in Modes
    /\ Len(tasks) <= MaxTasks
    /\ \A i \in DOMAIN tasks : Sound(tasks[i])
    /\ receipts \subseteq Ids \X Actions
    /\ Readable

\* An answer whose parts are in range is readable.
LEMMA AnswerReadable ==
    ASSUME NEW op, NEW token, NEW id \in 0..MaxTasks + 1, NEW code \in Codes,
           NEW served \in BOOLEAN, Answer(op, token, id, code, served)
    PROVE  Readable'
  BY DEF Answer, Readable

\* Every error has a status, none of which says that a task was made.
LEMMA StatusKnown ==
    ASSUME NEW error
    PROVE  /\ StatusOf(error) \in Codes
           /\ error # "TaskSubmissionError" =>
                StatusOf(error) \in {400, 401, 403, 404, 409, 500}
  BY DEF StatusOf, Codes

\* Every outcome of an action has a status.
LEMMA ActionStatusKnown ==
    ASSUME NEW outcome
    PROVE  ActionStatus(outcome) \in Codes
<1>1. CASE outcome = "DEDUPLICATED"
  BY <1>1 DEF ActionStatus, Codes
<1>2. CASE outcome \in {"ACCEPTED", "REJECTED_ALREADY_RESOLVED",
                        "REJECTED_EXPIRED"}
  BY <1>2 DEF ActionStatus, Codes
<1>3. CASE outcome \notin {"DEDUPLICATED", "ACCEPTED",
                           "REJECTED_ALREADY_RESOLVED", "REJECTED_EXPIRED"}
  BY <1>3, StatusKnown DEF ActionStatus
<1> QED
  BY <1>1, <1>2, <1>3

\* A creation that is refused is not refused for want of an executor.
LEMMA RefusalKnown ==
    ASSUME NEW subject, NEW request
    PROVE  CreateError(subject, request) # "TaskSubmissionError"
<1>1. ParseError(request) \in {"none", "InvalidRequestError",
                               "ValidationError", "UploadValidationError"}
  BY DEF ParseError
<1> QED
  BY <1>1 DEF CreateError

\* A request that adds no task keeps the fields if its answer is readable.
LEMMA NothingAdded ==
    ASSUME FieldsOK, Kept, Readable', receipts' \subseteq Ids \X Actions
    PROVE  FieldsOK'
<1>1. ASSUME NEW i \in DOMAIN tasks'
      PROVE  Sound(tasks[i])'
  <2>1. i \in DOMAIN tasks /\ Sound(tasks[i])
    BY DEF Kept, FieldsOK
  <2>2. tasks'[i].requested \in BOOLEAN
    <3>1. tasks[i].requested \in BOOLEAN
      BY <2>1 DEF Sound
    <3>2. tasks'[i].requested \in {tasks[i].requested, TRUE}
      BY <2>1 DEF Kept
    <3> QED
      BY <3>1, <3>2, Zenon
  <2> QED
    BY <2>1, <2>2 DEF Kept, Sound, Stored
<1>2. (\A i \in DOMAIN tasks : Sound(tasks[i]))'
  BY <1>1
<1> QED
  BY <1>2 DEF FieldsOK, Kept

\* A creation keeps the fields of the registry.
LEMMA CreateTaskFields ==
    ASSUME IInv, FieldsOK, NEW token \in Tokens, NEW request \in Requests,
           NEW submitted \in BOOLEAN, CreateTask(token, request, submitted)
    PROVE  FieldsOK'
<1> DEFINE new == TaskRecord(SubjectOf(token, "http"), request, submitted)
           code == IF submitted THEN 201 ELSE StatusOf("TaskSubmissionError")
<1>1. Sound(new)
  BY RecordSound DEF CreateTask
<1>2. /\ tasks \in Seq(Records)
      /\ tasks' = Append(tasks, new) /\ Len(tasks) < MaxTasks
      /\ Answer("create", token, Len(tasks'), code, submitted)
      /\ mode' = mode
  BY DEF CreateTask, IInv
<1>3. new \in Records
  BY RecordMade
<1>4. code \in Codes
  BY StatusKnown DEF Codes
<1> HIDE DEF new, code
<1>5. /\ Len(tasks') = Len(tasks) + 1 /\ Len(tasks) \in Nat
      /\ DOMAIN tasks' = 1..Len(tasks) + 1 /\ DOMAIN tasks = 1..Len(tasks)
      /\ \A i \in DOMAIN tasks : tasks'[i] = tasks[i]
      /\ tasks'[Len(tasks) + 1] = new
  BY <1>2, <1>3
<1>6. Len(tasks') <= MaxTasks /\ Len(tasks') \in 0..MaxTasks + 1
  BY <1>2, <1>5, TaskBound
<1>7. Readable'
  BY <1>2, <1>4, <1>6, AnswerReadable
<1>8. ASSUME NEW i \in DOMAIN tasks'
      PROVE  Sound(tasks'[i])
  <2>1. CASE i \in DOMAIN tasks
    BY <1>5, <2>1 DEF FieldsOK
  <2>2. CASE i = Len(tasks) + 1
    BY <1>1, <1>5, <2>2
  <2> QED
    BY <1>5, <2>1, <2>2
<1>9. (\A i \in DOMAIN tasks : Sound(tasks[i]))'
  BY <1>8 DEF Sound, Stored
<1> QED
  BY <1>2, <1>6, <1>7, <1>9 DEF FieldsOK, CreateTask

\* What a route may answer, whatever it finds.
LEMMA TaskRoutesReadable ==
    ASSUME NEW token, NEW id \in Ids,
           \/ \E inRange \in BOOLEAN : PollEvents(token, id, inRange)
           \/ StreamEvents(token, id) \/ Subscribe(token, id)
           \/ CancelTask(token, id)
           \/ \E action \in Actions : SubmitAction(token, id, action)
    PROVE  Readable'
<1> DEFINE Answered == \E op \in TaskRoutes, code \in Codes,
                          served \in BOOLEAN :
                         Answer(op, token, id, code, served)
<1>1. \A subject : Owns(subject, id) \in BOOLEAN
  BY DEF Owns, MayAccess
<1>2. /\ \A error : StatusOf(error) \in Codes
      /\ \A outcome : ActionStatus(outcome) \in Codes
      /\ {200, 202, 422, 1008} \subseteq Codes
      /\ {"poll", "stream", "subscribe", "cancel", "action"}
           \subseteq TaskRoutes
  BY StatusKnown, ActionStatusKnown DEF Codes, TaskRoutes
<1>3. ASSUME NEW inRange \in BOOLEAN, PollEvents(token, id, inRange)
      PROVE  Answered
  <2> DEFINE subject == SubjectOf(token, "http")
             served == subject # NoSubject /\ inRange /\ Owns(subject, id)
             code == IF subject = NoSubject
                       THEN StatusOf("AuthenticationError")
                     ELSE IF ~inRange THEN 422
                     ELSE IF ~served THEN StatusOf("TaskNotFoundError")
                     ELSE 200
  <2>1. Answer("poll", token, id, code, served)
    BY <1>3 DEF PollEvents
  <2>2. served \in BOOLEAN
    BY <1>1
  <2>3. code \in Codes
    <3> HIDE DEF served
    <3> QED
      BY <1>2
  <2> HIDE DEF served, code
  <2> QED
    BY <1>2, <2>1, <2>2, <2>3
<1>4. ASSUME StreamEvents(token, id)
      PROVE  Answered
  BY <1>1, <1>2, <1>4 DEF StreamEvents
<1>5. ASSUME Subscribe(token, id)
      PROVE  Answered
  BY <1>1, <1>2, <1>5 DEF Subscribe
<1>6. ASSUME CancelTask(token, id)
      PROVE  Answered
  <2>1. \A outcome : CancelStatus(outcome) \in Codes
    BY <1>2 DEF CancelStatus
  <2>2. PICK code \in Codes, served \in BOOLEAN :
          Answer("cancel", token, id, code, served)
    <3> DEFINE subject == SubjectOf(token, "http")
    <3>1. CASE subject = NoSubject \/ ~Owns(subject, id)
      <4>1. PICK error \in {"AuthenticationError", "TaskNotFoundError"} :
              Answer("cancel", token, id, StatusOf(error), FALSE)
        BY <1>6, <3>1 DEF CancelTask
      <4>2. StatusOf(error) \in Codes /\ FALSE \in BOOLEAN
        BY <1>2
      <4> QED
        BY <4>1, <4>2
    <3>2. CASE subject # NoSubject /\ Owns(subject, id)
      <4>1. PICK outcome \in CancelOutcomes(tasks[id]) :
              Answer("cancel", token, id, CancelStatus(outcome), TRUE)
        BY <1>6, <3>2 DEF CancelTask
      <4> QED
        BY <2>1, <4>1
    <3> QED
      BY <3>1, <3>2
  <2> QED
    BY <1>2, <2>2
<1>7. ASSUME NEW action \in Actions, SubmitAction(token, id, action)
      PROVE  Answered
  <2>1. PICK code \in Codes, served \in BOOLEAN :
          Answer("action", token, id, code, served)
    <3> DEFINE subject == SubjectOf(token, "http")
    <3>1. CASE subject = NoSubject \/ ~Owns(subject, id)
      <4>1. PICK error \in {"AuthenticationError", "TaskNotFoundError"} :
              Answer("action", token, id, StatusOf(error), FALSE)
        BY <1>7, <3>1 DEF SubmitAction
      <4>2. StatusOf(error) \in Codes /\ FALSE \in BOOLEAN
        BY <1>2
      <4> QED
        BY <4>1, <4>2
    <3>2. CASE subject # NoSubject /\ Owns(subject, id)
      <4>1. PICK outcome \in ActionOutcomes(id, action) :
              Answer("action", token, id, ActionStatus(outcome), TRUE)
        BY <1>7, <3>2 DEF SubmitAction
      <4>2. ActionStatus(outcome) \in Codes /\ TRUE \in BOOLEAN
        BY <1>2
      <4> QED
        BY <4>1, <4>2
    <3> QED
      BY <3>1, <3>2
  <2> QED
    BY <1>2, <2>1
<1>8. PICK op \in TaskRoutes, code \in Codes, served \in BOOLEAN :
        Answer(op, token, id, code, served)
  BY <1>3, <1>4, <1>5, <1>6, <1>7
<1>9. id \in 0..MaxTasks + 1
  BY TaskNumbers
<1> QED
  BY <1>8, <1>9, AnswerReadable

\* The receipts are those of actions, whatever is asked of a task.
LEMMA ReceiptsBounded ==
    ASSUME FieldsOK, NEW token, NEW id \in Ids,
           \/ \E inRange \in BOOLEAN : PollEvents(token, id, inRange)
           \/ StreamEvents(token, id) \/ Subscribe(token, id)
           \/ CancelTask(token, id)
           \/ \E action \in Actions : SubmitAction(token, id, action)
    PROVE  receipts' \subseteq Ids \X Actions
<1>1. CASE UNCHANGED receipts
  BY <1>1 DEF FieldsOK
<1>2. ASSUME NEW action \in Actions, SubmitAction(token, id, action)
      PROVE  receipts' \subseteq receipts \cup {<<id, action>>}
  BY <1>2 DEF SubmitAction, ReceiptsAfter
<1>3. ASSUME NEW action \in Actions,
             receipts' \subseteq receipts \cup {<<id, action>>}
      PROVE  receipts' \subseteq Ids \X Actions
  BY <1>3 DEF FieldsOK
<1>4. \/ UNCHANGED receipts
      \/ \E action \in Actions : SubmitAction(token, id, action)
  BY DEF PollEvents, StreamEvents, Subscribe, CancelTask
<1> QED
  BY <1>1, <1>2, <1>3, <1>4

\* A refused or a repeated creation is answered and stores nothing.
LEMMA CreationsReadable ==
    ASSUME IInv, FieldsOK, NEW token, NEW request,
           RejectCreation(token, request) \/ Deduplicate(token, request)
    PROVE  /\ Readable'
           /\ exchange'.op = "create" /\ exchange'.status \notin {201, 503}
           /\ UNCHANGED <<mode, tasks, receipts>>
<1>1. CASE RejectCreation(token, request)
  <2> DEFINE error == CreateError(SubjectOf(token, "http"), request)
  <2>1. /\ Answer("create", token, 0, StatusOf(error), FALSE)
        /\ UNCHANGED <<mode, tasks, receipts>>
    BY <1>1 DEF RejectCreation
  <2>2. /\ StatusOf(error) \in Codes
        /\ StatusOf(error) \in {400, 401, 403, 404, 409, 500}
    BY StatusKnown, RefusalKnown
  <2>3. 0 \in 0..MaxTasks + 1
    BY TaskNumbers
  <2> HIDE DEF error
  <2>4. Readable'
    BY <2>1, <2>2, <2>3, AnswerReadable
  <2>5. exchange'.op = "create" /\ exchange'.status = StatusOf(error)
    BY <2>1 DEF Answer
  <2> QED
    BY <2>1, <2>2, <2>4, <2>5
<1>2. CASE Deduplicate(token, request)
  <2>1. PICK id \in DOMAIN tasks : Answer("create", token, id, 200, TRUE)
    BY <1>2 DEF Deduplicate, Existing
  <2>2. Len(tasks) \in Nat /\ DOMAIN tasks = 1..Len(tasks)
        /\ Len(tasks) <= MaxTasks
    BY DEF IInv, FieldsOK
  <2>3. id \in 0..MaxTasks + 1
    <3>1. id \in Nat /\ id <= MaxTasks
      BY <2>2, TaskBound
    <3> QED
      BY <3>1, TaskNumbers
  <2>4. 200 \in Codes /\ TRUE \in BOOLEAN
    BY DEF Codes
  <2>5. Readable'
    BY <2>1, <2>3, <2>4, AnswerReadable
  <2> QED
    BY <1>2, <2>1, <2>5 DEF Answer, Deduplicate
<1> QED
  BY <1>1, <1>2

\* The host is ready when each of its probes finds its component well.
LEMMA ReadinessIsAll ==
    ASSUME NEW probes, Len(probes) \in Nat
    PROVE  CheckReadiness(probes) <=>
             \A i \in 1..Len(probes) : probes[i] = "well"
<1> DEFINE last == Len(probes)
           Loop(f) ==
             f = [n \in 0..last |-> IF n = 0 THEN TRUE
                                    ELSE f[n - 1] /\ ProbeReady(probes[n])]
           AllWell(n) == \A i \in 1..n : probes[i] = "well"
           ready == CHOOSE f : Loop(f)
<1>1. \E f : Loop(f)
  <2> DEFINE f == [n \in 0..last |-> AllWell(n)]
  <2>1. ASSUME NEW n \in 0..last
        PROVE  f[n] = IF n = 0 THEN TRUE
                      ELSE f[n - 1] /\ ProbeReady(probes[n])
    <3>1. CASE n = 0
      BY <3>1
    <3>2. CASE n # 0
      <4>1. n \in 1..last /\ n - 1 \in 0..last /\ 1..n = 1..n - 1 \cup {n}
        BY <3>2
      <4>2. f[n] = AllWell(n) /\ f[n - 1] = AllWell(n - 1)
        BY <4>1
      <4>3. AllWell(n) <=> AllWell(n - 1) /\ ProbeReady(probes[n])
        BY <4>1 DEF ProbeReady
      <4>4. f[n] = (f[n - 1] /\ ProbeReady(probes[n]))
        <5>1. AllWell(n) = (AllWell(n - 1) /\ ProbeReady(probes[n]))
          <6>1. AllWell(n) \in BOOLEAN
            OBVIOUS
          <6> HIDE DEF AllWell
          <6> QED
            BY <4>3, <6>1
        <5> HIDE DEF AllWell, f
        <5> QED
          BY <4>2, <5>1
      <4> HIDE DEF AllWell, f
      <4> QED
        BY <3>2, <4>4
    <3> QED
      BY <3>1, <3>2
  <2>2. Loop(f)
    <3> HIDE DEF AllWell
    <3> QED
      BY <2>1
  <2> QED
    BY <2>2
<1>2. CheckReadiness(probes) = ready[last]
  BY DEF CheckReadiness
<1>3. Loop(ready)
  <2> HIDE DEF Loop
  <2> QED
    BY <1>1
<1> HIDE DEF ready
<1>4. \A n \in 0..last :
        ready[n] = IF n = 0 THEN TRUE
                   ELSE ready[n - 1] /\ ProbeReady(probes[n])
  BY <1>3
<1> HIDE DEF Loop
<1>5. ready[last] <=> AllWell(last)
  <2> DEFINE T == {n \in Nat : n <= last => (ready[n] <=> AllWell(n))}
  <2>1. 0 \in T
    <3>1. 0 \in 0..last /\ AllWell(0)
      OBVIOUS
    <3> QED
      BY <1>4, <3>1
  <2>2. ASSUME NEW n \in Nat, n \in T
        PROVE  n + 1 \in T
    <3> SUFFICES ASSUME n + 1 <= last
                 PROVE  ready[n + 1] <=> AllWell(n + 1)
      OBVIOUS
    <3>1. n + 1 \in 0..last /\ (n + 1) - 1 = n /\ n + 1 # 0
          /\ 1..n + 1 = 1..n \cup {n + 1}
      OBVIOUS
    <3>2. ready[n] <=> AllWell(n)
      BY <2>2
    <3>3. AllWell(n + 1) <=> AllWell(n) /\ ProbeReady(probes[n + 1])
      BY <3>1 DEF ProbeReady
    <3>4. ready[n + 1] = (ready[n] /\ ProbeReady(probes[n + 1]))
      BY <1>4, <3>1
    <3> HIDE DEF AllWell
    <3> QED
      BY <3>2, <3>3, <3>4
  <2> HIDE DEF T
  <2>3. Nat \subseteq T
    BY <2>1, <2>2, SetInduction
  <2> QED
    BY <2>3 DEF T
<1> QED
  BY <1>2, <1>5

\* A probe is answered 200 exactly when it was served.
LEMMA ReadyTells ==
    ASSUME NEW probes \in Wirings, Ready(probes)
    PROVE  /\ Readable'
           /\ exchange'.op = "ready"
           /\ (exchange'.status = 200) = exchange'.served
           /\ UNCHANGED <<mode, tasks, receipts>>
<1> DEFINE served == \A i \in DOMAIN probes : probes[i] = "well"
           code == IF CheckReadiness(probes) THEN 200 ELSE 503
<1>1. Len(probes) \in Nat /\ DOMAIN probes = 1..Len(probes)
  <2>1. CASE probes = <<>>
    BY <2>1
  <2>2. CASE probes \in [1..2 -> Findings]
    <3>1. /\ DOMAIN probes = 1..2
          /\ \A i \in 1..2 : probes[i] \in Findings
      BY <2>2
    <3>2. probes = [i \in 1..2 |-> probes[i]]
      BY <2>2
    <3>3. probes \in Seq(Findings)
      <4> HIDE DEF Findings
      <4> QED
        BY <3>1, <3>2
    <3>4. Len(probes) \in Nat /\ DOMAIN probes = 1..Len(probes)
      <4> HIDE DEF Findings
      <4> QED
        BY <3>3
    <3> QED
      BY <3>4
  <2> QED
    BY <2>1, <2>2 DEF Wirings
<1>2. CheckReadiness(probes) <=> served
  BY <1>1, ReadinessIsAll
<1>3. /\ Answer("ready", "missing", 0, code, served)
      /\ UNCHANGED <<mode, tasks, receipts>>
  BY DEF Ready
<1>4. /\ served \in BOOLEAN /\ code \in Codes /\ (code = 200) = served
      /\ 0 \in 0..MaxTasks + 1
  <2>1. served \in BOOLEAN
    OBVIOUS
  <2> HIDE DEF served
  <2>2. CASE served
    BY <1>2, <2>1, <2>2, TaskNumbers DEF Codes
  <2>3. CASE ~served
    BY <1>2, <2>1, <2>3, TaskNumbers DEF Codes
  <2> QED
    BY <2>2, <2>3
<1> HIDE DEF served, code
<1>5. Readable'
  BY <1>3, <1>4, AnswerReadable
<1> QED
  BY <1>3, <1>4, <1>5 DEF Answer

\* Every request keeps the fields of the registry and of the answer.
LEMMA NextFields == IInv /\ FieldsOK /\ [Next]_vars => FieldsOK'
<1> SUFFICES ASSUME IInv, FieldsOK, [Next]_vars
             PROVE  FieldsOK'
  OBVIOUS
<1>1. ASSUME NEW token \in Tokens, NEW request \in Requests,
             \/ RejectCreation(token, request)
             \/ Deduplicate(token, request)
             \/ \E submitted \in BOOLEAN :
                  CreateTask(token, request, submitted)
      PROVE  FieldsOK'
  <2>1. CASE RejectCreation(token, request) \/ Deduplicate(token, request)
    <3>1. Readable' /\ UNCHANGED <<mode, tasks, receipts>>
      BY <2>1, CreationsReadable
    <3> QED
      BY <3>1, UntouchedIsKept, NothingAdded DEF FieldsOK
  <2>2. CASE \E submitted \in BOOLEAN : CreateTask(token, request, submitted)
    BY <2>2, CreateTaskFields
  <2> QED
    BY <1>1, <2>1, <2>2
<1>2. ASSUME NEW token \in Tokens, NEW id \in Ids,
             \/ \E inRange \in BOOLEAN : PollEvents(token, id, inRange)
             \/ StreamEvents(token, id) \/ Subscribe(token, id)
             \/ CancelTask(token, id)
             \/ \E action \in Actions : SubmitAction(token, id, action)
      PROVE  FieldsOK'
  BY <1>2, TaskRoutesReadable, TaskRoutesKeep, ReceiptsBounded, NothingAdded
<1>3. ASSUME NEW probes \in Wirings, Ready(probes)
      PROVE  FieldsOK'
  <2>1. Readable' /\ UNCHANGED <<mode, tasks, receipts>>
    BY <1>3, ReadyTells
  <2> QED
    BY <2>1, UntouchedIsKept, NothingAdded DEF FieldsOK
<1>4. CASE UNCHANGED vars
  BY <1>4 DEF vars, FieldsOK, Sound, Stored, Readable
<1> QED
  BY <1>1, <1>2, <1>3, <1>4 DEF Next, Requests

\* The fields hold at any time.
THEOREM FieldsInvariant == Spec => []FieldsOK
<1>1. Init => FieldsOK
  <2> SUFFICES ASSUME Init
               PROVE  FieldsOK
    OBVIOUS
  <2>1. /\ mode \in Modes /\ tasks = <<>> /\ receipts = {}
        /\ exchange = NoExchange
    BY DEF Init
  <2>2. Readable
    BY <2>1, TaskNumbers DEF NoExchange, Readable, Codes
  <2> QED
    BY <2>1, <2>2, TaskBound DEF FieldsOK
<1> QED
  BY <1>1, NextFields, FrontDoorInvariant, PTL DEF Spec

\* Every stored task has an owner the wiring knows and every answer a status
\* the clients know (create_task, _status_code_for_exception).
THEOREM FieldsTyped == Spec => []TypeOK
<1>1. FieldsOK => TypeOK
  BY DEF FieldsOK, Readable, Sound, TypeOK
<1> QED
  BY <1>1, FieldsInvariant, PTL

\* However many fields a form has, nothing is stored of a type or size that
\* the host does not take, or without a name (_parse_attachments).
THEOREM UploadsAreBounded == Spec => []UploadsBounded
<1>1. FieldsOK => UploadsBounded
  BY DEF FieldsOK, Sound, Stored, UploadsBounded
<1> QED
  BY <1>1, FieldsInvariant, PTL

\* What an answer says of the registry, the receipts and the readiness.
Tells ==
    /\ RegistryTold
    /\ ReceiptsTold
    /\ exchange'.op = "action" /\ exchange'.status = 200
         => \E action \in Actions : <<exchange'.task, action>> \in receipts
    /\ exchange'.op = "ready" => (exchange'.status = 200) = exchange'.served

\* An answer that has stored nothing, and is none of the four that speak of
\* what is stored.
LEMMA NothingTold ==
    ASSUME UNCHANGED <<tasks, receipts>>,
           exchange'.op = "create" => exchange'.status \notin {201, 503},
           exchange'.op \notin {"cancel", "action", "ready"}
    PROVE  Tells
  BY DEF Tells, RegistryTold, ReceiptsTold

\* A creation that is answered 201 or 503 adds the task that it names.
LEMMA CreateTaskTells ==
    ASSUME IInv, NEW token \in Tokens, NEW request \in Requests,
           NEW submitted \in BOOLEAN, CreateTask(token, request, submitted)
    PROVE  Tells
<1> DEFINE new == TaskRecord(SubjectOf(token, "http"), request, submitted)
<1>1. /\ tasks \in Seq(Records) /\ new \in Records
      /\ tasks' = Append(tasks, new)
  BY RecordMade DEF CreateTask, IInv
<1>2. new.failed = ~submitted
  BY DEF TaskRecord
<1>3. /\ exchange'.op = "create"
      /\ exchange'.status = IF submitted THEN 201 ELSE 503
  BY DEF CreateTask, Answer, StatusOf
<1> HIDE DEF new
<1>4. /\ Len(tasks') = Len(tasks) + 1 /\ tasks'[Len(tasks')] = new
      /\ \A i \in DOMAIN tasks : tasks'[i] = tasks[i]
  BY <1>1
<1>5. (exchange'.status = 503) = ~submitted
  BY <1>3
<1>6. exchange'.status \in {201, 503}
  BY <1>3
<1>7. RegistryTold
  BY <1>2, <1>3, <1>4, <1>5, <1>6 DEF RegistryTold
<1>8. ReceiptsTold
  BY <1>3 DEF ReceiptsTold, CreateTask
<1> QED
  BY <1>3, <1>7, <1>8 DEF Tells

\* A cancellation that is answered 202 or 500 may have recorded the request of
\* the task's owner.
LEMMA CancelTaskTells ==
    ASSUME NEW token, NEW id, CancelTask(token, id)
    PROVE  Tells
<1> DEFINE subject == SubjectOf(token, "http")
<1>1. receipts' = receipts /\ exchange'.op = "cancel"
      /\ exchange'.task = id /\ exchange'.token = token
  BY DEF CancelTask, Answer
<1>2. CASE subject = NoSubject \/ ~Owns(subject, id)
  <2>1. tasks' = tasks
    BY <1>2 DEF CancelTask
  <2> QED
    BY <1>1, <2>1 DEF Tells, RegistryTold, ReceiptsTold
<1>3. CASE subject # NoSubject /\ Owns(subject, id)
  <2>1. PICK outcome \in CancelOutcomes(tasks[id]) :
          /\ Answer("cancel", token, id, CancelStatus(outcome), TRUE)
          /\ tasks' = IF outcome = "ALREADY_TERMINAL"
                        THEN tasks ELSE WithRequest(id)
    BY <1>3 DEF CancelTask
  <2>2. CASE tasks' = tasks
    BY <1>1, <2>2 DEF Tells, RegistryTold, ReceiptsTold
  <2>3. CASE outcome # "ALREADY_TERMINAL"
    <3>1. /\ tasks' = WithRequest(id) /\ ~tasks[id].failed
          /\ CancelStatus(outcome) \in {202, 500}
      BY <2>1, <2>3 DEF CancelOutcomes, CancelStatus, StatusOf
    <3>2. exchange'.status \in {202, 500}
      BY <2>1, <3>1 DEF Answer
    <3>3. RegistryTold
      BY <1>1, <1>3, <3>1, <3>2 DEF RegistryTold
    <3> QED
      BY <1>1, <3>3 DEF Tells, ReceiptsTold
  <2> QED
    BY <2>1, <2>2, <2>3
<1> QED
  BY <1>2, <1>3

\* An action that is answered 202 or 500 may have stored the receipt of the
\* task's owner; one that is called a duplicate found it.
LEMMA SubmitActionTells ==
    ASSUME NEW token, NEW id, NEW action \in Actions,
           SubmitAction(token, id, action)
    PROVE  Tells
<1> DEFINE subject == SubjectOf(token, "http")
<1>1. tasks' = tasks /\ exchange'.op = "action"
      /\ exchange'.task = id /\ exchange'.token = token
  BY DEF SubmitAction, Answer
<1>2. CASE subject = NoSubject \/ ~Owns(subject, id)
  <2>1. receipts' = receipts /\ exchange'.status \in {401, 404}
    BY <1>2 DEF SubmitAction, Answer, StatusOf
  <2> QED
    BY <1>1, <2>1 DEF Tells, RegistryTold, ReceiptsTold
<1>3. CASE subject # NoSubject /\ Owns(subject, id)
  <2>1. PICK outcome \in ActionOutcomes(id, action) :
          /\ Answer("action", token, id, ActionStatus(outcome), TRUE)
          /\ receipts' \in ReceiptsAfter(outcome, id, action)
    BY <1>3 DEF SubmitAction
  <2>2. exchange'.status = ActionStatus(outcome)
    BY <2>1 DEF Answer
  <2>3. exchange'.status = 200 => <<id, action>> \in receipts
    BY <2>1, <2>2 DEF ActionOutcomes, ActionStatus, StatusOf
  <2>4. CASE receipts' = receipts
    BY <1>1, <2>3, <2>4 DEF Tells, RegistryTold, ReceiptsTold
  <2>5. CASE outcome \in {"ACCEPTED", "RuntimeError"}
    <3>1. exchange'.status \in {202, 500}
      BY <2>2, <2>5 DEF ActionStatus, StatusOf
    <3>2. receipts' \in {receipts, receipts \cup {<<id, action>>}}
      BY <2>1, <2>5 DEF ReceiptsAfter
    <3>3. ReceiptsTold
      BY <1>1, <1>3, <3>1, <3>2 DEF ReceiptsTold
    <3> QED
      BY <1>1, <2>3, <3>3 DEF Tells, RegistryTold
  <2> QED
    BY <2>1, <2>4, <2>5 DEF ReceiptsAfter
<1> QED
  BY <1>2, <1>3

\* The status of an answer says what became of the request (create_task,
\* cancel_task, submit_action, _status_code_for_exception): which of them may
\* have changed the registry or stored a receipt, and for whom; and the host
\* calls itself ready when every probe it was wired with finds its component
\* well, however many they are.
THEOREM AnswersTell == Spec => AnswerTellsOutcome
<1>1. ASSUME IInv, FieldsOK, Next
      PROVE  Tells
  <2>1. ASSUME NEW token \in Tokens, NEW request \in Requests,
               \/ RejectCreation(token, request)
               \/ Deduplicate(token, request)
               \/ \E submitted \in BOOLEAN :
                    CreateTask(token, request, submitted)
        PROVE  Tells
    <3>1. CASE RejectCreation(token, request) \/ Deduplicate(token, request)
      <4>1. /\ exchange'.op = "create" /\ exchange'.status \notin {201, 503}
            /\ UNCHANGED <<mode, tasks, receipts>>
        BY <1>1, <3>1, CreationsReadable
      <4> QED
        BY <4>1, NothingTold
    <3>2. CASE \E submitted \in BOOLEAN :
                 CreateTask(token, request, submitted)
      BY <1>1, <3>2, CreateTaskTells
    <3> QED
      BY <2>1, <3>1, <3>2
  <2>2. ASSUME NEW token \in Tokens, NEW id \in Ids,
               \/ \E inRange \in BOOLEAN : PollEvents(token, id, inRange)
               \/ StreamEvents(token, id) \/ Subscribe(token, id)
               \/ CancelTask(token, id)
               \/ \E action \in Actions : SubmitAction(token, id, action)
        PROVE  Tells
    <3>1. CASE \/ \E inRange \in BOOLEAN : PollEvents(token, id, inRange)
               \/ StreamEvents(token, id) \/ Subscribe(token, id)
      <4>1. /\ exchange'.op \in {"poll", "stream", "subscribe"}
            /\ UNCHANGED <<tasks, receipts>>
        BY <3>1 DEF PollEvents, StreamEvents, Subscribe, Answer
      <4> QED
        BY <4>1, NothingTold
    <3> QED
      BY <2>2, <3>1, CancelTaskTells, SubmitActionTells
  <2>3. ASSUME NEW probes \in Wirings, Ready(probes)
        PROVE  Tells
    BY <2>3, ReadyTells DEF Tells, RegistryTold, ReceiptsTold
  <2> QED
    BY <1>1, <2>1, <2>2, <2>3 DEF Next, Requests
<1>2. IInv /\ FieldsOK /\ [Next]_vars => [Tells]_vars
  BY <1>1
<1>3. Spec => [][Tells]_vars
  BY <1>2, FrontDoorInvariant, FieldsInvariant, PTL DEF Spec
<1> QED
  BY <1>3 DEF AnswerTellsOutcome, Tells

=============================================================================
