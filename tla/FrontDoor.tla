----------------------------- MODULE FrontDoor ------------------------------
(***************************************************************************)
(* What the routes make of a request: who asks, what the request parses    *)
(* to, which call of a service it becomes and which status answers it.     *)
(* Requests are handled one at a time here, over the registry and the      *)
(* receipts of actions; the other modules interleave the services behind   *)
(* them, with the events and the suspensions.                              *)
(***************************************************************************)
EXTENDS Integers, SequencesExt

CONSTANTS
    Users,         \* whom a valid token names
    Keys,          \* values of clientRequestId, "blank" among them
    Inputs,        \* values of input, "{}" among them
    FileLists,     \* lists of the attachment fields of a form
    Actions,       \* values of clientActionId
    AllowedTypes,  \* allowed_upload_content_types, empty for any
    MaxUpload,     \* max_upload_bytes
    Modes,         \* how the host resolves and authorises its callers
    MaxTasks       \* bound on the tasks created

ASSUME FrontDoorAssumption ==
    /\ "blank" \in Keys
    /\ "{}" \in Inputs
    /\ \A files \in FileLists :
         Len(files) \in Nat /\ DOMAIN files = 1..Len(files)
    /\ Modes \subseteq {"demo", "firebase", "own", "closed"}
    /\ MaxUpload \in Nat
    /\ MaxTasks \in Nat

VARIABLES
    mode,
    tasks,     \* the registry, tasks numbered in the order of their creation
    receipts,  \* of the actions accepted, by task and clientActionId
    exchange   \* the last request handled and its answer

vars == <<mode, tasks, receipts, exchange>>

Tokens == Users \cup {"missing", "invalid"}
Subjects == Users \cup {"demo-user", "anonymous"}
Ids == 1..MaxTasks + 1
Codes == {200, 201, 202, 400, 401, 403, 404, 409, 422, 500, 503, 1008}

TypeOK ==
    /\ mode \in Modes
    /\ Len(tasks) <= MaxTasks
    /\ \A i \in DOMAIN tasks :
         /\ tasks[i].owner \in Subjects
         /\ tasks[i].key \in Keys
         /\ tasks[i].input \in Inputs
         /\ tasks[i].failed \in BOOLEAN
         /\ tasks[i].requested \in BOOLEAN
    /\ receipts \subseteq Ids \X Actions
    /\ exchange.status \in Codes
    /\ exchange.served \in BOOLEAN
    /\ exchange.task \in 0..MaxTasks + 1

NoExchange == [op |-> "none", token |-> "missing", task |-> 0, status |-> 200,
               served |-> FALSE]

Init ==
    /\ mode \in Modes
    /\ tasks = <<>>
    /\ receipts = {}
    /\ exchange = NoExchange

-----------------------------------------------------------------------------
(* Who asks.                                                               *)

NoSubject == "none"

(* Faulty variant of SubjectOf: a token that does not verify is believed.  *)
SubjectOfUnverified(token, transport) ==
    CASE mode \in {"demo", "closed"} -> "demo-user"
      [] transport = "ws" \/ token = "missing" -> "anonymous"
      [] OTHER -> token

(* The Firebase resolver raises for a token it cannot verify, and knows    *)
(* nobody on a WebSocket; a host's own one raises AuthenticationError.     *)
SubjectOf(token, transport) ==
    CASE mode \in {"demo", "closed"} -> "demo-user"
      [] mode = "firebase" /\ transport = "ws" -> "anonymous"
      [] mode = "firebase" /\ token = "missing" -> "anonymous"
      [] token \in Users -> token
      [] OTHER -> NoSubject

MayCreate(subject) ==
    mode # "closed" /\ (mode = "firebase" => subject # "anonymous")

(* Faulty variant of MayAccess: whoever is signed in may.                  *)
MayAccessSignedIn(subject, task) == mode # "closed" /\ subject # "anonymous"

MayAccess(subject, task) == mode # "closed" /\ task.owner = subject

(* _get_owned_task_or_raise_not_found                                      *)
Owns(subject, id) == id \in DOMAIN tasks /\ MayAccess(subject, tasks[id])

-----------------------------------------------------------------------------
(* What a request parses to.                                               *)

MediaType(file) ==
    IF file.type = "none" THEN "application/octet-stream" ELSE file.type

(* Faulty variant of Acceptable: a file without a type is not checked.     *)
AcceptableUntyped(file) ==
    /\ AllowedTypes # {} => file.type \in AllowedTypes \cup {"none"}
    /\ file.size <= MaxUpload

Acceptable(file) ==
    /\ AllowedTypes # {} => MediaType(file) \in AllowedTypes
    /\ file.size <= MaxUpload

(* The last segment of the path the client gave as the file's name.        *)
NormalizedName(path) ==
    IF path = <<>> \/ Last(path) = "" THEN "upload.bin" ELSE Last(path)

IsFile(item) == item.kind = "file"

Attachment(file) ==
    [name |-> NormalizedName(file.path), type |-> MediaType(file),
     size |-> file.size]

(* The loop over the fields, which passes over those that are no files.    *)
Attachments(items) ==
    LET upTo[n \in 0..Len(items)] ==
          IF n = 0 THEN <<>>
          ELSE IF IsFile(items[n])
            THEN Append(upTo[n - 1], Attachment(items[n]))
          ELSE upTo[n - 1]
    IN upTo[Len(items)]

(* The fields of a form whose text is not a JSON object.                   *)
BadTexts == {"broken", "file"}

Forms ==
    [ctype : {"multipart"}, key : Keys,
     input : Inputs \cup BadTexts \cup {"absent"}, files : FileLists]
Bodies ==
    [ctype : {"json"}, key : Keys, input : Inputs \cup {"broken"},
     files : {<<>>}]
Others ==
    [ctype : {"other"}, key : {"blank"}, input : {"{}"}, files : {<<>>}]

(* Raised while the command is parsed.  A JSON body that does not parse or *)
(* validate raises an error of the parser that no handler translates.      *)
ParseError(request) ==
    CASE request.ctype = "other" -> "InvalidRequestError"
      [] request.ctype = "json" ->
           IF request.input \in Inputs THEN "none" ELSE "ValidationError"
      [] request.key = "blank" \/ request.input \in BadTexts ->
           "InvalidRequestError"
      [] \E i \in DOMAIN request.files :
           IsFile(request.files[i]) /\ ~Acceptable(request.files[i]) ->
           "UploadValidationError"
      [] OTHER -> "none"

Command(request) ==
    [key |-> request.key,
     input |-> IF request.input = "absent" THEN "{}" ELSE request.input,
     files |-> Attachments(request.files)]

-----------------------------------------------------------------------------
(* What an exception becomes.                                              *)

StatusOf(error) ==
    CASE error = "AuthenticationError" -> 401
      [] error \in {"InvalidRequestError", "UploadValidationError"} -> 400
      [] error = "TaskOwnershipError" -> 403
      [] error = "TaskNotFoundError" -> 404
      [] error \in {"TaskConflictError", "IdempotencyConflictError"} -> 409
      [] error = "TaskSubmissionError" -> 503
      [] OTHER -> 500

Answer(op, token, id, status, served) ==
    exchange' = [op |-> op, token |-> token, task |-> id, status |-> status,
                 served |-> served]

-----------------------------------------------------------------------------
(* create_task                                                             *)

(* Faulty variant of Existing: a task that failed does not count.          *)
ExistingUnfailed(subject, key) ==
    {i \in DOMAIN tasks :
       tasks[i].owner = subject /\ tasks[i].key = key /\ ~tasks[i].failed}

Existing(subject, key) ==
    {i \in DOMAIN tasks : tasks[i].owner = subject /\ tasks[i].key = key}

SameInput(id, command) ==
    /\ tasks[id].input = command.input
    /\ tasks[id].files = command.files

(* The first of the checks of a creation that raises.                      *)
CreateError(subject, request) ==
    IF subject = NoSubject THEN "AuthenticationError"
    ELSE IF ParseError(request) # "none" THEN ParseError(request)
    ELSE IF ~MayCreate(subject) THEN "TaskOwnershipError"
    ELSE IF \E id \in Existing(subject, request.key) :
              ~SameInput(id, Command(request))
         THEN "IdempotencyConflictError"
    ELSE "none"

RejectCreation(token, request) ==
    /\ LET error == CreateError(SubjectOf(token, "http"), request)
       IN /\ error # "none"
          /\ Answer("create", token, 0, StatusOf(error), FALSE)
    /\ UNCHANGED <<mode, tasks, receipts>>

Deduplicate(token, request) ==
    LET subject == SubjectOf(token, "http")
    IN /\ CreateError(subject, request) = "none"
       /\ \E id \in Existing(subject, request.key) :
            Answer("create", token, id, 200, TRUE)
       /\ UNCHANGED <<mode, tasks, receipts>>

(* The executor takes the task, or raises and leaves it FAILED.            *)
TaskRecord(subject, request, submitted) ==
    LET command == Command(request)
    IN [owner |-> subject, key |-> command.key, input |-> command.input,
        files |-> command.files, failed |-> ~submitted,
        requested |-> FALSE]

(* Faulty variant of CreateTask: the attachments are checked afterwards.   *)
CreateTaskUnchecked(token, request, submitted) ==
    LET subject == SubjectOf(token, "http")
        error == CreateError(subject, request)
    IN /\ Len(tasks) < MaxTasks
       /\ error \in {"none", "UploadValidationError"}
       /\ Existing(subject, request.key) = {}
       /\ tasks' = Append(tasks, TaskRecord(subject, request, submitted))
       /\ Answer("create", token, Len(tasks'),
                 IF error # "none" THEN StatusOf(error)
                 ELSE IF submitted THEN 201 ELSE 503,
                 submitted /\ error = "none")
       /\ UNCHANGED <<mode, receipts>>

CreateTask(token, request, submitted) ==
    LET subject == SubjectOf(token, "http")
    IN /\ Len(tasks) < MaxTasks
       /\ CreateError(subject, request) = "none"
       /\ Existing(subject, request.key) = {}
       /\ tasks' = Append(tasks, TaskRecord(subject, request, submitted))
       /\ Answer("create", token, Len(tasks'),
                 IF submitted THEN 201 ELSE StatusOf("TaskSubmissionError"),
                 submitted)
       /\ UNCHANGED <<mode, receipts>>

-----------------------------------------------------------------------------
(* The routes of a task.                                                   *)

(* Query parameters out of their range are rejected before the service is  *)
(* called, and after the caller has been resolved.                         *)
PollEvents(token, id, inRange) ==
    LET subject == SubjectOf(token, "http")
        served == subject # NoSubject /\ inRange /\ Owns(subject, id)
    IN /\ Answer("poll", token, id,
                 IF subject = NoSubject THEN StatusOf("AuthenticationError")
                 ELSE IF ~inRange THEN 422
                 ELSE IF ~served THEN StatusOf("TaskNotFoundError") ELSE 200,
                 served)
       /\ UNCHANGED <<mode, tasks, receipts>>

(* The response has started when the generator looks the task up: what it  *)
(* raises breaks the stream off.                                           *)
StreamEvents(token, id) ==
    LET subject == SubjectOf(token, "http")
    IN /\ Answer("stream", token, id,
                 IF subject = NoSubject THEN StatusOf("AuthenticationError")
                                        ELSE 200,
                 Owns(subject, id))
       /\ UNCHANGED <<mode, tasks, receipts>>

(* A socket is accepted first, and closed with 1008.                       *)
Subscribe(token, id) ==
    LET subject == SubjectOf(token, "ws")
    IN /\ Answer("subscribe", token, id,
                 IF Owns(subject, id) THEN 200 ELSE 1008, Owns(subject, id))
       /\ UNCHANGED <<mode, tasks, receipts>>

(* What the service makes of a cancellation of its caller's task: the task *)
(* is over, as one that failed is and any other may be by now; or the      *)
(* registry has recorded the request, and the executor takes it or raises. *)
CancelOutcomes(task) ==
    {"ALREADY_TERMINAL"} \cup
      IF task.failed THEN {} ELSE {"CANCELLATION_REQUESTED", "RuntimeError"}

CancelStatus(outcome) ==
    IF outcome \in {"ALREADY_TERMINAL", "CANCELLATION_REQUESTED"}
      THEN 202 ELSE StatusOf(outcome)

WithRequest(id) == [tasks EXCEPT ![id].requested = TRUE]

CancelTask(token, id) ==
    LET subject == SubjectOf(token, "http")
    IN /\ IF subject = NoSubject
            THEN /\ Answer("cancel", token, id,
                           StatusOf("AuthenticationError"), FALSE)
                 /\ UNCHANGED tasks
          ELSE IF ~Owns(subject, id)
            THEN /\ Answer("cancel", token, id,
                           StatusOf("TaskNotFoundError"), FALSE)
                 /\ UNCHANGED tasks
          ELSE \E outcome \in CancelOutcomes(tasks[id]) :
                 /\ Answer("cancel", token, id, CancelStatus(outcome), TRUE)
                 /\ tasks' = IF outcome = "ALREADY_TERMINAL"
                               THEN tasks ELSE WithRequest(id)
       /\ UNCHANGED <<mode, receipts>>

ActionStatus(outcome) ==
    CASE outcome = "DEDUPLICATED" -> 200
      [] outcome \in {"ACCEPTED", "REJECTED_ALREADY_RESOLVED",
                      "REJECTED_EXPIRED"} -> 202
      [] OTHER -> StatusOf(outcome)

(* A receipt decides what the same clientActionId is told from then on.    *)
ActionOutcomes(id, action) ==
    {"InvalidRequestError", "IdempotencyConflictError", "TaskNotFoundError"}
      \cup IF <<id, action>> \in receipts THEN {"DEDUPLICATED"}
           ELSE {"ACCEPTED", "REJECTED_ALREADY_RESOLVED", "REJECTED_EXPIRED",
                 "TaskConflictError", "RuntimeError"}

(* A call that raises comes before the receipt is stored or after it.      *)
ReceiptsAfter(outcome, id, action) ==
    LET stored == receipts \cup {<<id, action>>}
    IN CASE outcome = "ACCEPTED" -> {stored}
         [] outcome = "RuntimeError" -> {receipts, stored}
         [] OTHER -> {receipts}

SubmitAction(token, id, action) ==
    LET subject == SubjectOf(token, "http")
    IN /\ IF subject = NoSubject
            THEN /\ Answer("action", token, id,
                           StatusOf("AuthenticationError"), FALSE)
                 /\ UNCHANGED receipts
          ELSE IF ~Owns(subject, id)
            THEN /\ Answer("action", token, id,
                           StatusOf("TaskNotFoundError"), FALSE)
                 /\ UNCHANGED receipts
          ELSE \E outcome \in ActionOutcomes(id, action) :
                 /\ Answer("action", token, id, ActionStatus(outcome), TRUE)
                 /\ receipts' \in ReceiptsAfter(outcome, id, action)
       /\ UNCHANGED <<mode, tasks>>

-----------------------------------------------------------------------------
(* Readiness.                                                              *)

(* What a probe finds: its component answers well, answers badly, raises,  *)
(* or, an executor, has no check.                                          *)
Findings == {"well", "badly", "raises", "absent"}
ProbeReady(finding) == finding = "well"

CheckReadiness(probes) ==
    LET ready[n \in 0..Len(probes)] ==
          IF n = 0 THEN TRUE ELSE ready[n - 1] /\ ProbeReady(probes[n])
    IN ready[Len(probes)]

(* The probes of the two wirings of the host: none, or Redis and executor. *)
Wirings == {<<>>} \cup [1..2 -> Findings]

Ready(probes) ==
    /\ Answer("ready", "missing", 0,
              IF CheckReadiness(probes) THEN 200 ELSE 503,
              \A i \in DOMAIN probes : probes[i] = "well")
    /\ UNCHANGED <<mode, tasks, receipts>>

-----------------------------------------------------------------------------
Next ==
    \/ \E token \in Tokens :
         \/ \E request \in Forms \cup Bodies \cup Others :
              \/ RejectCreation(token, request)
              \/ Deduplicate(token, request)
              \/ \E submitted \in BOOLEAN :
                   CreateTask(token, request, submitted)
         \/ \E id \in Ids :
              \/ \E inRange \in BOOLEAN : PollEvents(token, id, inRange)
              \/ StreamEvents(token, id)
              \/ Subscribe(token, id)
              \/ CancelTask(token, id)
              \/ \E action \in Actions : SubmitAction(token, id, action)
    \/ \E probes \in Wirings : Ready(probes)

Spec == Init /\ [][Next]_vars

-----------------------------------------------------------------------------
(* Properties.                                                             *)

(* A creation answered 201 or 503 has added one task, which failed with    *)
(* 503.  A cancellation answered 202 or 500 may have recorded its request, *)
(* of a task of its caller that has not failed.                            *)
RegistryTold ==
    CASE exchange'.op = "create" /\ exchange'.status \in {201, 503} ->
           /\ Len(tasks') = Len(tasks) + 1
           /\ \A i \in DOMAIN tasks : tasks'[i] = tasks[i]
           /\ tasks'[Len(tasks')].failed = (exchange'.status = 503)
      [] exchange'.op = "cancel" /\ exchange'.status \in {202, 500} ->
           \/ tasks' = tasks
           \/ /\ tasks' = WithRequest(exchange'.task)
              /\ Owns(SubjectOf(exchange'.token, "http"), exchange'.task)
              /\ ~tasks[exchange'.task].failed
      [] OTHER -> tasks' = tasks

(* An action answered 202 or 500 may have stored its receipt, with a task  *)
(* of its caller.                                                          *)
ReceiptsTold ==
    IF exchange'.op = "action" /\ exchange'.status \in {202, 500}
      THEN \/ receipts' = receipts
           \/ /\ Owns(SubjectOf(exchange'.token, "http"), exchange'.task)
              /\ \E action \in Actions :
                   receipts' = receipts \cup {<<exchange'.task, action>>}
      ELSE receipts' = receipts

(* The status of an answer says what became of the request: what these two *)
(* name, and nothing in the registry or of the receipts after any other    *)
(* answer, least of all an error; an action is called a duplicate only of  *)
(* one that was accepted; and the host says it is ready exactly when       *)
(* everything its probes ask is well, a probe that raises counting as an   *)
(* answer (create_task, cancel_task, submit_action,                        *)
(* _status_code_for_exception, CompositeReadinessProbe).                   *)
AnswerTellsOutcome ==
    [][/\ RegistryTold
       /\ ReceiptsTold
       /\ exchange'.op = "action" /\ exchange'.status = 200
            => \E action \in Actions : <<exchange'.task, action>> \in receipts
       /\ exchange'.op = "ready" =>
            (exchange'.status = 200) = exchange'.served]_vars

Denial(op) == CASE op = "stream" -> 200 [] op = "subscribe" -> 1008
                [] OTHER -> 404
TaskRoutes == {"poll", "stream", "subscribe", "cancel", "action"}
Transport(op) == IF op = "subscribe" THEN "ws" ELSE "http"

(* Another's task is answered for like one that does not exist, on every   *)
(* route, and no answer names a task that is not the caller's              *)
(* (_get_owned_task_or_raise_not_found, errors.py:27).                     *)
ForeignLikeUnknown ==
    /\ exchange.op \in TaskRoutes /\ ~exchange.served
         => exchange.status \in {401, 422, Denial(exchange.op)}
    /\ exchange.served /\ exchange.task # 0
         => tasks[exchange.task].owner
              = SubjectOf(exchange.token, Transport(exchange.op))

(* Whatever form was sent, a stored attachment is of an allowed type and   *)
(* size and is named by one segment (_parse_attachments).                  *)
UploadsBounded ==
    \A i \in DOMAIN tasks : \A file \in ToSet(tasks[i].files) :
        /\ AllowedTypes = {} \/ file.type \in AllowedTypes
        /\ file.size <= MaxUpload
        /\ file.name # ""

(* Requests that do not overlap never make two tasks of one owner under    *)
(* one key, whatever became of the first (create_task).                    *)
KeyIsSpent ==
    \A i, j \in DOMAIN tasks :
        tasks[i].owner = tasks[j].owner /\ tasks[i].key = tasks[j].key
          => i = j

=============================================================================
