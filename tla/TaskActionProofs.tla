-------------------------- MODULE TaskActionProofs -------------------------
(***************************************************************************)
(* Proofs about TaskAction for any sets of requests, reconcilers,          *)
(* suspensions and commands, and any number of faults.                     *)
(***************************************************************************)
EXTENDS TaskAction, TLAPS

\* A command names a suspension and an action of the instance.
LEMMA CommandFields ==
    ASSUME NEW c \in Commands
    PROVE  c.suspend \in Suspensions /\ c.action \in ActionIds
  BY ConstantsAssumption DEF ConstantsAssumption

\* Before any request, pass or suspension the invariant holds.
LEMMA InitInv == ConstantsAssumption /\ Init => IInv
<1> SUFFICES ASSUME ConstantsAssumption, Init
             PROVE  IInv
  OBVIOUS
<1>1. TypeOK
  BY DEF ConstantsAssumption, Init, TypeOK, Blank, Snapshots, SuspensionStatus,
         HandoffStatus, RequestPc, Answers, ReconcilerPc
<1>2. \A s \in Suspensions : StoreOK(s) /\ EffectOK(s)
  BY DEF Init, StoreOK, EffectOK
<1>3. \A a \in ActionIds : ReceiptOK(a)
  BY DEF Init, ReceiptOK
<1>4. \A r \in Requests : HolderOK(r) /\ RequestOK(r)
  BY DEF Init, HolderOK, Holds, RequestOK
<1>5. \A k \in Reconcilers : ReconcilerOK(k)
  BY DEF Init, ReconcilerOK
<1>6. AcceptedIsDurable /\ RejectionsAreFinal
  BY DEF Init, AcceptedIsDurable, RejectionsAreFinal, TrulyRejected
<1> QED
  BY <1>1, <1>2, <1>3, <1>4, <1>5, <1>6 DEF IInv

\* A request that leaves the stores and the reconcilers alone keeps the types
\* when its own variables keep theirs.
LEMMA RequestAlone ==
    ASSUME TypeOK,
           UNCHANGED <<storeVars, receipts, acks, resumed, reconcilerVars,
                       faults>>,
           pc' \in [Requests -> RequestPc], answer' \in [Requests -> Answers],
           cmd' \in [Requests -> Commands \cup {NoCommand}],
           seen' \in [Requests -> Snapshots]
    PROVE  TypeOK'
  BY DEF TypeOK, storeVars, reconcilerVars

\* What a receipt makes of a command, and a closed suspension, is an answer.
LEMMA VerdictIsAnswer ==
    /\ \A receipt, c : \A absent \in Answers :
         ReceiptVerdict(receipt, c, absent) \in Answers
    /\ \A snapshot, c : \A own \in Answers :
         ClosedVerdict(snapshot, c, own) \in Answers
  BY DEF ReceiptVerdict, ClosedVerdict, Answers

\* Going on, or answering, keeps the types of a request's own variables.
LEMMA ReplyOrGoto ==
    ASSUME NEW r \in Requests, pc \in [Requests -> RequestPc],
           answer \in [Requests -> Answers]
    PROVE  /\ \A label \in RequestPc :
                Goto(r, label) => /\ pc' \in [Requests -> RequestPc]
                                  /\ answer' \in [Requests -> Answers]
           /\ \A a \in Answers :
                Reply(r, a) => /\ pc' \in [Requests -> RequestPc]
                               /\ answer' \in [Requests -> Answers]
<1>1. "done" \in RequestPc
  BY DEF RequestPc
<1> QED
  BY <1>1 DEF Goto, Reply

\* The receipt check answers, or goes on to the compare-and-set.
LEMMA CheckMoves ==
    ASSUME NEW r, CheckReceipt(r)
    PROVE  (\E a \in Answers : Reply(r, a)) \/ Goto(r, "accept")
<1>1. {"none", "ReceiptNotYetAvailable", "InvalidRequest", "Error"}
        \subseteq Answers
  BY DEF Answers
<1>2. CASE ValidateAction(r)
  <2>1. \/ Reply(r, "InvalidRequest")
        \/ Reply(r, "Error")
        \/ Goto(r, "accept")
    BY <1>2, Zenon DEF ValidateAction
  <2> QED
    BY <1>1, <2>1
<1>3. CASE Reply(r, ReceiptVerdict(receipts[cmd[r].action], cmd[r], "none"))
  BY <1>1, <1>3, VerdictIsAnswer
<1>4. CASE Reply(r, ClosedVerdict(seen[r], cmd[r], "ReceiptNotYetAvailable"))
  BY <1>1, <1>4, VerdictIsAnswer
<1> QED
  BY <1>2, <1>3, <1>4 DEF CheckReceipt

\* No handler, at any await, stores a value outside its type.
LEMMA TypeNext ==
    ASSUME IInv, [Next]_vars
    PROVE  TypeOK'
<1> USE ConstantsAssumption DEF ConstantsAssumption, IInv, TypeOK,
        SuspensionStatus, HandoffStatus, RequestPc, Answers, ReconcilerPc,
        Snapshots, storeVars, requestVars, reconcilerVars, Reply, Goto
<1>1. ASSUME NEW s \in Suspensions, OpenSuspension(s) \/ PassDeadline(s)
      PROVE  TypeOK'
  <2>1. CASE OpenSuspension(s)
    BY <2>1 DEF OpenSuspension
  <2>2. CASE PassDeadline(s)
    BY <2>2 DEF PassDeadline
  <2> QED
    BY <1>1, <2>1, <2>2
<1>2. CASE PruneExpiredState
  BY <1>2 DEF PruneExpiredState
<1>3. ASSUME NEW r \in Requests, NEW c \in Commands, Submit(r, c)
      PROVE  TypeOK'
  <2>1. pc' \in [Requests -> RequestPc] /\ answer' \in [Requests -> Answers]
    <3>1. Goto(r, "lookup") \/ Reply(r, "NotFound")
      BY <1>3 DEF Submit
    <3> QED
      BY <3>1, ReplyOrGoto
  <2>2. /\ UNCHANGED <<storeVars, receipts, acks, resumed, seen,
                       reconcilerVars, faults>>
        /\ cmd' = [cmd EXCEPT ![r] = c]
    BY <1>3 DEF Submit
  <2> QED
    BY <2>1, <2>2, RequestAlone
<1>4. ASSUME NEW r \in Requests, RequestStep(r) \/ AbortRequest(r)
      PROVE  TypeOK'
  <2>0. pc[r] # "idle" => /\ cmd[r] \in Commands
                          /\ cmd[r].suspend \in Suspensions
                          /\ cmd[r].action \in ActionIds
    BY CommandFields DEF RequestOK
  <2>1. CASE LookupSuspension(r)
    <3> DEFINE c == cmd[r]
    <3>1. pc[r] = "lookup" /\ c.suspend \in Suspensions
      BY <2>0, <2>1 DEF LookupSuspension
    <3>2. pc' \in [Requests -> RequestPc] /\ answer' \in [Requests -> Answers]
      <4>1. \/ Reply(r, "NotFound")
            \/ Reply(r, "IdempotencyConflict")
            \/ Goto(r, "checkReceipt")
            \/ Reply(r, "InvalidRequest")
        BY <2>1, Zenon DEF LookupSuspension
      <4> QED
        BY <4>1, ReplyOrGoto
    <3>3. /\ UNCHANGED <<storeVars, receipts, acks, resumed, cmd,
                         reconcilerVars, faults>>
          /\ seen' = [seen EXCEPT ![r] = [status |-> status[c.suspend],
                                          winner |-> winner[c.suspend]]]
      BY <2>1 DEF LookupSuspension
    <3>4. seen' \in [Requests -> Snapshots]
      BY <3>1, <3>3
    <3> QED
      BY <3>2, <3>3, <3>4, RequestAlone
  <2>2. CASE CheckReceipt(r)
    <3>1. pc' \in [Requests -> RequestPc] /\ answer' \in [Requests -> Answers]
      <4>1. "accept" \in RequestPc
        OBVIOUS
      <4> QED
        BY <2>2, <4>1, CheckMoves, ReplyOrGoto, Zenon
    <3>2. UNCHANGED <<storeVars, receipts, acks, resumed, cmd, seen,
                      reconcilerVars, faults>>
      BY <2>2 DEF CheckReceipt
    <3> QED
      BY <3>1, <3>2, RequestAlone
  <2>3. CASE AcceptActionIfOpen(r)
    <3>1. CASE status[cmd[r].suspend] = "OPEN"
      <4>1. /\ status' = [status EXCEPT ![cmd[r].suspend] = "RESOLVED"]
            /\ winner' = [winner EXCEPT ![cmd[r].suspend] = cmd[r].action]
            /\ handoff' = [handoff EXCEPT ![cmd[r].suspend] = "PENDING"]
            /\ pc[r] = "accept"
            /\ Goto(r, "save")
            /\ UNCHANGED <<due, receipts, acks, resumed, cmd, seen,
                           reconcilerVars, faults>>
        BY <2>3, <3>1 DEF AcceptActionIfOpen
      <4>2. winner' \in [Suspensions -> ActionIds \cup {NoAction}]
        BY <2>0, <4>1
      <4> QED
        BY <4>1, <4>2
    <3>2. CASE status[cmd[r].suspend] # "OPEN"
      BY <2>3, <3>2 DEF AcceptActionIfOpen
    <3> QED
      BY <3>1, <3>2
  <2>4. CASE RereadSuspension(r)
    <3>1. pc' \in [Requests -> RequestPc] /\ answer' \in [Requests -> Answers]
      <4>1. \/ Goto(r, "lostReceipt")
            \/ Reply(r, "REJECTED_EXPIRED")
            \/ Reply(r, "REJECTED_ALREADY_RESOLVED")
        BY <2>4, Zenon DEF RereadSuspension
      <4> QED
        BY <4>1, ReplyOrGoto
    <3>2. UNCHANGED <<storeVars, receipts, acks, resumed, cmd, seen,
                      reconcilerVars, faults>>
      BY <2>4 DEF RereadSuspension
    <3> QED
      BY <3>1, <3>2, RequestAlone
  <2>5. CASE RereadReceipt(r)
    BY <2>0, <2>5 DEF RereadReceipt, ReceiptVerdict
  <2>6. CASE SaveReceipt(r)
    BY <2>0, <2>6 DEF SaveReceipt
  <2>7. CASE AppendActionAccepted(r)
    BY <2>0, <2>7 DEF AppendActionAccepted
  <2>8. CASE ResumeTask(r)
    BY <2>0, <2>8 DEF ResumeTask, HostResumes
  <2>9. CASE ResumeTaskFails(r)
    <3>1. /\ faults' \in 0..MaxFaults
          /\ resumed' \in [Suspensions -> SUBSET Commands]
      BY <2>0, <2>9 DEF ResumeTaskFails, HostResumeRaises
    <3> QED
      BY <2>9, <3>1 DEF ResumeTaskFails
  <2>10. CASE MarkResumeDispatched(r)
    BY <2>0, <2>10 DEF MarkResumeDispatched
  <2>11. CASE AbortRequest(r)
    BY <2>0, <2>11 DEF AbortRequest
  <2> QED
    BY <1>4, <2>1, <2>2, <2>3, <2>4, <2>5, <2>6, <2>7, <2>8, <2>9, <2>10, <2>11
       DEF RequestStep
<1>5. ASSUME NEW k \in Reconcilers, ReconcilerStep(k) \/ AbortPass(k)
      PROVE  TypeOK'
  <2>0. rpc[k] \in {"resume", "mark"} =>
          item[k] \in Suspensions /\ held[k] \in Commands
    BY DEF ReconcilerOK, Recorded, SuccessfulReceipt
  <2>1. CASE ListPendingResumeHandoffs(k)
    BY <2>1 DEF ListPendingResumeHandoffs, PendingHandoffs
  <2>2. ASSUME NEW s \in Suspensions,
               PassOver(k, s) \/ RefuseA2ui(k, s) \/ FetchReceipt(k, s)
        PROVE  TypeOK'
    <3>1. SuccessfulReceipt(s) \in Commands \cup {NoReceipt}
      BY DEF SuccessfulReceipt
    <3>2. CASE PassOver(k, s)
      BY <3>2 DEF PassOver, Continue
    <3>3. CASE RefuseA2ui(k, s)
      BY <3>3 DEF RefuseA2ui, Continue
    <3>4. CASE FetchReceipt(k, s)
      BY <3>1, <3>4 DEF FetchReceipt
    <3> QED
      BY <2>2, <3>2, <3>3, <3>4
  <2>3. CASE ResumeItem(k)
    BY <2>0, <2>3 DEF ResumeItem, HostResumes
  <2>4. CASE ResumeItemFails(k)
    <3>1. /\ faults' \in 0..MaxFaults
          /\ resumed' \in [Suspensions -> SUBSET Commands]
      BY <2>0, <2>4 DEF ResumeItemFails, HostResumeRaises
    <3> QED
      BY <2>4, <3>1 DEF ResumeItemFails, Continue
  <2>5. CASE MarkItemDispatched(k)
    BY <2>0, <2>5 DEF MarkItemDispatched, Continue
  <2>6. CASE AbortPass(k)
    BY <2>6 DEF AbortPass, Continue
  <2> QED
    BY <1>5, <2>1, <2>2, <2>3, <2>4, <2>5, <2>6 DEF ReconcilerStep
<1>6. CASE UNCHANGED vars
  BY <1>6 DEF vars
<1> QED
  BY <1>1, <1>2, <1>3, <1>4, <1>5, <1>6 DEF Next

\* A request that answered is done and keeps its command.
LEMMA AnsweredCommand ==
    ASSUME IInv, NEW r \in Requests, answer[r] # "none"
    PROVE  /\ pc[r] = "done"
           /\ cmd[r] \in Commands
           /\ cmd[r].suspend \in Suspensions
           /\ cmd[r].action \in ActionIds
  BY CommandFields DEF IInv, RequestOK

\* A request between Submit and its answer holds a command.
LEMMA PendingCommand ==
    ASSUME IInv, NEW r \in Requests, pc[r] # "idle"
    PROVE  /\ cmd[r] \in Commands
           /\ cmd[r].suspend \in Suspensions
           /\ cmd[r].action \in ActionIds
           /\ pc[r] # "done" => answer[r] = "none"
  BY CommandFields DEF IInv, RequestOK

\* A suspension has a winner exactly when it is resolved.
LEMMA ResolvedWinner ==
    ASSUME IInv, NEW s \in Suspensions
    PROVE  /\ winner[s] # NoAction <=> status[s] = "RESOLVED"
           /\ status[s] = "RESOLVED" => winner[s] \in ActionIds
           /\ Recorded(s) => /\ status[s] = "RESOLVED"
                             /\ winner[s] \in ActionIds
                             /\ SuccessfulReceipt(s) = receipts[winner[s]]
                             /\ SuccessfulReceipt(s) \in Commands
  BY ConstantsAssumption, CommandFields
     DEF ConstantsAssumption, IInv, TypeOK, StoreOK, Recorded, SuccessfulReceipt

\* What a request knows between its compare-and-set and its answer.
LEMMA WinningRequest ==
    ASSUME IInv, NEW r \in Requests,
           pc[r] \in {"save", "publish", "resume", "mark"}
    PROVE  /\ Holds(r)
           /\ answer[r] = "none"
           /\ cmd[r] \in Commands
           /\ cmd[r].suspend \in Suspensions
           /\ cmd[r].action \in ActionIds
           /\ winner[cmd[r].suspend] = cmd[r].action
           /\ status[cmd[r].suspend] = "RESOLVED"
           /\ handoff[cmd[r].suspend] # "NONE"
           /\ pc[r] # "save" => /\ receipts[cmd[r].action] = cmd[r]
                                /\ SuccessfulReceipt(cmd[r].suspend) = cmd[r]
                                /\ Recorded(cmd[r].suspend)
<1>1. /\ Holds(r)
      /\ answer[r] = "none"
      /\ cmd[r] \in Commands
      /\ cmd[r].suspend \in Suspensions
      /\ cmd[r].action \in ActionIds
  BY PendingCommand DEF Holds
<1>2. /\ winner[cmd[r].suspend] = cmd[r].action
      /\ pc[r] # "save" => receipts[cmd[r].action] = cmd[r]
  BY <1>1 DEF IInv, HolderOK
<1>3. status[cmd[r].suspend] = "RESOLVED"
  BY <1>1, <1>2, ResolvedWinner, ConstantsAssumption DEF ConstantsAssumption
<1>4. handoff[cmd[r].suspend] # "NONE"
  BY <1>1, <1>3 DEF IInv, StoreOK
<1>5. ASSUME pc[r] # "save"
      PROVE  /\ SuccessfulReceipt(cmd[r].suspend) = cmd[r]
             /\ Recorded(cmd[r].suspend)
  BY <1>1, <1>2, <1>5, ConstantsAssumption
     DEF SuccessfulReceipt, Recorded, ConstantsAssumption
<1> QED
  BY <1>1, <1>2, <1>3, <1>4, <1>5

\* What a reconciler knows between fetching a receipt and closing the handoff.
LEMMA WorkingReconciler ==
    ASSUME IInv, NEW k \in Reconcilers, rpc[k] \in {"resume", "mark"}
    PROVE  /\ item[k] \in Suspensions
           /\ status[item[k]] = "RESOLVED"
           /\ handoff[item[k]] # "NONE"
           /\ Recorded(item[k])
           /\ held[k] = SuccessfulReceipt(item[k])
           /\ held[k] \in Commands
<1>1. /\ item[k] \in Suspensions
      /\ status[item[k]] = "RESOLVED"
      /\ Recorded(item[k])
      /\ held[k] = SuccessfulReceipt(item[k])
  BY DEF IInv, ReconcilerOK
<1> QED
  BY <1>1, ResolvedWinner DEF IInv, StoreOK

\* How CheckReceipt answers or goes on, and on what grounds.
LEMMA CheckReceiptOutcome ==
    ASSUME NEW r \in Requests, CheckReceipt(r)
    PROVE  \/ /\ receipts[cmd[r].action] # NoReceipt
              /\ SameActionReceipt(receipts[cmd[r].action], cmd[r])
              /\ Reply(r, "DEDUPLICATED")
           \/ /\ seen[r].status = "EXPIRED"
              /\ Reply(r, "REJECTED_EXPIRED")
           \/ /\ seen[r].status \notin {"OPEN", "EXPIRED"}
              /\ seen[r].winner # cmd[r].action
              /\ Reply(r, "REJECTED_ALREADY_RESOLVED")
           \/ \E a \in {"IdempotencyConflict", "ReceiptNotYetAvailable",
                         "InvalidRequest", "Error"} : Reply(r, a)
           \/ Goto(r, "accept") /\ Resumable(cmd[r])
<1>1. CASE receipts[cmd[r].action] # NoReceipt
  <2>1. Reply(r, ReceiptVerdict(receipts[cmd[r].action], cmd[r], "none"))
    BY <1>1 DEF CheckReceipt
  <2> QED
    BY <1>1, <2>1 DEF ReceiptVerdict
<1>2. CASE receipts[cmd[r].action] = NoReceipt /\ seen[r].status # "OPEN"
  <2>1. Reply(r, ClosedVerdict(seen[r], cmd[r], "ReceiptNotYetAvailable"))
    BY <1>2 DEF CheckReceipt
  <2> QED
    BY <1>2, <2>1 DEF ClosedVerdict
<1>3. CASE receipts[cmd[r].action] = NoReceipt /\ seen[r].status = "OPEN"
  <2>1. ValidateAction(r)
    BY <1>3 DEF CheckReceipt
  <2>2. \/ Reply(r, "InvalidRequest")
        \/ Reply(r, "Error")
        \/ Goto(r, "accept") /\ Resumable(cmd[r])
    BY <2>1 DEF ValidateAction
  <2> QED
    BY <2>2
<1> QED
  BY <1>1, <1>2, <1>3

\* A new suspension has no winner, receipt or handoff yet.
LEMMA OpenSuspensionInv ==
    ASSUME IInv, TypeOK', NEW s \in Suspensions, OpenSuspension(s)
    PROVE  IInv'
<1> USE DEF IInv, TypeOK, Reply, Goto, storeVars, requestVars, reconcilerVars
<1>1. /\ \A t \in Suspensions : EffectOK(t)'
      /\ \A a \in ActionIds : ReceiptOK(a)'
      /\ \A q \in Requests : HolderOK(q)'
      /\ AcceptedIsDurable'
  BY DEF OpenSuspension, EffectOK, Recorded, SuccessfulReceipt, ReceiptOK,
         HolderOK, Holds, AcceptedIsDurable, DurablyAccepted, SameActionReceipt
<1>2. ASSUME NEW t \in Suspensions
      PROVE  StoreOK(t)'
  BY DEF OpenSuspension, StoreOK
<1>3. ASSUME NEW q \in Requests
      PROVE  RequestOK(q)'
  BY DEF OpenSuspension, RequestOK
<1>4. ASSUME NEW m \in Reconcilers
      PROVE  ReconcilerOK(m)'
  BY DEF OpenSuspension, ReconcilerOK, Recorded, SuccessfulReceipt
<1>5. ASSUME NEW q \in Requests
      PROVE  TrulyRejected(q)'
  BY AnsweredCommand, PendingCommand DEF OpenSuspension, RejectionsAreFinal,
         TrulyRejected
<1> QED
  BY <1>1, <1>2, <1>3, <1>4, <1>5
     DEF AcceptedIsDurable, RejectionsAreFinal

\* A passing deadline changes no stored status by itself.
LEMMA PassDeadlineInv ==
    ASSUME IInv, TypeOK', NEW s \in Suspensions, PassDeadline(s)
    PROVE  IInv'
<1> USE DEF IInv, TypeOK, Reply, Goto, storeVars, requestVars, reconcilerVars
<1>1. /\ \A t \in Suspensions : StoreOK(t)'
      /\ \A t \in Suspensions : EffectOK(t)'
      /\ \A a \in ActionIds : ReceiptOK(a)'
      /\ \A q \in Requests : HolderOK(q)'
      /\ \A q \in Requests : RequestOK(q)'
      /\ \A m \in Reconcilers : ReconcilerOK(m)'
      /\ AcceptedIsDurable'
      /\ RejectionsAreFinal'
  BY DEF PassDeadline, StoreOK, EffectOK, Recorded, SuccessfulReceipt,
         ReceiptOK, HolderOK, Holds, RequestOK, ReconcilerOK,
         AcceptedIsDurable, DurablyAccepted, SameActionReceipt,
         RejectionsAreFinal, TrulyRejected
<1> QED
  BY <1>1

\* Retention expires only OPEN suspensions, so no winner and no rejection
\* already answered is touched.
LEMMA PruneExpiredStateInv ==
    ASSUME IInv, TypeOK', PruneExpiredState
    PROVE  IInv'
<1> USE DEF IInv, TypeOK, Reply, Goto, storeVars, requestVars, reconcilerVars
<1>1. /\ \A s \in Suspensions : EffectOK(s)'
      /\ \A a \in ActionIds : ReceiptOK(a)'
      /\ \A q \in Requests : HolderOK(q)'
      /\ AcceptedIsDurable'
  BY DEF PruneExpiredState, EffectOK, Recorded, SuccessfulReceipt, ReceiptOK,
         HolderOK, Holds, AcceptedIsDurable, DurablyAccepted, SameActionReceipt
<1>2. ASSUME NEW s \in Suspensions
      PROVE  StoreOK(s)'
  BY DEF PruneExpiredState, Expirable, StoreOK
<1>3. ASSUME NEW q \in Requests
      PROVE  RequestOK(q)'
  <2>1. pc[q] # "idle" => cmd[q].suspend \in Suspensions
    BY PendingCommand
  <2>2. \A s \in Suspensions :
          /\ status[s] \in {"RESOLVED", "EXPIRED"} => status'[s] = status[s]
          /\ status[s] # "ABSENT" => status'[s] # "ABSENT"
    BY DEF PruneExpiredState, Expirable
  <2>3. UNCHANGED <<cmd, pc, answer, seen, winner>>
    BY DEF PruneExpiredState
  <2>4. RequestOK(q)
    OBVIOUS
  <2> QED
    BY <2>1, <2>2, <2>3, <2>4 DEF RequestOK
<1>4. ASSUME NEW m \in Reconcilers
      PROVE  ReconcilerOK(m)'
  BY DEF PruneExpiredState, Expirable, ReconcilerOK, Recorded,
         SuccessfulReceipt
<1>5. ASSUME NEW q \in Requests
      PROVE  TrulyRejected(q)'
  BY AnsweredCommand, PendingCommand DEF PruneExpiredState, Expirable,
         RejectionsAreFinal, TrulyRejected
<1> QED
  BY <1>1, <1>2, <1>3, <1>4, <1>5
     DEF AcceptedIsDurable, RejectionsAreFinal

\* A request that starts holds its command and has answered nothing yet.
LEMMA SubmitInv ==
    ASSUME IInv, TypeOK', NEW r \in Requests, NEW c \in Commands, Submit(r, c)
    PROVE  IInv'
<1> USE DEF IInv, TypeOK, Reply, Goto, storeVars, requestVars, reconcilerVars
<1>0. pc[r] = "idle" /\ answer[r] = "none"
  BY DEF Submit, RequestOK
<1>1. /\ \A s \in Suspensions : StoreOK(s)'
      /\ \A s \in Suspensions : EffectOK(s)'
      /\ \A a \in ActionIds : ReceiptOK(a)'
      /\ \A m \in Reconcilers : ReconcilerOK(m)'
  BY DEF Submit, StoreOK, EffectOK, Recorded, SuccessfulReceipt, ReceiptOK,
         ReconcilerOK
<1>2. ASSUME NEW q \in Requests
      PROVE  HolderOK(q)'
  BY <1>0 DEF Submit, HolderOK, Holds
<1>3. ASSUME NEW q \in Requests
      PROVE  RequestOK(q)'
  BY <1>0 DEF Submit, RequestOK
<1>4. ASSUME NEW q \in Requests
      PROVE  (answer[q] \in {"ACCEPTED", "DEDUPLICATED"} => DurablyAccepted(q))'
  BY <1>0, AnsweredCommand, PendingCommand DEF Submit, AcceptedIsDurable,
         DurablyAccepted, SameActionReceipt
<1>5. ASSUME NEW q \in Requests
      PROVE  TrulyRejected(q)'
  BY <1>0, AnsweredCommand, PendingCommand DEF Submit, RejectionsAreFinal,
         TrulyRejected
<1> QED
  BY <1>1, <1>2, <1>3, <1>4, <1>5
     DEF AcceptedIsDurable, RejectionsAreFinal

\* The snapshot of the suspension is true when it is taken.
LEMMA LookupSuspensionInv ==
    ASSUME IInv, TypeOK', NEW r \in Requests, LookupSuspension(r)
    PROVE  IInv'
<1> USE DEF IInv, TypeOK, Reply, Goto, storeVars, requestVars, reconcilerVars
<1>0. /\ pc[r] # "done"
      /\ answer[r] = "none"
      /\ cmd[r] \in Commands
      /\ cmd[r].suspend \in Suspensions
      /\ cmd[r].action \in ActionIds
  BY PendingCommand DEF LookupSuspension
<1>1. /\ \A s \in Suspensions : StoreOK(s)'
      /\ \A s \in Suspensions : EffectOK(s)'
      /\ \A a \in ActionIds : ReceiptOK(a)'
      /\ \A m \in Reconcilers : ReconcilerOK(m)'
  BY DEF LookupSuspension, StoreOK, EffectOK, Recorded, SuccessfulReceipt,
         ReceiptOK, ReconcilerOK
<1>2. ASSUME NEW q \in Requests
      PROVE  HolderOK(q)'
  BY <1>0 DEF LookupSuspension, HolderOK, Holds
<1>3. ASSUME NEW q \in Requests
      PROVE  RequestOK(q)'
  BY <1>0 DEF LookupSuspension, RequestOK
<1>4. ASSUME NEW q \in Requests
      PROVE  (answer[q] \in {"ACCEPTED", "DEDUPLICATED"} => DurablyAccepted(q))'
  BY <1>0, AnsweredCommand, PendingCommand DEF LookupSuspension,
         AcceptedIsDurable, DurablyAccepted, SameActionReceipt
<1>5. ASSUME NEW q \in Requests
      PROVE  TrulyRejected(q)'
  BY <1>0, AnsweredCommand, PendingCommand DEF LookupSuspension,
         RejectionsAreFinal, TrulyRejected
<1> QED
  BY <1>1, <1>2, <1>3, <1>4, <1>5
     DEF AcceptedIsDurable, RejectionsAreFinal

\* Deduplication rests on a stored receipt, a rejection on a snapshot of a
\* final status, however old it is.
LEMMA CheckReceiptInv ==
    ASSUME IInv, TypeOK', NEW r \in Requests, CheckReceipt(r)
    PROVE  IInv'
<1> USE DEF IInv, TypeOK, Reply, Goto, storeVars, requestVars, reconcilerVars
<1>0. /\ pc[r] # "done"
      /\ answer[r] = "none"
      /\ cmd[r] \in Commands
      /\ cmd[r].suspend \in Suspensions
      /\ cmd[r].action \in ActionIds
  BY PendingCommand DEF CheckReceipt
<1>1. /\ \A s \in Suspensions : StoreOK(s)'
      /\ \A s \in Suspensions : EffectOK(s)'
      /\ \A a \in ActionIds : ReceiptOK(a)'
      /\ \A m \in Reconcilers : ReconcilerOK(m)'
  BY DEF CheckReceipt, StoreOK, EffectOK, Recorded, SuccessfulReceipt,
         ReceiptOK, ReconcilerOK
<1>2. ASSUME NEW q \in Requests
      PROVE  HolderOK(q)'
  BY <1>0 DEF CheckReceipt, ReceiptVerdict, ClosedVerdict, ValidateAction,
         HolderOK, Holds
<1>3. ASSUME NEW q \in Requests
      PROVE  RequestOK(q)'
  <2>1. CASE q # r
    BY <2>1, <1>0, AnsweredCommand DEF CheckReceipt, ReceiptVerdict,
       ClosedVerdict, ValidateAction, RequestOK
  <2>2. CASE q = r
    <3>1. \/ /\ receipts[cmd[r].action] # NoReceipt
             /\ SameActionReceipt(receipts[cmd[r].action], cmd[r])
             /\ Reply(r, "DEDUPLICATED")
          \/ /\ seen[r].status = "EXPIRED"
             /\ Reply(r, "REJECTED_EXPIRED")
          \/ /\ seen[r].status \notin {"OPEN", "EXPIRED"}
             /\ seen[r].winner # cmd[r].action
             /\ Reply(r, "REJECTED_ALREADY_RESOLVED")
          \/ \E a \in {"IdempotencyConflict", "ReceiptNotYetAvailable",
                        "InvalidRequest", "Error"} : Reply(r, a)
          \/ Goto(r, "accept") /\ Resumable(cmd[r])
      BY CheckReceiptOutcome
    <3>2. UNCHANGED <<storeVars, receipts, cmd, seen>> /\ pc[r] = "checkReceipt"
      BY DEF CheckReceipt
    <3>3. RequestOK(r) /\ ReceiptOK(cmd[r].action) /\ seen[r] \in Snapshots
      BY <1>0
    <3> QED
      BY <2>2, <3>1, <3>2, <3>3, <1>0
         DEF RequestOK
  <2> QED
    BY <2>1, <2>2
<1>4. ASSUME NEW q \in Requests
      PROVE  (answer[q] \in {"ACCEPTED", "DEDUPLICATED"} => DurablyAccepted(q))'
  <2>1. CASE q # r
    BY <2>1, <1>0, AnsweredCommand DEF CheckReceipt, ReceiptVerdict,
       ClosedVerdict, ValidateAction, AcceptedIsDurable, DurablyAccepted,
       SameActionReceipt
  <2>2. CASE q = r
    <3>1. \/ /\ receipts[cmd[r].action] # NoReceipt
             /\ SameActionReceipt(receipts[cmd[r].action], cmd[r])
             /\ Reply(r, "DEDUPLICATED")
          \/ /\ seen[r].status = "EXPIRED"
             /\ Reply(r, "REJECTED_EXPIRED")
          \/ /\ seen[r].status \notin {"OPEN", "EXPIRED"}
             /\ seen[r].winner # cmd[r].action
             /\ Reply(r, "REJECTED_ALREADY_RESOLVED")
          \/ \E a \in {"IdempotencyConflict", "ReceiptNotYetAvailable",
                        "InvalidRequest", "Error"} : Reply(r, a)
          \/ Goto(r, "accept") /\ Resumable(cmd[r])
      BY CheckReceiptOutcome
    <3>2. UNCHANGED <<storeVars, receipts, cmd, seen>> /\ pc[r] = "checkReceipt"
      BY DEF CheckReceipt
    <3>3. RequestOK(r) /\ ReceiptOK(cmd[r].action) /\ seen[r] \in Snapshots
      BY <1>0
    <3> QED
      BY <2>2, <3>1, <3>2, <3>3, <1>0
         DEF RequestOK, ReceiptOK, DurablyAccepted, SameActionReceipt
  <2> QED
    BY <2>1, <2>2
<1>5. ASSUME NEW q \in Requests
      PROVE  TrulyRejected(q)'
  <2>1. CASE q # r
    BY <2>1, <1>0, AnsweredCommand DEF CheckReceipt, ReceiptVerdict,
       ClosedVerdict, ValidateAction, RejectionsAreFinal, TrulyRejected
  <2>2. CASE q = r
    <3>1. \/ /\ receipts[cmd[r].action] # NoReceipt
             /\ SameActionReceipt(receipts[cmd[r].action], cmd[r])
             /\ Reply(r, "DEDUPLICATED")
          \/ /\ seen[r].status = "EXPIRED"
             /\ Reply(r, "REJECTED_EXPIRED")
          \/ /\ seen[r].status \notin {"OPEN", "EXPIRED"}
             /\ seen[r].winner # cmd[r].action
             /\ Reply(r, "REJECTED_ALREADY_RESOLVED")
          \/ \E a \in {"IdempotencyConflict", "ReceiptNotYetAvailable",
                        "InvalidRequest", "Error"} : Reply(r, a)
          \/ Goto(r, "accept") /\ Resumable(cmd[r])
      BY CheckReceiptOutcome
    <3>2. UNCHANGED <<storeVars, receipts, cmd, seen>> /\ pc[r] = "checkReceipt"
      BY DEF CheckReceipt
    <3>3. RequestOK(r) /\ ReceiptOK(cmd[r].action) /\ seen[r] \in Snapshots
      BY <1>0
    <3> QED
      BY <2>2, <3>1, <3>2, <3>3, <1>0
         DEF RequestOK, TrulyRejected, Snapshots, SuspensionStatus
  <2> QED
    BY <2>1, <2>2
<1> QED
  BY <1>1, <1>2, <1>3, <1>4, <1>5
     DEF AcceptedIsDurable, RejectionsAreFinal

\* The compare-and-set makes its request the only holder of the suspension.
LEMMA AcceptActionIfOpenInv ==
    ASSUME UniqueActionIds, IInv, TypeOK', NEW r \in Requests, AcceptActionIfOpen(r)
    PROVE  IInv'
<1> USE DEF IInv, TypeOK, Reply, Goto, storeVars, requestVars, reconcilerVars
<1>0. /\ pc[r] # "done"
      /\ answer[r] = "none"
      /\ cmd[r] \in Commands
      /\ cmd[r].suspend \in Suspensions
      /\ cmd[r].action \in ActionIds
  BY PendingCommand DEF AcceptActionIfOpen
<1>1. ASSUME NEW s \in Suspensions
      PROVE  StoreOK(s)'
  BY <1>0 DEF AcceptActionIfOpen, StoreOK
<1>2. ASSUME NEW s \in Suspensions
      PROVE  EffectOK(s)'
  <2> DEFINE s0 == cmd[r].suspend
  <2>0. CASE status[s0] # "OPEN"
    BY <2>0, <1>0 DEF AcceptActionIfOpen, EffectOK, Recorded,
       SuccessfulReceipt
  <2>1. CASE status[s0] = "OPEN"
    <3>1. /\ status' = [status EXCEPT ![s0] = "RESOLVED"]
          /\ winner' = [winner EXCEPT ![s0] = cmd[r].action]
          /\ handoff' = [handoff EXCEPT ![s0] = "PENDING"]
          /\ pc' = [pc EXCEPT ![r] = "save"] /\ pc[r] = "accept"
          /\ UNCHANGED <<receipts, acks, resumed, cmd, seen, answer>>
      BY <2>1 DEF AcceptActionIfOpen
    <3>2. /\ winner[s0] = NoAction
          /\ handoff[s0] = "NONE"
          /\ ~Recorded(s0)
          /\ s0 \in Suspensions
      BY <1>0, <2>1, ResolvedWinner DEF StoreOK
    <3>3. acks[s0] = 0 /\ resumed[s0] = {}
      BY <3>2 DEF EffectOK
    <3> QED
      BY <3>1, <3>2, <3>3 DEF EffectOK, Recorded, SuccessfulReceipt
  <2> QED
    BY <2>0, <2>1
<1>3. ASSUME NEW a \in ActionIds
      PROVE  ReceiptOK(a)'
  <2> DEFINE s0 == cmd[r].suspend
  <2>0. CASE status[s0] # "OPEN"
    BY <2>0, <1>0 DEF AcceptActionIfOpen, ReceiptOK
  <2>1. CASE status[s0] = "OPEN"
    <3>1. /\ status' = [status EXCEPT ![s0] = "RESOLVED"]
          /\ winner' = [winner EXCEPT ![s0] = cmd[r].action]
          /\ handoff' = [handoff EXCEPT ![s0] = "PENDING"]
          /\ pc' = [pc EXCEPT ![r] = "save"] /\ pc[r] = "accept"
          /\ UNCHANGED <<receipts, acks, resumed, cmd, seen, answer>>
      BY <2>1 DEF AcceptActionIfOpen
    <3>2. /\ winner[s0] = NoAction
          /\ handoff[s0] = "NONE"
          /\ ~Recorded(s0)
          /\ s0 \in Suspensions
      BY <1>0, <2>1, ResolvedWinner DEF StoreOK
    <3>3. receipts[a] # NoReceipt => receipts[a].suspend # s0
      BY <3>2, ConstantsAssumption DEF ReceiptOK, ConstantsAssumption
    <3>4. receipts[a] # NoReceipt => receipts[a].suspend \in Suspensions
      BY CommandFields
    <3> QED
      BY <3>1, <3>3, <3>4 DEF ReceiptOK
  <2> QED
    BY <2>0, <2>1
<1>4. ASSUME NEW q \in Requests
      PROVE  HolderOK(q)'
  <2> DEFINE s0 == cmd[r].suspend
  <2>0. CASE status[s0] # "OPEN"
    BY <2>0, <1>0 DEF AcceptActionIfOpen, HolderOK, Holds
  <2>1. CASE status[s0] = "OPEN"
    <3>1. /\ status' = [status EXCEPT ![s0] = "RESOLVED"]
          /\ winner' = [winner EXCEPT ![s0] = cmd[r].action]
          /\ handoff' = [handoff EXCEPT ![s0] = "PENDING"]
          /\ pc' = [pc EXCEPT ![r] = "save"] /\ pc[r] = "accept"
          /\ UNCHANGED <<receipts, acks, resumed, cmd, seen, answer>>
      BY <2>1 DEF AcceptActionIfOpen
    <3>2. /\ winner[s0] = NoAction
          /\ handoff[s0] = "NONE"
          /\ ~Recorded(s0)
          /\ s0 \in Suspensions
      BY <1>0, <2>1, ResolvedWinner DEF StoreOK
    <3>3. \A p \in Requests : Holds(p) =>
            /\ cmd[p].suspend # s0
            /\ cmd[p].suspend \in Suspensions
            /\ cmd[p].action \in ActionIds
      <4> SUFFICES ASSUME NEW p \in Requests, Holds(p)
                   PROVE  /\ cmd[p].suspend # s0
                          /\ cmd[p].suspend \in Suspensions
                          /\ cmd[p].action \in ActionIds
        OBVIOUS
      <4>1. cmd[p].suspend \in Suspensions /\ cmd[p].action \in ActionIds
        BY AnsweredCommand, PendingCommand DEF Holds
      <4>2. winner[cmd[p].suspend] = cmd[p].action
        BY DEF HolderOK
      <4> QED
        BY <4>1, <4>2, <3>2, ConstantsAssumption DEF ConstantsAssumption
    <3>4. \A p \in Requests \ {r} : Holds(p)' <=> Holds(p)
      BY <3>1 DEF Holds
    <3>5. CASE q # r
      <4>1. HolderOK(q)
        OBVIOUS
      <4> QED
        BY <3>1, <3>3, <3>4, <3>5, <4>1, <1>0 DEF HolderOK
    <3>6. CASE q = r
      <4>1. receipts[cmd[r].action] = NoReceipt
        <5> SUFFICES ASSUME receipts[cmd[r].action] # NoReceipt
                     PROVE  FALSE
          OBVIOUS
        <5>1. /\ receipts[cmd[r].action] \in Commands
              /\ receipts[cmd[r].action].action = cmd[r].action
              /\ winner[receipts[cmd[r].action].suspend] = cmd[r].action
          BY <1>0 DEF ReceiptOK
        <5>2. receipts[cmd[r].action].suspend = s0
          BY <5>1, <1>0 DEF UniqueActionIds
        <5> QED
          BY <5>1, <5>2, <3>2, <1>0, ConstantsAssumption
             DEF ConstantsAssumption
      <4>2. acks[s0] = 0
        BY <3>2 DEF EffectOK
      <4>3. WithMetadata(cmd[r]) /\ Resumable(cmd[r])
        BY <3>1 DEF RequestOK
      <4>4. /\ cmd'[r] = cmd[r] /\ winner'[s0] = cmd[r].action
            /\ pc'[r] = "save"
        BY <3>1, <3>2
      <4>5. \A p \in Requests \ {r} : ~(Holds(p)' /\ cmd'[p].suspend = s0)
        BY <3>1, <3>3, <3>4
      <4> QED
        BY <3>1, <3>6, <4>1, <4>2, <4>3, <4>4, <4>5
           DEF HolderOK, WithMetadata, Resumable
    <3> QED
      BY <3>5, <3>6
  <2> QED
    BY <2>0, <2>1
<1>5. ASSUME NEW q \in Requests
      PROVE  RequestOK(q)'
  <2> DEFINE s0 == cmd[r].suspend
  <2>0. CASE status[s0] # "OPEN"
    BY <2>0, <1>0 DEF AcceptActionIfOpen, RequestOK, SuspensionStatus
  <2>1. CASE status[s0] = "OPEN"
    <3>1. /\ status' = [status EXCEPT ![s0] = "RESOLVED"]
          /\ winner' = [winner EXCEPT ![s0] = cmd[r].action]
          /\ handoff' = [handoff EXCEPT ![s0] = "PENDING"]
          /\ pc' = [pc EXCEPT ![r] = "save"] /\ pc[r] = "accept"
          /\ UNCHANGED <<receipts, acks, resumed, cmd, seen, answer>>
      BY <2>1 DEF AcceptActionIfOpen
    <3>2. /\ winner[s0] = NoAction
          /\ handoff[s0] = "NONE"
          /\ ~Recorded(s0)
          /\ s0 \in Suspensions
      BY <1>0, <2>1, ResolvedWinner DEF StoreOK
    <3>3. RequestOK(q) /\ (pc[q] # "idle" => cmd[q].suspend \in Suspensions)
      BY PendingCommand
    <3>4. pc[q] = "lostReceipt" => cmd[q].suspend # s0
      BY <3>2, <3>3, PendingCommand, ConstantsAssumption
         DEF RequestOK, ConstantsAssumption
    <3>5. \A s \in Suspensions :
            /\ s # s0 => status'[s] = status[s] /\ winner'[s] = winner[s]
            /\ s = s0 => status'[s] = "RESOLVED"
      BY <3>1
    <3>6. CASE q = r
      BY <3>1, <3>3, <3>6 DEF RequestOK
    <3>7. CASE q # r
      BY <3>1, <3>3, <3>4, <3>5, <3>7, <2>1 DEF RequestOK
    <3> QED
      BY <3>6, <3>7
  <2> QED
    BY <2>0, <2>1
<1>6. ASSUME NEW m \in Reconcilers
      PROVE  ReconcilerOK(m)'
  BY <1>0 DEF AcceptActionIfOpen, ReconcilerOK, Recorded, SuccessfulReceipt
<1>7. ASSUME NEW q \in Requests
      PROVE  (answer[q] \in {"ACCEPTED", "DEDUPLICATED"} => DurablyAccepted(q))'
  <2> DEFINE s0 == cmd[r].suspend
  <2>0. CASE status[s0] # "OPEN"
    BY <2>0, <1>0 DEF AcceptActionIfOpen, AcceptedIsDurable,
       DurablyAccepted, SameActionReceipt
  <2>1. CASE status[s0] = "OPEN"
    <3>1. /\ status' = [status EXCEPT ![s0] = "RESOLVED"]
          /\ winner' = [winner EXCEPT ![s0] = cmd[r].action]
          /\ handoff' = [handoff EXCEPT ![s0] = "PENDING"]
          /\ pc' = [pc EXCEPT ![r] = "save"] /\ pc[r] = "accept"
          /\ UNCHANGED <<receipts, acks, resumed, cmd, seen, answer>>
      BY <2>1 DEF AcceptActionIfOpen
    <3>2. /\ winner[s0] = NoAction
          /\ handoff[s0] = "NONE"
          /\ ~Recorded(s0)
          /\ s0 \in Suspensions
      BY <1>0, <2>1, ResolvedWinner DEF StoreOK
    <3>3. answer[q] # "none" => cmd[q].suspend \in Suspensions
                               /\ cmd[q].action \in ActionIds
      BY AnsweredCommand
    <3> QED
      BY <3>1, <3>2, <3>3, ConstantsAssumption
         DEF AcceptedIsDurable, DurablyAccepted, SameActionReceipt,
             ConstantsAssumption
  <2> QED
    BY <2>0, <2>1
<1>8. ASSUME NEW q \in Requests
      PROVE  TrulyRejected(q)'
  BY <1>0, AnsweredCommand, PendingCommand DEF AcceptActionIfOpen,
         RejectionsAreFinal, TrulyRejected
<1> QED
  BY <1>1, <1>2, <1>3, <1>4, <1>5, <1>6, <1>7, <1>8
     DEF AcceptedIsDurable, RejectionsAreFinal

\* A request that lost the compare-and-set rejects on a final status.
LEMMA RereadSuspensionInv ==
    ASSUME IInv, TypeOK', NEW r \in Requests, RereadSuspension(r)
    PROVE  IInv'
<1> USE DEF IInv, TypeOK, Reply, Goto, storeVars, requestVars, reconcilerVars
<1>0. /\ pc[r] # "done"
      /\ answer[r] = "none"
      /\ cmd[r] \in Commands
      /\ cmd[r].suspend \in Suspensions
      /\ cmd[r].action \in ActionIds
  BY PendingCommand DEF RereadSuspension
<1>1. /\ \A s \in Suspensions : StoreOK(s)'
      /\ \A s \in Suspensions : EffectOK(s)'
      /\ \A a \in ActionIds : ReceiptOK(a)'
      /\ \A m \in Reconcilers : ReconcilerOK(m)'
  BY DEF RereadSuspension, StoreOK, EffectOK, Recorded, SuccessfulReceipt,
         ReceiptOK, ReconcilerOK
<1>2. ASSUME NEW q \in Requests
      PROVE  HolderOK(q)'
  BY <1>0 DEF RereadSuspension, HolderOK, Holds
<1>3. ASSUME NEW q \in Requests
      PROVE  RequestOK(q)'
  BY <1>0 DEF RereadSuspension, RequestOK
<1>4. ASSUME NEW q \in Requests
      PROVE  (answer[q] \in {"ACCEPTED", "DEDUPLICATED"} => DurablyAccepted(q))'
  BY <1>0, AnsweredCommand, PendingCommand DEF RereadSuspension,
         AcceptedIsDurable, DurablyAccepted, SameActionReceipt
<1>5. ASSUME NEW q \in Requests
      PROVE  TrulyRejected(q)'
  <2>1. CASE q # r
    BY <2>1, <1>0, AnsweredCommand DEF RereadSuspension, RejectionsAreFinal,
       TrulyRejected
  <2>2. CASE q = r
    <3>1. status[cmd[r].suspend] \in {"RESOLVED", "EXPIRED"}
      BY DEF RereadSuspension, RequestOK
    <3> QED
      BY <2>2, <3>1, <1>0 DEF RereadSuspension, TrulyRejected
  <2> QED
    BY <2>1, <2>2
<1> QED
  BY <1>1, <1>2, <1>3, <1>4, <1>5
     DEF AcceptedIsDurable, RejectionsAreFinal

\* A lost request of the winning action deduplicates on the stored receipt.
LEMMA RereadReceiptInv ==
    ASSUME IInv, TypeOK', NEW r \in Requests, RereadReceipt(r)
    PROVE  IInv'
<1> USE DEF IInv, TypeOK, Reply, Goto, storeVars, requestVars, reconcilerVars
<1>0. /\ pc[r] # "done"
      /\ answer[r] = "none"
      /\ cmd[r] \in Commands
      /\ cmd[r].suspend \in Suspensions
      /\ cmd[r].action \in ActionIds
  BY PendingCommand DEF RereadReceipt
<1>1. /\ \A s \in Suspensions : StoreOK(s)'
      /\ \A s \in Suspensions : EffectOK(s)'
      /\ \A a \in ActionIds : ReceiptOK(a)'
      /\ \A m \in Reconcilers : ReconcilerOK(m)'
  BY DEF RereadReceipt, StoreOK, EffectOK, Recorded, SuccessfulReceipt,
         ReceiptOK, ReconcilerOK
<1>2. ASSUME NEW q \in Requests
      PROVE  HolderOK(q)'
  BY <1>0 DEF RereadReceipt, ReceiptVerdict, HolderOK, Holds
<1>3. ASSUME NEW q \in Requests
      PROVE  RequestOK(q)'
  BY <1>0 DEF RereadReceipt, ReceiptVerdict, RequestOK
<1>4. ASSUME NEW q \in Requests
      PROVE  (answer[q] \in {"ACCEPTED", "DEDUPLICATED"} => DurablyAccepted(q))'
  <2>1. CASE q # r
    BY <2>1, <1>0, AnsweredCommand DEF RereadReceipt, AcceptedIsDurable,
       DurablyAccepted, SameActionReceipt
  <2>2. CASE q = r
    <3>1. winner[cmd[r].suspend] = cmd[r].action
      BY DEF RereadReceipt, RequestOK
    <3> QED
      BY <2>2, <3>1, <1>0 DEF RereadReceipt, ReceiptVerdict, DurablyAccepted,
         SameActionReceipt
  <2> QED
    BY <2>1, <2>2
<1>5. ASSUME NEW q \in Requests
      PROVE  TrulyRejected(q)'
  BY <1>0, AnsweredCommand, PendingCommand DEF RereadReceipt, ReceiptVerdict,
         RejectionsAreFinal, TrulyRejected
<1> QED
  BY <1>1, <1>2, <1>3, <1>4, <1>5
     DEF AcceptedIsDurable, RejectionsAreFinal

\* The winner's receipt is the first one of its action.
LEMMA SaveReceiptInv ==
    ASSUME UniqueActionIds, IInv, TypeOK', NEW r \in Requests, SaveReceipt(r)
    PROVE  IInv'
<1> USE DEF IInv, TypeOK, Reply, Goto, storeVars, requestVars, reconcilerVars
<1>0. /\ Holds(r)
      /\ answer[r] = "none"
      /\ cmd[r] \in Commands
      /\ cmd[r].suspend \in Suspensions
      /\ cmd[r].action \in ActionIds
      /\ winner[cmd[r].suspend] = cmd[r].action
      /\ status[cmd[r].suspend] = "RESOLVED"
  BY WinningRequest DEF SaveReceipt
<1>1. /\ \A s \in Suspensions : StoreOK(s)'
      /\ RejectionsAreFinal'
  BY DEF SaveReceipt, StoreOK, RejectionsAreFinal, TrulyRejected
<1>2. ASSUME NEW s \in Suspensions
      PROVE  EffectOK(s)'
  <2> DEFINE a0 == cmd[r].action
  <2>1. /\ receipts[a0] = NoReceipt
        /\ receipts' = [receipts EXCEPT ![a0] = cmd[r]]
        /\ pc[r] = "save" /\ pc' = [pc EXCEPT ![r] = "publish"]
        /\ UNCHANGED <<status, winner, handoff, acks, resumed, cmd, answer,
                       rpc, todo, item, held>>
    BY <1>0 DEF SaveReceipt, HolderOK
  <2>2. CASE winner[s] = a0
    <3>1. ~Recorded(s)
      BY <2>1, <2>2, <1>0 DEF Recorded, SuccessfulReceipt
    <3> QED
      BY <2>1, <3>1 DEF EffectOK
  <2>3. CASE winner[s] # a0
    <3>1. SuccessfulReceipt(s)' = SuccessfulReceipt(s)
      BY <2>1, <2>3 DEF SuccessfulReceipt
    <3> QED
      BY <2>1, <3>1 DEF EffectOK, Recorded
  <2> QED
    BY <2>2, <2>3
<1>3. ASSUME NEW a \in ActionIds
      PROVE  ReceiptOK(a)'
  <2> DEFINE a0 == cmd[r].action
  <2>1. /\ receipts[a0] = NoReceipt
        /\ receipts' = [receipts EXCEPT ![a0] = cmd[r]]
        /\ pc[r] = "save" /\ pc' = [pc EXCEPT ![r] = "publish"]
        /\ UNCHANGED <<status, winner, handoff, acks, resumed, cmd, answer,
                       rpc, todo, item, held>>
    BY <1>0 DEF SaveReceipt, HolderOK
  <2>2. CASE a = a0
    <3>1. WithMetadata(cmd[r]) /\ Resumable(cmd[r])
      BY <1>0 DEF HolderOK
    <3>2. receipts'[a] = cmd[r]
      BY <2>1, <2>2
    <3> QED
      BY <1>0, <2>1, <2>2, <3>1, <3>2 DEF ReceiptOK, WithMetadata, Resumable
  <2>3. CASE a # a0
    BY <2>1, <2>3 DEF ReceiptOK
  <2> QED
    BY <2>2, <2>3
<1>4. ASSUME NEW q \in Requests
      PROVE  HolderOK(q)'
  <2> DEFINE a0 == cmd[r].action
  <2>1. /\ receipts[a0] = NoReceipt
        /\ receipts' = [receipts EXCEPT ![a0] = cmd[r]]
        /\ pc[r] = "save" /\ pc' = [pc EXCEPT ![r] = "publish"]
        /\ UNCHANGED <<status, winner, handoff, acks, resumed, cmd, answer,
                       rpc, todo, item, held>>
    BY <1>0 DEF SaveReceipt, HolderOK
  <2>2. \A p \in Requests : Holds(p)' <=> Holds(p)
    BY <1>0, <2>1 DEF Holds
  <2>3. CASE q = r
    <3>1. HolderOK(r)
      OBVIOUS
    <3> QED
      BY <1>0, <2>1, <2>2, <2>3, <3>1 DEF HolderOK, WithMetadata, Resumable
  <2>4. CASE q # r
    <3>1. ASSUME Holds(q)
          PROVE  cmd[q].action # a0
      <4>1. cmd[q] \in Commands
        BY <3>1, AnsweredCommand, PendingCommand DEF Holds
      <4>2. cmd[q].suspend # cmd[r].suspend
        BY <3>1, <2>4, <1>0 DEF HolderOK
      <4> QED
        BY <4>1, <4>2, <1>0 DEF UniqueActionIds
    <3>2. ASSUME Holds(q)
          PROVE  cmd[q].action \in ActionIds
      BY <3>2, AnsweredCommand, PendingCommand DEF Holds
    <3>3. HolderOK(q)
      OBVIOUS
    <3> QED
      BY <2>1, <2>2, <2>4, <3>1, <3>2, <3>3
         DEF HolderOK, WithMetadata, Resumable
  <2> QED
    BY <2>3, <2>4
<1>5. ASSUME NEW q \in Requests
      PROVE  RequestOK(q)'
  BY <1>0 DEF SaveReceipt, RequestOK
<1>6. ASSUME NEW m \in Reconcilers
      PROVE  ReconcilerOK(m)'
  <2> DEFINE a0 == cmd[r].action
  <2>1. /\ receipts[a0] = NoReceipt
        /\ receipts' = [receipts EXCEPT ![a0] = cmd[r]]
        /\ pc[r] = "save" /\ pc' = [pc EXCEPT ![r] = "publish"]
        /\ UNCHANGED <<status, winner, handoff, acks, resumed, cmd, answer,
                       rpc, todo, item, held>>
    BY <1>0 DEF SaveReceipt, HolderOK
  <2>2. ReconcilerOK(m)
    OBVIOUS
  <2>3. ASSUME NEW s \in Suspensions, Recorded(s)
        PROVE  SuccessfulReceipt(s)' = SuccessfulReceipt(s) /\ Recorded(s)'
    BY <2>1, <2>3 DEF Recorded, SuccessfulReceipt
  <2> QED
    BY <2>1, <2>2, <2>3 DEF ReconcilerOK
<1>7. ASSUME NEW q \in Requests
      PROVE  (answer[q] \in {"ACCEPTED", "DEDUPLICATED"} => DurablyAccepted(q))'
  <2> DEFINE a0 == cmd[r].action
  <2>1. /\ receipts[a0] = NoReceipt
        /\ receipts' = [receipts EXCEPT ![a0] = cmd[r]]
        /\ pc[r] = "save" /\ pc' = [pc EXCEPT ![r] = "publish"]
        /\ UNCHANGED <<status, winner, handoff, acks, resumed, cmd, answer,
                       rpc, todo, item, held>>
    BY <1>0 DEF SaveReceipt, HolderOK
  <2>2. answer[q] # "none" => cmd[q].action \in ActionIds
    BY AnsweredCommand
  <2> QED
    BY <2>1, <2>2 DEF AcceptedIsDurable, DurablyAccepted, SameActionReceipt
<1> QED
  BY <1>1, <1>2, <1>3, <1>4, <1>5, <1>6, <1>7
     DEF AcceptedIsDurable, RejectionsAreFinal

\* The accepted event is appended once, after the receipt.
LEMMA AppendActionAcceptedInv ==
    ASSUME IInv, TypeOK', NEW r \in Requests, AppendActionAccepted(r)
    PROVE  IInv'
<1> USE DEF IInv, TypeOK, Reply, Goto, storeVars, requestVars, reconcilerVars
<1>0. /\ Holds(r)
      /\ answer[r] = "none"
      /\ cmd[r] \in Commands
      /\ cmd[r].suspend \in Suspensions
      /\ cmd[r].action \in ActionIds
      /\ winner[cmd[r].suspend] = cmd[r].action
      /\ status[cmd[r].suspend] = "RESOLVED"
      /\ handoff[cmd[r].suspend] # "NONE"
      /\ receipts[cmd[r].action] = cmd[r]
      /\ SuccessfulReceipt(cmd[r].suspend) = cmd[r]
      /\ Recorded(cmd[r].suspend)
  BY WinningRequest DEF AppendActionAccepted
<1>1. /\ \A s \in Suspensions : StoreOK(s)'
      /\ \A a \in ActionIds : ReceiptOK(a)'
      /\ \A m \in Reconcilers : ReconcilerOK(m)'
      /\ AcceptedIsDurable'
      /\ RejectionsAreFinal'
  BY DEF AppendActionAccepted, StoreOK, ReceiptOK, ReconcilerOK, Recorded,
         SuccessfulReceipt, AcceptedIsDurable, DurablyAccepted,
         SameActionReceipt, RejectionsAreFinal, TrulyRejected
<1>2. ASSUME NEW s \in Suspensions
      PROVE  EffectOK(s)'
  <2>1. acks[cmd[r].suspend] = 0
    BY <1>0 DEF AppendActionAccepted, HolderOK
  <2>2. /\ acks' = [acks EXCEPT ![cmd[r].suspend] = 1]
        /\ UNCHANGED <<winner, receipts, resumed, handoff>>
    BY <1>0, <2>1 DEF AppendActionAccepted
  <2>3. Recorded(s)' = Recorded(s) /\ SuccessfulReceipt(s)' = SuccessfulReceipt(s)
    BY <2>2 DEF Recorded, SuccessfulReceipt
  <2> QED
    BY <1>0, <2>2, <2>3 DEF EffectOK
<1>3. ASSUME NEW q \in Requests
      PROVE  HolderOK(q)'
  BY <1>0 DEF AppendActionAccepted, HolderOK, Holds
<1>4. ASSUME NEW q \in Requests
      PROVE  RequestOK(q)'
  BY <1>0 DEF AppendActionAccepted, RequestOK
<1> QED
  BY <1>1, <1>2, <1>3, <1>4

\* The request resumes the host with the command its receipt stores.
LEMMA ResumeTaskInv ==
    ASSUME IInv, TypeOK', NEW r \in Requests, ResumeTask(r)
    PROVE  IInv'
<1> USE DEF IInv, TypeOK, Reply, Goto, storeVars, requestVars, reconcilerVars
<1>0. /\ Holds(r)
      /\ answer[r] = "none"
      /\ cmd[r] \in Commands
      /\ cmd[r].suspend \in Suspensions
      /\ cmd[r].action \in ActionIds
      /\ winner[cmd[r].suspend] = cmd[r].action
      /\ status[cmd[r].suspend] = "RESOLVED"
      /\ handoff[cmd[r].suspend] # "NONE"
      /\ receipts[cmd[r].action] = cmd[r]
      /\ SuccessfulReceipt(cmd[r].suspend) = cmd[r]
      /\ Recorded(cmd[r].suspend)
  BY WinningRequest DEF ResumeTask
<1>1. /\ \A s \in Suspensions : StoreOK(s)'
      /\ \A a \in ActionIds : ReceiptOK(a)'
      /\ AcceptedIsDurable'
      /\ RejectionsAreFinal'
  BY DEF ResumeTask, HostResumes, StoreOK, ReceiptOK, AcceptedIsDurable,
         DurablyAccepted, SameActionReceipt, RejectionsAreFinal, TrulyRejected
<1>2. ASSUME NEW s \in Suspensions
      PROVE  EffectOK(s)'
  BY <1>0 DEF ResumeTask, HostResumes, EffectOK, Recorded, SuccessfulReceipt
<1>3. ASSUME NEW q \in Requests
      PROVE  HolderOK(q)'
  <2>1. \A s \in Suspensions : resumed[s] # {} => resumed'[s] # {}
    BY DEF ResumeTask, HostResumes
  <2>2. HolderOK(q)
    OBVIOUS
  <2>3. ASSUME Holds(q)
        PROVE  cmd[q].suspend \in Suspensions
    BY <2>3, AnsweredCommand, PendingCommand DEF Holds
  <2>4. /\ \A p \in Requests : Holds(p)' <=> Holds(p)
        /\ resumed'[cmd[r].suspend] # {}
        /\ pc[r] = "resume" /\ pc' = [pc EXCEPT ![r] = "mark"]
        /\ UNCHANGED <<cmd, winner, receipts, acks>>
    BY <1>0 DEF ResumeTask, HostResumes, Holds
  <2> QED
    BY <2>1, <2>2, <2>3, <2>4 DEF HolderOK, WithMetadata, Resumable
<1>4. ASSUME NEW q \in Requests
      PROVE  RequestOK(q)'
  BY <1>0 DEF ResumeTask, HostResumes, RequestOK
<1>5. ASSUME NEW m \in Reconcilers
      PROVE  ReconcilerOK(m)'
  BY <1>0 DEF ResumeTask, HostResumes, ReconcilerOK, Recorded,
         SuccessfulReceipt
<1> QED
  BY <1>1, <1>2, <1>3, <1>4, <1>5

\* A raising hook leaves the accepted action and its receipt in place.
LEMMA ResumeTaskFailsInv ==
    ASSUME IInv, TypeOK', NEW r \in Requests, ResumeTaskFails(r)
    PROVE  IInv'
<1> USE DEF IInv, TypeOK, Reply, Goto, storeVars, requestVars, reconcilerVars
<1>0. /\ Holds(r)
      /\ answer[r] = "none"
      /\ cmd[r] \in Commands
      /\ cmd[r].suspend \in Suspensions
      /\ cmd[r].action \in ActionIds
      /\ winner[cmd[r].suspend] = cmd[r].action
      /\ status[cmd[r].suspend] = "RESOLVED"
      /\ handoff[cmd[r].suspend] # "NONE"
      /\ receipts[cmd[r].action] = cmd[r]
      /\ SuccessfulReceipt(cmd[r].suspend) = cmd[r]
      /\ Recorded(cmd[r].suspend)
  BY WinningRequest DEF ResumeTaskFails
<1>1. /\ \A s \in Suspensions : StoreOK(s)'
      /\ \A a \in ActionIds : ReceiptOK(a)'
  BY DEF ResumeTaskFails, HostResumeRaises, StoreOK, ReceiptOK
<1>2. ASSUME NEW s \in Suspensions
      PROVE  EffectOK(s)'
  BY <1>0 DEF ResumeTaskFails, HostResumeRaises, EffectOK, Recorded,
         SuccessfulReceipt
<1>3. ASSUME NEW q \in Requests
      PROVE  HolderOK(q)'
  <2>1. \A s \in Suspensions : resumed[s] # {} => resumed'[s] # {}
    BY DEF ResumeTaskFails, HostResumeRaises
  <2>2. HolderOK(q)
    OBVIOUS
  <2>3. ASSUME Holds(q)
        PROVE  cmd[q].suspend \in Suspensions
    BY <2>3, AnsweredCommand, PendingCommand DEF Holds
  <2>4. /\ \A p \in Requests : Holds(p)' <=> Holds(p)
        /\ pc[r] = "resume" /\ pc' = [pc EXCEPT ![r] = "done"]
        /\ UNCHANGED <<cmd, winner, receipts, acks>>
    BY <1>0 DEF ResumeTaskFails, Holds
  <2> QED
    BY <2>1, <2>2, <2>3, <2>4 DEF HolderOK, WithMetadata, Resumable
<1>4. ASSUME NEW q \in Requests
      PROVE  RequestOK(q)'
  BY <1>0 DEF ResumeTaskFails, HostResumeRaises, RequestOK
<1>5. ASSUME NEW m \in Reconcilers
      PROVE  ReconcilerOK(m)'
  BY <1>0 DEF ResumeTaskFails, HostResumeRaises, ReconcilerOK, Recorded,
         SuccessfulReceipt
<1>6. ASSUME NEW q \in Requests
      PROVE  (answer[q] \in {"ACCEPTED", "DEDUPLICATED"} => DurablyAccepted(q))'
  <2>1. CASE q # r
    BY <2>1, <1>0, AnsweredCommand DEF ResumeTaskFails, AcceptedIsDurable,
       DurablyAccepted, SameActionReceipt
  <2>2. CASE q = r
    BY <2>2, <1>0, ConstantsAssumption DEF ResumeTaskFails, DurablyAccepted,
       SameActionReceipt, ConstantsAssumption
  <2> QED
    BY <2>1, <2>2
<1>7. ASSUME NEW q \in Requests
      PROVE  TrulyRejected(q)'
  BY <1>0, AnsweredCommand, PendingCommand DEF ResumeTaskFails,
         HostResumeRaises, RejectionsAreFinal, TrulyRejected
<1> QED
  BY <1>1, <1>2, <1>3, <1>4, <1>5, <1>6, <1>7
     DEF AcceptedIsDurable, RejectionsAreFinal

\* The request closes the handoff only after the host took the command.
LEMMA MarkResumeDispatchedInv ==
    ASSUME IInv, TypeOK', NEW r \in Requests, MarkResumeDispatched(r)
    PROVE  IInv'
<1> USE DEF IInv, TypeOK, Reply, Goto, storeVars, requestVars, reconcilerVars
<1>0. /\ Holds(r)
      /\ answer[r] = "none"
      /\ cmd[r] \in Commands
      /\ cmd[r].suspend \in Suspensions
      /\ cmd[r].action \in ActionIds
      /\ winner[cmd[r].suspend] = cmd[r].action
      /\ status[cmd[r].suspend] = "RESOLVED"
      /\ handoff[cmd[r].suspend] # "NONE"
      /\ receipts[cmd[r].action] = cmd[r]
      /\ SuccessfulReceipt(cmd[r].suspend) = cmd[r]
      /\ Recorded(cmd[r].suspend)
  BY WinningRequest DEF MarkResumeDispatched
<1>1. /\ \A a \in ActionIds : ReceiptOK(a)'
      /\ \A m \in Reconcilers : ReconcilerOK(m)'
  BY DEF MarkResumeDispatched, ReceiptOK, ReconcilerOK, Recorded,
         SuccessfulReceipt
<1>2. ASSUME NEW s \in Suspensions
      PROVE  StoreOK(s)'
  BY <1>0 DEF MarkResumeDispatched, StoreOK
<1>3. ASSUME NEW s \in Suspensions
      PROVE  EffectOK(s)'
  <2>1. resumed[cmd[r].suspend] # {}
    BY <1>0 DEF MarkResumeDispatched, HolderOK
  <2>2. /\ handoff' = [handoff EXCEPT ![cmd[r].suspend] = "DISPATCHED"]
        /\ UNCHANGED <<winner, receipts, acks, resumed>>
    BY DEF MarkResumeDispatched
  <2>3. EffectOK(s)
    OBVIOUS
  <2> QED
    BY <1>0, <2>1, <2>2, <2>3 DEF EffectOK, Recorded, SuccessfulReceipt
<1>4. ASSUME NEW q \in Requests
      PROVE  HolderOK(q)'
  BY <1>0 DEF MarkResumeDispatched, HolderOK, Holds
<1>5. ASSUME NEW q \in Requests
      PROVE  RequestOK(q)'
  BY <1>0 DEF MarkResumeDispatched, RequestOK
<1>6. ASSUME NEW q \in Requests
      PROVE  (answer[q] \in {"ACCEPTED", "DEDUPLICATED"} => DurablyAccepted(q))'
  <2>1. CASE q # r
    BY <2>1, <1>0, AnsweredCommand DEF MarkResumeDispatched, AcceptedIsDurable,
       DurablyAccepted, SameActionReceipt
  <2>2. CASE q = r
    BY <2>2, <1>0, ConstantsAssumption DEF MarkResumeDispatched, DurablyAccepted,
       SameActionReceipt, ConstantsAssumption
  <2> QED
    BY <2>1, <2>2
<1>7. ASSUME NEW q \in Requests
      PROVE  TrulyRejected(q)'
  BY <1>0, AnsweredCommand, PendingCommand DEF MarkResumeDispatched,
         RejectionsAreFinal, TrulyRejected
<1> QED
  BY <1>1, <1>2, <1>3, <1>4, <1>5, <1>6, <1>7
     DEF AcceptedIsDurable, RejectionsAreFinal

\* A request that dies leaves what it stored and answers nothing else.
LEMMA AbortRequestInv ==
    ASSUME IInv, TypeOK', NEW r \in Requests, AbortRequest(r)
    PROVE  IInv'
<1> USE DEF IInv, TypeOK, Reply, Goto, storeVars, requestVars, reconcilerVars
<1>0. /\ pc[r] # "done"
      /\ answer[r] = "none"
      /\ cmd[r] \in Commands
      /\ cmd[r].suspend \in Suspensions
      /\ cmd[r].action \in ActionIds
  BY PendingCommand DEF AbortRequest
<1>1. /\ \A s \in Suspensions : StoreOK(s)'
      /\ \A s \in Suspensions : EffectOK(s)'
      /\ \A a \in ActionIds : ReceiptOK(a)'
      /\ \A m \in Reconcilers : ReconcilerOK(m)'
  BY DEF AbortRequest, StoreOK, EffectOK, Recorded, SuccessfulReceipt,
         ReceiptOK, ReconcilerOK
<1>2. ASSUME NEW q \in Requests
      PROVE  HolderOK(q)'
  BY <1>0 DEF AbortRequest, HolderOK, Holds
<1>3. ASSUME NEW q \in Requests
      PROVE  RequestOK(q)'
  BY <1>0 DEF AbortRequest, RequestOK
<1>4. ASSUME NEW q \in Requests
      PROVE  (answer[q] \in {"ACCEPTED", "DEDUPLICATED"} => DurablyAccepted(q))'
  BY <1>0, AnsweredCommand, PendingCommand DEF AbortRequest, AcceptedIsDurable,
         DurablyAccepted, SameActionReceipt
<1>5. ASSUME NEW q \in Requests
      PROVE  TrulyRejected(q)'
  BY <1>0, AnsweredCommand, PendingCommand DEF AbortRequest,
         RejectionsAreFinal, TrulyRejected
<1> QED
  BY <1>1, <1>2, <1>3, <1>4, <1>5
     DEF AcceptedIsDurable, RejectionsAreFinal

\* A step of a reconciler that touches no store and no request keeps what the
\* invariant says of those.
LEMMA ReconcilerAlone ==
    ASSUME IInv,
           UNCHANGED <<storeVars, receipts, acks, resumed, requestVars>>
    PROVE  /\ \A t \in Suspensions : StoreOK(t)' /\ EffectOK(t)'
           /\ \A a \in ActionIds : ReceiptOK(a)'
           /\ \A q \in Requests : HolderOK(q)' /\ RequestOK(q)'
           /\ AcceptedIsDurable' /\ RejectionsAreFinal'
<1> USE DEF IInv, storeVars, requestVars
<1>1. \A t \in Suspensions : StoreOK(t)' /\ EffectOK(t)'
  BY DEF StoreOK, EffectOK, Recorded, SuccessfulReceipt
<1>2. \A a \in ActionIds : ReceiptOK(a)'
  BY DEF ReceiptOK
<1>3. \A q \in Requests : HolderOK(q)'
  BY DEF HolderOK, Holds
<1>4. \A q \in Requests : RequestOK(q)'
  BY DEF RequestOK, Recorded, SuccessfulReceipt
<1>5. AcceptedIsDurable'
  BY DEF AcceptedIsDurable, DurablyAccepted, SameActionReceipt
<1>6. RejectionsAreFinal'
  BY DEF RejectionsAreFinal, TrulyRejected
<1> QED
  BY <1>1, <1>2, <1>3, <1>4, <1>5, <1>6

\* Pending handoffs belong to resolved suspensions.
LEMMA ListPendingResumeHandoffsInv ==
    ASSUME IInv, TypeOK', NEW k \in Reconcilers, ListPendingResumeHandoffs(k)
    PROVE  IInv'
<1> USE DEF IInv, TypeOK, Reply, Goto, storeVars, requestVars, reconcilerVars
<1>1. /\ \A s \in Suspensions : StoreOK(s)'
      /\ \A s \in Suspensions : EffectOK(s)'
      /\ \A a \in ActionIds : ReceiptOK(a)'
      /\ \A q \in Requests : HolderOK(q)'
      /\ \A q \in Requests : RequestOK(q)'
      /\ AcceptedIsDurable'
      /\ RejectionsAreFinal'
  BY ReconcilerAlone DEF ListPendingResumeHandoffs
<1>2. ASSUME NEW m \in Reconcilers
      PROVE  ReconcilerOK(m)'
  <2>1. \A s \in PendingHandoffs : s \in Suspensions /\ status[s] = "RESOLVED"
    BY DEF PendingHandoffs, StoreOK
  <2>2. /\ rpc[k] = "idle"
        /\ rpc' = [rpc EXCEPT ![k] = "next"]
        /\ todo' = [todo EXCEPT ![k] = PendingHandoffs]
        /\ UNCHANGED <<status, winner, receipts, resumed, item, held>>
    BY DEF ListPendingResumeHandoffs
  <2>3. ReconcilerOK(m)
    OBVIOUS
  <2> QED
    BY <2>1, <2>2, <2>3 DEF ReconcilerOK, Recorded, SuccessfulReceipt
<1> QED
  BY <1>1, <1>2

\* Passing an item over touches the reconciler alone.
LEMMA PassOverInv ==
    ASSUME IInv, TypeOK', NEW k \in Reconcilers, NEW s \in Suspensions, PassOver(k, s)
    PROVE  IInv'
<1> USE DEF IInv, TypeOK, Reply, Goto, storeVars, requestVars, reconcilerVars
<1>1. /\ \A t \in Suspensions : StoreOK(t)'
      /\ \A t \in Suspensions : EffectOK(t)'
      /\ \A a \in ActionIds : ReceiptOK(a)'
      /\ \A q \in Requests : HolderOK(q)'
      /\ \A q \in Requests : RequestOK(q)'
      /\ AcceptedIsDurable'
      /\ RejectionsAreFinal'
  BY ReconcilerAlone DEF PassOver
<1>2. ASSUME NEW m \in Reconcilers
      PROVE  ReconcilerOK(m)'
  BY DEF PassOver, Continue, ReconcilerOK, Recorded, SuccessfulReceipt
<1> QED
  BY <1>1, <1>2

\* Refusing an A2UI receipt touches the reconciler alone.
LEMMA RefuseA2uiInv ==
    ASSUME IInv, TypeOK', NEW k \in Reconcilers, NEW s \in Suspensions, RefuseA2ui(k, s)
    PROVE  IInv'
<1> USE DEF IInv, TypeOK, Reply, Goto, storeVars, requestVars, reconcilerVars
<1>1. /\ \A t \in Suspensions : StoreOK(t)'
      /\ \A t \in Suspensions : EffectOK(t)'
      /\ \A a \in ActionIds : ReceiptOK(a)'
      /\ \A q \in Requests : HolderOK(q)'
      /\ \A q \in Requests : RequestOK(q)'
      /\ AcceptedIsDurable'
      /\ RejectionsAreFinal'
  BY ReconcilerAlone DEF RefuseA2ui
<1>2. ASSUME NEW m \in Reconcilers
      PROVE  ReconcilerOK(m)'
  BY DEF RefuseA2ui, Continue, ReconcilerOK, Recorded, SuccessfulReceipt
<1> QED
  BY <1>1, <1>2

\* The reconciler holds the receipt of the winning action.
LEMMA FetchReceiptInv ==
    ASSUME IInv, TypeOK', NEW k \in Reconcilers, NEW s \in Suspensions, FetchReceipt(k, s)
    PROVE  IInv'
<1> USE DEF IInv, TypeOK, Reply, Goto, storeVars, requestVars, reconcilerVars
<1>1. /\ \A t \in Suspensions : StoreOK(t)'
      /\ \A t \in Suspensions : EffectOK(t)'
      /\ \A a \in ActionIds : ReceiptOK(a)'
      /\ \A q \in Requests : HolderOK(q)'
      /\ \A q \in Requests : RequestOK(q)'
      /\ AcceptedIsDurable'
      /\ RejectionsAreFinal'
  BY ReconcilerAlone DEF FetchReceipt
<1>2. ASSUME NEW m \in Reconcilers
      PROVE  ReconcilerOK(m)'
  BY DEF FetchReceipt, Skipped, ReconcilerOK, Recorded, SuccessfulReceipt
<1> QED
  BY <1>1, <1>2

\* The reconciler resumes the host with the stored command, even from an old
\* list.
LEMMA ResumeItemInv ==
    ASSUME IInv, TypeOK', NEW k \in Reconcilers, ResumeItem(k)
    PROVE  IInv'
<1> USE DEF IInv, TypeOK, Reply, Goto, storeVars, requestVars, reconcilerVars
<1>0. /\ item[k] \in Suspensions
      /\ status[item[k]] = "RESOLVED"
      /\ handoff[item[k]] # "NONE"
      /\ Recorded(item[k])
      /\ held[k] = SuccessfulReceipt(item[k])
      /\ held[k] \in Commands
  BY WorkingReconciler DEF ResumeItem
<1>1. /\ \A s \in Suspensions : StoreOK(s)'
      /\ \A a \in ActionIds : ReceiptOK(a)'
      /\ \A q \in Requests : RequestOK(q)'
      /\ AcceptedIsDurable'
      /\ RejectionsAreFinal'
  BY DEF ResumeItem, HostResumes, StoreOK, ReceiptOK, RequestOK,
         AcceptedIsDurable, DurablyAccepted, SameActionReceipt,
         RejectionsAreFinal, TrulyRejected
<1>2. ASSUME NEW s \in Suspensions
      PROVE  EffectOK(s)'
  BY <1>0 DEF ResumeItem, HostResumes, EffectOK, Recorded, SuccessfulReceipt
<1>3. ASSUME NEW q \in Requests
      PROVE  HolderOK(q)'
  BY <1>0 DEF ResumeItem, HostResumes, HolderOK, Holds
<1>4. ASSUME NEW m \in Reconcilers
      PROVE  ReconcilerOK(m)'
  BY <1>0 DEF ResumeItem, HostResumes, ReconcilerOK, Recorded,
         SuccessfulReceipt
<1> QED
  BY <1>1, <1>2, <1>3, <1>4

\* A hook that raises ends the pass and leaves the handoff as it was.
LEMMA ResumeItemFailsInv ==
    ASSUME IInv, TypeOK', NEW k \in Reconcilers, ResumeItemFails(k)
    PROVE  IInv'
<1> USE DEF IInv, TypeOK, Reply, Goto, storeVars, requestVars, reconcilerVars
<1>0. /\ item[k] \in Suspensions
      /\ status[item[k]] = "RESOLVED"
      /\ handoff[item[k]] # "NONE"
      /\ Recorded(item[k])
      /\ held[k] = SuccessfulReceipt(item[k])
      /\ held[k] \in Commands
  BY WorkingReconciler DEF ResumeItemFails
<1>1. /\ \A s \in Suspensions : StoreOK(s)'
      /\ \A a \in ActionIds : ReceiptOK(a)'
      /\ \A q \in Requests : RequestOK(q)'
      /\ AcceptedIsDurable'
      /\ RejectionsAreFinal'
  BY DEF ResumeItemFails, HostResumeRaises, Continue, StoreOK, ReceiptOK,
         RequestOK, AcceptedIsDurable, DurablyAccepted, SameActionReceipt,
         RejectionsAreFinal, TrulyRejected
<1>2. ASSUME NEW s \in Suspensions
      PROVE  EffectOK(s)'
  BY <1>0 DEF ResumeItemFails, HostResumeRaises, Continue, EffectOK, Recorded,
         SuccessfulReceipt
<1>3. ASSUME NEW q \in Requests
      PROVE  HolderOK(q)'
  <2>1. \A s \in Suspensions : resumed[s] # {} => resumed'[s] # {}
    BY DEF ResumeItemFails, HostResumeRaises
  <2>2. HolderOK(q)
    OBVIOUS
  <2>3. ASSUME Holds(q)
        PROVE  cmd[q].suspend \in Suspensions
    BY <2>3, AnsweredCommand, PendingCommand DEF Holds
  <2>4. UNCHANGED <<pc, answer, cmd, winner, receipts, acks>>
    BY DEF ResumeItemFails
  <2> QED
    BY <2>1, <2>2, <2>3, <2>4 DEF HolderOK, Holds, WithMetadata, Resumable
<1>4. ASSUME NEW m \in Reconcilers
      PROVE  ReconcilerOK(m)'
  BY <1>0 DEF ResumeItemFails, HostResumeRaises, Continue, ReconcilerOK,
         Recorded, SuccessfulReceipt
<1> QED
  BY <1>1, <1>2, <1>3, <1>4

\* The reconciler closes a handoff only after the host took the command.
LEMMA MarkItemDispatchedInv ==
    ASSUME IInv, TypeOK', NEW k \in Reconcilers, MarkItemDispatched(k)
    PROVE  IInv'
<1> USE DEF IInv, TypeOK, Reply, Goto, storeVars, requestVars, reconcilerVars
<1>0. /\ item[k] \in Suspensions
      /\ status[item[k]] = "RESOLVED"
      /\ handoff[item[k]] # "NONE"
      /\ Recorded(item[k])
      /\ held[k] = SuccessfulReceipt(item[k])
      /\ held[k] \in Commands
  BY WorkingReconciler DEF MarkItemDispatched
<1>1. /\ \A a \in ActionIds : ReceiptOK(a)'
      /\ \A q \in Requests : HolderOK(q)'
      /\ \A q \in Requests : RequestOK(q)'
      /\ AcceptedIsDurable'
      /\ RejectionsAreFinal'
  <2>1. UNCHANGED <<status, winner, due, receipts, acks, resumed, requestVars>>
    BY DEF MarkItemDispatched
  <2>2. /\ \A a \in ActionIds : ReceiptOK(a)'
        /\ \A q \in Requests : HolderOK(q)'
        /\ \A q \in Requests : RequestOK(q)'
    BY <2>1 DEF ReceiptOK, HolderOK, Holds, RequestOK
  <2>3. AcceptedIsDurable'
    BY <2>1 DEF AcceptedIsDurable, DurablyAccepted, SameActionReceipt
  <2>4. RejectionsAreFinal'
    BY <2>1 DEF RejectionsAreFinal, TrulyRejected
  <2> QED
    BY <2>2, <2>3, <2>4
<1>2. ASSUME NEW s \in Suspensions
      PROVE  StoreOK(s)'
  BY <1>0 DEF MarkItemDispatched, Continue, StoreOK
<1>3. ASSUME NEW s \in Suspensions
      PROVE  EffectOK(s)'
  <2>1. resumed[item[k]] # {}
    BY DEF MarkItemDispatched, ReconcilerOK
  <2>2. /\ handoff' = [handoff EXCEPT ![item[k]] = "DISPATCHED"]
        /\ UNCHANGED <<winner, receipts, acks, resumed>>
    BY DEF MarkItemDispatched
  <2>3. EffectOK(s)
    OBVIOUS
  <2> QED
    BY <1>0, <2>1, <2>2, <2>3 DEF EffectOK, Recorded, SuccessfulReceipt
<1>4. ASSUME NEW m \in Reconcilers
      PROVE  ReconcilerOK(m)'
  BY <1>0 DEF MarkItemDispatched, Continue, ReconcilerOK, Recorded,
         SuccessfulReceipt
<1> QED
  BY <1>1, <1>2, <1>3, <1>4

\* A pass that dies forgets its list and nothing else.
LEMMA AbortPassInv ==
    ASSUME IInv, TypeOK', NEW k \in Reconcilers, AbortPass(k)
    PROVE  IInv'
<1> USE DEF IInv, TypeOK, Reply, Goto, storeVars, requestVars, reconcilerVars
<1>1. /\ \A s \in Suspensions : StoreOK(s)'
      /\ \A s \in Suspensions : EffectOK(s)'
      /\ \A a \in ActionIds : ReceiptOK(a)'
      /\ \A q \in Requests : HolderOK(q)'
      /\ \A q \in Requests : RequestOK(q)'
      /\ AcceptedIsDurable'
      /\ RejectionsAreFinal'
  BY ReconcilerAlone DEF AbortPass
<1>2. ASSUME NEW m \in Reconcilers
      PROVE  ReconcilerOK(m)'
  BY DEF AbortPass, Continue, ReconcilerOK, Recorded, SuccessfulReceipt
<1> QED
  BY <1>1, <1>2


\* A step that changes nothing preserves the invariant.
LEMMA StutterInv ==
    ASSUME IInv, TypeOK', UNCHANGED vars
    PROVE  IInv'
  BY DEF vars, IInv, StoreOK, EffectOK, ReceiptOK, HolderOK, RequestOK,
         ReconcilerOK, Holds, Recorded, SuccessfulReceipt, AcceptedIsDurable,
         DurablyAccepted, SameActionReceipt, RejectionsAreFinal, TrulyRejected

\* Every step of the services preserves the invariant.
LEMMA NextInv ==
    ASSUME UniqueActionIds, IInv, [Next]_vars
    PROVE  IInv'
<1>0. TypeOK'
  BY TypeNext
<1>1. ASSUME NEW s \in Suspensions, OpenSuspension(s) \/ PassDeadline(s)
      PROVE  IInv'
  BY <1>0, <1>1, OpenSuspensionInv, PassDeadlineInv
<1>2. CASE PruneExpiredState
  BY <1>0, <1>2, PruneExpiredStateInv
<1>3. ASSUME NEW r \in Requests, NEW c \in Commands, Submit(r, c)
      PROVE  IInv'
  BY <1>0, <1>3, SubmitInv
<1>4. ASSUME NEW r \in Requests, RequestStep(r) \/ AbortRequest(r)
      PROVE  IInv'
  BY <1>0, <1>4, LookupSuspensionInv, CheckReceiptInv, AcceptActionIfOpenInv,
     RereadSuspensionInv, RereadReceiptInv, SaveReceiptInv,
     AppendActionAcceptedInv, ResumeTaskInv, ResumeTaskFailsInv,
     MarkResumeDispatchedInv, AbortRequestInv DEF RequestStep
<1>5. ASSUME NEW k \in Reconcilers, ReconcilerStep(k) \/ AbortPass(k)
      PROVE  IInv'
  BY <1>0, <1>5, ListPendingResumeHandoffsInv, PassOverInv, RefuseA2uiInv,
     FetchReceiptInv, ResumeItemInv, ResumeItemFailsInv, MarkItemDispatchedInv,
     AbortPassInv DEF ReconcilerStep
<1>6. CASE UNCHANGED vars
  BY <1>0, <1>6, StutterInv
<1> QED
  BY <1>1, <1>2, <1>3, <1>4, <1>5, <1>6 DEF Next

\* The invariant holds in every reachable state when clients never use one
\* action identifier on two suspensions.  With it hold its conjuncts: the
\* types, AcceptedIsDurable and RejectionsAreFinal of submit_action.
THEOREM InductiveInvariant ==
    ASSUME UniqueActionIds
    PROVE  Spec => []IInv
<1>1. Init => IInv
  BY InitInv, ConstantsAssumption
<1>2. IInv /\ [Next]_vars => IInv'
  BY NextInv
<1> QED
  BY <1>1, <1>2, PTL DEF Spec

\* Every value the handlers store stays in its type.
THEOREM TypeCorrect ==
    ASSUME UniqueActionIds
    PROVE  Spec => []TypeOK
<1>1. IInv => TypeOK
  BY DEF IInv
<1> QED
  BY <1>1, InductiveInvariant, PTL

\* submit_action tells a client ACCEPTED or DEDUPLICATED only about an action
\* that won its suspension and whose receipt is stored.
THEOREM DurableAcceptance ==
    ASSUME UniqueActionIds
    PROVE  Spec => []AcceptedIsDurable
<1>1. IInv => AcceptedIsDurable
  BY DEF IInv
<1> QED
  BY <1>1, InductiveInvariant, PTL

\* What submit_action answered when it rejected an action stays true.
THEOREM FinalRejection ==
    ASSUME UniqueActionIds
    PROVE  Spec => []RejectionsAreFinal
<1>1. IInv => RejectionsAreFinal
  BY DEF IInv
<1> QED
  BY <1>1, InductiveInvariant, PTL

\* accept_action_if_open gives every suspension at most one accepted request.
THEOREM ExclusiveAcceptance ==
    ASSUME UniqueActionIds
    PROVE  Spec => []AcceptanceExclusive
<1>1. IInv => AcceptanceExclusive
  BY DEF IInv, HolderOK, Holds, AcceptanceExclusive
<1> QED
  BY <1>1, InductiveInvariant, PTL

\* The host is only ever resumed, by requests or by reconcilers, with the
\* stored command of the action that won the suspension.
THEOREM FaithfulResume ==
    ASSUME UniqueActionIds
    PROVE  Spec => []ResumedWithAcceptedCommand
<1>1. ASSUME IInv
      PROVE  ResumedWithAcceptedCommand
  <2> SUFFICES ASSUME NEW s \in Suspensions, NEW c \in resumed[s]
               PROVE  /\ c.action = winner[s]
                      /\ c.suspend = s
                      /\ receipts[c.action] = c
                      /\ c.content \in A2ui =>
                            HasHostResume /\ c.content \notin NoMetadata
    BY DEF ResumedWithAcceptedCommand
  <2>1. Recorded(s) /\ c = SuccessfulReceipt(s)
    BY <1>1 DEF IInv, EffectOK
  <2>2. /\ status[s] = "RESOLVED"
        /\ winner[s] \in ActionIds
        /\ c = receipts[winner[s]]
        /\ c \in Commands
    BY <1>1, <2>1, ResolvedWinner
  <2>3. ReceiptOK(winner[s]) /\ c # NoReceipt
    BY <1>1, <2>1, <2>2 DEF IInv, Recorded
  <2>4. c.action = winner[s] /\ WithMetadata(c) /\ Resumable(c)
    BY <2>2, <2>3 DEF ReceiptOK
  <2>5. PICK d \in Commands : d.suspend = s /\ d.action = winner[s]
    BY <1>1, <2>2 DEF IInv, StoreOK
  <2>6. c.suspend = s
    BY <2>2, <2>4, <2>5, UniqueActionIds DEF UniqueActionIds
  <2> QED
    BY <2>2, <2>4, <2>6 DEF WithMetadata, Resumable
<1>2. IInv => ResumedWithAcceptedCommand
  BY <1>1
<1> QED
  BY <1>2, InductiveInvariant, PTL
=============================================================================
