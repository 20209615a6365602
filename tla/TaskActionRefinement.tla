------------------------ MODULE TaskActionRefinement -----------------------
(***************************************************************************)
(* The proof that the action services implement ActionAcceptance: every    *)
(* step of TaskAction is a step of the abstract specification, under the   *)
(* mapping of TaskAction, or leaves the abstract state unchanged.          *)
(***************************************************************************)
EXTENDS TaskActionProofs

\* The abstract state, under names the steps below can refer to.
aPhase == [s \in Suspensions |-> Phase(s)]
aRecorded == [s \in Suspensions |-> SuccessfulReceipt(s) # NoReceipt]
aHanded == [s \in Suspensions |-> {c.action : c \in resumed[s]}]

AbstractNext == [Acceptance!Next]_(Acceptance!aVars)

\* Initially no suspension has left its abstract initial phase.
LEMMA InitRefines == Init => Acceptance!Init
<1> SUFFICES ASSUME Init PROVE Acceptance!Init
  OBVIOUS
<1>1. aPhase = [s \in Suspensions |-> "absent"]
  BY DEF Init, aPhase, Phase
<1>2. aRecorded = [s \in Suspensions |-> FALSE]
  BY DEF Init, aRecorded, SuccessfulReceipt
<1>3. aHanded = [s \in Suspensions |-> {}]
  BY DEF Init, aHanded
<1> QED
  BY <1>1, <1>2, <1>3 DEF Init, Acceptance!Init, aPhase, aRecorded, aHanded

\* A step that leaves the stores, the receipts, the events and the host alone
\* leaves the abstract state alone.
LEMMA InvisibleStep ==
    ASSUME UNCHANGED <<status, winner, handoff, receipts, acks, resumed>>
    PROVE  AbstractNext
  BY DEF AbstractNext, Acceptance!aVars, Phase, SuccessfulReceipt

\* Opening a suspension is the abstract Suspend.
LEMMA OpenRefines ==
    ASSUME IInv, NEW s \in Suspensions, OpenSuspension(s)
    PROVE  Acceptance!Suspend(s)
<1>1. handoff[s] = "NONE"
  BY DEF IInv, StoreOK, OpenSuspension
<1>2. aPhase[s] = "absent"
  BY <1>1 DEF aPhase, Phase, OpenSuspension
<1>3. aPhase' = [aPhase EXCEPT ![s] = "open"]
  BY <1>1 DEF aPhase, Phase, OpenSuspension, IInv, TypeOK
<1>4. UNCHANGED <<winner, acks, aRecorded, aHanded>>
  BY DEF OpenSuspension, aRecorded, aHanded, SuccessfulReceipt
<1> QED
  BY <1>2, <1>3, <1>4 DEF Acceptance!Suspend, aPhase, aRecorded, aHanded

\* A retention pass is one abstract Expire of all due suspensions.
LEMMA PruneRefines ==
    ASSUME IInv, PruneExpiredState
    PROVE  Acceptance!Expire(Expirable)
<1>1. ASSUME NEW s \in Expirable
      PROVE  handoff[s] = "NONE" /\ status[s] = "OPEN"
  BY DEF IInv, TypeOK, StoreOK, Expirable
<1>2. \A s \in Expirable : aPhase[s] = "open"
  BY <1>1 DEF aPhase, Phase, Expirable, IInv, TypeOK
<1>3. aPhase' = [s \in Suspensions |->
                   IF s \in Expirable THEN "expired" ELSE aPhase[s]]
  BY <1>1 DEF aPhase, Phase, PruneExpiredState
<1>4. UNCHANGED <<winner, acks, aRecorded, aHanded>>
  BY DEF PruneExpiredState, aRecorded, aHanded, SuccessfulReceipt
<1> QED
  BY <1>2, <1>3, <1>4 DEF Acceptance!Expire, aPhase, aRecorded, aHanded

\* The compare-and-set is the abstract Resolve, or changes nothing.
LEMMA AcceptRefines ==
    ASSUME UniqueActionIds, IInv, NEW r \in Requests, AcceptActionIfOpen(r)
    PROVE  AbstractNext
<1> DEFINE s == cmd[r].suspend
<1>1. /\ s \in Suspensions
      /\ cmd[r].action \in ActionIds
      /\ cmd[r] \in Commands
  BY PendingCommand DEF AcceptActionIfOpen
<1>2. CASE status[s] # "OPEN"
  BY <1>2, InvisibleStep DEF AcceptActionIfOpen, storeVars
<1>3. CASE status[s] = "OPEN"
  <2>1. /\ status' = [status EXCEPT ![s] = "RESOLVED"]
        /\ winner' = [winner EXCEPT ![s] = cmd[r].action]
        /\ handoff' = [handoff EXCEPT ![s] = "PENDING"]
        /\ UNCHANGED <<receipts, acks, resumed>>
    BY <1>3 DEF AcceptActionIfOpen
  <2>2. handoff[s] = "NONE" /\ winner[s] = NoAction
    BY <1>1, <1>3 DEF IInv, StoreOK
  <2>3. receipts[cmd[r].action] = NoReceipt
    <3> SUFFICES ASSUME receipts[cmd[r].action] # NoReceipt
                 PROVE  FALSE
      OBVIOUS
    <3>1. /\ receipts[cmd[r].action] \in Commands
          /\ receipts[cmd[r].action].action = cmd[r].action
          /\ winner[receipts[cmd[r].action].suspend] = cmd[r].action
      BY <1>1 DEF IInv, TypeOK, ReceiptOK
    <3> QED
      BY <1>1, <2>2, <3>1, ConstantsAssumption
         DEF UniqueActionIds, ConstantsAssumption
  <2>4. aPhase[s] = "open" /\ aPhase' = [aPhase EXCEPT ![s] = "pending"]
    BY <1>1, <1>3, <2>1, <2>2 DEF aPhase, Phase, IInv, TypeOK
  <2>5. aRecorded' = aRecorded
    BY <1>1, <2>1, <2>2, <2>3 DEF aRecorded, SuccessfulReceipt, IInv, TypeOK
  <2>6. UNCHANGED <<acks, aHanded>>
    BY <2>1 DEF aHanded
  <2>7. Acceptance!Resolve(s, cmd[r].action)
    BY <2>1, <2>4, <2>5, <2>6 DEF Acceptance!Resolve, aPhase, aRecorded, aHanded
  <2> QED
    BY <1>1, <2>7 DEF AbstractNext, Acceptance!Next
<1> QED
  BY <1>2, <1>3

\* save_receipt is the abstract Record of that one suspension.
LEMMA SaveRefines ==
    ASSUME UniqueActionIds, IInv, NEW r \in Requests, SaveReceipt(r)
    PROVE  Acceptance!Record(cmd[r].suspend) /\ cmd[r].suspend \in Suspensions
<1> DEFINE s == cmd[r].suspend
           a == cmd[r].action
<1>1. /\ s \in Suspensions /\ a \in ActionIds /\ cmd[r] \in Commands
      /\ winner[s] = a
      /\ status[s] = "RESOLVED"
      /\ receipts[a] = NoReceipt
      /\ handoff[s] \in {"PENDING", "DISPATCHED"}
  BY WinningRequest DEF SaveReceipt, IInv, TypeOK, HolderOK, HandoffStatus
<1>2. /\ receipts' = [receipts EXCEPT ![a] = cmd[r]]
      /\ UNCHANGED <<status, winner, handoff, acks, resumed, cmd>>
  BY DEF SaveReceipt, storeVars
<1>3. SuccessfulReceipt(s) = NoReceipt
  BY <1>1 DEF SuccessfulReceipt
<1>4. aPhase[s] = "pending"
  <2>1. resumed[s] = {}
    BY <1>1, <1>3 DEF IInv, EffectOK, Recorded
  <2> QED
    BY <1>1, <2>1 DEF IInv, EffectOK, aPhase, Phase
<1>5. \A t \in Suspensions : winner[t] = a => t = s
  <2> SUFFICES ASSUME NEW t \in Suspensions, winner[t] = a
               PROVE  t = s
    OBVIOUS
  <2>1. status[t] = "RESOLVED"
    BY <1>1, ResolvedWinner, ConstantsAssumption DEF ConstantsAssumption
  <2>2. PICK d \in Commands : d.suspend = t /\ d.action = a
    BY <2>1 DEF IInv, StoreOK
  <2> QED
    BY <1>1, <2>2 DEF UniqueActionIds
<1>6. aRecorded[s] = FALSE /\ aRecorded' = [aRecorded EXCEPT ![s] = TRUE]
  <2>1. cmd[r] # NoReceipt /\ a # NoAction
    BY <1>1, ConstantsAssumption DEF ConstantsAssumption
  <2>2. winner'[s] = a /\ receipts'[a] = cmd[r]
    BY <1>1, <1>2 DEF IInv, TypeOK
  <2>3. SuccessfulReceipt(s)' = cmd[r]
    BY <1>1, <1>2, <2>1, <2>2 DEF SuccessfulReceipt
  <2>4. \A t \in Suspensions \ {s} :
          SuccessfulReceipt(t)' = SuccessfulReceipt(t)
    BY <1>1, <1>2, <1>5 DEF SuccessfulReceipt, IInv, TypeOK
  <2>5. \A t \in Suspensions :
          aRecorded'[t] = IF t = s THEN TRUE ELSE aRecorded[t]
    BY <1>1, <1>2, <2>1, <2>3, <2>4 DEF aRecorded
  <2>6. aRecorded' = [t \in Suspensions |->
                        IF t = s THEN TRUE ELSE aRecorded[t]]
    BY <2>5 DEF aRecorded
  <2>7. aRecorded = [t \in Suspensions |-> aRecorded[t]]
    BY DEF aRecorded
  <2>8. aRecorded[s] = FALSE
    BY <1>1, <1>3 DEF aRecorded
  <2> QED
    BY <1>1, <2>6, <2>7, <2>8
<1>7. UNCHANGED <<aPhase, winner, acks, aHanded>>
  BY <1>2 DEF aPhase, Phase, aHanded
<1> QED
  BY <1>1, <1>4, <1>6, <1>7 DEF Acceptance!Record, aPhase, aRecorded, aHanded

\* Appending the accepted event is the first and only abstract Announce.
LEMMA AnnounceRefines ==
    ASSUME IInv, NEW r \in Requests, AppendActionAccepted(r)
    PROVE  Acceptance!Announce(cmd[r].suspend) /\ cmd[r].suspend \in Suspensions
<1>1. /\ cmd[r].suspend \in Suspensions
      /\ Recorded(cmd[r].suspend)
      /\ acks[cmd[r].suspend] = 0
  BY WinningRequest DEF AppendActionAccepted, IInv, HolderOK
<1>2. /\ acks' = [acks EXCEPT ![cmd[r].suspend] = 1]
      /\ UNCHANGED <<status, winner, handoff, receipts, resumed>>
  BY <1>1 DEF AppendActionAccepted, storeVars
<1>3. aRecorded[cmd[r].suspend]
  BY <1>1 DEF aRecorded, Recorded
<1>4. UNCHANGED <<aPhase, winner, aRecorded, aHanded>>
  BY <1>2 DEF aPhase, Phase, aRecorded, SuccessfulReceipt, aHanded
<1> QED
  BY <1>1, <1>2, <1>3, <1>4
     DEF Acceptance!Announce, aPhase, aRecorded, aHanded

\* The host takes command c of suspension s: from a request or a reconciler.
LEMMA TakenRefines ==
    ASSUME IInv, NEW s \in Suspensions, Recorded(s),
           NEW c, c = SuccessfulReceipt(s),
           resumed' = [resumed EXCEPT ![s] = @ \cup {c}],
           UNCHANGED <<status, winner, handoff, receipts, acks>>
    PROVE  Acceptance!HandOver(s)
<1>1. c.action = winner[s]
  BY ResolvedWinner DEF IInv, ReceiptOK, Recorded
<1>2. aRecorded[s]
  BY DEF aRecorded, Recorded
<1>3. aHanded' = [aHanded EXCEPT ![s] = @ \cup {winner[s]}]
  <2>1. resumed \in [Suspensions -> SUBSET Commands]
    BY DEF IInv, TypeOK
  <2>2. resumed'[s] = resumed[s] \cup {c}
    BY <2>1
  <2>3. {d.action : d \in resumed'[s]} = {d.action : d \in resumed[s]} \cup {winner[s]}
    BY <1>1, <2>2
  <2>4. \A t \in Suspensions \ {s} : resumed'[t] = resumed[t]
    BY <2>1
  <2> QED
    BY <2>3, <2>4 DEF aHanded
<1>4. UNCHANGED <<aPhase, winner, acks, aRecorded>>
  BY DEF aPhase, Phase, aRecorded, SuccessfulReceipt
<1> QED
  BY <1>2, <1>3, <1>4 DEF Acceptance!HandOver, aPhase, aRecorded, aHanded

\* A call of the resume hook hands the command over or changes nothing.
LEMMA ResumeRefines ==
    ASSUME IInv, NEW s \in Suspensions, Recorded(s),
           NEW c, c = SuccessfulReceipt(s),
           HostResumes(s, c) \/ HostResumeRaises(s, c),
           UNCHANGED <<status, winner, handoff, receipts, acks>>
    PROVE  AbstractNext
<1>1. CASE resumed' = [resumed EXCEPT ![s] = @ \cup {c}]
  <2>1. Acceptance!HandOver(s)
    BY <1>1, TakenRefines
  <2> QED
    BY <2>1 DEF AbstractNext, Acceptance!Next
<1>2. CASE UNCHANGED resumed
  BY <1>2, InvisibleStep
<1> QED
  BY <1>1, <1>2 DEF HostResumes, HostResumeRaises

\* The handoff of suspension s is closed after the host took its command.
LEMMA DispatchRefines ==
    ASSUME IInv, NEW s \in Suspensions, Recorded(s), resumed[s] # {},
           handoff[s] # "NONE",
           handoff' = [handoff EXCEPT ![s] = "DISPATCHED"],
           UNCHANGED <<status, winner, receipts, acks, resumed>>
    PROVE  AbstractNext
<1>1. CASE handoff[s] = "DISPATCHED"
  <2>1. UNCHANGED handoff
    BY <1>1 DEF IInv, TypeOK
  <2> QED
    BY <2>1, InvisibleStep
<1>2. CASE handoff[s] = "PENDING"
  <2>1. PICK c \in resumed[s] : c = SuccessfulReceipt(s)
    BY DEF IInv, EffectOK
  <2>2. c.action = winner[s]
    BY <2>1, ResolvedWinner DEF IInv, ReceiptOK, Recorded
  <2>3. winner[s] \in aHanded[s]
    BY <2>1, <2>2 DEF aHanded
  <2>4. aPhase[s] = "pending" /\ aPhase' = [aPhase EXCEPT ![s] = "dispatched"]
    BY <1>2 DEF aPhase, Phase, IInv, TypeOK
  <2>5. UNCHANGED <<winner, aRecorded, acks, aHanded>>
    BY DEF aRecorded, SuccessfulReceipt, aHanded
  <2>6. Acceptance!Dispatch(s)
    BY <2>3, <2>4, <2>5 DEF Acceptance!Dispatch, aPhase, aRecorded, aHanded
  <2> QED
    BY <2>6 DEF AbstractNext, Acceptance!Next
<1> QED
  BY <1>1, <1>2 DEF IInv, TypeOK, HandoffStatus

\* Every step of submit_action is an abstract step or a stutter.
LEMMA RequestRefines ==
    ASSUME UniqueActionIds, IInv, NEW r \in Requests,
           RequestStep(r) \/ AbortRequest(r)
    PROVE  AbstractNext
<1>1. CASE LookupSuspension(r) \/ CheckReceipt(r) \/ RereadSuspension(r)
           \/ RereadReceipt(r) \/ AbortRequest(r)
  <2>1. UNCHANGED <<status, winner, handoff, receipts, acks, resumed>>
    BY <1>1 DEF LookupSuspension, CheckReceipt, RereadSuspension,
       RereadReceipt, AbortRequest, storeVars
  <2> QED
    BY <2>1, InvisibleStep
<1>2. CASE AcceptActionIfOpen(r)
  BY <1>2, AcceptRefines
<1>3. CASE SaveReceipt(r)
  BY <1>3, SaveRefines DEF AbstractNext, Acceptance!Next
<1>4. CASE AppendActionAccepted(r)
  BY <1>4, AnnounceRefines DEF AbstractNext, Acceptance!Next
<1>5. CASE ResumeTask(r) \/ ResumeTaskFails(r)
  <2>1. /\ cmd[r].suspend \in Suspensions
        /\ Recorded(cmd[r].suspend)
        /\ cmd[r] = SuccessfulReceipt(cmd[r].suspend)
    BY <1>5, WinningRequest DEF ResumeTask, ResumeTaskFails
  <2>2. /\ \/ HostResumes(cmd[r].suspend, cmd[r])
           \/ HostResumeRaises(cmd[r].suspend, cmd[r])
        /\ UNCHANGED <<status, winner, handoff, receipts, acks>>
    BY <1>5 DEF ResumeTask, ResumeTaskFails, storeVars
  <2> QED
    BY <2>1, <2>2, ResumeRefines
<1>6. CASE MarkResumeDispatched(r)
  <2>1. /\ cmd[r].suspend \in Suspensions
        /\ Recorded(cmd[r].suspend)
        /\ handoff[cmd[r].suspend] # "NONE"
        /\ resumed[cmd[r].suspend] # {}
    BY <1>6, WinningRequest DEF MarkResumeDispatched, IInv, HolderOK
  <2>2. /\ handoff' = [handoff EXCEPT ![cmd[r].suspend] = "DISPATCHED"]
        /\ UNCHANGED <<status, winner, receipts, acks, resumed>>
    BY <1>6 DEF MarkResumeDispatched
  <2> QED
    BY <2>1, <2>2, DispatchRefines
<1> QED
  BY <1>1, <1>2, <1>3, <1>4, <1>5, <1>6 DEF RequestStep

\* Every step of a reconciliation pass is an abstract step or a stutter.
LEMMA ReconcilerRefines ==
    ASSUME IInv, NEW k \in Reconcilers, ReconcilerStep(k) \/ AbortPass(k)
    PROVE  AbstractNext
<1>1. CASE \/ ListPendingResumeHandoffs(k)
           \/ \E s \in Suspensions :
                 PassOver(k, s) \/ RefuseA2ui(k, s) \/ FetchReceipt(k, s)
           \/ AbortPass(k)
  <2>1. UNCHANGED <<status, winner, handoff, receipts, acks, resumed>>
    BY <1>1 DEF ListPendingResumeHandoffs, PassOver, RefuseA2ui, FetchReceipt,
       AbortPass, storeVars
  <2> QED
    BY <2>1, InvisibleStep
<1>2. CASE ResumeItem(k) \/ ResumeItemFails(k)
  <2>1. /\ item[k] \in Suspensions
        /\ Recorded(item[k])
        /\ held[k] = SuccessfulReceipt(item[k])
    BY <1>2, WorkingReconciler DEF ResumeItem, ResumeItemFails
  <2>2. /\ HostResumes(item[k], held[k]) \/ HostResumeRaises(item[k], held[k])
        /\ UNCHANGED <<status, winner, handoff, receipts, acks>>
    BY <1>2 DEF ResumeItem, ResumeItemFails, storeVars
  <2> QED
    BY <2>1, <2>2, ResumeRefines
<1>3. CASE MarkItemDispatched(k)
  <2>1. /\ item[k] \in Suspensions
        /\ Recorded(item[k])
        /\ handoff[item[k]] # "NONE"
        /\ resumed[item[k]] # {}
    BY <1>3, WorkingReconciler DEF MarkItemDispatched, IInv, ReconcilerOK
  <2>2. /\ handoff' = [handoff EXCEPT ![item[k]] = "DISPATCHED"]
        /\ UNCHANGED <<status, winner, receipts, acks, resumed>>
    BY <1>3 DEF MarkItemDispatched
  <2> QED
    BY <2>1, <2>2, DispatchRefines
<1> QED
  BY <1>1, <1>2, <1>3 DEF ReconcilerStep

\* Every step of the services is an abstract step or a stutter.
LEMMA StepRefines ==
    ASSUME UniqueActionIds, IInv, [Next]_vars
    PROVE  [Acceptance!Next]_(Acceptance!aVars)
<1>1. ASSUME NEW s \in Suspensions, OpenSuspension(s)
      PROVE  AbstractNext
  BY <1>1, OpenRefines DEF AbstractNext, Acceptance!Next
<1>2. ASSUME NEW s \in Suspensions, PassDeadline(s)
      PROVE  AbstractNext
  BY <1>2, InvisibleStep DEF PassDeadline
<1>3. CASE PruneExpiredState
  <2>1. Expirable \in SUBSET Suspensions
    BY DEF Expirable, IInv, TypeOK
  <2> QED
    BY <1>3, <2>1, PruneRefines DEF AbstractNext, Acceptance!Next
<1>4. ASSUME NEW r \in Requests, NEW c \in Commands, Submit(r, c)
      PROVE  AbstractNext
  BY <1>4, InvisibleStep DEF Submit, storeVars
<1>5. ASSUME NEW r \in Requests, RequestStep(r) \/ AbortRequest(r)
      PROVE  AbstractNext
  BY <1>5, RequestRefines
<1>6. ASSUME NEW k \in Reconcilers, ReconcilerStep(k) \/ AbortPass(k)
      PROVE  AbstractNext
  BY <1>6, ReconcilerRefines
<1>7. CASE UNCHANGED vars
  <2>1. UNCHANGED <<status, winner, handoff, receipts, acks, resumed>>
    BY <1>7 DEF vars
  <2> QED
    BY <2>1, InvisibleStep DEF AbstractNext
<1> QED
  BY <1>1, <1>2, <1>3, <1>4, <1>5, <1>6, <1>7 DEF Next, AbstractNext

\* submit_action, the reconcilers and the retention service, at every
\* interleaving of their store calls and with any failures, implement the
\* abstract acceptance of an action.
THEOREM RefinesAcceptance ==
    ASSUME UniqueActionIds
    PROVE  Spec => ImplementsAcceptance
<1>1. Init => Acceptance!Init
  BY InitRefines
<1>2. IInv /\ [Next]_vars => [Acceptance!Next]_(Acceptance!aVars)
  BY StepRefines
<1> QED
  BY <1>1, <1>2, InductiveInvariant, PTL
     DEF Spec, ImplementsAcceptance, Acceptance!Spec
=============================================================================
