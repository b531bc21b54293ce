--------------------------- MODULE MailLedgerProofs ---------------------------
(***************************************************************************)
(* Proofs that the dispatcher repeats itself no more than faults make it,  *)
(* and that it never claims a delivery the relay did not confirm.          *)
(***************************************************************************)
EXTENDS MailLedger, MailDispatchProofs

\* The history of the relay is never rewritten.
LEMMA HistoryGrows ==
  ASSUME TypeInv, [Next]_vars
  PROVE  \A id \in MsgIds, v \in Versions : accepted'[id][v] >= accepted[id][v]
<1>1. accepted \in [MsgIds -> [Versions -> Nat]]
  BY DEF TypeInv, TypeOK
<1>2. CASE accepted' = accepted
  BY <1>1, <1>2
<1>3. CASE smtpPc = "send" /\ RelayTakes
  <2>1. Current.id \in MsgIds /\ Current.payload.ver \in Versions
    BY <1>3, CurrentType DEF TypeInv, TypeOK
  <2>2. QED
    BY <1>1, <1>3, <2>1 DEF RelayTakes
<1>4. QED
  <2>1. CASE Attempt
    BY <1>2, <1>3, <2>1 DEF Attempt, RelayAccepts, RelayRefuses, AnswerLost
  <2>2. CASE FaultStep \/ ReportStep \/ ClientStep \/ Tick
    BY <1>2, <2>2 DEF FaultStep, ReportStep, ClientStep, Tick, SmtpCycleFails, ReportCycleFails,
       Crash, RequestFails, FetchReports, DeliverReports, DeliveryFails, MarkDelivered,
       ApplyRetention, Submit, DeleteMessage, AddAccount, DeleteAccount, Suspend, Activate,
       CleanupMessages, relayVars
  <2>3. CASE \E h \in Handlers : HandlerStep(h)
    BY <1>2, <2>3 DEF HandlerStep, InsertValid, InsertRejected, MarkRejected, relayVars
  <2>4. CASE SmtpStep /\ ~Attempt
    BY <1>2, <2>4 DEF SmtpStep, FetchBatch, ClearCurrent, BuildFails, BuildRaises, ResolveAccount,
       RateLimited, StoreRetryCount, DeferRetry, FailPermanently, StampSent, relayVars
  <2>5. CASE UNCHANGED vars
    BY <1>2, <2>5 DEF vars, relayVars
  <2>6. QED
    BY <2>1, <2>2, <2>3, <2>4, <2>5 DEF Next

\* Only the step after the relay's answer makes a row sent.
LEMMA OnlyStampSends ==
  ASSUME TypeInv, [Next]_vars
  PROVE  \A id \in MsgIds :
           HasStatus(msgs', id, "sent")
           => HasStatus(msgs, id, "sent") \/ (StampSent /\ id = Current.id)
<1>1. msgs \in Table
  BY DEF TypeInv, TypeOK
<1>2. CASE msgs' = msgs
  BY <1>2
<1>3. CASE FaultStep \/ ReportStep \/ ClientStep \/ Tick
  <2>1. NoNewSent(msgs, msgs')
    <3>1. NoNewSent(msgs, msgs)
      BY DEF NoNewSent
    <3>2. QED
      BY <1>1, <1>3, <3>1, SweepsAreTame
         DEF FaultStep, ReportStep, ClientStep, Tick, SmtpCycleFails, ReportCycleFails,
             Crash, RequestFails, FetchReports, DeliverReports, DeliveryFails, MarkDelivered,
             ApplyRetention, Submit, DeleteMessage, AddAccount, DeleteAccount, Suspend, Activate,
             CleanupMessages, store
  <2>2. QED
    BY <2>1 DEF NoNewSent
<1>4. ASSUME NEW h \in Handlers, HandlerStep(h)
      PROVE  NoNewSent(msgs, msgs')
  <2>1. apiItem[h] \in Item /\ stamp \in Nat /\ apiItem[h].id \in MsgIds
    BY <1>4 DEF TypeInv, TypeOK, HandlerStep, InsertValid, InsertRejected, MarkRejected, Item
  <2>2. CASE StoreItem(h)
    BY <1>1, <2>1, <2>2, UpsertEffect DEF StoreItem, NoNewSent, HasStatus, Present
  <2>3. CASE msgs' = MarkError(msgs, apiItem[h].id)
    BY <1>1, <2>1, <2>3, UpdatesAreTame, RowBounds
  <2>4. QED
    BY <1>4, <2>2, <2>3 DEF HandlerStep, InsertValid, InsertRejected, MarkRejected
<1>5. CASE SmtpStep
  <2>1. CASE FetchBatch \/ BuildRaises \/ ResolveAccount \/ Attempt
    BY <1>2, <2>1 DEF FetchBatch, BuildRaises, ResolveAccount, Attempt, RelayAccepts,
                      RelayRefuses, AnswerLost, store
  <2>2. CASE smtpPc # "idle"
    <3>1. Current.id \in MsgIds /\ Current.payload \in Payload
            /\ Current.payload.retry \in 0 .. MaxRetries
      BY <2>2, CurrentType DEF TypeInv, TypeOK
    <3>2. CASE ClearCurrent \/ BuildFails \/ FailPermanently
      <4>1. NoNewSent(msgs, msgs')
        BY <1>1, <3>1, <3>2, UpdatesAreTame, RowBounds DEF ClearCurrent, BuildFails, FailPermanently
      <4>2. QED
        BY <4>1 DEF NoNewSent
    <3>3. CASE RateLimited \/ DeferRetry
      <4>1. RetryDelay(Current.payload.retry) \in 0 .. MaxWait
            /\ 1 .. MaxWait \subseteq 0 .. MaxWait
        BY <3>1, RetryDelayType, StoreAssumption
      <4>2. NoNewSent(msgs, msgs')
        BY <1>1, <3>1, <3>3, <4>1, UpdatesAreTame DEF RateLimited, DeferRetry
      <4>3. QED
        BY <4>2 DEF NoNewSent
    <3>4. CASE StoreRetryCount
      <4>1. [Current.payload EXCEPT !.retry = @ + 1] \in Payload
        BY <3>1, <3>4, StoreAssumption DEF StoreRetryCount, Payload, TypeInv, RetryLeft
      <4>2. \A id \in MsgIds : HasStatus(msgs', id, "sent") <=> HasStatus(msgs, id, "sent")
        <5> SUFFICES ASSUME NEW id \in MsgIds
                     PROVE  HasStatus(msgs', id, "sent") <=> HasStatus(msgs, id, "sent")
          OBVIOUS
        <5>1. CASE id = Current.id
          BY <1>1, <3>1, <3>4, <4>1, <5>1, PayloadEffect DEF StoreRetryCount
        <5>2. CASE id # Current.id
          <6>1. msgs'[id] = msgs[id]
            BY <1>1, <3>1, <3>4, <4>1, <5>2, PayloadEffect DEF StoreRetryCount
          <6>2. QED
            BY <6>1 DEF HasStatus, Present
        <5>3. QED
          BY <5>1, <5>2
      <4>3. QED
        BY <4>2
    <3>5. CASE StampSent
      BY <1>1, <3>1, <3>5, MarkedIsNotQueued DEF StampSent, HasStatus, Present
    <3>6. QED
      BY <1>5, <2>1, <3>2, <3>3, <3>4, <3>5 DEF SmtpStep
  <2>3. QED
    BY <1>5, <2>1, <2>2 DEF SmtpStep, ClearCurrent, BuildFails, BuildRaises, RateLimited,
                            StoreRetryCount, DeferRetry, FailPermanently, StampSent
<1>6. QED
  <2>1. CASE UNCHANGED vars
    BY <1>2, <2>1 DEF vars, store
  <2>2. CASE \E h \in Handlers : HandlerStep(h)
    BY <1>4, <2>2 DEF NoNewSent
  <2>3. QED
    BY <1>3, <1>5, <2>1, <2>2 DEF Next

\* What is about to be told, or was told, came from a row of that status.
LEMMA ReportsComeFromRows ==
  ASSUME TypeInv, [Next]_vars
  PROVE  \A r \in reports' \cup told' :
           \/ r \in reports \cup told
           \/ r.id \in MsgIds /\ HasStatus(msgs, r.id, r.outcome)
<1>1. CASE FetchReports
  <2>1. \A id \in Unreported : /\ ReportOf(id).id = id
                               /\ HasStatus(msgs, id, ReportOf(id).outcome)
    BY DEF Unreported, IsUnreported, Final, ReportOf, HasStatus
  <2>2. \A r \in reports' : \E id \in Unreported : r = ReportOf(id)
    BY <1>1 DEF FetchReports
  <2>3. \A r \in reports' : r.id \in MsgIds /\ HasStatus(msgs, r.id, r.outcome)
    BY <2>1, <2>2 DEF Unreported
  <2>4. QED
    BY <1>1, <2>3 DEF FetchReports
<1>2. CASE reports' \cup told' \subseteq reports \cup told
  BY <1>2
<1>3. CASE ReportStep /\ ~FetchReports
  BY <1>2, <1>3 DEF ReportStep, DeliverReports, DeliveryFails, MarkDelivered, ApplyRetention
<1>4. CASE FaultStep \/ ClientStep \/ Tick \/ \E h \in Handlers : HandlerStep(h)
  BY <1>2, <1>4 DEF FaultStep, ClientStep, Tick, SmtpCycleFails, ReportCycleFails, Crash,
     RequestFails, Submit, DeleteMessage, AddAccount, DeleteAccount, Suspend, Activate,
     CleanupMessages, HandlerStep, InsertValid, InsertRejected, MarkRejected, reportVars
<1>5. CASE SmtpStep
  BY <1>2, <1>5 DEF SmtpStep, Attempt, FetchBatch, ClearCurrent, BuildFails, BuildRaises,
     ResolveAccount, RateLimited, RelayAccepts, RelayRefuses, AnswerLost, StoreRetryCount,
     DeferRetry, FailPermanently, StampSent, reportVars
<1>6. CASE UNCHANGED vars
  BY <1>2, <1>6 DEF vars, reportVars
<1>7. QED
  BY <1>1, <1>3, <1>4, <1>5, <1>6 DEF Next

\* mark_sent only ever follows the relay's acceptance.
LEMMA StampStaysEarned ==
  ASSUME TypeInv, StampIsEarned, [Next]_vars
  PROVE  StampIsEarned'
<1>1. CASE RelayAccepts
  <2>1. Current.id \in MsgIds /\ Current.payload.ver \in Versions
    BY <1>1, CurrentType DEF RelayAccepts, TypeInv, TypeOK
  <2>2. accepted'[Current.id][Current.payload.ver] = accepted[Current.id][Current.payload.ver] + 1
    BY <1>1, <2>1 DEF RelayAccepts, RelayTakes, TypeInv, TypeOK
  <2>3. accepted[Current.id][Current.payload.ver] \in Nat
    BY <2>1 DEF TypeInv, TypeOK
  <2>4. Current' = Current
    BY <1>1 DEF RelayAccepts, Goto, Current
  <2>5. QED
    BY <2>2, <2>3, <2>4 DEF StampIsEarned
<1>2. CASE smtpPc' # "stamp"
  BY <1>2 DEF StampIsEarned
<1>3. CASE UNCHANGED <<smtpVars, relayVars>>
  BY <1>3 DEF StampIsEarned, smtpVars, relayVars, Current
<1>4. CASE SmtpStep
  BY <1>1, <1>2, <1>4
     DEF SmtpStep, Attempt, FetchBatch, ClearCurrent, BuildFails, BuildRaises, ResolveAccount,
         RateLimited, RelayRefuses, AnswerLost, StoreRetryCount, DeferRetry, FailPermanently,
         StampSent, NextMessage, EndCycle, Goto, AfterError
<1>5. CASE FaultStep
  BY <1>2, <1>3, <1>5
     DEF FaultStep, SmtpCycleFails, ReportCycleFails, Crash, RequestFails, EndCycle
<1>6. CASE ReportStep \/ ClientStep \/ Tick \/ \E h \in Handlers : HandlerStep(h)
  BY <1>3, <1>6 DEF ReportStep, ClientStep, Tick, FetchReports, DeliverReports, DeliveryFails,
     MarkDelivered, ApplyRetention, Submit, DeleteMessage, AddAccount, DeleteAccount, Suspend,
     Activate, CleanupMessages, HandlerStep, InsertValid, InsertRejected, MarkRejected
<1>7. QED
  BY <1>3, <1>4, <1>5, <1>6 DEF Next, vars

\* Nobody claims that a message was sent, neither its row nor a report, unless the relay took a
\* submission of it: whatever clients delete, replace or refuse, and whatever fails.
THEOREM SentIsTaken == Spec => []SentMeansTaken
<1>1. Init => TakenInv
  BY DEF Init, TakenInv, SentMeansTaken, StampIsEarned, HasStatus, Present
<1>2. TypeInv /\ TakenInv /\ [Next]_vars => TakenInv'
  <2> SUFFICES ASSUME TypeInv, TakenInv, [Next]_vars PROVE TakenInv'
    OBVIOUS
  <2>1. StampIsEarned'
    BY StampStaysEarned DEF TakenInv
  <2>2. ASSUME NEW id \in MsgIds,
               \/ HasStatus(msgs', id, "sent")
               \/ \E r \in reports' \cup told' : r.id = id /\ r.outcome = "sent"
        PROVE  \E v \in Versions : accepted'[id][v] > 0
    <3>1. \E v \in Versions : accepted[id][v] > 0
      <4>1. CASE HasStatus(msgs, id, "sent") \/ \E r \in reports \cup told :
                                                r.id = id /\ r.outcome = "sent"
        BY <4>1 DEF TakenInv, SentMeansTaken
      <4>2. CASE StampSent /\ id = Current.id
        <5>1. Current.payload.ver \in Versions
          BY <4>2, CurrentType DEF StampSent, TypeInv, TypeOK
        <5>2. QED
          BY <4>2, <5>1 DEF StampSent, TakenInv, StampIsEarned
      <4>3. QED
        BY <2>2, <4>1, <4>2, OnlyStampSends, ReportsComeFromRows
    <3>2. PICK v \in Versions : accepted[id][v] > 0
      BY <3>1
    <3>3. accepted'[id][v] >= accepted[id][v]
      BY HistoryGrows
    <3>4. accepted[id][v] \in Nat /\ accepted'[id][v] \in Nat
      <4>1. TypeInv'
        BY TypePreserved
      <4>2. QED
        BY <4>1 DEF TypeInv, TypeOK
    <3>5. QED
      BY <3>2, <3>3, <3>4
  <2>3. QED
    BY <2>1, <2>2 DEF TakenInv, SentMeansTaken
<1>3. TakenInv => SentMeansTaken
  BY DEF TakenInv
<1>4. QED
  BY <1>1, <1>2, <1>3, TypeInvariant, PTL DEF Spec

-----------------------------------------------------------------------------
(***************************************************************************)
(* The ledger.                                                             *)
(***************************************************************************)

\* No submission reaches the table, the plan or the relay for the first time.
NothingBorn ==
  \A id \in MsgIds, v \in Versions : Unborn(id, v) => Unborn(id, v)'

\* No request takes an item; some may have let go of theirs.
NothingHeld ==
  /\ subs' = subs
  /\ \A h \in Handlers : Holds(h)' => Holds(h) /\ apiItem'[h] = apiItem[h]

\* The types the arithmetic below needs.
LEMMA LedgerTypes ==
  ASSUME TypeInv
  PROVE  /\ faults \in Nat
         /\ \A id \in MsgIds : subs[id] \in Nat
         /\ \A id \in MsgIds, v \in Versions : accepted[id][v] \in Nat /\ attempts[id][v] \in Nat
         /\ \A id \in MsgIds : Present(msgs, id) =>
              /\ msgs[id].payload \in Payload /\ msgs[id].payload.ver \in Versions
              /\ msgs[id].payload.retry \in 0 .. MaxRetries
         /\ \A i \in DOMAIN plan :
              /\ plan[i] \in Entry /\ plan[i].id \in MsgIds /\ plan[i].payload \in Payload
              /\ plan[i].payload.ver \in Versions /\ plan[i].payload.retry \in 0 .. MaxRetries
         /\ plan # << >> => 1 \in DOMAIN plan /\ Current = plan[1]
         /\ \A h \in Handlers : Holds(h) =>
              /\ apiItem[h] \in Item /\ apiItem[h].id \in MsgIds /\ apiItem[h].ver \in Versions
         /\ MaxRetries \in Nat /\ Versions \subseteq Nat
<1>1. faults \in Nat /\ \A id \in MsgIds : subs[id] \in Nat
  BY DEF TypeInv, TypeOK
<1>2. \A id \in MsgIds, v \in Versions : accepted[id][v] \in Nat /\ attempts[id][v] \in Nat
  BY DEF TypeInv, TypeOK
<1>3. \A id \in MsgIds : Present(msgs, id) =>
        /\ msgs[id].payload \in Payload /\ msgs[id].payload.ver \in Versions
        /\ msgs[id].payload.retry \in 0 .. MaxRetries
  BY DEF TypeInv, TypeOK, Present, Table, Row, Payload
<1>4. \A i \in DOMAIN plan : plan[i] \in Entry
  BY DEF TypeInv, TypeOK
<1>5. \A e \in Entry : /\ e.id \in MsgIds /\ e.payload \in Payload
                       /\ e.payload.ver \in Versions /\ e.payload.retry \in 0 .. MaxRetries
  BY DEF Entry, Payload
<1>6. plan # << >> => 1 \in DOMAIN plan /\ Current = plan[1]
  BY DEF TypeInv, TypeOK, Current
<1>7. \A h \in Handlers : Holds(h) => apiItem[h] \in Item
  BY DEF Holds, TypeInv, TypeOK
<1>8. \A item \in Item : item.id \in MsgIds /\ item.ver \in Versions
  BY DEF Item
<1>9. MaxRetries \in Nat /\ Versions \subseteq Nat
  BY StoreAssumption DEF Versions
<1>10. QED
  BY <1>1, <1>2, <1>3, <1>4, <1>5, <1>6, <1>7, <1>8, <1>9

\* While nothing is born and nobody takes an item, the submissions stay new.
LEMMA NewStaysNew ==
  ASSUME TypeInv, SubmissionsAreNew, NothingBorn, NothingHeld
  PROVE  SubmissionsAreNew'
<1>1. \A id \in MsgIds, v \in Versions : v > subs'[id] => Unborn(id, v)'
  BY DEF SubmissionsAreNew, NothingBorn, NothingHeld
<1>2. ASSUME NEW h \in Handlers, Holds(h)'
      PROVE  apiItem'[h].ver <= subs'[apiItem'[h].id] /\ Unborn(apiItem[h].id, apiItem[h].ver)'
  <2>1. Holds(h) /\ apiItem'[h] = apiItem[h]
    BY <1>2 DEF NothingHeld
  <2>2. PICK id \in MsgIds, v \in Versions : id = apiItem[h].id /\ v = apiItem[h].ver
    BY <2>1, LedgerTypes
  <2>3. v <= subs[id] /\ Unborn(id, v)
    BY <2>1, <2>2 DEF SubmissionsAreNew
  <2>4. Unborn(id, v)'
    BY <2>3 DEF NothingBorn
  <2>5. QED
    BY <2>1, <2>2, <2>3, <2>4 DEF NothingHeld, Unborn
<1>3. QED
  BY <1>1, <1>2 DEF SubmissionsAreNew, NothingHeld, Unborn

\* The relay is not asked; faults may happen.
NothingSpent ==
  /\ accepted' = accepted /\ attempts' = attempts
  /\ faults' \in Nat /\ faults' >= faults

\* What a payload will have cost.
WillBeSpent(id, p) ==
  /\ accepted'[id][p.ver] <= faults'
  /\ attempts'[id][p.ver] <= p.retry + faults'

\* Then the bounds stay, and what a payload had cost it still has.
LEMMA NothingSpentKeeps ==
  ASSUME TypeInv, LedgerInv, NothingSpent
  PROVE  /\ DuplicatesArePaidFor' /\ AttemptsWithinBudget'
         /\ \A id \in MsgIds, p \in Payload : Spent(id, p) => WillBeSpent(id, p)
<1>1. faults \in Nat /\ faults' \in Nat /\ faults' >= faults /\ MaxRetries \in Nat
  BY LedgerTypes DEF NothingSpent
<1>2. \A id \in MsgIds, v \in Versions : accepted[id][v] \in Nat /\ attempts[id][v] \in Nat
  BY LedgerTypes
<1>3. DuplicatesArePaidFor'
  BY <1>1, <1>2 DEF LedgerInv, DuplicatesArePaidFor, NothingSpent
<1>4. AttemptsWithinBudget'
  BY <1>1, <1>2 DEF LedgerInv, AttemptsWithinBudget, NothingSpent
<1>5. ASSUME NEW id \in MsgIds, NEW p \in Payload, Spent(id, p)
      PROVE  WillBeSpent(id, p)
  <2>1. p.ver \in Versions /\ p.retry \in Nat
    BY StoreAssumption DEF Payload
  <2>2. accepted[id][p.ver] \in Nat /\ attempts[id][p.ver] \in Nat
    BY <1>2, <2>1
  <2>3. QED
    BY <1>1, <1>5, <2>1, <2>2 DEF Spent, WillBeSpent, NothingSpent
<1>6. QED
  BY <1>3, <1>4, <1>5

\* A tame step that leaves the relay alone lets nothing be born, if the plan gets nothing new.
LEMMA NothingNewIsBorn ==
  ASSUME TypeInv, NothingSpent, Tame(msgs, msgs'),
         \A i \in DOMAIN plan' : \E j \in DOMAIN plan : plan'[i] = plan[j]
  PROVE  NothingBorn
BY DEF NothingSpent, Tame, NothingBorn, Unborn

\* What the SMTP task does not do leaves the cost of its plan as it was.
LEMMA PlanStaysSpent ==
  ASSUME TypeInv, LedgerInv, NothingSpent, UNCHANGED smtpVars
  PROVE  PlanSpent'
<1>0. plan' = plan /\ smtpPc' = smtpPc /\ Current' = Current
  BY DEF smtpVars, Current
<1>1. \A i \in DOMAIN plan : i # 1 \/ ~Attempted => WillBeSpent(plan[i].id, plan[i].payload)
  BY LedgerTypes, NothingSpentKeeps DEF LedgerInv, PlanSpent
<1>2. Attempted =>
        /\ attempts'[Current.id][Current.payload.ver] <= Current.payload.retry + 1 + faults'
        /\ accepted'[Current.id][Current.payload.ver] <=
             (IF smtpPc = "stamp" THEN 1 ELSE 0) + faults'
  <2> SUFFICES ASSUME Attempted
               PROVE  /\ attempts'[Current.id][Current.payload.ver] <= Current.payload.retry + 1 + faults'
                      /\ accepted'[Current.id][Current.payload.ver] <=
                           (IF smtpPc = "stamp" THEN 1 ELSE 0) + faults'
    OBVIOUS
  <2>1. Current.id \in MsgIds /\ Current.payload.ver \in Versions /\ Current.payload.retry \in Nat
    <3>1. plan # << >> /\ plan \in Seq(Entry)
      BY DEF Attempted, TypeInv, TypeOK
    <3>2. QED
      BY <3>1, CurrentType, StoreAssumption
  <2>2. /\ attempts[Current.id][Current.payload.ver] \in Nat
        /\ accepted[Current.id][Current.payload.ver] \in Nat
        /\ faults \in Nat
    BY <2>1, LedgerTypes
  <2>3. QED
    BY <2>1, <2>2 DEF LedgerInv, PlanSpent, NothingSpent
<1>3. QED
  BY <1>0, <1>1, <1>2 DEF PlanSpent, Attempted, Spent, WillBeSpent

\* A step of someone else that changes the table only in tame ways keeps the ledger.
LEMMA QuietStep ==
  ASSUME TypeInv, LedgerInv, NothingSpent, NothingHeld, Tame(msgs, msgs'), UNCHANGED smtpVars
  PROVE  LedgerInv'
<1>1. plan' = plan /\ smtpPc' = smtpPc /\ Current' = Current
  BY DEF smtpVars, Current
<1>2. SubmissionsAreNew'
  BY <1>1, NothingNewIsBorn, NewStaysNew DEF LedgerInv
<1>3. PlanIsInjective' /\ CopiesLag'
  BY <1>1, LedgerTypes DEF LedgerInv, PlanIsInjective, CopiesLag, Tame
<1>4. PlanSpent'
  BY PlanStaysSpent
<1>5. RowsSpent'
  <2>1. ASSUME NEW id \in MsgIds, HasStatus(msgs', id, "queued"),
               ~Unwritten(id, msgs'[id].payload.ver)
        PROVE  WillBeSpent(id, msgs'[id].payload)
    <3>1. HasStatus(msgs, id, "queued") /\ msgs'[id].payload = msgs[id].payload
      BY <2>1 DEF Tame, HasStatus
    <3>2. Spent(id, msgs[id].payload) /\ msgs[id].payload \in Payload
      BY <2>1, <3>1, LedgerTypes DEF LedgerInv, RowsSpent, HasStatus
    <3>3. QED
      BY <3>1, <3>2, NothingSpentKeeps
  <2>2. QED
    BY <1>1, <2>1 DEF RowsSpent, Unwritten, Spent, WillBeSpent
<1>6. QED
  BY <1>2, <1>3, <1>4, <1>5, NothingSpentKeeps DEF LedgerInv

\* The copies that remain when the current one is done.
LEMMA TailOfPlan ==
  ASSUME TypeInv, plan # << >>
  PROVE  \A i \in DOMAIN Tail(plan) :
           i \in Nat /\ i + 1 \in DOMAIN plan /\ i + 1 # 1 /\ Tail(plan)[i] = plan[i + 1]
<1>1. plan \in Seq(Entry) /\ Len(plan) \in Nat
  BY DEF TypeInv, TypeOK
<1>2. QED
  BY <1>1

\* When the current message is done, and what it was done with is in the table, the ledger of the
\* rest is as it was (the loop of core.py 604-607).
LEMMA DoneStep ==
  ASSUME TypeInv, LedgerInv, NothingSpent, NothingHeld, Tame(msgs, msgs'), plan # << >>,
         NextMessage,
         \A id \in MsgIds : HasStatus(msgs', id, "queued") => ~Unwritten(id, msgs[id].payload.ver)
  PROVE  LedgerInv'
<1>1. plan' = Tail(plan) /\ ~Attempted' /\ smtpPc' \in {"idle", "clear"}
  BY DEF NextMessage, Attempted
<1>2. \A i \in DOMAIN plan' :
        i \in Nat /\ i + 1 \in DOMAIN plan /\ i + 1 # 1 /\ plan'[i] = plan[i + 1]
  BY <1>1, TailOfPlan
<1>3. SubmissionsAreNew'
  BY <1>2, NothingNewIsBorn, NewStaysNew DEF LedgerInv
<1>4. PlanIsInjective'
  BY <1>2 DEF LedgerInv, PlanIsInjective
<1>5. CopiesLag'
  BY <1>2, LedgerTypes DEF LedgerInv, CopiesLag, Tame
<1>6. PlanSpent'
  <2>1. \A i \in DOMAIN plan : i # 1 => WillBeSpent(plan[i].id, plan[i].payload)
    BY LedgerTypes, NothingSpentKeeps DEF LedgerInv, PlanSpent
  <2>2. \A i \in DOMAIN plan' : WillBeSpent(plan'[i].id, plan'[i].payload)
    BY <1>2, <2>1
  <2>3. QED
    BY <1>1, <2>2 DEF PlanSpent, Spent, WillBeSpent
<1>7. RowsSpent'
  <2>1. ASSUME NEW id \in MsgIds, HasStatus(msgs', id, "queued")
        PROVE  WillBeSpent(id, msgs'[id].payload)
    <3>1. HasStatus(msgs, id, "queued") /\ msgs'[id].payload = msgs[id].payload
      BY <2>1 DEF Tame, HasStatus
    <3>2. Spent(id, msgs[id].payload) /\ msgs[id].payload \in Payload
      BY <2>1, <3>1, LedgerTypes DEF LedgerInv, RowsSpent, HasStatus
    <3>3. QED
      BY <3>1, <3>2, NothingSpentKeeps
  <2>2. QED
    BY <2>1 DEF RowsSpent, Spent, WillBeSpent
<1>8. QED
  BY <1>3, <1>4, <1>5, <1>6, <1>7, NothingSpentKeeps DEF LedgerInv

\* From one stage to the next before the attempt.
LEMMA EarlyStep ==
  ASSUME TypeInv, LedgerInv, NothingSpent, NothingHeld, Tame(msgs, msgs'),
         ~Attempted, ~Attempted', UNCHANGED plan
  PROVE  LedgerInv'
<1>1. SubmissionsAreNew'
  BY NothingNewIsBorn, NewStaysNew DEF LedgerInv
<1>2. PlanIsInjective' /\ CopiesLag'
  BY LedgerTypes DEF LedgerInv, PlanIsInjective, CopiesLag, Tame
<1>3. PlanSpent'
  <2>1. \A i \in DOMAIN plan : WillBeSpent(plan[i].id, plan[i].payload)
    BY LedgerTypes, NothingSpentKeeps DEF LedgerInv, PlanSpent
  <2>2. QED
    BY <2>1 DEF PlanSpent, Spent, WillBeSpent
<1>4. RowsSpent'
  <2>1. ASSUME NEW id \in MsgIds, HasStatus(msgs', id, "queued")
        PROVE  WillBeSpent(id, msgs'[id].payload)
    <3>1. HasStatus(msgs, id, "queued") /\ msgs'[id].payload = msgs[id].payload
      BY <2>1 DEF Tame, HasStatus
    <3>2. Spent(id, msgs[id].payload) /\ msgs[id].payload \in Payload
      BY <2>1, <3>1, LedgerTypes DEF LedgerInv, RowsSpent, HasStatus, Unwritten, Attempted
    <3>3. QED
      BY <3>1, <3>2, NothingSpentKeeps
  <2>2. QED
    BY <2>1 DEF RowsSpent, Spent, WillBeSpent
<1>5. QED
  BY <1>1, <1>2, <1>3, <1>4, NothingSpentKeeps DEF LedgerInv

\* A cycle that is broken off leaves to the next what its attempt has cost: when that attempt is
\* not in the row yet, a fault has to explain it.
LEMMA BrokenCycle ==
  ASSUME TypeInv, LedgerInv, NothingSpent, NothingHeld, EndCycle, msgs' = msgs,
         ~Attempted \/ faults' = faults + 1
  PROVE  LedgerInv'
<1>1. plan' = << >> /\ ~Attempted' /\ smtpPc' = "idle" /\ DOMAIN plan' = {}
  BY DEF EndCycle, Attempted
<1>2. Tame(msgs, msgs')
  BY DEF Tame
<1>3. SubmissionsAreNew'
  BY <1>1, <1>2, NothingNewIsBorn, NewStaysNew DEF LedgerInv
<1>4. PlanIsInjective' /\ CopiesLag' /\ PlanSpent'
  BY <1>1 DEF PlanIsInjective, CopiesLag, PlanSpent
<1>5. RowsSpent'
  <2>1. ASSUME NEW id \in MsgIds, HasStatus(msgs, id, "queued")
        PROVE  WillBeSpent(id, msgs[id].payload)
    <3>1. msgs[id].payload \in Payload
      BY <2>1, LedgerTypes DEF HasStatus
    <3>2. CASE ~Unwritten(id, msgs[id].payload.ver)
      BY <2>1, <3>1, <3>2, NothingSpentKeeps DEF LedgerInv, RowsSpent
    <3>3. CASE Unwritten(id, msgs[id].payload.ver)
      <4>1. Attempted /\ faults' = faults + 1 /\ plan # << >> /\ plan \in Seq(Entry)
        BY <3>3 DEF Unwritten, Attempted, TypeInv, TypeOK
      <4>2. /\ 1 \in DOMAIN plan /\ Current = plan[1] /\ Current.id = id
            /\ Current.payload.ver = msgs[id].payload.ver
        BY <3>3, <4>1, LedgerTypes DEF Unwritten
      <4>3. Current.payload.retry <= msgs[id].payload.retry
        BY <2>1, <4>2 DEF LedgerInv, CopiesLag, HasStatus
      <4>4. /\ attempts[id][msgs[id].payload.ver] <= Current.payload.retry + 1 + faults
            /\ accepted[id][msgs[id].payload.ver] <= (IF smtpPc = "stamp" THEN 1 ELSE 0) + faults
        BY <4>1, <4>2 DEF LedgerInv, PlanSpent
      <4>5. /\ attempts[id][msgs[id].payload.ver] \in Nat
            /\ accepted[id][msgs[id].payload.ver] \in Nat
            /\ faults \in Nat /\ msgs[id].payload.retry \in Nat /\ Current.payload.retry \in Nat
        BY <2>1, <4>2, LedgerTypes DEF HasStatus
      <4>6. QED
        BY <4>1, <4>3, <4>4, <4>5 DEF WillBeSpent, NothingSpent
    <3>4. QED
      BY <3>2, <3>3
  <2>2. QED
    BY <2>1 DEF RowsSpent, Spent, WillBeSpent
<1>6. QED
  BY <1>3, <1>4, <1>5, NothingSpentKeeps DEF LedgerInv

\* A cycle reads each message once: the order of the rows is strict (core.py 575-606).
LEMMA FetchedOnce ==
  ASSUME TypeOK, FetchBatch
  PROVE  PlanIsInjective'
<1>0. PICK size \in [Accounts -> BatchSizes] :
        \E order \in [1 .. Cardinality(PlannedIds(msgs, size)) -> PlannedIds(msgs, size)] :
          /\ \A i, j \in DOMAIN order : i < j => Turn(msgs, order[i], order[j])
          /\ plan' = [i \in DOMAIN order |->
                        [id |-> order[i], payload |-> msgs[order[i]].payload]]
  BY DEF FetchBatch
<1> DEFINE ids == PlannedIds(msgs, size)
<1>1. ids \subseteq {id \in MsgIds : Present(msgs, id)}
  BY DEF PlannedIds, FetchReadyMessages, IsReady, HasStatus
<1>2. IsFiniteSet(ids)
  BY <1>1, FS_Subset, StoreAssumption
<1>3. Cardinality(ids) \in Nat
  BY <1>2, FS_CardinalityType
<1>4. \A x \in ids : ~Turn(msgs, x, x)
  <2>1. \A x \in ids : msgs[x].prio \in Nat /\ msgs[x].created \in Nat
    BY <1>1, StoreAssumption DEF TypeOK, Table, Row, Present
  <2>2. QED
    BY <2>1 DEF Turn, Before
<1> HIDE DEF ids
<1>5. PICK order \in [1 .. Cardinality(ids) -> ids] :
        /\ \A i, j \in DOMAIN order : i < j => Turn(msgs, order[i], order[j])
        /\ plan' = [i \in DOMAIN order |->
                      [id |-> order[i], payload |-> msgs[order[i]].payload]]
  BY <1>0 DEF ids
<1>6. \A i, j \in DOMAIN order : order[i] = order[j] => i = j
  <2> SUFFICES ASSUME NEW i \in DOMAIN order, NEW j \in DOMAIN order, order[i] = order[j], i # j
               PROVE  FALSE
    OBVIOUS
  <2>1. i \in Nat /\ j \in Nat /\ order[i] \in ids
    BY <1>3
  <2>2. i < j \/ j < i
    BY <2>1
  <2>3. Turn(msgs, order[i], order[i])
    BY <1>5, <2>2
  <2>4. QED
    BY <1>4, <2>1, <2>3
<1>7. QED
  BY <1>5, <1>6 DEF PlanIsInjective

\* A new cycle starts with copies of rows whose cost is known.
LEMMA FetchStep ==
  ASSUME TypeInv, LedgerInv, FetchBatch
  PROVE  LedgerInv'
<1>1. /\ msgs' = msgs /\ subs' = subs /\ apiPc' = apiPc /\ apiItem' = apiItem
      /\ smtpPc = "idle" /\ smtpPc' = "clear" /\ ~Attempted /\ ~Attempted'
  BY DEF FetchBatch, store, apiVars, Attempted
<1>2. NothingSpent
  BY LedgerTypes DEF FetchBatch, relayVars, NothingSpent
<1>3. NothingHeld
  BY <1>1 DEF NothingHeld, Holds
<1>4. \A i \in DOMAIN plan' :
        /\ plan'[i].id \in MsgIds
        /\ HasStatus(msgs, plan'[i].id, "queued")
        /\ plan'[i].payload = msgs[plan'[i].id].payload
  <2>1. TypeInv'
    BY TypePreserved DEF Next, SmtpStep
  <2>2. \A i \in DOMAIN plan' : plan'[i].id \in MsgIds
    <3>1. plan' \in Seq(Entry)
      BY <2>1 DEF TypeInv, TypeOK
    <3>2. \A i \in DOMAIN plan' : plan'[i] \in Entry
      BY <3>1
    <3>3. QED
      BY <3>2 DEF Entry
  <2>3. \A i \in DOMAIN plan' :
          /\ IsReady(msgs, plan'[i].id)
          /\ plan'[i].payload = msgs[plan'[i].id].payload
    BY FetchedPlan DEF TypeInv
  <2>4. QED
    BY <2>2, <2>3 DEF IsReady
<1>5. NothingBorn
  BY <1>1, <1>2, <1>4 DEF NothingBorn, Unborn, NothingSpent, HasStatus
<1>6. SubmissionsAreNew'
  BY <1>3, <1>5, NewStaysNew DEF LedgerInv
<1>7. \A id \in MsgIds : HasStatus(msgs, id, "queued") => WillBeSpent(id, msgs[id].payload)
  <2> SUFFICES ASSUME NEW id \in MsgIds, HasStatus(msgs, id, "queued")
               PROVE  WillBeSpent(id, msgs[id].payload)
    OBVIOUS
  <2>1. Spent(id, msgs[id].payload) /\ msgs[id].payload \in Payload
    BY <1>1, LedgerTypes DEF LedgerInv, RowsSpent, HasStatus, Unwritten
  <2>2. QED
    BY <1>2, <2>1, NothingSpentKeeps
<1>8. PlanSpent' /\ RowsSpent'
  BY <1>1, <1>4, <1>7 DEF PlanSpent, RowsSpent, Spent, WillBeSpent
<1>9. CopiesLag'
  <2>1. \A i \in DOMAIN plan' : plan'[i].payload.retry \in Nat
    BY <1>4, LedgerTypes DEF HasStatus
  <2>2. QED
    BY <1>1, <1>4, <2>1 DEF CopiesLag
<1>10. QED
  BY <1>2, <1>6, <1>8, <1>9, FetchedOnce, NothingSpentKeeps DEF LedgerInv, TypeInv

\* The attempt is one more of its submission; that the relay took it without the dispatcher
\* learning of it takes a fault (core.py 702-717).
LEMMA AttemptStep ==
  ASSUME TypeInv, LedgerInv, Attempt
  PROVE  LedgerInv'
<1> DEFINE c == Current.id
           v == Current.payload.ver
<1>1. /\ msgs' = msgs /\ subs' = subs /\ apiPc' = apiPc /\ apiItem' = apiItem /\ plan' = plan
      /\ smtpPc = "send" /\ smtpPc' \in {"stamp", "retry", "fail"}
      /\ ~Attempted /\ Attempted' /\ Current' = Current
  BY DEF Attempt, RelayAccepts, RelayRefuses, AnswerLost, store, apiVars, Attempted, Goto,
         AfterError, Current
<1>2. /\ plan # << >> /\ 1 \in DOMAIN plan /\ Current = plan[1]
      /\ c \in MsgIds /\ v \in Versions /\ Current.payload.retry \in 0 .. MaxRetries
  BY <1>1, LedgerTypes DEF TypeInv, TypeOK
<1>3. /\ faults \in Nat /\ faults' \in Nat
      /\ \A x \in MsgIds, w \in Versions : accepted[x][w] \in Nat /\ attempts[x][w] \in Nat
      /\ MaxRetries \in Nat
  BY LedgerTypes DEF Attempt, RelayAccepts, RelayRefuses, AnswerLost
<1>4. /\ attempts'[c][v] = attempts[c][v] + 1
      /\ \A x \in MsgIds, w \in Versions : x # c \/ w # v => attempts'[x][w] = attempts[x][w]
  BY <1>2 DEF Attempt, RelayAccepts, RelayRefuses, AnswerLost, CountAttempt, TypeInv, TypeOK
<1>5. /\ faults' >= faults
      /\ accepted'[c][v] <= accepted[c][v] + (IF smtpPc' = "stamp" THEN 1 ELSE 0)
                                           + (faults' - faults)
      /\ \A x \in MsgIds, w \in Versions : x # c \/ w # v => accepted'[x][w] = accepted[x][w]
  <2>1. CASE RelayRefuses
    BY <1>2, <1>3, <2>1 DEF RelayRefuses, Goto, AfterError
  <2>2. ASSUME accepted' = [accepted EXCEPT ![c][v] = @ + 1]
        PROVE  /\ accepted'[c][v] = accepted[c][v] + 1
               /\ \A x \in MsgIds, w \in Versions :
                    x # c \/ w # v => accepted'[x][w] = accepted[x][w]
    BY <1>2, <2>2 DEF TypeInv, TypeOK
  <2>3. CASE RelayAccepts
    BY <1>2, <1>3, <2>2, <2>3 DEF RelayAccepts, RelayTakes, Goto
  <2>4. CASE AnswerLost
    <3>1. accepted'[c][v] = accepted[c][v] + 1 /\ faults' = faults + 1
      BY <2>2, <2>4 DEF AnswerLost, RelayTakes
    <3>2. QED
      BY <1>2, <1>3, <2>2, <2>4, <3>1 DEF AnswerLost, RelayTakes, Goto, AfterError
  <2>5. QED
    BY <2>1, <2>3, <2>4 DEF Attempt
<1>6. Spent(c, Current.payload)
  BY <1>1, <1>2 DEF LedgerInv, PlanSpent
<1> HIDE DEF c, v
<1>7. /\ attempts'[c][v] <= Current.payload.retry + 1 + faults'
      /\ accepted'[c][v] <= (IF smtpPc' = "stamp" THEN 1 ELSE 0) + faults'
  <2>1. accepted[c][v] <= faults /\ attempts[c][v] <= Current.payload.retry + faults
    BY <1>6 DEF Spent, v
  <2>2. accepted'[c][v] \in Nat /\ attempts'[c][v] \in Nat
    <3>1. TypeInv'
      BY TypePreserved DEF Next, SmtpStep
    <3>2. QED
      BY <1>2, <3>1 DEF TypeInv, TypeOK
  <2>3. accepted[c][v] \in Nat /\ attempts[c][v] \in Nat /\ Current.payload.retry \in Nat
    BY <1>2, <1>3
  <2>4. attempts'[c][v] <= Current.payload.retry + 1 + faults'
    BY <1>3, <1>4, <1>5, <2>1, <2>2, <2>3
  <2>5. accepted'[c][v] <= (IF smtpPc' = "stamp" THEN 1 ELSE 0) + faults'
    BY <1>3, <1>5, <2>1, <2>2, <2>3
  <2>6. QED
    BY <2>4, <2>5
<1>8. DuplicatesArePaidFor' /\ AttemptsWithinBudget'
  <2>1. ASSUME NEW x \in MsgIds, NEW w \in Versions
        PROVE  accepted'[x][w] <= 1 + faults' /\ attempts'[x][w] <= 1 + MaxRetries + faults'
    <3>1. accepted[x][w] <= 1 + faults /\ attempts[x][w] <= 1 + MaxRetries + faults
      BY DEF LedgerInv, DuplicatesArePaidFor, AttemptsWithinBudget
    <3>2. CASE x = c /\ w = v
      <4>1. accepted'[c][v] \in Nat /\ attempts'[c][v] \in Nat
        <5>1. TypeInv'
          BY TypePreserved DEF Next, SmtpStep
        <5>2. QED
          BY <1>2, <5>1 DEF TypeInv, TypeOK
      <4>2. QED
        BY <1>2, <1>3, <1>7, <3>2, <4>1
    <3>3. CASE x # c \/ w # v
      BY <1>3, <1>4, <1>5, <3>1, <3>3
    <3>4. QED
      BY <3>2, <3>3
  <2>2. QED
    BY <2>1 DEF DuplicatesArePaidFor, AttemptsWithinBudget
<1>9. SubmissionsAreNew'
  <2>1. NothingBorn
    <3> SUFFICES ASSUME NEW x \in MsgIds, NEW w \in Versions, Unborn(x, w)
                 PROVE  Unborn(x, w)'
      BY DEF NothingBorn
    <3>1. x # c \/ w # v
      BY <1>2 DEF Unborn, c, v
    <3>2. QED
      BY <1>1, <1>4, <1>5, <3>1 DEF Unborn
  <2>2. NothingHeld
    BY <1>1 DEF NothingHeld, Holds
  <2>3. QED
    BY <2>1, <2>2, NewStaysNew DEF LedgerInv
<1>10. PlanIsInjective' /\ CopiesLag'
  BY <1>1 DEF LedgerInv, PlanIsInjective, CopiesLag
<1>11. ASSUME NEW x \in MsgIds, NEW p \in Payload, Spent(x, p), x # c \/ p.ver # v
       PROVE  WillBeSpent(x, p)
  <2>1. p.ver \in Versions /\ p.retry \in Nat
    BY StoreAssumption DEF Payload
  <2>2. QED
    BY <1>3, <1>4, <1>5, <1>11, <2>1 DEF Spent, WillBeSpent
<1>12. PlanSpent'
  <2>1. \A i \in DOMAIN plan : i # 1 => WillBeSpent(plan[i].id, plan[i].payload)
    <3> SUFFICES ASSUME NEW i \in DOMAIN plan, i # 1
                 PROVE  WillBeSpent(plan[i].id, plan[i].payload)
      OBVIOUS
    <3>1. plan[i].id # c
      BY <1>2 DEF LedgerInv, PlanIsInjective, c
    <3>2. Spent(plan[i].id, plan[i].payload) /\ plan[i].id \in MsgIds /\ plan[i].payload \in Payload
      BY LedgerTypes DEF LedgerInv, PlanSpent
    <3>3. QED
      BY <1>11, <3>1, <3>2
  <2>2. QED
    BY <1>1, <1>7, <2>1 DEF PlanSpent, Spent, WillBeSpent, c, v
<1>13. RowsSpent'
  <2>1. ASSUME NEW x \in MsgIds, HasStatus(msgs, x, "queued"), x # c \/ msgs[x].payload.ver # v
        PROVE  WillBeSpent(x, msgs[x].payload)
    <3>1. Spent(x, msgs[x].payload) /\ msgs[x].payload \in Payload
      BY <1>1, <2>1, LedgerTypes DEF LedgerInv, RowsSpent, HasStatus, Unwritten
    <3>2. QED
      BY <1>11, <2>1, <3>1
  <2>2. QED
    BY <1>1, <2>1 DEF RowsSpent, Unwritten, Spent, WillBeSpent, c, v
<1>14. QED
  BY <1>8, <1>9, <1>10, <1>12, <1>13 DEF LedgerInv

\* The row is charged with the attempt before it is deferred (core.py 719-729).
LEMMA RetryStep ==
  ASSUME TypeInv, LedgerInv, StoreRetryCount
  PROVE  LedgerInv'
<1> DEFINE c == Current.id
           q == [Current.payload EXCEPT !.retry = @ + 1]
<1>1. /\ subs' = subs /\ apiPc' = apiPc /\ apiItem' = apiItem /\ plan' = plan
      /\ smtpPc = "retry" /\ smtpPc' = "defer" /\ Attempted /\ Attempted' /\ Current' = Current
  BY DEF StoreRetryCount, apiVars, Attempted, Goto, Current
<1>2. /\ plan # << >> /\ 1 \in DOMAIN plan /\ Current = plan[1]
      /\ c \in MsgIds /\ Current.payload \in Payload
      /\ Current.payload.ver \in Versions /\ Current.payload.retry \in 0 .. MaxRetries
  BY <1>1, LedgerTypes DEF TypeInv, TypeOK
<1>3. q \in Payload /\ q.ver = Current.payload.ver /\ q.retry = Current.payload.retry + 1
  BY <1>1, <1>2, StoreAssumption DEF Payload, TypeInv, RetryLeft
<1>4. NothingSpent
  BY LedgerTypes DEF StoreRetryCount, relayVars, NothingSpent
<1> HIDE DEF q
<1>5. /\ \A x \in MsgIds \ {c} : msgs'[x] = msgs[x]
      /\ \A s : HasStatus(msgs', c, s) <=> HasStatus(msgs, c, s)
      /\ Present(msgs', c) <=> Present(msgs, c)
      /\ Present(msgs', c) => msgs'[c].payload = q
  <2>1. msgs' = UpdateMessagePayload(msgs, c, q)
    BY DEF StoreRetryCount, q
  <2>2. msgs \in Table
    BY DEF TypeInv, TypeOK
  <2>3. QED
    BY <1>2, <1>3, <2>1, <2>2, PayloadEffect
<1> HIDE DEF c
<1>6. /\ attempts[c][q.ver] <= q.retry + faults
      /\ accepted[c][q.ver] <= faults
  <2>1. /\ attempts[c][q.ver] <= Current.payload.retry + 1 + faults
        /\ accepted[c][q.ver] <= 0 + faults
    BY <1>1, <1>3 DEF LedgerInv, PlanSpent, c
  <2>2. accepted[c][q.ver] \in Nat /\ faults \in Nat
    BY <1>2, <1>3, LedgerTypes
  <2>3. QED
    BY <1>3, <2>1, <2>2
<1>7. SubmissionsAreNew'
  <2>1. NothingBorn
    <3> SUFFICES ASSUME NEW x \in MsgIds, NEW w \in Versions, Unborn(x, w)
                 PROVE  Unborn(x, w)'
      BY DEF NothingBorn
    <3>1. x = c => w # q.ver
      BY <1>2, <1>3 DEF Unborn, c
    <3>2. Present(msgs', x) => msgs'[x].payload.ver # w
      BY <1>5, <3>1 DEF Unborn, Present
    <3>3. QED
      BY <1>1, <1>4, <3>2 DEF Unborn, NothingSpent
  <2>2. NothingHeld
    BY <1>1 DEF NothingHeld, Holds
  <2>3. QED
    BY <2>1, <2>2, NewStaysNew DEF LedgerInv
<1>8. PlanIsInjective'
  BY <1>1 DEF LedgerInv, PlanIsInjective
<1>9. CopiesLag'
  <2> SUFFICES ASSUME NEW i \in DOMAIN plan, Present(msgs', plan[i].id),
                      msgs'[plan[i].id].payload.ver = plan[i].payload.ver
               PROVE  plan[i].payload.retry <= msgs'[plan[i].id].payload.retry
    BY <1>1 DEF CopiesLag
  <2>1. CASE plan[i].id = c
    <3>1. i = 1
      BY <1>2, <2>1 DEF LedgerInv, PlanIsInjective, c
    <3>2. QED
      BY <1>2, <1>3, <1>5, <2>1, <3>1
  <2>2. CASE plan[i].id # c
    <3>1. msgs'[plan[i].id] = msgs[plan[i].id]
      BY <1>5, <2>2, LedgerTypes
    <3>2. QED
      BY <3>1 DEF LedgerInv, CopiesLag, Present
  <2>3. QED
    BY <2>1, <2>2
<1>10. PlanSpent'
  <2>1. \A i \in DOMAIN plan : i # 1 => WillBeSpent(plan[i].id, plan[i].payload)
    BY <1>4, LedgerTypes, NothingSpentKeeps DEF LedgerInv, PlanSpent
  <2>2. faults' = faults
    BY DEF StoreRetryCount
  <2>3. QED
    BY <1>1, <1>4, <2>1, <2>2 DEF LedgerInv, PlanSpent, Spent, WillBeSpent, NothingSpent
<1>11. RowsSpent'
  <2>1. ASSUME NEW x \in MsgIds, HasStatus(msgs', x, "queued")
        PROVE  WillBeSpent(x, msgs'[x].payload)
    <3>1. CASE x = c
      <4>1. Spent(c, q)
        BY <1>6 DEF Spent
      <4>2. msgs'[x].payload = q
        BY <1>5, <2>1, <3>1 DEF HasStatus
      <4>3. QED
        BY <1>2, <1>3, <1>4, <3>1, <4>1, <4>2, NothingSpentKeeps DEF c
    <3>2. CASE x # c
      <4>1. msgs'[x] = msgs[x]
        BY <1>5, <3>2
      <4>2. HasStatus(msgs, x, "queued") /\ msgs[x].payload \in Payload
        BY <2>1, <4>1, LedgerTypes DEF HasStatus, Present
      <4>3. Spent(x, msgs[x].payload)
        BY <3>2, <4>2 DEF LedgerInv, RowsSpent, Unwritten, c
      <4>4. QED
        BY <1>4, <4>1, <4>2, <4>3, NothingSpentKeeps
    <3>3. QED
      BY <3>1, <3>2
  <2>2. QED
    BY <2>1 DEF RowsSpent, Spent, WillBeSpent
<1>12. QED
  BY <1>4, <1>7, <1>8, <1>9, <1>10, <1>11, NothingSpentKeeps DEF LedgerInv

\* A request that stores its item gives birth to that submission alone (core.py 395, 428, 458).
LEMMA InsertStep ==
  ASSUME TypeInv, LedgerInv, NEW h \in Handlers, InsertValid(h) \/ InsertRejected(h)
  PROVE  LedgerInv'
<1> DEFINE item == apiItem[h]
<1>1. /\ Holds(h) /\ subs' = subs /\ plan' = plan /\ smtpPc' = smtpPc /\ Current' = Current
      /\ msgs' = UpsertMessage(msgs, item, stamp)
  BY DEF InsertValid, InsertRejected, Holds, StoreItem, FinishRequest, smtpVars, Current
<1>2. item \in Item /\ item.id \in MsgIds /\ item.ver \in Versions
  BY <1>1, LedgerTypes
<1>3. item.ver <= subs[item.id] /\ Unborn(item.id, item.ver)
  BY <1>1 DEF LedgerInv, SubmissionsAreNew
<1>4. /\ ~Holds(h)'
      /\ \A g \in Handlers : g # h => (Holds(g)' <=> Holds(g)) /\ apiItem'[g] = apiItem[g]
  BY DEF InsertValid, InsertRejected, Holds, FinishRequest, TypeInv, TypeOK
<1>5. NothingSpent
  BY LedgerTypes DEF InsertValid, InsertRejected, relayVars, NothingSpent
<1> HIDE DEF item
<1>6. /\ \A x \in MsgIds \ {item.id} : msgs'[x] = msgs[x]
      /\ \/ msgs' = msgs
         \/ /\ HasStatus(msgs', item.id, "queued")
            /\ msgs'[item.id].payload.ver = item.ver
            /\ msgs'[item.id].payload.retry = 0
  <2>1. msgs \in Table /\ stamp \in Nat
    BY DEF TypeInv, TypeOK
  <2>2. QED
    BY <1>1, <1>2, <2>1, UpsertEffect
<1>7. ASSUME NEW x \in MsgIds, NEW w \in Versions, Unborn(x, w), x # item.id \/ w # item.ver
      PROVE  Unborn(x, w)'
  BY <1>1, <1>5, <1>6, <1>7 DEF Unborn, NothingSpent, Present
<1>8. SubmissionsAreNew'
  <2>1. \A x \in MsgIds, w \in Versions : w > subs'[x] => Unborn(x, w)'
    <3> SUFFICES ASSUME NEW x \in MsgIds, NEW w \in Versions, w > subs[x]
                 PROVE  Unborn(x, w)'
      BY <1>1
    <3>1. x # item.id \/ w # item.ver
      <4>1. w \in Nat /\ subs[x] \in Nat
        BY LedgerTypes
      <4>2. QED
        BY <1>3, <4>1
    <3>2. QED
      BY <1>7, <3>1 DEF LedgerInv, SubmissionsAreNew
  <2>2. ASSUME NEW g \in Handlers, Holds(g)'
        PROVE  /\ apiItem'[g].ver <= subs'[apiItem'[g].id]
               /\ Unborn(apiItem[g].id, apiItem[g].ver)'
    <3>1. g # h /\ Holds(g) /\ apiItem'[g] = apiItem[g]
      BY <1>4, <2>2
    <3>2. PICK x \in MsgIds, w \in Versions : x = apiItem[g].id /\ w = apiItem[g].ver
      BY <3>1, LedgerTypes
    <3>3. w <= subs[x] /\ Unborn(x, w) /\ (x # item.id \/ w # item.ver)
      BY <1>1, <3>1, <3>2 DEF LedgerInv, SubmissionsAreNew, item
    <3>4. Unborn(x, w)'
      BY <1>7, <3>3
    <3>5. QED
      BY <1>1, <3>1, <3>2, <3>3, <3>4 DEF Unborn
  <2>3. \A f, g \in Handlers :
          f # g /\ Holds(f)' /\ Holds(g)' /\ apiItem'[f].id = apiItem'[g].id
          => apiItem'[f].ver # apiItem'[g].ver
    BY <1>4 DEF LedgerInv, SubmissionsAreNew
  <2>4. QED
    BY <2>1, <2>2, <2>3 DEF SubmissionsAreNew, Unborn
<1>9. PlanIsInjective' /\ PlanSpent'
  BY <1>1, <1>5, PlanStaysSpent DEF LedgerInv, PlanIsInjective, smtpVars
<1>10. CopiesLag'
  <2> SUFFICES ASSUME NEW i \in DOMAIN plan, Present(msgs', plan[i].id),
                      msgs'[plan[i].id].payload.ver = plan[i].payload.ver
               PROVE  plan[i].payload.retry <= msgs'[plan[i].id].payload.retry
    BY <1>1 DEF CopiesLag
  <2>1. msgs'[plan[i].id] = msgs[plan[i].id]
    BY <1>3, <1>6, LedgerTypes DEF Unborn
  <2>2. QED
    BY <2>1 DEF LedgerInv, CopiesLag, Present
<1>11. RowsSpent'
  <2>1. ASSUME NEW x \in MsgIds, HasStatus(msgs', x, "queued"),
               ~Unwritten(x, msgs'[x].payload.ver)
        PROVE  WillBeSpent(x, msgs'[x].payload)
    <3>1. CASE msgs'[x] = msgs[x]
      <4>1. HasStatus(msgs, x, "queued") /\ msgs[x].payload \in Payload
        BY <2>1, <3>1, LedgerTypes DEF HasStatus, Present
      <4>2. Spent(x, msgs[x].payload)
        BY <2>1, <3>1, <4>1 DEF LedgerInv, RowsSpent
      <4>3. QED
        BY <1>5, <3>1, <4>1, <4>2, NothingSpentKeeps
    <3>2. CASE x = item.id /\ msgs'[x].payload.ver = item.ver /\ msgs'[x].payload.retry = 0
      <4>1. accepted'[x][item.ver] = 0 /\ attempts'[x][item.ver] = 0
        BY <1>3, <1>5, <3>2 DEF Unborn, NothingSpent
      <4>2. /\ accepted'[x][msgs'[x].payload.ver] = 0
            /\ attempts'[x][msgs'[x].payload.ver] = 0
            /\ msgs'[x].payload.retry = 0 /\ faults' \in Nat
        BY <1>5, <3>2, <4>1 DEF NothingSpent
      <4>3. accepted'[x][msgs'[x].payload.ver] <= faults'
        BY <4>2
      <4>4. attempts'[x][msgs'[x].payload.ver] <= msgs'[x].payload.retry + faults'
        <5>1. 0 <= 0 + faults'
          <6>1. \A n \in Nat : 0 <= 0 + n
            OBVIOUS
          <6>2. faults' \in Nat
            BY <4>2
          <6>3. QED
            BY <6>1, <6>2, Zenon
        <5>2. QED
          BY <4>2, <5>1, Zenon
      <4>5. QED
        BY <4>3, <4>4 DEF WillBeSpent
    <3>3. QED
      BY <1>6, <3>1, <3>2
  <2>2. QED
    BY <1>1, <2>1 DEF RowsSpent, Unwritten, Spent, WillBeSpent
<1>12. QED
  BY <1>5, <1>8, <1>9, <1>10, <1>11, NothingSpentKeeps DEF LedgerInv

\* A new submission gets a number nothing in the system carries (core.py 361-456).
LEMMA SubmitStep ==
  ASSUME TypeInv, LedgerInv, NEW h \in Handlers, Submit(h)
  PROVE  LedgerInv'
<1>1. /\ msgs' = msgs /\ smtpPc' = smtpPc /\ plan' = plan /\ ~Holds(h)
      /\ UNCHANGED smtpVars
  BY DEF Submit, store, smtpVars, Holds
<1>2. NothingSpent
  BY LedgerTypes DEF Submit, relayVars, NothingSpent
<1>3. PICK id \in MsgIds, item \in Item :
        /\ item.id = id /\ item.ver = subs[id] + 1
        /\ subs' = [subs EXCEPT ![id] = @ + 1]
        /\ apiItem'[h] = item
        /\ \A g \in Handlers : g # h => apiItem'[g] = apiItem[g] /\ apiPc'[g] = apiPc[g]
  <2>1. PICK id \in MsgIds, acct \in Accounts, content \in Contents, prio \in Priorities,
             wait \in 0 .. MaxWait :
          LET valid == content # "foreign" /\ acct \in accts
          IN  /\ subs[id] < MaxVer
              /\ subs' = [subs EXCEPT ![id] = @ + 1]
              /\ apiItem' = [apiItem EXCEPT ![h] =
                   [id |-> id, ver |-> subs[id] + 1, acct |-> acct, content |-> content,
                    prio |-> prio, wait |-> IF valid THEN wait ELSE 0]]
              /\ apiPc' = [apiPc EXCEPT ![h] = IF valid THEN "insert" ELSE "refuse"]
    BY DEF Submit
  <2>2. subs[id] + 1 \in Versions
    BY <2>1, StoreAssumption DEF TypeInv, TypeOK, Versions
  <2> DEFINE valid == content # "foreign" /\ acct \in accts
             item == [id |-> id, ver |-> subs[id] + 1, acct |-> acct, content |-> content,
                      prio |-> prio, wait |-> IF valid THEN wait ELSE 0]
  <2>3. item \in Item
    BY <2>2, RowBounds DEF Item
  <2>4. item.id = id /\ item.ver = subs[id] + 1
    OBVIOUS
  <2>5. /\ apiItem'[h] = item
        /\ \A g \in Handlers : g # h => apiItem'[g] = apiItem[g] /\ apiPc'[g] = apiPc[g]
    BY <2>1 DEF TypeInv, TypeOK
  <2> HIDE DEF item
  <2>6. QED
    BY <2>1, <2>3, <2>4, <2>5
<1>4. /\ subs[id] \in Nat /\ subs'[id] = subs[id] + 1
      /\ \A x \in MsgIds : x # id => subs'[x] = subs[x]
      /\ \A x \in MsgIds : subs[x] \in Nat /\ subs'[x] \in Nat /\ subs[x] <= subs'[x]
      /\ item.ver \in Versions /\ item.ver \in Nat /\ item.ver > subs[id]
  <2>1. \A x \in MsgIds : subs[x] \in Nat
    BY LedgerTypes
  <2>2. item.ver \in Versions /\ Versions \subseteq Nat
    BY LedgerTypes DEF Item
  <2>3. subs'[id] = subs[id] + 1 /\ \A x \in MsgIds : x # id => subs'[x] = subs[x]
    BY <1>3 DEF TypeInv, TypeOK
  <2>4. QED
    BY <1>3, <2>1, <2>2, <2>3
<1>5. NothingBorn
  <2>1. Tame(msgs, msgs')
    BY <1>1 DEF Tame
  <2>2. QED
    BY <1>1, <1>2, <2>1, NothingNewIsBorn
<1>6. SubmissionsAreNew'
  <2>1. ASSUME NEW x \in MsgIds, NEW w \in Versions, w > subs'[x]
        PROVE  Unborn(x, w)'
    <3>1. w > subs[x]
      <4>1. w \in Nat
        BY LedgerTypes
      <4>2. QED
        BY <1>4, <2>1, <4>1
    <3>2. QED
      BY <1>5, <3>1 DEF LedgerInv, SubmissionsAreNew, NothingBorn
  <2>2. ASSUME NEW g \in Handlers, Holds(g)'
        PROVE  \E x \in MsgIds, w \in Versions :
                 /\ x = apiItem'[g].id /\ w = apiItem'[g].ver
                 /\ w <= subs'[x] /\ Unborn(x, w)'
                 /\ g # h => Holds(g) /\ apiItem'[g] = apiItem[g] /\ w <= subs[x]
    <3>1. CASE g = h
      <4>1. Unborn(id, item.ver)
        BY <1>4 DEF LedgerInv, SubmissionsAreNew
      <4>2. PICK w \in Versions : w = item.ver
        BY <1>4
      <4>3. Unborn(id, w)'
        BY <1>5, <4>1, <4>2 DEF NothingBorn
      <4>4. w <= subs'[id]
        BY <1>3, <1>4, <4>2
      <4>5. QED
        BY <1>3, <3>1, <4>2, <4>3, <4>4
    <3>2. CASE g # h
      <4>1. Holds(g) /\ apiItem'[g] = apiItem[g]
        BY <1>3, <2>2, <3>2 DEF Holds
      <4>2. PICK x \in MsgIds, w \in Versions : x = apiItem[g].id /\ w = apiItem[g].ver
        BY <4>1, LedgerTypes
      <4>3. w <= subs[x] /\ Unborn(x, w)
        BY <4>1, <4>2 DEF LedgerInv, SubmissionsAreNew
      <4>4. Unborn(x, w)'
        BY <1>5, <4>3 DEF NothingBorn
      <4>5. w \in Nat /\ w <= subs'[x]
        BY <1>4, <4>3, LedgerTypes
      <4>6. QED
        BY <4>1, <4>2, <4>3, <4>4, <4>5
    <3>3. QED
      BY <3>1, <3>2
  <2>3. ASSUME NEW g \in Handlers, Holds(g)'
        PROVE  apiItem'[g].ver <= subs'[apiItem'[g].id] /\ Unborn(apiItem[g].id, apiItem[g].ver)'
    BY <2>2, <2>3 DEF Unborn
  <2>4. ASSUME NEW f \in Handlers, NEW g \in Handlers, f # g, Holds(f)', Holds(g)',
               apiItem'[f].id = apiItem'[g].id
        PROVE  apiItem'[f].ver # apiItem'[g].ver
    <3>1. \A k \in Handlers : k # h /\ Holds(k)' /\ apiItem'[k].id = id
                              => apiItem'[k].ver # item.ver
      <4> SUFFICES ASSUME NEW k \in Handlers, k # h, Holds(k)', apiItem'[k].id = id
                   PROVE  apiItem'[k].ver # item.ver
        OBVIOUS
      <4>1. PICK x \in MsgIds, w \in Versions :
              x = apiItem'[k].id /\ w = apiItem'[k].ver /\ w <= subs[x]
        BY <2>2
      <4>2. w \in Nat
        BY LedgerTypes
      <4>3. QED
        BY <1>4, <4>1, <4>2
    <3>2. CASE f = h \/ g = h
      BY <1>3, <2>4, <3>1, <3>2
    <3>3. CASE f # h /\ g # h
      BY <2>2, <2>4, <3>3 DEF LedgerInv, SubmissionsAreNew
    <3>4. QED
      BY <3>2, <3>3
  <2>5. QED
    BY <2>1, <2>3, <2>4 DEF SubmissionsAreNew, Unborn
<1>7. PlanIsInjective' /\ CopiesLag' /\ RowsSpent' /\ PlanSpent'
  <2>1. PlanIsInjective' /\ CopiesLag'
    BY <1>1 DEF LedgerInv, PlanIsInjective, CopiesLag
  <2>2. PlanSpent'
    BY <1>1, <1>2, PlanStaysSpent
  <2>3. accepted' = accepted /\ attempts' = attempts /\ faults' = faults
    BY DEF Submit, relayVars
  <2>4. RowsSpent'
    BY <1>1, <2>3 DEF LedgerInv, RowsSpent, Spent, Unwritten, smtpVars, Current
  <2>5. QED
    BY <2>1, <2>2, <2>4
<1>8. QED
  BY <1>2, <1>6, <1>7, NothingSpentKeeps DEF LedgerInv

-----------------------------------------------------------------------------
\* Every step keeps the ledger.
LEMMA LedgerPreserved ==
  ASSUME TypeInv, LedgerInv, [Next]_vars
  PROVE  LedgerInv'
<1>1. msgs \in Table /\ faults \in Nat
  BY LedgerTypes DEF TypeInv, TypeOK
<1>2. Tame(msgs, msgs)
  BY DEF Tame
<1>3. ASSUME apiPc' = apiPc, apiItem' = apiItem, subs' = subs
      PROVE  NothingHeld
  BY <1>3 DEF NothingHeld, Holds
<1>4. CASE ReportStep
  <2>1. Tame(msgs, msgs')
    BY <1>1, <1>2, <1>4, SweepsAreTame DEF ReportStep, FetchReports, DeliverReports, DeliveryFails,
       MarkDelivered, ApplyRetention, store
  <2>2. NothingSpent /\ NothingHeld /\ UNCHANGED smtpVars
    BY <1>1, <1>3, <1>4 DEF ReportStep, FetchReports, DeliverReports, DeliveryFails,
       MarkDelivered, ApplyRetention, relayVars, apiVars, NothingSpent
  <2>3. QED
    BY <2>1, <2>2, QuietStep
<1>5. CASE \/ \E id \in MsgIds : DeleteMessage(id)
           \/ \E a \in Accounts : AddAccount(a) \/ DeleteAccount(a)
           \/ Suspend \/ Activate \/ CleanupMessages \/ Tick
  <2>1. Tame(msgs, msgs')
    BY <1>1, <1>2, <1>5, SweepsAreTame DEF DeleteMessage, AddAccount, DeleteAccount, Suspend,
       Activate, CleanupMessages, Tick, store
  <2>2. NothingSpent /\ NothingHeld /\ UNCHANGED smtpVars
    BY <1>1, <1>3, <1>5 DEF DeleteMessage, AddAccount, DeleteAccount, Suspend, Activate,
       CleanupMessages, Tick, relayVars, apiVars, NothingSpent
  <2>3. QED
    BY <2>1, <2>2, QuietStep
<1>6. ASSUME NEW h \in Handlers, MarkRejected(h) \/ RequestFails(h)
      PROVE  LedgerInv'
  <2>1. Tame(msgs, msgs')
    <3>1. CASE MarkRejected(h)
      <4>1. apiItem[h].id \in MsgIds
        BY <3>1 DEF MarkRejected, TypeInv, TypeOK, Item
      <4>2. QED
        BY <1>1, <3>1, <4>1, UpdatesAreTame, RowBounds DEF MarkRejected
    <3>2. CASE RequestFails(h)
      BY <1>2, <3>2 DEF RequestFails, store
    <3>3. QED
      BY <1>6, <3>1, <3>2
  <2>2. NothingHeld
    BY <1>6 DEF MarkRejected, RequestFails, FinishRequest, NothingHeld, Holds, TypeInv, TypeOK
  <2>3. NothingSpent /\ UNCHANGED smtpVars
    BY <1>1, <1>6 DEF MarkRejected, RequestFails, Fault, relayVars, NothingSpent
  <2>4. QED
    BY <2>1, <2>2, <2>3, QuietStep
<1>7. CASE ReportCycleFails
  <2>1. NothingSpent /\ NothingHeld /\ UNCHANGED smtpVars /\ Tame(msgs, msgs')
    BY <1>1, <1>2, <1>3, <1>7 DEF ReportCycleFails, Fault, store, apiVars, relayVars, NothingSpent
  <2>2. QED
    BY <2>1, QuietStep
<1>8. CASE SmtpCycleFails \/ Crash
  <2>1. NothingSpent /\ EndCycle /\ msgs' = msgs /\ faults' = faults + 1
    BY <1>1, <1>8 DEF SmtpCycleFails, Crash, Fault, store, relayVars, NothingSpent
  <2>2. NothingHeld
    BY <1>3, <1>8 DEF SmtpCycleFails, Crash, apiVars, NothingHeld, Holds
  <2>3. QED
    BY <2>1, <2>2, BrokenCycle
<1>9. CASE SmtpStep
  <2>1. CASE FetchBatch
    BY <2>1, FetchStep
  <2>2. CASE Attempt
    BY <2>2, AttemptStep
  <2>3. CASE StoreRetryCount
    BY <2>3, RetryStep
  <2>4. ASSUME relayVars' = relayVars, faults' = faults, apiVars' = apiVars
        PROVE  NothingSpent /\ NothingHeld
    BY <1>1, <1>3, <2>4 DEF relayVars, apiVars, NothingSpent
  <2>5. smtpPc # "idle" =>
          plan # << >> /\ Current.id \in MsgIds /\ Current.payload.retry \in Nat
    BY CurrentType DEF TypeInv, TypeOK
  <2>6. CASE BuildRaises \/ ResolveAccount
    <3>1. NothingSpent /\ NothingHeld /\ msgs' = msgs /\ ~Attempted
      BY <2>4, <2>6 DEF BuildRaises, ResolveAccount, store, Attempted
    <3>2. CASE EndCycle
      BY <3>1, <3>2, BrokenCycle
    <3>3. CASE Goto("send")
      BY <1>2, <3>1, <3>3, EarlyStep DEF Goto, Attempted
    <3>4. QED
      BY <2>6, <3>2, <3>3 DEF BuildRaises, ResolveAccount
  <2>7. CASE ClearCurrent
    <3>1. NothingSpent /\ NothingHeld /\ ~Attempted /\ ~Attempted' /\ UNCHANGED plan
      BY <2>4, <2>7 DEF ClearCurrent, Goto, Attempted
    <3>2. Tame(msgs, msgs')
      BY <1>1, <2>5, <2>7, UpdatesAreTame, RowBounds DEF ClearCurrent
    <3>3. QED
      BY <3>1, <3>2, EarlyStep
  <2>8. CASE BuildFails \/ FailPermanently \/ StampSent
    <3>1. NothingSpent /\ NothingHeld /\ NextMessage
      BY <2>4, <2>8 DEF BuildFails, FailPermanently, StampSent
    <3>2. Tame(msgs, msgs') /\ ~HasStatus(msgs', Current.id, "queued")
      <4>1. Current.id \in MsgIds
        BY <2>5, <2>8 DEF BuildFails, FailPermanently, StampSent
      <4>2. msgs' = MarkError(msgs, Current.id) \/ msgs' = MarkSent(msgs, Current.id)
        BY <2>8 DEF BuildFails, FailPermanently, StampSent
      <4>3. QED
        BY <1>1, <4>1, <4>2, UpdatesAreTame, MarkedIsNotQueued, RowBounds
    <3>3. \A id \in MsgIds :
            HasStatus(msgs', id, "queued") => ~Unwritten(id, msgs[id].payload.ver)
      BY <3>2 DEF Unwritten
    <3>4. QED
      BY <2>5, <2>8, <3>1, <3>2, <3>3, DoneStep DEF BuildFails, FailPermanently, StampSent
  <2>9. CASE RateLimited \/ DeferRetry
    <3>1. NothingSpent /\ NothingHeld /\ NextMessage
      BY <2>4, <2>9 DEF RateLimited, DeferRetry
    <3>2. Tame(msgs, msgs')
      <4>1. Current.id \in MsgIds /\ Current.payload.retry \in Nat
        BY <2>5, <2>9 DEF RateLimited, DeferRetry
      <4>2. PICK ticks \in 0 .. MaxWait : msgs' = SetDeferred(msgs, Current.id, ticks)
        <5>1. 1 .. MaxWait \subseteq 0 .. MaxWait
          BY StoreAssumption
        <5>2. RetryDelay(Current.payload.retry) \in 0 .. MaxWait
          BY <4>1, <5>1, RetryDelayType
        <5>3. QED
          BY <2>9, <5>1, <5>2 DEF RateLimited, DeferRetry
      <4>3. QED
        BY <1>1, <4>1, <4>2, UpdatesAreTame
    <3>3. \A id \in MsgIds, v \in Versions : ~Unwritten(id, v)
      BY <2>9 DEF RateLimited, DeferRetry, Unwritten
    <3>4. \A id \in MsgIds :
            HasStatus(msgs', id, "queued") => ~Unwritten(id, msgs[id].payload.ver)
      BY <2>9 DEF RateLimited, DeferRetry, Unwritten
    <3>5. QED
      BY <2>5, <2>9, <3>1, <3>2, <3>4, DoneStep DEF RateLimited, DeferRetry
  <2>10. QED
    BY <1>9, <2>1, <2>2, <2>3, <2>6, <2>7, <2>8, <2>9 DEF SmtpStep
<1>10. CASE UNCHANGED vars
  <2>1. NothingSpent /\ NothingHeld /\ UNCHANGED smtpVars /\ Tame(msgs, msgs')
    BY <1>1, <1>2, <1>3, <1>10 DEF vars, store, apiVars, relayVars, NothingSpent
  <2>2. QED
    BY <2>1, QuietStep
<1>11. QED
  BY <1>4, <1>5, <1>6, <1>7, <1>8, <1>9, <1>10, SubmitStep, InsertStep
     DEF Next, ClientStep, FaultStep, HandlerStep

\* The ledger of the relay adds up in every reachable state.
LEMMA LedgerInvariant == Spec => []LedgerInv
<1>1. Init => LedgerInv
  <2> SUFFICES ASSUME Init PROVE LedgerInv
    OBVIOUS
  <2>1. \A id \in MsgIds, v \in Versions : accepted[id][v] = 0 /\ attempts[id][v] = 0
    BY DEF Init
  <2>2. DOMAIN plan = {} /\ ~Attempted /\ \A id \in MsgIds : ~Present(msgs, id)
    BY DEF Init, Attempted, Present
  <2>3. \A h \in Handlers : ~Holds(h)
    BY DEF Init, Holds
  <2>4. faults = 0 /\ MaxRetries \in Nat
    BY StoreAssumption DEF Init
  <2>5. DuplicatesArePaidFor /\ AttemptsWithinBudget
    BY <2>1, <2>4 DEF DuplicatesArePaidFor, AttemptsWithinBudget
  <2>6. QED
    BY <2>1, <2>2, <2>3, <2>5 DEF LedgerInv, SubmissionsAreNew, Unborn, PlanIsInjective, PlanSpent,
       RowsSpent, CopiesLag, HasStatus
<1>2. TypeInv /\ LedgerInv /\ [Next]_vars => LedgerInv'
  BY LedgerPreserved
<1>3. QED
  BY <1>1, <1>2, TypeInvariant, PTL DEF Spec

\* No submission is accepted by the relay more often than once and once more for each fault,
\* for any number of clients, replacements, retries and accounts.
THEOREM NoUnpaidDuplicates == Spec => []DuplicatesArePaidFor
BY LedgerInvariant, PTL DEF LedgerInv

\* No submission is offered to the relay more often than its retries and the faults allow,
\* although the count travels through the payload of a row that others may replace.
THEOREM RetriesAreBounded == Spec => []AttemptsWithinBudget
BY LedgerInvariant, PTL DEF LedgerInv
=============================================================================
