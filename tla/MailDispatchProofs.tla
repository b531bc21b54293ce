-------------------------- MODULE MailDispatchProofs --------------------------
(***************************************************************************)
(* What MailDispatch keeps true for every number of messages, accounts,    *)
(* handlers, submissions, retries and faults.                              *)
(***************************************************************************)
EXTENDS MailDispatch, MailStoreProofs, FiniteSetTheorems

-----------------------------------------------------------------------------
(***************************************************************************)
(* Types.  The type invariant is not inductive: that the retry count of a  *)
(* payload stays within MaxRetries rests on the dispatcher writing it back *)
(* only when it had found it smaller, two steps before.                    *)
(***************************************************************************)
RetryLeft == smtpPc \in {"retry", "defer"} => Current.payload.retry < MaxRetries

TypeInv == TypeOK /\ RetryLeft

\* While a cycle runs, its current message is an entry and so is what remains.
LEMMA CurrentType ==
  ASSUME plan \in Seq(Entry), plan # << >>
  PROVE  /\ Current \in Entry
         /\ Current.id \in MsgIds /\ Current.payload \in Payload
         /\ Current.payload.ver \in Versions
         /\ Current.payload.retry \in 0 .. MaxRetries
         /\ Tail(plan) \in Seq(Entry)
<1>1. Current \in Entry /\ Tail(plan) \in Seq(Entry)
  BY DEF Current
<1>2. Current.id \in MsgIds /\ Current.payload \in Payload
  BY <1>1 DEF Entry
<1>3. QED
  BY <1>1, <1>2 DEF Payload

\* The delay before a retry is one of the configured ones (core.py 95-111).
LEMMA RetryDelayType ==
  ASSUME NEW retry \in Nat
  PROVE  RetryDelay(retry) \in 1 .. MaxWait
<1> DEFINE delays == 1 .. MaxWait
<1>1. RetryDelays \in Seq(delays) /\ RetryDelays # << >>
  BY DispatchAssumption
<1> HIDE DEF delays
<1>2. Len(RetryDelays) \in Nat \ {0} /\ \A i \in 1 .. Len(RetryDelays) : RetryDelays[i] \in delays
  BY <1>1
<1>3. RetryDelay(retry) \in delays
  BY <1>2 DEF RetryDelay
<1>4. QED
  BY <1>3 DEF delays

\* A cycle starts with a list of entries that is not empty, copies of rows that are ready.
LEMMA FetchedPlan ==
  ASSUME TypeOK, FetchBatch
  PROVE  /\ plan' \in Seq(Entry) /\ plan' # << >>
         /\ \A i \in DOMAIN plan' :
              /\ IsReady(msgs, plan'[i].id)
              /\ plan'[i].payload = msgs[plan'[i].id].payload
<1>0. PICK size \in [Accounts -> BatchSizes] :
        /\ PlannedIds(msgs, size) # {}
        /\ \E order \in [1 .. Cardinality(PlannedIds(msgs, size)) -> PlannedIds(msgs, size)] :
             plan' = [i \in DOMAIN order |->
                        [id |-> order[i], payload |-> msgs[order[i]].payload]]
  BY DEF FetchBatch
<1> DEFINE ids == PlannedIds(msgs, size)
<1>1. ids \subseteq {id \in MsgIds : IsReady(msgs, id)}
  BY DEF PlannedIds, FetchReadyMessages
<1>2. IsFiniteSet(ids)
  BY <1>1, FS_Subset, StoreAssumption
<1>3. Cardinality(ids) \in Nat /\ (ids # {} => Cardinality(ids) # 0)
  BY <1>2, FS_CardinalityType, FS_EmptySet
<1> HIDE DEF ids
<1>4. PICK order \in [1 .. Cardinality(ids) -> ids] :
        plan' = [i \in DOMAIN order |->
                   [id |-> order[i], payload |-> msgs[order[i]].payload]]
  BY <1>0 DEF ids
<1>5. ids # {}
  BY <1>0 DEF ids
<1>6. \A i \in 1 .. Cardinality(ids) :
        /\ order[i] \in MsgIds
        /\ IsReady(msgs, order[i])
        /\ msgs[order[i]].payload \in Payload
  BY <1>1, <1>4 DEF IsReady, HasStatus, Present, TypeOK, Table, Row
<1>7. plan' \in [1 .. Cardinality(ids) -> Entry]
  BY <1>4, <1>6 DEF Entry
<1>8. plan' \in Seq(Entry) /\ Len(plan') = Cardinality(ids)
  BY <1>3, <1>7
<1>9. QED
  BY <1>3, <1>4, <1>5, <1>6, <1>8

\* The conjuncts of TypeOK and RetryLeft about the SMTP task alone.
SmtpOK ==
  /\ smtpPc \in {"idle", "clear", "build", "send", "retry", "defer", "fail", "stamp"}
  /\ plan \in Seq(Entry)
  /\ smtpPc = "idle" <=> plan = << >>
  /\ RetryLeft

\* A cycle that is broken off leaves the SMTP task idle.
LEMMA EndCycleControl ==
  ASSUME SmtpOK, EndCycle
  PROVE  SmtpOK'
BY DEF SmtpOK, EndCycle, RetryLeft

\* However a message or a cycle ends, the SMTP task is left in a proper state.
LEMMA SmtpControl ==
  ASSUME SmtpOK, smtpPc # "idle"
  PROVE  /\ NextMessage => SmtpOK'
         /\ EndCycle => SmtpOK'
         /\ \A pc \in {"clear", "build", "send", "fail", "stamp"} : Goto(pc) => SmtpOK'
<1>1. Tail(plan) \in Seq(Entry)
  BY CurrentType DEF SmtpOK
<1>2. NextMessage => SmtpOK'
  BY <1>1 DEF SmtpOK, NextMessage, RetryLeft
<1>3. EndCycle => SmtpOK'
  BY EndCycleControl
<1>4. \A pc \in {"clear", "build", "send", "fail", "stamp"} : Goto(pc) => SmtpOK'
  BY DEF SmtpOK, Goto, RetryLeft, Current
<1>5. QED
  BY <1>2, <1>3, <1>4

\* After an error the message is retried with a retry left, or it fails (core.py 709-749).
LEMMA AfterErrorControl ==
  ASSUME SmtpOK, smtpPc = "send", NEW error, Goto(AfterError(error))
  PROVE  SmtpOK'
BY DEF SmtpOK, Goto, AfterError, RetryLeft, Current

\* What an action leaves alone keeps its type.
OtherOK ==
  /\ accts \subseteq Accounts
  /\ stamp \in Nat
  /\ active \in BOOLEAN
  /\ apiPc \in [Handlers -> {"idle", "insert", "refuse", "mark"}]
  /\ apiItem \in [Handlers -> Item \cup {None}]
  /\ \A h \in Handlers : apiPc[h] = "idle" <=> apiItem[h] = None
  /\ reportPc \in {"idle", "post", "mark", "retain"}
  /\ reports \subseteq Report
  /\ subs \in [MsgIds -> 0 .. MaxVer]
  /\ told \subseteq Report

HistoryOK ==
  /\ attempts \in [MsgIds -> [Versions -> Nat]]
  /\ accepted \in [MsgIds -> [Versions -> Nat]]
  /\ faults \in 0 .. MaxFaults

\* A history counter may go up by one anywhere.
LEMMA CountType ==
  ASSUME NEW count \in [MsgIds -> [Versions -> Nat]], NEW id \in MsgIds, NEW v \in Versions
  PROVE  [count EXCEPT ![id][v] = @ + 1] \in [MsgIds -> [Versions -> Nat]]
<1>1. [count[id] EXCEPT ![v] = @ + 1] \in [Versions -> Nat]
  OBVIOUS
<1>2. [count EXCEPT ![id] = [count[id] EXCEPT ![v] = @ + 1]] \in [MsgIds -> [Versions -> Nat]]
  BY <1>1
<1>3. QED
  BY <1>2

\* The type invariant, by what changes together.
LEMMA TypeParts == TypeInv <=> msgs \in Table /\ SmtpOK /\ OtherOK /\ HistoryOK
BY DEF TypeInv, TypeOK, SmtpOK, OtherOK, HistoryOK

\* The same in the next state.
LEMMA TypePartsNext == TypeInv' <=> msgs' \in Table /\ SmtpOK' /\ OtherOK' /\ HistoryOK'
BY DEF TypeInv, TypeOK, SmtpOK, OtherOK, HistoryOK

\* Requests keep the types (core.py 361-477).
LEMMA HandlerType ==
  ASSUME TypeInv, NEW h \in Handlers, Submit(h) \/ HandlerStep(h)
  PROVE  TypeInv'
<1>1. msgs \in Table /\ SmtpOK /\ OtherOK /\ HistoryOK
  BY TypeParts
<1>2. SmtpOK' /\ HistoryOK'
  BY <1>1 DEF SmtpOK, HistoryOK, RetryLeft, Current, Submit, HandlerStep, InsertValid,
              InsertRejected, MarkRejected, smtpVars, relayVars
<1>3. CASE Submit(h)
  <2>1. PICK id \in MsgIds, acct \in Accounts, content \in Contents, prio \in Priorities,
             wait \in 0 .. MaxWait :
          LET valid == content # "foreign" /\ acct \in accts
          IN  /\ subs[id] < MaxVer
              /\ subs' = [subs EXCEPT ![id] = @ + 1]
              /\ apiItem' = [apiItem EXCEPT ![h] =
                   [id |-> id, ver |-> subs[id] + 1, acct |-> acct, content |-> content,
                    prio |-> prio, wait |-> IF valid THEN wait ELSE 0]]
              /\ apiPc' = [apiPc EXCEPT ![h] = IF valid THEN "insert" ELSE "refuse"]
    BY <1>3 DEF Submit
  <2>2. subs[id] + 1 \in Versions /\ subs[id] + 1 \in 0 .. MaxVer
    BY <1>1, <2>1, StoreAssumption DEF OtherOK, Versions
  <2>3. apiItem'[h] \in Item
    BY <1>1, <2>1, <2>2, RowBounds DEF OtherOK, Item
  <2>4. apiItem'[h] # None
    BY <2>3, StoreAssumption
  <2>5. OtherOK'
    BY <1>1, <1>3, <2>1, <2>2, <2>3, <2>4 DEF OtherOK, Submit, store, reportVars
  <2>6. QED
    BY <1>1, <1>2, <1>3, <2>5, TypePartsNext DEF Submit, store
<1>4. ASSUME apiPc[h] # "idle"
      PROVE  /\ apiItem[h] \in Item /\ apiItem[h].id \in MsgIds
             /\ StoreItem(h) => msgs' \in Table /\ stamp' \in Nat
             /\ FinishRequest(h) =>
                  /\ apiPc' \in [Handlers -> {"idle", "insert", "refuse", "mark"}]
                  /\ apiItem' \in [Handlers -> Item \cup {None}]
                  /\ \A g \in Handlers : apiPc'[g] = "idle" <=> apiItem'[g] = None
  <2>1. apiItem[h] \in Item /\ apiItem[h].id \in MsgIds
    BY <1>1, <1>4 DEF OtherOK, Item
  <2>2. StoreItem(h) => msgs' \in Table /\ stamp' \in Nat
    BY <1>1, <2>1, UpsertType DEF StoreItem, OtherOK
  <2>3. QED
    BY <1>1, <2>1, <2>2 DEF FinishRequest, OtherOK
<1>5. CASE InsertValid(h)
  BY <1>1, <1>2, <1>4, <1>5, TypePartsNext
     DEF InsertValid, OtherOK, StoreItem, FinishRequest, reportVars
<1>6. CASE InsertRejected(h)
  BY <1>1, <1>2, <1>4, <1>6, TypePartsNext
     DEF InsertRejected, OtherOK, StoreItem, reportVars
<1>7. CASE MarkRejected(h)
  BY <1>1, <1>2, <1>4, <1>7, UpdateTypes, TypePartsNext
     DEF MarkRejected, OtherOK, FinishRequest, reportVars
<1>8. QED
  BY <1>3, <1>5, <1>6, <1>7 DEF HandlerStep

\* So do the other commands and the clock (core.py 321-359).
LEMMA CommandType ==
  ASSUME TypeInv,
         \/ \E id \in MsgIds : DeleteMessage(id)
         \/ \E a \in Accounts : AddAccount(a) \/ DeleteAccount(a)
         \/ Suspend \/ Activate \/ CleanupMessages \/ Tick
  PROVE  TypeInv'
<1>1. msgs \in Table /\ SmtpOK /\ OtherOK /\ HistoryOK
  BY TypeParts
<1>2. SmtpOK' /\ HistoryOK'
  BY <1>1 DEF SmtpOK, HistoryOK, RetryLeft, Current, DeleteMessage, AddAccount, DeleteAccount,
              Suspend, Activate, CleanupMessages, Tick, smtpVars, relayVars
<1>3. msgs' \in Table
  BY <1>1, SweepTypes, AgeType
     DEF DeleteMessage, AddAccount, DeleteAccount, Suspend, Activate, CleanupMessages, Tick, store
<1>4. OtherOK'
  BY <1>1 DEF OtherOK, DeleteMessage, AddAccount, DeleteAccount, Suspend, Activate,
              CleanupMessages, Tick, store, apiVars, reportVars
<1>5. QED
  BY <1>2, <1>3, <1>4, TypePartsNext

\* So does the SMTP task (core.py 563-794).
LEMMA SmtpType ==
  ASSUME TypeInv, SmtpStep
  PROVE  TypeInv'
<1>1. msgs \in Table /\ SmtpOK /\ OtherOK /\ HistoryOK /\ TypeOK
  BY TypeParts DEF TypeInv
<1>2. OtherOK'
  BY <1>1 DEF OtherOK, SmtpStep, Attempt, FetchBatch, ClearCurrent, BuildFails, BuildRaises,
              ResolveAccount, RateLimited, RelayAccepts, RelayRefuses, AnswerLost, StoreRetryCount,
              DeferRetry, FailPermanently, StampSent, store, apiVars, reportVars
<1>3. CASE FetchBatch
  <2>1. SmtpOK'
    BY <1>1, <1>3, FetchedPlan DEF SmtpOK, RetryLeft, FetchBatch
  <2>2. QED
    BY <1>1, <1>2, <1>3, <2>1, TypePartsNext DEF FetchBatch, HistoryOK, store, relayVars
<1>4. CASE smtpPc # "idle"
  <2>1. /\ Current.id \in MsgIds /\ Current.payload \in Payload
        /\ Current.payload.ver \in Versions /\ Current.payload.retry \in 0 .. MaxRetries
    BY <1>1, <1>4, CurrentType DEF SmtpOK
  <2>2. CASE ClearCurrent
    BY <1>1, <1>2, <1>4, <2>1, <2>2, UpdateTypes, SmtpControl, TypePartsNext
       DEF ClearCurrent, HistoryOK, relayVars
  <2>3. CASE BuildFails \/ FailPermanently \/ StampSent
    BY <1>1, <1>2, <1>4, <2>1, <2>3, UpdateTypes, SmtpControl, TypePartsNext
       DEF BuildFails, FailPermanently, StampSent, HistoryOK, relayVars
  <2>4. CASE BuildRaises \/ ResolveAccount
    BY <1>1, <1>2, <1>4, <2>4, SmtpControl, TypePartsNext
       DEF BuildRaises, ResolveAccount, HistoryOK, store, relayVars
  <2>5. CASE RateLimited
    <3>1. 1 .. MaxWait \subseteq 0 .. MaxWait
      BY StoreAssumption
    <3>2. QED
      BY <1>1, <1>2, <1>4, <2>1, <2>5, <3>1, UpdateTypes, SmtpControl, TypePartsNext
         DEF RateLimited, HistoryOK, relayVars
  <2>6. CASE Attempt
    <3>1. SmtpOK'
      BY <1>1, <1>4, <2>6, SmtpControl, AfterErrorControl
         DEF Attempt, RelayAccepts, RelayRefuses, AnswerLost
    <3>2. HistoryOK'
      <4>1. attempts' \in [MsgIds -> [Versions -> Nat]]
        <5>1. attempts' = [attempts EXCEPT ![Current.id][Current.payload.ver] = @ + 1]
          BY <2>6 DEF Attempt, RelayAccepts, RelayRefuses, AnswerLost, CountAttempt
        <5>2. QED
          BY <1>1, <2>1, <5>1, CountType DEF HistoryOK
      <4>2. accepted' \in [MsgIds -> [Versions -> Nat]]
        <5>1. CASE RelayRefuses
          BY <1>1, <5>1 DEF RelayRefuses, HistoryOK
        <5>2. CASE RelayAccepts \/ AnswerLost
          <6>1. accepted' = [accepted EXCEPT ![Current.id][Current.payload.ver] = @ + 1]
            BY <5>2 DEF RelayAccepts, AnswerLost, RelayTakes
          <6>2. QED
            BY <1>1, <2>1, <6>1, CountType DEF HistoryOK
        <5>3. QED
          BY <2>6, <5>1, <5>2 DEF Attempt
      <4>3. faults' \in 0 .. MaxFaults
        BY <1>1, <2>6, DispatchAssumption
           DEF Attempt, RelayAccepts, RelayRefuses, AnswerLost, HistoryOK
      <4>4. QED
        BY <4>1, <4>2, <4>3 DEF HistoryOK
    <3>3. msgs' \in Table
      BY <1>1, <2>6 DEF Attempt, RelayAccepts, RelayRefuses, AnswerLost, store
    <3>4. QED
      BY <1>2, <3>1, <3>2, <3>3, TypePartsNext
  <2>7. CASE StoreRetryCount
    <3>1. Current.payload.retry + 1 \in 0 .. MaxRetries
      BY <1>1, <2>1, <2>7, StoreAssumption DEF SmtpOK, RetryLeft, StoreRetryCount
    <3>2. [Current.payload EXCEPT !.retry = @ + 1] \in Payload
      BY <2>1, <3>1 DEF Payload
    <3>3. msgs' \in Table
      BY <1>1, <2>1, <2>7, <3>2, UpdateTypes DEF StoreRetryCount
    <3>4. SmtpOK'
      BY <1>1, <2>7 DEF StoreRetryCount, SmtpOK, Goto, RetryLeft, Current
    <3>5. QED
      BY <1>1, <1>2, <2>7, <3>3, <3>4, TypePartsNext DEF StoreRetryCount, HistoryOK, relayVars
  <2>8. CASE DeferRetry
    <3>1. RetryDelay(Current.payload.retry) \in 0 .. MaxWait
      BY <2>1, RetryDelayType, StoreAssumption
    <3>2. QED
      BY <1>1, <1>2, <1>4, <2>1, <2>8, <3>1, UpdateTypes, SmtpControl, TypePartsNext
         DEF DeferRetry, HistoryOK, relayVars
  <2>9. QED
    BY <1>3, <2>2, <2>3, <2>4, <2>5, <2>6, <2>7, <2>8 DEF SmtpStep
<1>5. QED
  BY <1>3, <1>4 DEF SmtpStep, Attempt, ClearCurrent, BuildFails, BuildRaises, ResolveAccount,
     RateLimited, RelayAccepts, RelayRefuses, AnswerLost, StoreRetryCount, DeferRetry, FailPermanently,
     StampSent

\* So does the report task (core.py 819-868).
LEMMA ReportType ==
  ASSUME TypeInv, ReportStep
  PROVE  TypeInv'
<1>1. msgs \in Table /\ SmtpOK /\ OtherOK /\ HistoryOK
  BY TypeParts
<1>2. SmtpOK' /\ HistoryOK'
  BY <1>1 DEF SmtpOK, HistoryOK, RetryLeft, Current, ReportStep, FetchReports, DeliverReports,
              DeliveryFails, MarkDelivered, ApplyRetention, smtpVars, relayVars
<1>3. msgs' \in Table
  BY <1>1, SweepTypes DEF ReportStep, FetchReports, DeliverReports, DeliveryFails, MarkDelivered,
                          ApplyRetention, store
<1>4. \A id \in Unreported : ReportOf(id) \in Report
  BY <1>1 DEF Unreported, IsUnreported, Final, Present, ReportOf, Report, Table, Row, Payload
<1>5. OtherOK'
  BY <1>1, <1>4 DEF OtherOK, ReportStep, FetchReports, DeliverReports, DeliveryFails,
                    MarkDelivered, ApplyRetention, store, apiVars
<1>6. QED
  BY <1>2, <1>3, <1>5, TypePartsNext

\* So do faults and restarts.
LEMMA FaultType ==
  ASSUME TypeInv, FaultStep
  PROVE  TypeInv'
<1>1. msgs \in Table /\ SmtpOK /\ OtherOK /\ HistoryOK
  BY TypeParts
<1>2. msgs' \in Table
  BY <1>1 DEF FaultStep, SmtpCycleFails, ReportCycleFails, Crash, RequestFails, store
<1>3. HistoryOK'
  BY <1>1, DispatchAssumption DEF HistoryOK, FaultStep, SmtpCycleFails, ReportCycleFails, Crash,
                                  RequestFails, Fault, relayVars
<1>4. SmtpOK'
  <2>1. CASE SmtpCycleFails \/ Crash
    BY <1>1, <2>1, EndCycleControl DEF SmtpCycleFails, Crash
  <2>2. CASE UNCHANGED smtpVars
    BY <1>1, <2>2 DEF SmtpOK, RetryLeft, Current, smtpVars
  <2>3. QED
    BY <2>1, <2>2 DEF FaultStep, ReportCycleFails, RequestFails
<1>5. OtherOK'
  <2>1. CASE SmtpCycleFails \/ ReportCycleFails
    BY <1>1, <2>1 DEF OtherOK, SmtpCycleFails, ReportCycleFails, store, apiVars, reportVars
  <2>2. CASE Crash
    BY <1>1, <2>2, DispatchAssumption, StoreAssumption DEF OtherOK, Crash, store
  <2>3. ASSUME NEW h \in Handlers, RequestFails(h)
        PROVE  OtherOK'
    BY <1>1, <2>3 DEF OtherOK, RequestFails, FinishRequest, store, reportVars
  <2>4. QED
    BY <2>1, <2>2, <2>3 DEF FaultStep
<1>6. QED
  BY <1>2, <1>3, <1>4, <1>5, TypePartsNext

\* Every step keeps the types.
LEMMA TypePreserved ==
  ASSUME TypeInv, [Next]_vars
  PROVE  TypeInv'
<1>1. CASE Next
  BY <1>1, HandlerType, CommandType, SmtpType, ReportType, FaultType DEF Next, ClientStep
<1>2. CASE UNCHANGED vars
  BY <1>2 DEF vars, store, apiVars, smtpVars, relayVars, reportVars, TypeInv, TypeOK,
              RetryLeft, Current
<1>3. QED
  BY <1>1, <1>2

\* Every reachable state is well typed, and a payload is written back only with a retry left.
LEMMA TypeInvariant == Spec => []TypeInv
<1>1. Init => TypeInv
  <2> SUFFICES ASSUME Init PROVE TypeInv
    OBVIOUS
  <2>1. msgs \in Table /\ HistoryOK
    BY StoreAssumption, DispatchAssumption DEF Init, Table, HistoryOK
  <2>2. SmtpOK /\ OtherOK
    BY StoreAssumption, DispatchAssumption DEF Init, SmtpOK, OtherOK, RetryLeft
  <2>3. QED
    BY <2>1, <2>2, TypeParts
<1>2. TypeInv /\ [Next]_vars => TypeInv'
  BY TypePreserved
<1>3. QED
  BY <1>1, <1>2, PTL DEF Spec

\* Every reachable state is well typed; in particular no payload ever has more than MaxRetries
\* retries, and the SMTP task has a current message exactly while it is in a cycle.
THEOREM TypeCorrect == Spec => []TypeOK
BY TypeInvariant, PTL DEF TypeInv

-----------------------------------------------------------------------------
(***************************************************************************)
(* What may take a row out of the table.                                   *)
(***************************************************************************)

\* The SMTP task takes none.
LEMMA SmtpKeepsRows ==
  ASSUME TypeInv, SmtpStep
  PROVE  RowsKept(msgs, msgs')
<1>1. msgs \in Table /\ RowsKept(msgs, msgs)
  BY DEF TypeInv, TypeOK, RowsKept
<1>2. CASE FetchBatch \/ BuildRaises \/ ResolveAccount \/ Attempt
  BY <1>1, <1>2 DEF FetchBatch, BuildRaises, ResolveAccount, Attempt, RelayAccepts, RelayRefuses,
                    AnswerLost, store
<1>3. CASE smtpPc # "idle"
  <2>1. /\ Current.id \in MsgIds /\ Current.payload \in Payload
        /\ Current.payload.retry \in 0 .. MaxRetries
    BY <1>3, CurrentType DEF TypeInv, TypeOK
  <2>2. CASE ClearCurrent \/ BuildFails \/ FailPermanently \/ StampSent
    BY <1>1, <2>1, <2>2, UpdatesKeepRows DEF ClearCurrent, BuildFails, FailPermanently, StampSent
  <2>3. CASE RateLimited \/ DeferRetry
    <3>1. PICK ticks \in 0 .. MaxWait : msgs' = SetDeferred(msgs, Current.id, ticks)
      <4>1. 1 .. MaxWait \subseteq 0 .. MaxWait
        BY StoreAssumption
      <4>2. RetryDelay(Current.payload.retry) \in 0 .. MaxWait
        BY <2>1, <4>1, RetryDelayType
      <4>3. QED
        BY <2>3, <4>1, <4>2 DEF RateLimited, DeferRetry
    <3>2. QED
      BY <1>1, <2>1, <3>1, UpdatesKeepRows
  <2>4. CASE StoreRetryCount
    <3>1. [Current.payload EXCEPT !.retry = @ + 1] \in Payload
      BY <2>1, <2>4, StoreAssumption DEF StoreRetryCount, Payload, TypeInv, RetryLeft
    <3>2. QED
      BY <1>1, <2>1, <2>4, <3>1, UpdatesKeepRows DEF StoreRetryCount
  <2>5. QED
    BY <1>2, <2>2, <2>3, <2>4 DEF SmtpStep
<1>4. QED
  BY <1>2, <1>3 DEF SmtpStep, ClearCurrent, BuildFails, BuildRaises, RateLimited, StoreRetryCount,
                    DeferRetry, FailPermanently, StampSent

\* Neither do the requests that add messages.
LEMMA HandlersKeepRows ==
  ASSUME TypeInv, NEW h \in Handlers, HandlerStep(h)
  PROVE  RowsKept(msgs, msgs')
<1>1. msgs \in Table /\ stamp \in Nat /\ apiItem[h] \in Item /\ apiItem[h].id \in MsgIds
  BY DEF TypeInv, TypeOK, HandlerStep, InsertValid, InsertRejected, MarkRejected, Item
<1>2. CASE InsertValid(h) \/ InsertRejected(h)
  BY <1>1, <1>2, SweepsKeepRows DEF InsertValid, InsertRejected, StoreItem
<1>3. CASE MarkRejected(h)
  BY <1>1, <1>3, UpdatesKeepRows DEF MarkRejected
<1>4. QED
  BY <1>2, <1>3 DEF HandlerStep

\* A message that waits to be sent leaves the table only because a client asked for it: no
\* retention, no late mark_reported, no replacement and no fault takes it.
THEOREM QueuedStays == Spec => QueuedNeverDropped
<1>1. TypeInv /\ [Next]_vars =>
        [\A id \in MsgIds :
           HasStatus(msgs, id, "queued") /\ ~Present(msgs', id)
           => DeleteMessage(id) \/ \E a \in Accounts : DeleteAccount(a)]_vars
  <2> SUFFICES ASSUME TypeInv, Next, NEW id \in MsgIds,
                      HasStatus(msgs, id, "queued"), ~Present(msgs', id)
               PROVE  DeleteMessage(id) \/ \E a \in Accounts : DeleteAccount(a)
    OBVIOUS
  <2>1. msgs \in Table /\ ~RowsKept(msgs, msgs') /\ msgs' # msgs
    BY DEF TypeInv, TypeOK, RowsKept, HasStatus
  <2>2. CASE SmtpStep \/ \E h \in Handlers : HandlerStep(h)
    BY <2>1, <2>2, SmtpKeepsRows, HandlersKeepRows
  <2>3. CASE MarkDelivered \/ Tick
    BY <2>1, <2>3, SweepsKeepRows DEF MarkDelivered, Tick
  <2>4. CASE ApplyRetention \/ CleanupMessages
    <3>1. PICK age : msgs' = RemoveReportedBefore(msgs, age)
      BY <2>1, <2>4 DEF ApplyRetention, CleanupMessages
    <3>2. QED
      BY <3>1 DEF RemoveReportedBefore, Final, HasStatus, Present
  <2>5. ASSUME NEW x \in MsgIds, DeleteMessage(x)
        PROVE  x = id
    BY <2>1, <2>5 DEF DeleteMessage, DeleteMessageRow, Table, HasStatus, Present
  <2>6. CASE FaultStep
    BY <2>1, <2>6 DEF FaultStep, SmtpCycleFails, ReportCycleFails, Crash, RequestFails, store
  <2>7. CASE (ReportStep /\ ~MarkDelivered /\ ~ApplyRetention) \/ Suspend \/ Activate
    BY <2>1, <2>7 DEF ReportStep, FetchReports, DeliverReports, DeliveryFails, Suspend, Activate,
                      store
  <2>8. CASE (\E h \in Handlers : Submit(h)) \/ \E a \in Accounts : AddAccount(a)
    BY <2>1, <2>8 DEF Submit, AddAccount, store
  <2>9. QED
    BY <2>2, <2>3, <2>4, <2>5, <2>6, <2>7, <2>8 DEF Next, ClientStep, ReportStep
<1>2. QED
  BY <1>1, TypeInvariant, PTL DEF Spec, QueuedNeverDropped

-----------------------------------------------------------------------------
(***************************************************************************)
(* What may put a row into the table.                                      *)
(***************************************************************************)

\* The SMTP task writes back to rows that are there.
LEMMA SmtpMakesNone ==
  ASSUME TypeInv, SmtpStep
  PROVE  NoneMade(msgs, msgs')
<1>1. msgs \in Table /\ NoneMade(msgs, msgs)
  BY DEF TypeInv, TypeOK, NoneMade
<1>2. CASE FetchBatch \/ BuildRaises \/ ResolveAccount \/ Attempt
  BY <1>1, <1>2 DEF FetchBatch, BuildRaises, ResolveAccount, Attempt, RelayAccepts, RelayRefuses,
                    AnswerLost, store
<1>3. CASE smtpPc # "idle"
  <2>1. Current.id \in MsgIds
    BY <1>3, CurrentType DEF TypeInv, TypeOK
  <2>2. QED
    BY <1>1, <1>2, <2>1, OnlyUpsertMakes
       DEF SmtpStep, ClearCurrent, BuildFails, BuildRaises, RateLimited, StoreRetryCount,
           DeferRetry, FailPermanently, StampSent
<1>4. QED
  BY <1>2, <1>3 DEF SmtpStep, ClearCurrent, BuildFails, BuildRaises, RateLimited, StoreRetryCount,
                    DeferRetry, FailPermanently, StampSent

\* A row that appears was stored by a request.
LEMMA OnlyRequestsMake ==
  ASSUME TypeInv, Next, NEW id \in MsgIds, ~Present(msgs, id), Present(msgs', id)
  PROVE  \E h \in Handlers : InsertValid(h) \/ InsertRejected(h)
<1>1. msgs \in Table /\ ~NoneMade(msgs, msgs') /\ msgs' # msgs
  BY DEF TypeInv, TypeOK, NoneMade
<1>2. ~SmtpStep
  BY <1>1, SmtpMakesNone
<1>3. ASSUME NEW h \in Handlers, MarkRejected(h)
      PROVE  FALSE
  <2>1. apiItem[h].id \in MsgIds
    BY <1>3 DEF TypeInv, TypeOK, MarkRejected, Item
  <2>2. QED
    BY <1>1, <1>3, <2>1, OnlyUpsertMakes DEF MarkRejected
<1>4. ~(MarkDelivered \/ ApplyRetention \/ CleanupMessages \/ Tick)
  BY <1>1, SweepsMakeNone DEF MarkDelivered, ApplyRetention, CleanupMessages, Tick
<1>5. ~(\E x \in MsgIds : DeleteMessage(x)) /\ ~(\E a \in Accounts : DeleteAccount(a))
  BY <1>1, OnlyUpsertMakes, SweepsMakeNone DEF DeleteMessage, DeleteAccount
<1>6. ~FaultStep
  BY <1>1 DEF FaultStep, SmtpCycleFails, ReportCycleFails, Crash, RequestFails, store
<1>7. ~(FetchReports \/ DeliverReports \/ DeliveryFails \/ Suspend \/ Activate)
  BY <1>1 DEF FetchReports, DeliverReports, DeliveryFails, Suspend, Activate, store
<1>8. ~(\E h \in Handlers : Submit(h)) /\ ~(\E a \in Accounts : AddAccount(a))
  BY <1>1 DEF Submit, AddAccount, store
<1>9. QED
  BY <1>2, <1>3, <1>4, <1>5, <1>6, <1>7, <1>8 DEF Next, ClientStep, ReportStep, HandlerStep

\* A message that was deleted comes back only by a request that stores it anew: whatever the
\* tasks write back from their copies, and whichever step fails, makes no row.
THEOREM DeletedStays == Spec => DeletedStaysDeleted
<1>1. TypeInv /\ [Next]_vars =>
        [\A id \in MsgIds :
           ~Present(msgs, id) /\ Present(msgs', id)
           => \E h \in Handlers : InsertValid(h) \/ InsertRejected(h)]_vars
  BY OnlyRequestsMake
<1>2. QED
  BY <1>1, TypeInvariant, PTL DEF Spec, DeletedStaysDeleted
=============================================================================
