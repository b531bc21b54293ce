---------------------------- MODULE MailOnceProofs ----------------------------
(***************************************************************************)
(* What clients that use a message id once are told is what happened, for  *)
(* every number of messages, accounts, requests, retries and faults.       *)
(***************************************************************************)
EXTENDS MailOnce, MailLedgerProofs

-----------------------------------------------------------------------------
(***************************************************************************)
(* What a statement does to one row.                                       *)
(***************************************************************************)

\* The row goes on to the same end: what it says, and where it stands in the order, is as before.
SameFate(r, s) ==
  /\ s.status = r.status /\ s.prio = r.prio /\ s.created = r.created
  /\ s.payload.acct = r.payload.acct /\ s.payload.ver = r.payload.ver

\* Nothing happens to the row that a client or a task could act upon.
Untouched(old, new, x) ==
  /\ Present(new, x)
  /\ SameFate(old[x], new[x])
  /\ old[x].wait = 0 => new[x].wait = 0
  /\ new[x].reported = Never <=> old[x].reported = Never

\* A row that a statement does not name stays as it is (persistence.py 248-317).
LEMMA ElsewhereUntouched ==
  ASSUME NEW tbl \in Table, NEW id \in MsgIds, NEW x \in MsgIds, x # id
  PROVE  /\ \A ticks : SetDeferred(tbl, id, ticks)[x] = tbl[x]
         /\ ClearDeferred(tbl, id)[x] = tbl[x]
         /\ MarkSent(tbl, id)[x] = tbl[x]
         /\ MarkError(tbl, id)[x] = tbl[x]
         /\ \A p : UpdateMessagePayload(tbl, id, p)[x] = tbl[x]
<1>1. \A row : At(tbl, id, row)[x] = tbl[x]
  BY DEF At, Table
<1>2. \A ticks : SetDeferred(tbl, id, ticks)[x] = tbl[x]
  BY DEF SetDeferred, Table
<1>3. QED
  BY <1>1, <1>2 DEF ClearDeferred, MarkSent, MarkError, UpdateMessagePayload

\* The row it names changes as the statement says, and in nothing else.
LEMMA NamedRow ==
  ASSUME NEW tbl \in Table, NEW id \in MsgIds, Present(tbl, id)
  PROVE  /\ \A ticks \in 0 .. MaxWait :
              LET new == SetDeferred(tbl, id, ticks)
              IN  /\ Present(new, id) /\ SameFate(tbl[id], new[id])
                  /\ new[id].reported = tbl[id].reported
         /\ Untouched(tbl, ClearDeferred(tbl, id), id)
         /\ LET new == MarkSent(tbl, id)
            IN  Present(new, id) /\ new[id].status = "sent" /\ new[id].reported = Never
         /\ LET new == MarkError(tbl, id)
            IN  Present(new, id) /\ new[id].status = "error" /\ new[id].reported = Never
         /\ \A p \in Payload :
              p.acct = tbl[id].payload.acct /\ p.ver = tbl[id].payload.ver
              => Untouched(tbl, UpdateMessagePayload(tbl, id, p), id)
<1> DEFINE row == tbl[id]
<1>1. row \in Row /\ \A r \in Row : r # None
  BY StoreAssumption DEF Table, Present
<1>2. \A r \in Row : At(tbl, id, r)[id] = r /\ Present(At(tbl, id, r), id)
  BY <1>1 DEF At, Table, Present
<1> HIDE DEF row
<1>3. \A ticks \in 0 .. MaxWait :
        LET new == SetDeferred(tbl, id, ticks)
        IN  /\ Present(new, id) /\ SameFate(row, new[id])
            /\ new[id].reported = row.reported
  <2> SUFFICES ASSUME NEW ticks \in 0 .. MaxWait
               PROVE  LET new == SetDeferred(tbl, id, ticks)
                      IN  /\ Present(new, id) /\ SameFate(row, new[id])
                          /\ new[id].reported = row.reported
    OBVIOUS
  <2>1. /\ [row EXCEPT !.wait = ticks] \in Row
        /\ SameFate(row, [row EXCEPT !.wait = ticks])
        /\ [row EXCEPT !.wait = ticks].reported = row.reported
    BY <1>1 DEF Row, SameFate
  <2>2. SetDeferred(tbl, id, ticks)[id] = [row EXCEPT !.wait = ticks]
        \/ SetDeferred(tbl, id, ticks) = tbl
    BY DEF SetDeferred, Table, row
  <2>3. SameFate(row, row)
    BY DEF SameFate
  <2>4. QED
    BY <1>1, <2>1, <2>2, <2>3 DEF Present, row
<1>4. Untouched(tbl, ClearDeferred(tbl, id), id)
  <2>1. /\ [row EXCEPT !.wait = 0] \in Row
        /\ SameFate(row, [row EXCEPT !.wait = 0])
        /\ [row EXCEPT !.wait = 0].reported = row.reported
        /\ [row EXCEPT !.wait = 0].wait = 0
    BY <1>1, RowBounds DEF Row, SameFate
  <2>2. QED
    BY <1>2, <2>1 DEF ClearDeferred, Untouched, row
<1>5. \A s \in {"sent", "error"} :
        /\ [row EXCEPT !.status = s, !.wait = 0, !.reported = Never] \in Row
        /\ [row EXCEPT !.status = s, !.wait = 0, !.reported = Never].status = s
        /\ [row EXCEPT !.status = s, !.wait = 0, !.reported = Never].reported = Never
  BY <1>1, RowBounds DEF Row
<1>6. /\ Present(MarkSent(tbl, id), id)
      /\ MarkSent(tbl, id)[id].status = "sent" /\ MarkSent(tbl, id)[id].reported = Never
  BY <1>2, <1>5 DEF MarkSent, row
<1>7. /\ Present(MarkError(tbl, id), id)
      /\ MarkError(tbl, id)[id].status = "error" /\ MarkError(tbl, id)[id].reported = Never
  BY <1>2, <1>5 DEF MarkError, row
<1>8. ASSUME NEW p \in Payload, p.acct = row.payload.acct, p.ver = row.payload.ver
      PROVE  Untouched(tbl, UpdateMessagePayload(tbl, id, p), id)
  <2>1. /\ [row EXCEPT !.payload = p] \in Row
        /\ SameFate(row, [row EXCEPT !.payload = p])
        /\ [row EXCEPT !.payload = p].reported = row.reported
        /\ [row EXCEPT !.payload = p].wait = row.wait
    BY <1>1, <1>8 DEF Row, SameFate
  <2>2. QED
    BY <1>2, <2>1 DEF UpdateMessagePayload, Untouched, row
<1>9. QED
  BY <1>3, <1>4, <1>6, <1>7, <1>8 DEF row

\* The statements on many rows: a stamp, the retention, a deletion and the clock
\* (persistence.py 152-158, 319-324, 368-402).
LEMMA SweptRow ==
  ASSUME NEW tbl \in Table, NEW x \in MsgIds, Present(tbl, x)
  PROVE  /\ \A ids :
              LET new == MarkReported(tbl, ids)
              IN  /\ x \notin ids => new[x] = tbl[x]
                  /\ x \in ids => /\ Present(new, x) /\ SameFate(tbl[x], new[x])
                                  /\ new[x].wait = tbl[x].wait
                                  /\ new[x].reported # Never
         /\ \A age \in Nat :
              LET new == RemoveReportedBefore(tbl, age)
              IN  \/ new[x] = tbl[x]
                  \/ ~Present(new, x) /\ Final(tbl, x) /\ tbl[x].reported # Never
         /\ \A id \in MsgIds : x # id => DeleteMessageRow(tbl, id)[x] = tbl[x]
         /\ Untouched(tbl, Age(tbl), x)
<1>1. tbl[x] \in Row /\ \A r \in Row : r # None
  BY StoreAssumption DEF Table, Present
<1>2. \A ids :
        LET new == MarkReported(tbl, ids)
        IN  /\ x \notin ids => new[x] = tbl[x]
            /\ x \in ids => /\ Present(new, x) /\ SameFate(tbl[x], new[x])
                            /\ new[x].wait = tbl[x].wait
                            /\ new[x].reported # Never
  <2>1. /\ [tbl[x] EXCEPT !.reported = 0] \in Row
        /\ SameFate(tbl[x], [tbl[x] EXCEPT !.reported = 0])
        /\ [tbl[x] EXCEPT !.reported = 0].wait = tbl[x].wait
        /\ [tbl[x] EXCEPT !.reported = 0].reported # Never
    BY <1>1, RowBounds DEF Row, SameFate, Never
  <2>2. QED
    BY <1>1, <2>1 DEF MarkReported, Present
<1>3. \A age \in Nat :
        LET new == RemoveReportedBefore(tbl, age)
        IN  \/ new[x] = tbl[x]
            \/ ~Present(new, x) /\ Final(tbl, x) /\ tbl[x].reported # Never
  BY DEF RemoveReportedBefore, Present, Never
<1>4. \A id \in MsgIds : x # id => DeleteMessageRow(tbl, id)[x] = tbl[x]
  BY DEF DeleteMessageRow, Table
<1>5. Untouched(tbl, Age(tbl), x)
  <2>1. Age(tbl)[x] = AgeRow(tbl[x]) /\ AgeRow(tbl[x]) \in Row
    BY <1>1, AgedRow DEF Age
  <2>2. SameFate(tbl[x], AgeRow(tbl[x])) /\ (tbl[x].wait = 0 => AgeRow(tbl[x]).wait = 0)
    BY <1>1 DEF AgeRow, Row, SameFate
  <2>3. AgeRow(tbl[x]).reported = Never <=> tbl[x].reported = Never
    BY <1>1, StoreAssumption DEF AgeRow, Row, Never
  <2>4. QED
    BY <1>1, <2>1, <2>2, <2>3 DEF Untouched, Present
<1>6. QED
  BY <1>2, <1>3, <1>4, <1>5

-----------------------------------------------------------------------------
(***************************************************************************)
(* What a step does to one row.                                            *)
(***************************************************************************)

\* The only submission of an id that was not used yet is unknown everywhere, and so is the one a
\* request still holds.
Unused(id) ==
  /\ ~Present(msgs, id)
  /\ \A i \in DOMAIN plan : plan[i].id # id

LEMMA HeldIsUnused ==
  ASSUME Once, TypeInv, LedgerInv
  PROVE  /\ Versions = {1} /\ MaxVer = 1
         /\ \A id \in MsgIds : subs[id] \in {0, MaxVer} /\ (subs[id] # MaxVer => Unused(id))
         /\ \A h \in Handlers : Holds(h) =>
              /\ subs[apiItem[h].id] = MaxVer
              /\ Unused(apiItem[h].id)
         /\ \A g, h \in Handlers :
              g # h /\ Holds(g) /\ Holds(h) => apiItem[g].id # apiItem[h].id
<1>1. Versions = {1} /\ MaxVer = 1
  BY DEF Versions, Once
<1>2. \A id \in MsgIds : subs[id] \in {0, 1}
  BY <1>1 DEF TypeInv, TypeOK
<1>3. ASSUME NEW id \in MsgIds, Unborn(id, 1)
      PROVE  Unused(id)
  <2>1. Present(msgs, id) => msgs[id].payload.ver = 1
    BY <1>1, LedgerTypes
  <2>2. \A i \in DOMAIN plan : plan[i].payload.ver = 1
    BY <1>1, LedgerTypes
  <2>3. QED
    BY <1>3, <2>1, <2>2 DEF Unborn, Unused
<1>4. \A id \in MsgIds : subs[id] = 0 => Unborn(id, 1)
  BY <1>1 DEF LedgerInv, SubmissionsAreNew
<1>5. \A h \in Handlers : Holds(h) => apiItem[h].id \in MsgIds /\ apiItem[h].ver = 1
  BY <1>1, LedgerTypes
<1>6. \A h \in Handlers : Holds(h) =>
        1 <= subs[apiItem[h].id] /\ Unborn(apiItem[h].id, 1)
  BY <1>5 DEF LedgerInv, SubmissionsAreNew
<1>7. \A g, h \in Handlers :
        g # h /\ Holds(g) /\ Holds(h) => apiItem[g].id # apiItem[h].id
  BY <1>5 DEF LedgerInv, SubmissionsAreNew
<1>8. QED
  BY <1>1, <1>2, <1>3, <1>4, <1>5, <1>6, <1>7

\* The row leaves the table: a client asked for it, or it was final and reported.
Removed(x) ==
  /\ ~Present(msgs', x)
  /\ \/ DeleteMessage(x)
     \/ \E a \in Accounts : DeleteAccount(a)
     \/ Final(msgs, x) /\ msgs[x].reported # Never

\* The cycle puts its current message off.
Postponed(x) ==
  /\ smtpPc # "idle" /\ x = Current.id /\ NextMessage
  /\ Present(msgs', x) /\ SameFate(msgs[x], msgs'[x])
  /\ msgs'[x].reported = msgs[x].reported

\* The cycle brings its current message to an outcome.
Concluded(x) ==
  /\ smtpPc # "idle" /\ x = Current.id /\ NextMessage
  /\ Present(msgs', x) /\ msgs'[x].reported = Never
  /\ \/ msgs'[x].status = "error"
     \/ msgs'[x].status = "sent" /\ smtpPc = "stamp"

\* The outcome of the message has been delivered.
Stamped(x) ==
  /\ MarkDelivered /\ \E r \in reports : r.id = x
  /\ Present(msgs', x) /\ SameFate(msgs[x], msgs'[x])
  /\ msgs'[x].wait = msgs[x].wait /\ msgs'[x].reported # Never

\* A row as it was is untouched.
LEMMA SameRow ==
  ASSUME NEW old, NEW new, NEW x, Present(old, x), new[x] = old[x]
  PROVE  Untouched(old, new, x)
BY DEF Untouched, SameFate, Present

\* What the SMTP task does to a row (core.py 563-794).
LEMMA SmtpRowStep ==
  ASSUME Once, TypeInv, PlannedRows, SmtpStep, NEW x \in MsgIds, Present(msgs, x)
  PROVE  Untouched(msgs, msgs', x) \/ Postponed(x) \/ Concluded(x)
<1>1. msgs \in Table /\ msgs[x].payload.ver \in Versions
  BY LedgerTypes DEF TypeInv, TypeOK
<1>2. CASE FetchBatch \/ BuildRaises \/ ResolveAccount \/ Attempt
  <2>1. msgs' = msgs
    BY <1>2 DEF FetchBatch, BuildRaises, ResolveAccount, Attempt, RelayAccepts, RelayRefuses,
                AnswerLost, store
  <2>2. QED
    BY <2>1, SameRow
<1>3. CASE smtpPc # "idle" /\ ~(FetchBatch \/ BuildRaises \/ ResolveAccount \/ Attempt)
  <2>1. /\ Current.id \in MsgIds /\ Current.payload \in Payload
        /\ Current.payload.ver \in Versions
        /\ Current.payload.retry \in 0 .. MaxRetries
    BY <1>3, CurrentType DEF TypeInv, TypeOK
  <2>2. 1 .. MaxWait \subseteq 0 .. MaxWait
        /\ RetryDelay(Current.payload.retry) \in 0 .. MaxWait
    BY <2>1, RetryDelayType, StoreAssumption
  <2>3. CASE x # Current.id
    <3>1. msgs'[x] = msgs[x]
      BY <1>1, <1>3, <2>1, <2>3, ElsewhereUntouched
         DEF SmtpStep, ClearCurrent, BuildFails, BuildRaises, RateLimited, StoreRetryCount,
             DeferRetry, FailPermanently, StampSent
    <3>2. QED
      BY <3>1, SameRow
  <2>4. CASE x = Current.id
    <3>1. CASE ClearCurrent
      BY <1>1, <2>1, <2>4, <3>1, NamedRow DEF ClearCurrent
    <3>2. CASE RateLimited \/ DeferRetry
      <4>1. PICK ticks \in 0 .. MaxWait : msgs' = SetDeferred(msgs, Current.id, ticks)
        BY <2>2, <3>2 DEF RateLimited, DeferRetry
      <4>2. QED
        BY <1>1, <1>3, <2>1, <2>4, <3>2, <4>1, NamedRow DEF RateLimited, DeferRetry, Postponed
    <3>3. CASE BuildFails \/ FailPermanently
      BY <1>1, <1>3, <2>1, <2>4, <3>3, NamedRow DEF BuildFails, FailPermanently, Concluded
    <3>4. CASE StampSent
      BY <1>1, <1>3, <2>1, <2>4, <3>4, NamedRow DEF StampSent, Concluded
    <3>5. CASE StoreRetryCount
      <4> DEFINE p == [Current.payload EXCEPT !.retry = @ + 1]
      <4>1. p \in Payload /\ p.acct = Current.payload.acct /\ p.ver = Current.payload.ver
        BY <2>1, <3>5, StoreAssumption DEF StoreRetryCount, Payload, TypeInv, RetryLeft
      <4>2. Current.payload.acct = msgs[x].payload.acct
        BY <1>3, <2>4, LedgerTypes DEF PlannedRows, TypeInv, TypeOK
      <4>3. Current.payload.ver = msgs[x].payload.ver
        BY <1>1, <2>1 DEF Versions, Once
      <4> HIDE DEF p
      <4>4. Untouched(msgs, UpdateMessagePayload(msgs, x, p), x)
        BY <1>1, <4>1, <4>2, <4>3, NamedRow
      <4>5. QED
        BY <2>4, <3>5, <4>4 DEF StoreRetryCount, p
    <3>6. QED
      BY <1>3, <3>1, <3>2, <3>3, <3>4, <3>5 DEF SmtpStep
  <2>5. QED
    BY <2>3, <2>4
<1>4. QED
  BY <1>2, <1>3 DEF SmtpStep, ClearCurrent, BuildFails, BuildRaises, RateLimited, StoreRetryCount,
                    DeferRetry, FailPermanently, StampSent

\* What anybody does to a row.
LEMMA RowStep ==
  ASSUME Once, TypeInv, LedgerInv, NoRefusals, PlannedRows, Next,
         NEW x \in MsgIds, Present(msgs, x)
  PROVE  Untouched(msgs, msgs', x) \/ Removed(x) \/ Postponed(x) \/ Concluded(x) \/ Stamped(x)
<1>1. msgs \in Table
  BY DEF TypeInv, TypeOK
<1>2. CASE msgs'[x] = msgs[x]
  BY <1>2, SameRow
<1>3. ASSUME NEW h \in Handlers, HandlerStep(h)
      PROVE  msgs'[x] = msgs[x]
  <2>1. InsertValid(h) /\ Holds(h)
    BY <1>3 DEF HandlerStep, InsertValid, InsertRejected, MarkRejected, NoRefusals, Holds
  <2>2. apiItem[h] \in Item /\ stamp \in Nat
    BY <2>1, LedgerTypes DEF TypeInv, TypeOK
  <2>3. x # apiItem[h].id
    BY <2>1, HeldIsUnused DEF Unused
  <2>4. QED
    BY <1>1, <2>1, <2>2, <2>3, UpsertEffect DEF InsertValid, StoreItem
<1>4. CASE MarkDelivered
  <2>1. msgs' = MarkReported(msgs, {r.id : r \in reports})
    BY <1>4 DEF MarkDelivered
  <2>2. CASE x \in {r.id : r \in reports}
    BY <1>1, <1>4, <2>1, <2>2, SweptRow DEF Stamped
  <2>3. CASE x \notin {r.id : r \in reports}
    BY <1>1, <1>2, <2>1, <2>3, SweptRow
  <2>4. QED
    BY <2>2, <2>3
<1>5. CASE ApplyRetention \/ CleanupMessages
  <2>1. msgs' = msgs \/ \E age \in Nat : msgs' = RemoveReportedBefore(msgs, age)
    BY <1>5, StoreAssumption DEF ApplyRetention, CleanupMessages
  <2>2. QED
    BY <1>1, <1>2, <2>1, SweptRow DEF Removed
<1>6. CASE Tick
  BY <1>1, <1>6, SweptRow DEF Tick
<1>7. ASSUME NEW id \in MsgIds, DeleteMessage(id)
      PROVE  msgs'[x] = msgs[x] \/ Removed(x)
  <2>1. CASE id = x
    BY <1>1, <1>7, <2>1 DEF DeleteMessage, DeleteMessageRow, Removed, Present, Table
  <2>2. CASE id # x
    BY <1>1, <1>7, <2>2, SweptRow DEF DeleteMessage
  <2>3. QED
    BY <2>1, <2>2
<1>8. ASSUME NEW a \in Accounts, DeleteAccount(a)
      PROVE  msgs'[x] = msgs[x] \/ Removed(x)
  BY <1>1, <1>8 DEF DeleteAccount, DeleteAccountRows, Removed, Present
<1>9. CASE FaultStep
  <2>1. msgs' = msgs
    BY <1>9 DEF FaultStep, SmtpCycleFails, ReportCycleFails, Crash, RequestFails, store
  <2>2. QED
    BY <1>2, <2>1
<1>10. CASE FetchReports \/ DeliverReports \/ DeliveryFails \/ Suspend \/ Activate
  <2>1. msgs' = msgs
    BY <1>10 DEF FetchReports, DeliverReports, DeliveryFails, Suspend, Activate, store
  <2>2. QED
    BY <1>2, <2>1
<1>11. CASE (\E h \in Handlers : Submit(h)) \/ \E a \in Accounts : AddAccount(a)
  <2>1. msgs' = msgs
    BY <1>11 DEF Submit, AddAccount, store
  <2>2. QED
    BY <1>2, <2>1
<1>12. QED
  BY <1>2, <1>3, <1>4, <1>5, <1>6, <1>7, <1>8, <1>9, <1>10, <1>11, SmtpRowStep
     DEF Next, ClientStep, ReportStep

\* A row that appears is a message in the queue, the one a request held and nobody else knew of.
LEMMA NewRowStep ==
  ASSUME Once, TypeInv, LedgerInv, NoRefusals, Next,
         NEW x \in MsgIds, ~Present(msgs, x), Present(msgs', x)
  PROVE  /\ HasStatus(msgs', x, "queued")
         /\ \A i \in DOMAIN plan : plan[i].id # x
         /\ \E h \in Handlers :
              /\ InsertValid(h) /\ Holds(h) /\ apiItem[h].id = x
              /\ \A y \in MsgIds \ {x} : msgs'[y] = msgs[y]
<1>1. PICK h \in Handlers : InsertValid(h)
  <2>1. PICK h \in Handlers : InsertValid(h) \/ InsertRejected(h)
    BY OnlyRequestsMake
  <2>2. ~InsertRejected(h)
    BY DEF InsertRejected, NoRefusals
  <2>3. QED
    BY <2>1, <2>2
<1>2. /\ Holds(h) /\ msgs \in Table /\ stamp \in Nat
      /\ apiItem[h] \in Item /\ apiItem[h].id \in MsgIds
  BY <1>1, LedgerTypes DEF InsertValid, Holds, TypeInv, TypeOK
<1>3. \A y \in MsgIds \ {apiItem[h].id} : msgs'[y] = msgs[y]
  BY <1>1, <1>2, UpsertEffect DEF InsertValid, StoreItem
<1>4. apiItem[h].id = x /\ msgs' # msgs
  BY <1>3 DEF Present
<1>5. HasStatus(msgs', x, "queued")
  BY <1>1, <1>2, <1>4, UpsertEffect DEF InsertValid, StoreItem
<1>6. Unused(x)
  BY <1>2, <1>4, HeldIsUnused
<1>7. QED
  BY <1>1, <1>2, <1>3, <1>4, <1>5, <1>6 DEF Unused

-----------------------------------------------------------------------------
(***************************************************************************)
(* The plan.                                                               *)
(***************************************************************************)

\* The plan is read anew, or loses its first message, or is dropped (core.py 563-622).
LEMMA PlanStep ==
  ASSUME [Next]_vars
  PROVE  FetchBatch \/ NextMessage \/ plan' = plan \/ plan' = << >>
<1>1. CASE SmtpStep
  BY <1>1 DEF SmtpStep, Attempt, ClearCurrent, BuildFails, BuildRaises, ResolveAccount, RateLimited,
     RelayAccepts, RelayRefuses, AnswerLost, StoreRetryCount, DeferRetry, FailPermanently,
     StampSent, Goto, EndCycle
<1>2. CASE FaultStep
  BY <1>2 DEF FaultStep, SmtpCycleFails, ReportCycleFails, Crash, RequestFails, EndCycle, smtpVars
<1>3. CASE ReportStep \/ ClientStep \/ Tick
  BY <1>3 DEF ReportStep, ClientStep, Tick, FetchReports, DeliverReports, DeliveryFails,
     MarkDelivered, ApplyRetention, Submit, DeleteMessage, AddAccount, DeleteAccount, Suspend,
     Activate, CleanupMessages, smtpVars
<1>4. CASE \E h \in Handlers : HandlerStep(h)
  BY <1>4 DEF HandlerStep, InsertValid, InsertRejected, MarkRejected, smtpVars
<1>5. CASE UNCHANGED vars
  BY <1>5 DEF vars, smtpVars
<1>6. QED
  BY <1>1, <1>2, <1>3, <1>4, <1>5 DEF Next

\* So what is planned after a step that reads no batch was planned before, in the same order, and
\* is not what the step is done with.
LEMMA PlannedBefore ==
  ASSUME TypeInv, PlanIsInjective, [Next]_vars, ~FetchBatch
  PROVE  \E d \in {0, 1} :
           /\ \A i \in DOMAIN plan' : i \in Nat /\ i + d \in DOMAIN plan /\ plan'[i] = plan[i + d]
           /\ smtpPc # "idle" /\ NextMessage =>
                \A i \in DOMAIN plan' : plan'[i].id # Current.id
<1>1. plan \in Seq(Entry) /\ DOMAIN plan \subseteq Nat
  BY DEF TypeInv, TypeOK
<1>2. CASE plan' = << >>
  BY <1>2
<1>3. CASE plan' # << >> /\ NextMessage
  <2>1. plan' = Tail(plan) /\ plan # << >>
    <3>1. plan' = Tail(plan)
      BY <1>3 DEF NextMessage
    <3>2. CASE plan = << >>
      <4>1. smtpPc = "idle"
        BY <3>2 DEF TypeInv, TypeOK
      <4>2. QED
        BY <1>3, <3>1, <3>2, <4>1, TypePreserved DEF TypeInv, TypeOK, NextMessage
    <3>3. QED
      BY <3>1, <3>2
  <2>2. \A i \in DOMAIN plan' : i \in Nat /\ i + 1 \in DOMAIN plan /\ plan'[i] = plan[i + 1] /\ i + 1 # 1
    BY <1>1, <2>1
  <2>3. 1 \in DOMAIN plan /\ Current = plan[1]
    BY <2>1, LedgerTypes
  <2>4. \A i \in DOMAIN plan' : plan'[i].id # Current.id
    BY <2>2, <2>3 DEF PlanIsInjective
  <2>5. QED
    BY <2>2, <2>4
<1>4. CASE plan' = plan /\ ~NextMessage
  <2>1. \A i \in DOMAIN plan' : i \in Nat /\ i + 0 \in DOMAIN plan /\ plan'[i] = plan[i + 0]
    BY <1>1, <1>4
  <2>2. QED
    BY <1>4, <2>1
<1>5. QED
  BY <1>2, <1>3, <1>4, PlanStep

\* A planned row that is still there was there before and nobody but the cycle touched it.
LEMMA PlannedRowStep ==
  ASSUME Once, TypeInv, LedgerInv, OnceInv, Next, ~FetchBatch,
         NEW i \in DOMAIN plan', Present(msgs', plan'[i].id)
  PROVE  LET id == plan'[i].id
         IN  Present(msgs, id) /\ Untouched(msgs, msgs', id)
<1> DEFINE id == plan'[i].id
<1>1. PICK d \in {0, 1} :
        /\ i + d \in DOMAIN plan /\ plan'[i] = plan[i + d]
        /\ smtpPc # "idle" /\ NextMessage => id # Current.id
  BY PlannedBefore DEF LedgerInv
<1>2. id \in MsgIds
  BY <1>1, LedgerTypes
<1>3. Present(msgs, id)
  BY <1>1, <1>2, NewRowStep DEF OnceInv
<1>4. msgs[id].status = "queued"
  BY <1>1, <1>3 DEF OnceInv, PlannedRows
<1>5. ~Stamped(id)
  <2> SUFFICES ASSUME Stamped(id) PROVE FALSE
    OBVIOUS
  <2>1. PICK r \in reports : r.id = id
    BY DEF Stamped
  <2>2. Final(msgs, id)
    BY <1>3, <2>1 DEF OnceInv, ReportsFit, ReportFits
  <2>3. QED
    BY <1>4, <2>2 DEF Final
<1>6. ~Postponed(id) /\ ~Concluded(id) /\ ~Removed(id)
  BY <1>1 DEF Postponed, Concluded, Removed
<1>7. QED
  BY <1>2, <1>3, <1>5, <1>6, RowStep DEF OnceInv

\* A batch is read in the order of Turn (core.py 573-606).
LEMMA FetchedOrder ==
  ASSUME TypeOK, FetchBatch, NEW i \in DOMAIN plan', NEW j \in DOMAIN plan', i < j
  PROVE  Turn(msgs, plan'[i].id, plan'[j].id)
<1>0. PICK size \in [Accounts -> BatchSizes] :
        \E order \in [1 .. Cardinality(PlannedIds(msgs, size)) -> PlannedIds(msgs, size)] :
          /\ \A k, l \in DOMAIN order : k < l => Turn(msgs, order[k], order[l])
          /\ plan' = [k \in DOMAIN order |->
                        [id |-> order[k], payload |-> msgs[order[k]].payload]]
  BY DEF FetchBatch
<1>1. PICK order \in [1 .. Cardinality(PlannedIds(msgs, size)) -> PlannedIds(msgs, size)] :
        /\ \A k, l \in DOMAIN order : k < l => Turn(msgs, order[k], order[l])
        /\ plan' = [k \in DOMAIN order |->
                      [id |-> order[k], payload |-> msgs[order[k]].payload]]
  BY <1>0
<1>2. /\ i \in DOMAIN order /\ j \in DOMAIN order
      /\ plan'[i].id = order[i] /\ plan'[j].id = order[j]
  BY <1>1
<1>3. QED
  BY <1>1, <1>2

\* What is planned stays queued and due, whatever the requests and the report task do meanwhile.
LEMMA PlannedRowsStep ==
  ASSUME Once, TypeInv, LedgerInv, OnceInv, Next
  PROVE  PlannedRows'
<1> SUFFICES ASSUME NEW i \in DOMAIN plan', Present(msgs', plan'[i].id)
             PROVE  LET id == plan'[i].id
                    IN  /\ msgs'[id].status = "queued" /\ msgs'[id].wait = 0
                        /\ msgs'[id].payload.acct = plan'[i].payload.acct
  BY DEF PlannedRows
<1> DEFINE id == plan'[i].id
<1>1. CASE FetchBatch
  <2>1. IsReady(msgs, id) /\ plan'[i].payload = msgs[id].payload
    BY <1>1, FetchedPlan DEF TypeInv
  <2>2. msgs' = msgs
    BY <1>1 DEF FetchBatch, store
  <2>3. QED
    BY <2>1, <2>2 DEF IsReady, HasStatus
<1>2. CASE ~FetchBatch
  <2>1. Present(msgs, id) /\ Untouched(msgs, msgs', id)
    BY <1>2, PlannedRowStep
  <2>2. \E j \in DOMAIN plan : plan'[i] = plan[j]
    BY <1>2, PlannedBefore DEF LedgerInv
  <2>3. /\ msgs[id].status = "queued" /\ msgs[id].wait = 0
        /\ msgs[id].payload.acct = plan'[i].payload.acct
    BY <2>1, <2>2 DEF OnceInv, PlannedRows
  <2>4. QED
    BY <2>1, <2>3 DEF Untouched, SameFate
<1>3. QED
  BY <1>1, <1>2

\* Nothing that happens to the rows of a plan changes their order.
LEMMA OrderStep ==
  ASSUME Once, TypeInv, LedgerInv, OnceInv, Next
  PROVE  OrderWithinAccount'
<1> SUFFICES ASSUME NEW i \in DOMAIN plan', NEW j \in DOMAIN plan', i < j,
                    plan'[i].payload.acct = plan'[j].payload.acct,
                    Present(msgs', plan'[i].id), Present(msgs', plan'[j].id)
             PROVE  Before(msgs', plan'[i].id, plan'[j].id)
  BY DEF OrderWithinAccount
<1> DEFINE x == plan'[i].id
           y == plan'[j].id
<1>1. CASE FetchBatch
  <2>1. msgs' = msgs /\ Turn(msgs, x, y)
    BY <1>1, FetchedOrder DEF TypeInv, FetchBatch, store
  <2>2. msgs[x].payload.acct = msgs[y].payload.acct
    BY <1>1, FetchedPlan DEF TypeInv
  <2>3. QED
    BY <2>1, <2>2 DEF Turn
<1>2. CASE ~FetchBatch
  <2>1. /\ Present(msgs, x) /\ Untouched(msgs, msgs', x)
        /\ Present(msgs, y) /\ Untouched(msgs, msgs', y)
    BY <1>2, PlannedRowStep
  <2>2. PICK d \in {0, 1} :
          \A k \in DOMAIN plan' : k \in Nat /\ k + d \in DOMAIN plan /\ plan'[k] = plan[k + d]
    BY <1>2, PlannedBefore DEF LedgerInv
  <2>3. /\ i + d \in DOMAIN plan /\ j + d \in DOMAIN plan /\ i + d < j + d
        /\ plan'[i] = plan[i + d] /\ plan'[j] = plan[j + d]
    BY <2>2
  <2>4. Before(msgs, x, y)
    BY <2>1, <2>3 DEF OnceInv, OrderWithinAccount
  <2>5. QED
    BY <2>1, <2>4 DEF Before, Untouched, SameFate
<1>3. QED
  BY <1>1, <1>2

-----------------------------------------------------------------------------
(***************************************************************************)
(* The reports.                                                            *)
(***************************************************************************)

\* Where a report comes from, and that what was told stays told (core.py 819-868).
LEMMA ReportSource ==
  ASSUME [Next]_vars
  PROVE  /\ told \subseteq told'
         /\ \A r \in reports' \cup told' :
              \/ r \in reports \cup told
              \/ FetchReports /\ \E id \in Unreported : r = ReportOf(id)
         /\ reportPc' = "mark" =>
              \/ reports' \subseteq told'
              \/ reportPc = "mark" /\ reports' = reports /\ told' = told
         /\ reportPc' = "post" =>
              \/ FetchReports
              \/ reportPc = "post" /\ reports' = reports
<1>1. CASE FetchReports
  BY <1>1 DEF FetchReports
<1>2. CASE reports' = reports /\ reportPc' = reportPc /\ told' = told
  BY <1>2
<1>3. CASE ReportStep /\ ~FetchReports
  BY <1>3 DEF ReportStep, DeliverReports, DeliveryFails, MarkDelivered, ApplyRetention
<1>4. CASE FaultStep
  BY <1>2, <1>4 DEF FaultStep, SmtpCycleFails, ReportCycleFails, Crash, RequestFails, reportVars
<1>5. CASE ClientStep \/ Tick \/ \E h \in Handlers : HandlerStep(h)
  BY <1>2, <1>5 DEF ClientStep, Tick, Submit, DeleteMessage, AddAccount, DeleteAccount, Suspend,
     Activate, CleanupMessages, HandlerStep, InsertValid, InsertRejected, MarkRejected, reportVars
<1>6. CASE SmtpStep
  BY <1>2, <1>6 DEF SmtpStep, Attempt, FetchBatch, ClearCurrent, BuildFails, BuildRaises,
     ResolveAccount, RateLimited, RelayAccepts, RelayRefuses, AnswerLost, StoreRetryCount,
     DeferRetry, FailPermanently, StampSent, reportVars
<1>7. CASE UNCHANGED vars
  BY <1>2, <1>7 DEF vars, reportVars
<1>8. QED
  BY <1>1, <1>3, <1>4, <1>5, <1>6, <1>7 DEF Next

\* An id that is used up is not submitted again (core.py 361-456).
LEMMA UsedUpStep ==
  ASSUME TypeInv, [Next]_vars, NEW id \in MsgIds, subs[id] = MaxVer,
         \A h \in Handlers : Holds(h) => apiItem[h].id # id
  PROVE  /\ subs'[id] = MaxVer
         /\ \A h \in Handlers : Holds(h)' => apiItem'[h].id # id
<1>1. ASSUME NothingHeld
      PROVE  /\ subs'[id] = MaxVer
             /\ \A h \in Handlers : Holds(h)' => apiItem'[h].id # id
  BY <1>1 DEF NothingHeld
<1>2. CASE apiPc' = apiPc /\ apiItem' = apiItem /\ subs' = subs
  BY <1>1, <1>2 DEF NothingHeld, Holds
<1>3. ASSUME NEW h \in Handlers, Submit(h)
      PROVE  /\ subs'[id] = MaxVer
             /\ \A g \in Handlers : Holds(g)' => apiItem'[g].id # id
  <2>1. PICK new \in MsgIds, acct \in Accounts, content \in Contents, prio \in Priorities,
             wait \in 0 .. MaxWait :
          LET valid == content # "foreign" /\ acct \in accts
          IN  /\ subs[new] < MaxVer
              /\ subs' = [subs EXCEPT ![new] = @ + 1]
              /\ apiItem' = [apiItem EXCEPT ![h] =
                   [id |-> new, ver |-> subs[new] + 1, acct |-> acct, content |-> content,
                    prio |-> prio, wait |-> IF valid THEN wait ELSE 0]]
              /\ apiPc' = [apiPc EXCEPT ![h] = IF valid THEN "insert" ELSE "refuse"]
    BY <1>3 DEF Submit
  <2>2. new # id
    BY <2>1, StoreAssumption
  <2>3. QED
    BY <2>1, <2>2 DEF Holds, TypeInv, TypeOK
<1>4. ASSUME NEW h \in Handlers, HandlerStep(h) \/ RequestFails(h)
      PROVE  NothingHeld
  BY <1>4 DEF HandlerStep, InsertValid, InsertRejected, MarkRejected, RequestFails, FinishRequest,
              NothingHeld, Holds, TypeInv, TypeOK
<1>5. CASE SmtpCycleFails \/ ReportCycleFails \/ Crash
  BY <1>1, <1>5 DEF SmtpCycleFails, ReportCycleFails, Crash, apiVars, NothingHeld, Holds
<1>6. CASE ReportStep \/ Tick \/ Suspend \/ Activate \/ CleanupMessages
           \/ (\E x \in MsgIds : DeleteMessage(x))
           \/ \E a \in Accounts : AddAccount(a) \/ DeleteAccount(a)
  BY <1>2, <1>6 DEF ReportStep, FetchReports, DeliverReports, DeliveryFails, MarkDelivered,
     ApplyRetention, Tick, Suspend, Activate, CleanupMessages, DeleteMessage, AddAccount,
     DeleteAccount, apiVars
<1>7. CASE SmtpStep
  BY <1>2, <1>7 DEF SmtpStep, Attempt, FetchBatch, ClearCurrent, BuildFails, BuildRaises,
     ResolveAccount, RateLimited, RelayAccepts, RelayRefuses, AnswerLost, StoreRetryCount,
     DeferRetry, FailPermanently, StampSent, apiVars
<1>8. CASE UNCHANGED vars
  BY <1>2, <1>8 DEF vars, apiVars
<1>9. QED
  BY <1>1, <1>3, <1>4, <1>5, <1>6, <1>7, <1>8 DEF Next, ClientStep, FaultStep

\* An outcome on its way, or told, stays the outcome: nobody brings the row back to the queue.
LEMMA ReportsFitStep ==
  ASSUME Once, TypeInv, LedgerInv, OnceInv, Next
  PROVE  ReportsFit'
<1> SUFFICES ASSUME NEW r \in reports' \cup told'
             PROVE  ReportFits(r)'
  BY DEF ReportsFit, ReportFits, ReportOf
<1>1. ASSUME NEW id \in Unreported, FetchReports, r = ReportOf(id)
      PROVE  ReportFits(r)'
  <2>1. /\ id \in MsgIds /\ Final(msgs, id) /\ r.id = id
    BY <1>1 DEF Unreported, IsUnreported, ReportOf
  <2>2. ~Unused(id)
    BY <2>1 DEF Final, Unused
  <2>3. /\ subs[id] = MaxVer
        /\ \A h \in Handlers : Holds(h) => apiItem[h].id # id
    BY <2>1, <2>2, HeldIsUnused
  <2>4. msgs' = msgs /\ subs' = subs /\ apiPc' = apiPc /\ apiItem' = apiItem
    BY <1>1 DEF FetchReports, store, apiVars
  <2>5. QED
    BY <1>1, <2>1, <2>3, <2>4 DEF ReportFits, Holds, ReportOf
<1>2. ASSUME r \in reports \cup told
      PROVE  ReportFits(r)'
  <2> DEFINE x == r.id
  <2>1. r \in Report /\ x \in MsgIds /\ ReportFits(r)
    BY <1>2 DEF OnceInv, ReportsFit, TypeInv, TypeOK, Report
  <2>2. /\ subs'[x] = MaxVer
        /\ \A h \in Handlers : Holds(h)' => apiItem'[h].id # x
    BY <2>1, UsedUpStep DEF ReportFits
  <2>3. ASSUME Present(msgs', x)
        PROVE  Final(msgs', x) /\ ReportOf(x)' = r
    <3>1. Present(msgs, x)
      BY <2>1, <2>3, NewRowStep DEF OnceInv, ReportFits
    <3>2. Final(msgs, x) /\ ReportOf(x) = r
      BY <2>1, <3>1 DEF ReportFits
    <3>3. ~Removed(x)
      BY <2>3 DEF Removed
    <3>4. ~Postponed(x) /\ ~Concluded(x)
      <4>1. smtpPc # "idle" => 1 \in DOMAIN plan /\ Current = plan[1]
        BY LedgerTypes DEF TypeInv, TypeOK
      <4>2. QED
        BY <3>1, <3>2, <4>1 DEF Final, OnceInv, PlannedRows, Postponed, Concluded
    <3>5. SameFate(msgs[x], msgs'[x])
      BY <2>1, <3>1, <3>3, <3>4, RowStep DEF OnceInv, Untouched, Stamped
    <3>6. QED
      BY <2>3, <3>2, <3>5 DEF SameFate, Final, ReportOf
  <2>4. QED
    BY <2>2, <2>3 DEF ReportFits
<1>3. QED
  BY <1>1, <1>2, ReportSource

\* A report that is read is the one an earlier one of that message was.
LEMMA ReportsAgreeStep ==
  ASSUME Once, TypeInv, OnceInv, [Next]_vars
  PROVE  ReportsAgree'
<1> SUFFICES ASSUME NEW r \in reports' \cup told', NEW s \in reports' \cup told', r.id = s.id
             PROVE  r = s
  BY DEF ReportsAgree
<1>1. \A q \in reports' \cup told' :
        q \in reports \cup told \/ \E id \in Unreported : q = ReportOf(id)
  BY ReportSource
<1>2. \A id \in Unreported : ReportOf(id).id = id /\ Present(msgs, id)
  BY DEF Unreported, IsUnreported, Final, ReportOf
<1>3. \A q \in reports \cup told : Present(msgs, q.id) => ReportOf(q.id) = q
  BY DEF OnceInv, ReportsFit, ReportFits
<1>4. QED
  BY <1>1, <1>2, <1>3 DEF OnceInv, ReportsAgree

\* mark_reported stamps only what was delivered, and a stamp is not carried over to another
\* outcome.
LEMMA ReportedWasToldStep ==
  ASSUME Once, TypeInv, LedgerInv, OnceInv, Next
  PROVE  ReportedWasTold'
<1> SUFFICES ASSUME NEW x \in MsgIds, Final(msgs', x), msgs'[x].reported # Never
             PROVE  ReportOf(x)' \in told'
  BY DEF ReportedWasTold
<1>1. Present(msgs', x) /\ msgs'[x].status # "queued"
  BY DEF Final
<1>2. Present(msgs, x)
  BY <1>1, NewRowStep DEF OnceInv, HasStatus
<1>3. CASE Untouched(msgs, msgs', x)
  <2>1. Final(msgs, x) /\ msgs[x].reported # Never /\ ReportOf(x)' = ReportOf(x)
    BY <1>1, <1>2, <1>3 DEF Untouched, SameFate, Final, ReportOf
  <2>2. QED
    BY <2>1, ReportSource DEF OnceInv, ReportedWasTold
<1>4. CASE Stamped(x)
  <2>1. PICK r \in reports : r.id = x
    BY <1>4 DEF Stamped
  <2>2. r \in told /\ told' = told
    BY <1>4, <2>1 DEF Stamped, MarkDelivered, OnceInv, MarkedWereTold
  <2>3. ReportOf(x) = r
    BY <1>2, <2>1 DEF OnceInv, ReportsFit, ReportFits
  <2>4. ReportOf(x)' = ReportOf(x)
    BY <1>4 DEF Stamped, SameFate, ReportOf
  <2>5. QED
    BY <2>2, <2>3, <2>4
<1>5. ~Removed(x) /\ ~Concluded(x)
  BY <1>1 DEF Removed, Concluded
<1>6. ~Postponed(x)
  <2>1. smtpPc # "idle" => 1 \in DOMAIN plan /\ Current = plan[1]
    BY LedgerTypes DEF TypeInv, TypeOK
  <2>2. QED
    BY <1>1, <1>2, <2>1 DEF OnceInv, PlannedRows, Postponed, SameFate
<1>7. QED
  BY <1>2, <1>3, <1>4, <1>5, <1>6, RowStep DEF OnceInv

\* A client that submits valid messages is refused nothing (core.py 361-456).
LEMMA NoRefusalsStep ==
  ASSUME Once, TypeInv, NoRefusals, Next
  PROVE  NoRefusals'
<1>1. CASE apiPc' = apiPc
  BY <1>1 DEF NoRefusals
<1>2. ASSUME NEW h \in Handlers, apiPc'[h] \in {"idle", "insert"},
             \A g \in Handlers : g # h => apiPc'[g] = apiPc[g]
      PROVE  NoRefusals'
  BY <1>2 DEF NoRefusals
<1>3. ASSUME NEW h \in Handlers, Submit(h)
      PROVE  NoRefusals'
  <2>1. apiPc' = [apiPc EXCEPT ![h] = "insert"]
    BY <1>3 DEF Submit, Once
  <2>2. QED
    BY <1>2, <2>1 DEF TypeInv, TypeOK
<1>4. ASSUME NEW h \in Handlers, HandlerStep(h) \/ RequestFails(h)
      PROVE  NoRefusals'
  <2>1. apiPc' = [apiPc EXCEPT ![h] = "idle"]
    BY <1>4 DEF HandlerStep, InsertValid, InsertRejected, MarkRejected, RequestFails,
                FinishRequest, NoRefusals
  <2>2. QED
    BY <1>2, <2>1 DEF TypeInv, TypeOK
<1>5. CASE SmtpCycleFails \/ ReportCycleFails \/ Crash
  BY <1>1, <1>5 DEF SmtpCycleFails, ReportCycleFails, Crash, apiVars, NoRefusals
<1>6. CASE ReportStep \/ Tick \/ Suspend \/ Activate \/ CleanupMessages
           \/ (\E x \in MsgIds : DeleteMessage(x))
           \/ \E a \in Accounts : AddAccount(a) \/ DeleteAccount(a)
  BY <1>1, <1>6 DEF ReportStep, FetchReports, DeliverReports, DeliveryFails, MarkDelivered,
     ApplyRetention, Tick, Suspend, Activate, CleanupMessages, DeleteMessage, AddAccount,
     DeleteAccount, apiVars
<1>7. CASE SmtpStep
  BY <1>1, <1>7 DEF SmtpStep, Attempt, FetchBatch, ClearCurrent, BuildFails, BuildRaises,
     ResolveAccount, RateLimited, RelayAccepts, RelayRefuses, AnswerLost, StoreRetryCount,
     DeferRetry, FailPermanently, StampSent, apiVars
<1>8. QED
  BY <1>3, <1>4, <1>5, <1>6, <1>7 DEF Next, ClientStep, FaultStep

\* Every step keeps what is promised to these clients.
LEMMA OncePreserved ==
  ASSUME Once, TypeInv, LedgerInv, OnceInv, [Next]_vars
  PROVE  OnceInv'
<1>1. CASE Next
  <2>1. MarkedWereTold'
    BY ReportSource DEF OnceInv, MarkedWereTold
  <2>2. NoRefusals'
    BY <1>1, NoRefusalsStep DEF OnceInv
  <2>3. QED
    BY <1>1, <2>1, <2>2, PlannedRowsStep, OrderStep, ReportsFitStep, ReportsAgreeStep,
       ReportedWasToldStep DEF OnceInv
<1>2. CASE UNCHANGED vars
  BY <1>2 DEF vars, store, apiVars, smtpVars, reportVars, OnceInv, NoRefusals, PlannedRows,
     OrderWithinAccount, ReportsFit, ReportFits, ReportsAgree, MarkedWereTold, ReportedWasTold,
     Holds, ReportOf
<1>3. QED
  BY <1>1, <1>2

-----------------------------------------------------------------------------
(***************************************************************************)
(* The theorems.                                                           *)
(***************************************************************************)

\* What is promised to clients that use an id once holds in every reachable state.
LEMMA OnceInvariant ==
  ASSUME Once
  PROVE  Spec => [](TypeInv /\ LedgerInv /\ OnceInv)
<1>1. Init => OnceInv
  BY DEF Init, OnceInv, NoRefusals, PlannedRows, OrderWithinAccount, ReportsFit, ReportsAgree,
         MarkedWereTold, ReportedWasTold, Final, Present
<1>2. TypeInv /\ LedgerInv /\ OnceInv /\ [Next]_vars => OnceInv'
  BY OncePreserved
<1>3. QED
  BY <1>1, <1>2, TypeInvariant, LedgerInvariant, PTL DEF Spec

\* A row that is stamped as reported was told to the client as it stands.
THEOREM StampedAsTold ==
  ASSUME Once
  PROVE  Spec => []ReportedWasTold
BY OnceInvariant, PTL DEF OnceInv

\* The client never hears two outcomes of one message, however often a report is repeated and
\* whatever fails between the relay's answer and the stamp.
THEOREM ToldOneOutcome ==
  ASSUME Once
  PROVE  Spec => []OneOutcomeTold
<1>1. OnceInv => OneOutcomeTold
  BY DEF OnceInv, ReportsAgree, OneOutcomeTold
<1>2. QED
  BY <1>1, OnceInvariant, PTL

\* No message is dispatched before the client's deferred_ts, the retry delay and the limiter allow,
\* however long the cycle took to come to it.
THEOREM DispatchedWhenDue ==
  ASSUME Once
  PROVE  Spec => []DispatchedIsDue
<1>1. OnceInv => DispatchedIsDue
  BY DEF OnceInv, PlannedRows, DispatchedIsDue, HasStatus
<1>2. QED
  BY <1>1, OnceInvariant, PTL

\* A cycle dispatches the messages of one account by priority and age, for any number of accounts
\* and any batch sizes.
THEOREM OrderKept ==
  ASSUME Once
  PROVE  Spec => []OrderWithinAccount
BY OnceInvariant, PTL DEF OnceInv

\* Sent is final: a row that is sent stays so until it leaves the table.
THEOREM SentStaysSent ==
  ASSUME Once
  PROVE  Spec => SentIsFinal
<1>1. TypeInv /\ LedgerInv /\ OnceInv /\ [Next]_vars =>
        [\A id \in MsgIds :
           HasStatus(msgs, id, "sent") => HasStatus(msgs', id, "sent") \/ ~Present(msgs', id)]_vars
  <2> SUFFICES ASSUME TypeInv, LedgerInv, OnceInv, Next, NEW id \in MsgIds,
                      HasStatus(msgs, id, "sent")
               PROVE  HasStatus(msgs', id, "sent") \/ ~Present(msgs', id)
    OBVIOUS
  <2>1. ~Postponed(id) /\ ~Concluded(id)
    <3>1. smtpPc # "idle" => 1 \in DOMAIN plan /\ Current = plan[1]
      BY LedgerTypes DEF TypeInv, TypeOK
    <3>2. QED
      BY <3>1 DEF OnceInv, PlannedRows, Postponed, Concluded, HasStatus
  <2>2. QED
    BY <2>1, RowStep DEF OnceInv, Untouched, Stamped, Removed, SameFate, HasStatus
<1>2. QED
  BY <1>1, OnceInvariant, PTL DEF Spec, SentIsFinal

\* What leaves the table without having been deleted by a client was told to it first.
THEOREM ForgottenAsTold ==
  ASSUME Once
  PROVE  Spec => ForgottenWasTold
<1>1. TypeInv /\ LedgerInv /\ OnceInv /\ [Next]_vars =>
        [\A id \in MsgIds :
           Present(msgs, id) /\ ~Present(msgs', id)
           => \/ DeleteMessage(id) \/ \E a \in Accounts : DeleteAccount(a)
              \/ ReportOf(id) \in told]_vars
  <2> SUFFICES ASSUME TypeInv, LedgerInv, OnceInv, Next, NEW id \in MsgIds,
                      Present(msgs, id), ~Present(msgs', id)
               PROVE  \/ DeleteMessage(id) \/ \E a \in Accounts : DeleteAccount(a)
                      \/ ReportOf(id) \in told
    OBVIOUS
  <2>1. Removed(id)
    BY RowStep DEF OnceInv, Untouched, Postponed, Concluded, Stamped
  <2>2. QED
    BY <2>1 DEF Removed, OnceInv, ReportedWasTold
<1>2. QED
  BY <1>1, OnceInvariant, PTL DEF Spec, ForgottenWasTold

-----------------------------------------------------------------------------
(***************************************************************************)
(* The refinement.                                                         *)
(***************************************************************************)

\* The rows a task works on stay in the table: the retention takes only what is reported.
LEMMA WorkedOnStep ==
  ASSUME Once, NothingDeleted, TypeInv, LedgerInv, OnceInv, WorkedOnIsPresent, Next
  PROVE  WorkedOnIsPresent'
<1>1. \A x \in MsgIds : ~DeleteMessage(x) /\ \A a \in Accounts : ~DeleteAccount(a)
  BY DEF NothingDeleted, DeleteMessage, DeleteAccount
<1>2. ASSUME NEW i \in DOMAIN plan'
      PROVE  Present(msgs', plan'[i].id)
  <2> DEFINE id == plan'[i].id
  <2>1. CASE FetchBatch
    BY <2>1, FetchedPlan DEF TypeInv, IsReady, HasStatus, FetchBatch, store
  <2>2. CASE ~FetchBatch
    <3>1. PICK j \in DOMAIN plan : plan'[i] = plan[j]
      BY <2>2, PlannedBefore DEF LedgerInv
    <3>2. id \in MsgIds /\ Present(msgs, id) /\ msgs[id].status = "queued"
      BY <3>1, LedgerTypes DEF WorkedOnIsPresent, OnceInv, PlannedRows
    <3>3. ~Removed(id)
      BY <1>1, <3>2 DEF Removed, Final
    <3>4. QED
      BY <3>2, <3>3, RowStep DEF OnceInv, Untouched, Postponed, Concluded, Stamped
  <2>3. QED
    BY <2>1, <2>2
<1>3. ASSUME reportPc' = "post", NEW r \in reports'
      PROVE  Present(msgs', r.id) /\ msgs'[r.id].reported = Never
  <2>1. CASE FetchReports
    <3>1. PICK id \in Unreported : r = ReportOf(id)
      BY <1>3, <2>1 DEF FetchReports
    <3>2. msgs' = msgs /\ r.id = id
      BY <2>1, <3>1 DEF FetchReports, store, ReportOf
    <3>3. QED
      BY <3>1, <3>2 DEF Unreported, IsUnreported, Final
  <2>2. CASE reportPc = "post" /\ reports' = reports
    <3>1. r.id \in MsgIds /\ Present(msgs, r.id) /\ msgs[r.id].reported = Never
      BY <1>3, <2>2 DEF WorkedOnIsPresent, TypeInv, TypeOK, Report
    <3>2. ~Removed(r.id) /\ ~Stamped(r.id)
      BY <1>1, <2>2, <3>1 DEF Removed, Stamped, MarkDelivered
    <3>3. QED
      BY <3>1, <3>2, RowStep DEF OnceInv, Untouched, Postponed, Concluded
  <2>3. QED
    BY <1>3, <2>1, <2>2, ReportSource
<1>4. QED
  BY <1>2, <1>3 DEF WorkedOnIsPresent

\* The row is there after the step if it was before, with the same status: the client sees no
\* difference.
SameStage(x) ==
  /\ Present(msgs', x) <=> Present(msgs, x)
  /\ Present(msgs, x) => msgs'[x].status = msgs[x].status

\* Steps that change no status, nor what the relay took or the client heard, are stutters of
\* MailService.
LEMMA StutterStep ==
  ASSUME \A x \in MsgIds : SameStage(x), accepted' = accepted, told' = told
  PROVE  UNCHANGED Promise!vars
<1>1. \A x \in MsgIds : Stage(x)' = Stage(x)
  BY DEF SameStage, Stage
<1>2. QED
  BY <1>1 DEF Promise!vars

\* A request that stores its item accepts it.
LEMMA AcceptStep ==
  ASSUME Once, TypeInv, LedgerInv, OnceInv, Next, NEW h \in Handlers, InsertValid(h)
  PROVE  [Promise!Next]_(Promise!vars)
<1>0. Holds(h) /\ apiItem[h] \in Item /\ msgs \in Table /\ stamp \in Nat
  BY LedgerTypes DEF InsertValid, Holds, TypeInv, TypeOK
<1>1. PICK id \in MsgIds : apiItem[h].id = id
  BY <1>0 DEF Item
<1>2. ~Present(msgs, id) /\ \A r \in told : r.id # id
  BY <1>0, <1>1, HeldIsUnused DEF Unused, OnceInv, ReportsFit, ReportFits
<1>3. /\ \A x \in MsgIds \ {id} : msgs'[x] = msgs[x]
      /\ msgs' = msgs \/ HasStatus(msgs', id, "queued")
  BY <1>0, <1>1, UpsertEffect DEF InsertValid, StoreItem
<1>4. accepted' = accepted /\ told' = told
  BY DEF InsertValid, relayVars
<1>5. \A x \in MsgIds \ {id} : Stage(x)' = Stage(x)
  BY <1>3, <1>4 DEF Stage, Present
<1>6. CASE msgs' = msgs
  BY <1>4, <1>6, StutterStep DEF SameStage
<1>7. CASE HasStatus(msgs', id, "queued")
  <2>1. Stage(id) = "absent" /\ Stage(id)' = "queued"
    BY <1>2, <1>7 DEF Stage, HasStatus, Present
  <2>2. Promise!Accept(id)
    BY <1>1, <1>4, <1>5, <2>1 DEF Promise!Accept
  <2>3. QED
    BY <1>1, <2>2 DEF Promise!Next
<1>8. QED
  BY <1>3, <1>6, <1>7

\* When the relay takes a message, it is handed over; otherwise an attempt changes nothing the
\* client sees.
LEMMA HandOverStep ==
  ASSUME TypeInv, OnceInv, WorkedOnIsPresent, Attempt
  PROVE  [Promise!Next]_(Promise!vars)
<1>1. msgs' = msgs /\ told' = told /\ smtpPc = "send"
  BY DEF Attempt, RelayAccepts, RelayRefuses, AnswerLost, store
<1>2. \A x \in MsgIds : Stage(x)' = Stage(x)
  BY <1>1 DEF Stage
<1>3. CASE accepted' = accepted
  BY <1>1, <1>3, StutterStep DEF SameStage
<1>4. CASE RelayTakes
  <2>0. /\ Current.id \in MsgIds /\ Current.payload.ver \in Versions
        /\ 1 \in DOMAIN plan /\ Current = plan[1]
    BY <1>1, CurrentType, LedgerTypes DEF TypeInv, TypeOK
  <2>1. PICK id \in MsgIds : id = Current.id
    BY <2>0
  <2>2. Stage(id) = "queued"
    BY <2>0, <2>1 DEF WorkedOnIsPresent, OnceInv, PlannedRows, Stage
  <2>3. \A x \in MsgIds, v \in Versions :
          accepted'[x][v] = IF x = id /\ v = Current.payload.ver THEN accepted[x][v] + 1
                            ELSE accepted[x][v]
    BY <1>4, <2>0, <2>1 DEF RelayTakes, TypeInv, TypeOK
  <2>4. \A x \in MsgIds, v \in Versions : accepted[x][v] \in Nat
    BY LedgerTypes
  <2>5. {x \in MsgIds : \E v \in Versions : accepted'[x][v] > 0} =
        {x \in MsgIds : \E v \in Versions : accepted[x][v] > 0} \cup {id}
    BY <2>0, <2>1, <2>3, <2>4
  <2>6. Promise!HandOver(id)
    BY <1>1, <1>2, <2>1, <2>2, <2>5 DEF Promise!HandOver
  <2>7. QED
    BY <2>1, <2>6 DEF Promise!Next
<1>5. QED
  BY <1>3, <1>4 DEF Attempt, RelayAccepts, RelayRefuses, AnswerLost

\* The SMTP task settles its current message or leaves every status as it is.
LEMMA SettleStep ==
  ASSUME Once, TypeInv, OnceInv, StampIsEarned, SmtpStep, ~Attempt
  PROVE  [Promise!Next]_(Promise!vars)
<1>1. accepted' = accepted /\ told' = told
  BY DEF SmtpStep, FetchBatch, ClearCurrent, BuildFails, BuildRaises, ResolveAccount, RateLimited,
         StoreRetryCount, DeferRetry, FailPermanently, StampSent, relayVars
<1>2. \A x \in MsgIds : ~Present(msgs, x) => SameStage(x)
  BY SmtpMakesNone DEF NoneMade, SameStage
<1>3. \A x \in MsgIds : Present(msgs, x) => SameStage(x) \/ Concluded(x)
  BY SmtpRowStep DEF OnceInv, Untouched, Postponed, SameFate, SameStage
<1>4. CASE \A x \in MsgIds : SameStage(x)
  BY <1>1, <1>4, StutterStep
<1>5. ASSUME NEW id \in MsgIds, Present(msgs, id), Concluded(id)
      PROVE  [Promise!Next]_(Promise!vars)
  <2>1. \A x \in MsgIds \ {id} : SameStage(x)
    BY <1>2, <1>3, <1>5 DEF Concluded
  <2>2. \A x \in MsgIds \ {id} : Stage(x)' = Stage(x)
    BY <1>1, <2>1 DEF SameStage, Stage
  <2>3. id = Current.id /\ Current.payload.ver \in Versions /\ 1 \in DOMAIN plan /\ Current = plan[1]
    BY <1>5, CurrentType, LedgerTypes DEF Concluded, TypeInv, TypeOK
  <2>4. Stage(id) = "queued"
    BY <1>5, <2>3 DEF OnceInv, PlannedRows, Stage
  <2>5. PICK o \in Promise!Outcomes : Stage(id)' = o /\ (o = "sent" => smtpPc = "stamp")
    BY <1>5 DEF Concluded, Stage, Promise!Outcomes
  <2>6. o = "sent" => id \in {x \in MsgIds : \E v \in Versions : accepted[x][v] > 0}
    BY <1>5, <2>3, <2>5 DEF StampIsEarned
  <2>7. Promise!Settle(id, o)
    BY <1>1, <1>5, <2>2, <2>4, <2>5, <2>6 DEF Promise!Settle
  <2>8. QED
    BY <1>5, <2>5, <2>7 DEF Promise!Next
<1>6. QED
  BY <1>2, <1>3, <1>4, <1>5

\* A delivery, whole or in part, tells outcomes that are settled.
LEMMA TellStep ==
  ASSUME TypeInv, OnceInv, WorkedOnIsPresent, DeliverReports \/ DeliveryFails
  PROVE  [Promise!Next]_(Promise!vars)
<1>1. PICK reached \in SUBSET reports : told' = told \cup reached
  BY DEF DeliverReports, DeliveryFails
<1>2. msgs' = msgs /\ accepted' = accepted /\ reportPc = "post"
  BY DEF DeliverReports, DeliveryFails, store, relayVars
<1> DEFINE ids == {r.id : r \in reached}
<1>3. \A r \in reached : /\ r.id \in MsgIds /\ Present(msgs, r.id)
                        /\ Final(msgs, r.id) /\ ReportOf(r.id) = r /\ r.outcome \in {"sent", "error"}
  BY <1>1, <1>2 DEF WorkedOnIsPresent, OnceInv, ReportsFit, ReportFits, TypeInv, TypeOK, Report
<1>4. \A r \in reached : Stage(r.id) = r.outcome /\ r.outcome \in Promise!Outcomes
  BY <1>3 DEF Stage, ReportOf, Promise!Outcomes
<1>5. \A x \in MsgIds : Stage(x)' = Stage(x)
  BY <1>1, <1>2, <1>3 DEF Stage
<1>6. ids \in SUBSET MsgIds
  BY <1>3
<1>7. {<<r.id, r.outcome>> : r \in told'} =
      {<<r.id, r.outcome>> : r \in told} \cup {<<x, Stage(x)>> : x \in ids}
  BY <1>1, <1>4
<1>8. Promise!Tell(ids)
  BY <1>2, <1>4, <1>5, <1>6, <1>7 DEF Promise!Tell, Promise!Settled
<1>9. QED
  BY <1>6, <1>8 DEF Promise!Next

\* The retention and the cleanup command forget outcomes the client has heard.
LEMMA ForgetStep ==
  ASSUME TypeInv, OnceInv, ApplyRetention \/ CleanupMessages
  PROVE  [Promise!Next]_(Promise!vars)
<1>1. /\ msgs \in Table /\ accepted' = accepted /\ told' = told
      /\ msgs' = msgs \/ \E age \in Nat : msgs' = RemoveReportedBefore(msgs, age)
  BY StoreAssumption DEF ApplyRetention, CleanupMessages, relayVars, TypeInv, TypeOK
<1> DEFINE ids == {x \in MsgIds : Present(msgs, x) /\ ~Present(msgs', x)}
<1>2. \A x \in MsgIds :
        \/ msgs'[x] = msgs[x]
        \/ ~Present(msgs', x) /\ Final(msgs, x) /\ msgs[x].reported # Never
  BY <1>1, SweptRow, SweepsMakeNone DEF NoneMade, Present
<1>3. \A x \in ids : Final(msgs, x) /\ ReportOf(x) \in told
  BY <1>2 DEF Present, OnceInv, ReportedWasTold
<1>4. \A x \in ids : Stage(x) \in Promise!Outcomes /\ Stage(x)' = "gone"
                     /\ <<x, Stage(x)>> \in {<<r.id, r.outcome>> : r \in told}
  <2> SUFFICES ASSUME NEW x \in ids
               PROVE  /\ Stage(x) \in Promise!Outcomes /\ Stage(x)' = "gone"
                      /\ <<x, Stage(x)>> \in {<<r.id, r.outcome>> : r \in told}
    OBVIOUS
  <2>1. msgs[x].status \in {"sent", "error"} /\ Stage(x) = msgs[x].status
    BY <1>1, <1>3 DEF Final, Present, Table, Row, Stage
  <2>2. PICK r \in told : r.id = x /\ r.outcome = msgs[x].status
    BY <1>3 DEF ReportOf
  <2>3. QED
    BY <1>1, <2>1, <2>2 DEF Stage, Promise!Outcomes
<1>5. \A x \in MsgIds \ ids : Stage(x)' = Stage(x)
  BY <1>1, <1>2 DEF Stage, Present
<1>6. ids \in SUBSET MsgIds
  OBVIOUS
<1> HIDE DEF ids
<1>7. Promise!Forget(ids)
  BY <1>1, <1>4, <1>5, <1>6 DEF Promise!Forget, Promise!Settled
<1>8. QED
  BY <1>6, <1>7 DEF Promise!Next

\* Every step is a step of MailService or a stutter.
LEMMA PromiseStep ==
  ASSUME Once, NothingDeleted, TypeInv, LedgerInv, OnceInv, WorkedOnIsPresent, StampIsEarned,
         [Next]_vars
  PROVE  [Promise!Next]_(Promise!vars)
<1>1. msgs \in Table
  BY DEF TypeInv, TypeOK
<1>2. ASSUME msgs' = msgs, accepted' = accepted, told' = told
      PROVE  UNCHANGED Promise!vars
  BY <1>2, StutterStep DEF SameStage
<1>3. CASE MarkDelivered \/ Tick
  <2>1. accepted' = accepted /\ told' = told
    BY <1>3 DEF MarkDelivered, Tick, relayVars
  <2>2. NoneMade(msgs, msgs')
    BY <1>1, <1>3, SweepsMakeNone DEF MarkDelivered, Tick
  <2>3. \A x \in MsgIds : Present(msgs, x) => Present(msgs', x) /\ msgs'[x].status = msgs[x].status
    <3> SUFFICES ASSUME NEW x \in MsgIds, Present(msgs, x)
                 PROVE  Present(msgs', x) /\ msgs'[x].status = msgs[x].status
      OBVIOUS
    <3>1. CASE Tick
      BY <1>1, <3>1, SweptRow DEF Tick, Untouched, SameFate
    <3>2. CASE MarkDelivered
      <4>1. PICK ids : msgs' = MarkReported(msgs, ids)
        BY <3>2 DEF MarkDelivered
      <4>2. QED
        BY <1>1, <4>1, SweptRow DEF SameFate, Present
    <3>3. QED
      BY <1>3, <3>1, <3>2
  <2>4. QED
    BY <2>1, <2>2, <2>3, StutterStep DEF SameStage, NoneMade
<1>4. CASE FetchReports \/ Suspend \/ Activate \/ (\E h \in Handlers : Submit(h))
           \/ \E a \in Accounts : AddAccount(a)
  BY <1>2, <1>4 DEF FetchReports, Suspend, Activate, Submit, AddAccount, store, relayVars
<1>5. CASE FaultStep
  BY <1>2, <1>5 DEF FaultStep, SmtpCycleFails, ReportCycleFails, Crash, RequestFails, store,
                    relayVars
<1>6. ASSUME NEW h \in Handlers, HandlerStep(h)
      PROVE  InsertValid(h)
  BY <1>6 DEF HandlerStep, InsertRejected, MarkRejected, OnceInv, NoRefusals
<1>7. ~(\E x \in MsgIds : DeleteMessage(x)) /\ ~(\E a \in Accounts : DeleteAccount(a))
  BY DEF NothingDeleted, DeleteMessage, DeleteAccount
<1>8. CASE UNCHANGED vars
  BY <1>2, <1>8 DEF vars, store, relayVars
<1>9. CASE Next
  BY <1>3, <1>4, <1>5, <1>6, <1>7, <1>9, AcceptStep, HandOverStep, SettleStep, TellStep, ForgetStep
     DEF Next, ClientStep, ReportStep
<1>10. QED
  BY <1>8, <1>9

\* The service keeps the promise of MailService to clients that use an id once and delete nothing:
\* every step of its tasks, of the clients, of time and of the faults is a step the promise allows.
THEOREM PromiseKept ==
  ASSUME Once, NothingDeleted
  PROVE  Spec => KeepsPromise
<1> DEFINE Inv == TypeInv /\ LedgerInv /\ OnceInv
           More == WorkedOnIsPresent /\ StampIsEarned
<1>1. Init => Promise!Init
  BY DEF Init, Promise!Init, Stage, Present
<1>2. Init => More
  BY DEF Init, WorkedOnIsPresent, StampIsEarned
<1>3. Inv /\ More /\ [Next]_vars => More'
  <2>1. UNCHANGED vars /\ WorkedOnIsPresent => WorkedOnIsPresent'
    BY DEF vars, store, smtpVars, reportVars, WorkedOnIsPresent
  <2>2. QED
    BY <2>1, WorkedOnStep, StampStaysEarned
<1>4. Inv /\ More /\ [Next]_vars => [Promise!Next]_(Promise!vars)
  BY PromiseStep
<1>5. Spec => []Inv
  BY OnceInvariant
<1> HIDE DEF Inv, More
<1>6. QED
  BY <1>1, <1>2, <1>3, <1>4, <1>5, PTL DEF Spec, KeepsPromise, Promise!Spec
=============================================================================
