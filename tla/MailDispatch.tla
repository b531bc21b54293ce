---------------------------- MODULE MailDispatch ----------------------------
(***************************************************************************)
(* AsyncMailCore (async_mail_service/core.py) around its message table:    *)
(* the HTTP handlers that add, replace and delete messages and accounts,   *)
(* the SMTP dispatch task, the client report task, and the two outside     *)
(* parties they talk to, the mail relay and the client's report endpoint.  *)
(*                                                                         *)
(* All of them are coroutines of one event loop.  A coroutine loses        *)
(* control only where it awaits, so an action here runs from one awaited   *)
(* effect (a committed statement, an answer of the relay or of the         *)
(* endpoint) to the next; what a coroutine decides without awaiting is     *)
(* part of the step before it.                                             *)
(***************************************************************************)
EXTENDS MailStore

CONSTANTS
  Handlers,      \* HTTP requests the server works on at the same time
  BatchSizes,    \* batch_size of the accounts: messages per account and cycle
  RetryDelays,   \* retry_delays, in ticks
  StartActive,   \* start_active
  Commands,      \* what clients do, beside submitting valid messages
  MaxFaults      \* bound: crashes, failing statements and lost answers

\* To submit a message whose content is not good, or for an account that is not there, is a
\* command too.
AllCommands == {"foreign", "malformed", "noAccount", "deleteMessages", "deleteAccount",
                "suspend", "cleanupMessages"}

ASSUME DispatchAssumption ==
  /\ BatchSizes \subseteq Nat \ {0}
  /\ RetryDelays \in Seq(1 .. MaxWait) /\ RetryDelays # << >>
  /\ StartActive \in BOOLEAN
  /\ Commands \subseteq AllCommands
  /\ MaxFaults \in Nat

VARIABLES
  msgs,      \* the message table
  accts,     \* ids in the accounts table
  stamp,     \* rows created so far: the next created_at
  active,    \* _active
  apiPc,     \* where each request handler stands
  apiItem,   \* the message it holds
  smtpPc,    \* where the SMTP task stands
  plan,      \* the rows it read and has yet to dispatch, the current one first
  reportPc,  \* where the report task stands
  reports,   \* the outcomes it read and is delivering
  subs,      \* history: submissions made for each id
  attempts,  \* history: times the relay was offered each submission
  accepted,  \* history: times the relay took responsibility for it
  told,      \* history: outcomes the client was told
  faults     \* history: faults so far

store     == <<msgs, accts, stamp>>
apiVars   == <<apiPc, apiItem, subs>>
smtpVars  == <<smtpPc, plan>>
relayVars == <<attempts, accepted>>
reportVars == <<reportPc, reports>>
vars == <<store, active, apiVars, smtpVars, relayVars, reportVars, told, faults>>

Entry == [id : MsgIds, payload : Payload]
Report == [id : MsgIds, ver : Versions, outcome : {"sent", "error"}]

TypeOK ==
  /\ msgs \in Table
  /\ accts \subseteq Accounts
  /\ stamp \in Nat
  /\ active \in BOOLEAN
  /\ apiPc \in [Handlers -> {"idle", "insert", "refuse", "mark"}]
  /\ apiItem \in [Handlers -> Item \cup {None}]
  /\ \A h \in Handlers : apiPc[h] = "idle" <=> apiItem[h] = None
  /\ smtpPc \in {"idle", "clear", "build", "send", "retry", "defer", "fail", "stamp"}
  /\ plan \in Seq(Entry)
  /\ smtpPc = "idle" <=> plan = << >>
  /\ reportPc \in {"idle", "post", "mark", "retain"}
  /\ reports \subseteq Report
  /\ subs \in [MsgIds -> 0 .. MaxVer]
  /\ attempts \in [MsgIds -> [Versions -> Nat]]
  /\ accepted \in [MsgIds -> [Versions -> Nat]]
  /\ told \subseteq Report
  /\ faults \in 0 .. MaxFaults

Init ==
  /\ msgs = [id \in MsgIds |-> None]
  /\ accts = {} /\ stamp = 0
  /\ active = StartActive
  /\ apiPc = [h \in Handlers |-> "idle"]
  /\ apiItem = [h \in Handlers |-> None]
  /\ smtpPc = "idle" /\ plan = << >>
  /\ reportPc = "idle" /\ reports = {}
  /\ subs = [id \in MsgIds |-> 0]
  /\ attempts = [id \in MsgIds |-> [v \in Versions |-> 0]]
  /\ accepted = [id \in MsgIds |-> [v \in Versions |-> 0]]
  /\ told = {} /\ faults = 0

-----------------------------------------------------------------------------
(***************************************************************************)
(* Request handlers.  addMessages validates an item (reading its account), *)
(* then stores it.  An invalid item is stored too, in one transaction, and *)
(* turned into an error in the next, for the report task to deliver.  The  *)
(* volumes of an account do not change here; an item that lacks a field is *)
(* refused like one with a foreign volume, except that it can never be     *)
(* built.  An item has one defect at the most.  A request holds one item.  *)
(* One with a longer list stores those that are refused one after the      *)
(* other and the valid ones together at the end, as several of these       *)
(* requests may do: Handlers bounds the items that are being added at the  *)
(* same time.                                                              *)
(***************************************************************************)
Submit(h) ==
  /\ apiPc[h] = "idle"
  /\ \E id \in MsgIds, acct \in Accounts, content \in Contents, prio \in Priorities,
        wait \in 0 .. MaxWait :
       LET valid == content # "foreign" /\ acct \in accts
       IN  /\ subs[id] < MaxVer
           /\ content # "good" => content \in Commands /\ acct \in accts
           /\ acct \in accts \/ "noAccount" \in Commands
           /\ subs' = [subs EXCEPT ![id] = @ + 1]
           /\ apiItem' = [apiItem EXCEPT ![h] =
                [id |-> id, ver |-> subs[id] + 1, acct |-> acct, content |-> content,
                 prio |-> prio, wait |-> IF valid THEN wait ELSE 0]]
           /\ apiPc' = [apiPc EXCEPT ![h] = IF valid THEN "insert" ELSE "refuse"]
  /\ UNCHANGED <<store, active, smtpVars, relayVars, reportVars, told, faults>>

StoreItem(h) ==
  /\ msgs' = UpsertMessage(msgs, apiItem[h], stamp)
  /\ stamp' = IF Present(msgs, apiItem[h].id) THEN stamp ELSE stamp + 1
  /\ UNCHANGED accts

FinishRequest(h) ==
  /\ apiPc' = [apiPc EXCEPT ![h] = "idle"]
  /\ apiItem' = [apiItem EXCEPT ![h] = None]
  /\ UNCHANGED subs

InsertValid(h) ==
  /\ apiPc[h] = "insert"
  /\ StoreItem(h)
  /\ FinishRequest(h)
  /\ UNCHANGED <<active, smtpVars, relayVars, reportVars, told, faults>>

InsertRejected(h) ==
  /\ apiPc[h] = "refuse"
  /\ StoreItem(h)
  /\ apiPc' = [apiPc EXCEPT ![h] = "mark"]
  /\ UNCHANGED <<active, apiItem, subs, smtpVars, relayVars, reportVars, told, faults>>

MarkRejected(h) ==
  /\ apiPc[h] = "mark"
  /\ msgs' = MarkError(msgs, apiItem[h].id)
  /\ FinishRequest(h)
  /\ UNCHANGED <<accts, stamp, active, smtpVars, relayVars, reportVars, told, faults>>

DeleteMessage(id) ==
  /\ "deleteMessages" \in Commands
  /\ Present(msgs, id)
  /\ msgs' = DeleteMessageRow(msgs, id)
  /\ UNCHANGED <<accts, stamp, active, apiVars, smtpVars, relayVars, reportVars, told, faults>>

AddAccount(a) ==
  /\ accts' = accts \cup {a}
  /\ UNCHANGED <<msgs, stamp, active, apiVars, smtpVars, relayVars, reportVars, told, faults>>

DeleteAccount(a) ==
  /\ "deleteAccount" \in Commands
  /\ accts' = accts \ {a}
  /\ msgs' = DeleteAccountRows(msgs, a)
  /\ UNCHANGED <<stamp, active, apiVars, smtpVars, relayVars, reportVars, told, faults>>

Suspend ==
  /\ "suspend" \in Commands
  /\ active' = FALSE
  /\ UNCHANGED <<store, apiVars, smtpVars, relayVars, reportVars, told, faults>>

Activate ==
  /\ active' = TRUE
  /\ UNCHANGED <<store, apiVars, smtpVars, relayVars, reportVars, told, faults>>

CleanupMessages ==
  /\ "cleanupMessages" \in Commands
  /\ \E age \in 0 .. Retention : msgs' = RemoveReportedBefore(msgs, age)
  /\ UNCHANGED <<accts, stamp, active, apiVars, smtpVars, relayVars, reportVars, told, faults>>

-----------------------------------------------------------------------------
(***************************************************************************)
(* The SMTP task.  A cycle reads the ready rows once and dispatches those  *)
(* copies one after the other, account by account.  It asks for the size   *)
(* of each account anew, and takes the default where it gets no answer.    *)
(***************************************************************************)

\* Mutant: the slice of each account begins one too late.
PlannedIds_SkipsFirst(tbl, size) ==
  {id \in FetchReadyMessages(tbl) :
     Cardinality({x \in FetchReadyMessages(tbl) :
        Before(tbl, x, id) /\ tbl[x].payload.acct = tbl[id].payload.acct})
     \in 1 .. size[tbl[id].payload.acct]}

\* The rows of a cycle: no more of an account than its size.
PlannedIds(tbl, size) ==
  LET read == FetchReadyMessages(tbl)
      ahead(id) == {x \in read : /\ Before(tbl, x, id)
                                 /\ tbl[x].payload.acct = tbl[id].payload.acct}
  IN  {id \in read : Cardinality(ahead(id)) < size[tbl[id].payload.acct]}

\* Mutant: rows are grouped by account in the order of the accounts alone.
Turn_ByAccount(tbl, x, y) ==
  LET group(id) == {z \in FetchReadyMessages(tbl) : tbl[z].payload.acct = tbl[id].payload.acct}
  IN  \/ tbl[x].payload.acct = tbl[y].payload.acct
      \/ \E f \in group(x) : \A z \in group(y) : Before(tbl, f, z)

\* x is dispatched before y: accounts in the order in which they first come up, the
\* messages of one account in the order in which they were read.
Turn(tbl, x, y) ==
  LET group(id) == {z \in FetchReadyMessages(tbl) : tbl[z].payload.acct = tbl[id].payload.acct}
  IN  IF tbl[x].payload.acct = tbl[y].payload.acct THEN Before(tbl, x, y)
      ELSE \E f \in group(x) : \A z \in group(y) : Before(tbl, f, z)

FetchBatch ==
  /\ smtpPc = "idle"
  /\ \E size \in [Accounts -> BatchSizes] :
       LET ids == PlannedIds(msgs, size)
       IN  /\ ids # {}
           /\ \E order \in [1 .. Cardinality(ids) -> ids] :
                /\ \A i, j \in DOMAIN order : i < j => Turn(msgs, order[i], order[j])
                /\ plan' = [i \in DOMAIN order |->
                              [id |-> order[i], payload |-> msgs[order[i]].payload]]
  /\ smtpPc' = "clear"
  /\ UNCHANGED <<store, active, apiVars, relayVars, reportVars, told, faults>>

Current == Head(plan)

\* The cycle is done with its current message.
NextMessage ==
  /\ plan' = Tail(plan)
  /\ smtpPc' = IF Tail(plan) = << >> THEN "idle" ELSE "clear"

\* An exception leaves the cycle; what was left of it waits for the next one.
EndCycle ==
  /\ plan' = << >>
  /\ smtpPc' = "idle"

Goto(pc) == smtpPc' = pc /\ UNCHANGED plan

ClearCurrent ==
  /\ smtpPc = "clear"
  /\ msgs' = ClearDeferred(msgs, Current.id)
  /\ Goto("build")
  /\ UNCHANGED <<accts, stamp, active, apiVars, relayVars, reportVars, told, faults>>

\* A field is missing or an attachment cannot be had: KeyError and ValueError are caught.
BuildFails ==
  /\ smtpPc = "build"
  /\ msgs' = MarkError(msgs, Current.id)
  /\ NextMessage
  /\ UNCHANGED <<accts, stamp, active, apiVars, relayVars, reportVars, told, faults>>

\* Any other exception is left to the loop, like the TypeError of an attachment that is added to
\* a message whose own headers say it is multipart.
BuildRaises ==
  /\ smtpPc = "build"
  /\ Current.payload.content = "malformed"
  /\ EndCycle
  /\ UNCHANGED <<store, active, apiVars, relayVars, reportVars, told, faults>>

\* get_account raises ValueError for an account that is gone, and nothing catches it
\* before the loop does.
ResolveAccount ==
  /\ smtpPc = "build"
  /\ Current.payload.content # "malformed"
  /\ IF Current.payload.acct \in accts THEN Goto("send") ELSE EndCycle
  /\ UNCHANGED <<store, active, apiVars, relayVars, reportVars, told, faults>>

\* The rate limiter names a later time.
RateLimited ==
  /\ smtpPc = "send"
  /\ \E ticks \in 1 .. MaxWait : msgs' = SetDeferred(msgs, Current.id, ticks)
  /\ NextMessage
  /\ UNCHANGED <<accts, stamp, active, apiVars, relayVars, reportVars, told, faults>>

CountAttempt ==
  attempts' = [attempts EXCEPT ![Current.id][Current.payload.ver] = @ + 1]

RelayTakes ==
  accepted' = [accepted EXCEPT ![Current.id][Current.payload.ver] = @ + 1]

\* What an attempt raises: no answer or no connection, a 4xx or 5xx code, anything else.
Errors == {"network", "4xx", "5xx", "unknown"}
IsTemporary(error) == error # "5xx"

\* Mutants: one retry too many; an error that is neither of the relay nor of the network
\* goes on to mark_sent.
AfterError_OffByOne(error) ==
  IF IsTemporary(error) /\ Current.payload.retry <= MaxRetries THEN "retry" ELSE "fail"
AfterError_FallsThrough(error) ==
  IF error = "unknown" THEN "stamp"
  ELSE IF IsTemporary(error) /\ Current.payload.retry < MaxRetries THEN "retry" ELSE "fail"

AfterError(error) ==
  IF IsTemporary(error) /\ Current.payload.retry < MaxRetries THEN "retry" ELSE "fail"

RelayAccepts ==
  /\ smtpPc = "send"
  /\ CountAttempt /\ RelayTakes
  /\ Goto("stamp")
  /\ UNCHANGED <<store, active, apiVars, reportVars, told, faults>>

RelayRefuses ==
  /\ smtpPc = "send"
  /\ CountAttempt
  /\ \E error \in Errors : Goto(AfterError(error))
  /\ UNCHANGED <<store, active, apiVars, accepted, reportVars, told, faults>>

\* The relay accepts the message, and the answer is lost or comes after the 30 seconds.
AnswerLost ==
  /\ smtpPc = "send"
  /\ faults < MaxFaults
  /\ faults' = faults + 1
  /\ CountAttempt /\ RelayTakes
  /\ Goto(AfterError("network"))
  /\ UNCHANGED <<store, active, apiVars, reportVars, told>>

\* The copy that was read, one retry further, is written over the row's payload.
StoreRetryCount ==
  /\ smtpPc = "retry"
  /\ msgs' = UpdateMessagePayload(msgs, Current.id,
                                  [Current.payload EXCEPT !.retry = @ + 1])
  /\ Goto("defer")
  /\ UNCHANGED <<accts, stamp, active, apiVars, relayVars, reportVars, told, faults>>

RetryDelay(retry) ==
  IF retry >= Len(RetryDelays) THEN RetryDelays[Len(RetryDelays)] ELSE RetryDelays[retry + 1]

DeferRetry ==
  /\ smtpPc = "defer"
  /\ msgs' = SetDeferred(msgs, Current.id, RetryDelay(Current.payload.retry))
  /\ NextMessage
  /\ UNCHANGED <<accts, stamp, active, apiVars, relayVars, reportVars, told, faults>>

FailPermanently ==
  /\ smtpPc = "fail"
  /\ msgs' = MarkError(msgs, Current.id)
  /\ NextMessage
  /\ UNCHANGED <<accts, stamp, active, apiVars, relayVars, reportVars, told, faults>>

StampSent ==
  /\ smtpPc = "stamp"
  /\ msgs' = MarkSent(msgs, Current.id)
  /\ NextMessage
  /\ UNCHANGED <<accts, stamp, active, apiVars, relayVars, reportVars, told, faults>>

-----------------------------------------------------------------------------
(***************************************************************************)
(* The report task.                                                        *)
(***************************************************************************)
Unreported == {id \in MsgIds : IsUnreported(msgs, id)}

ReportOf(id) == [id |-> id, ver |-> msgs[id].payload.ver, outcome |-> msgs[id].status]

\* LIMIT rows; their order (updated_at) is not modelled.
FetchReports ==
  /\ reportPc = "idle"
  /\ active
  /\ \E ids \in SUBSET Unreported :
       /\ \/ Cardinality(ids) = QueueSize
          \/ ids = Unreported /\ Cardinality(ids) < QueueSize
       /\ reports' = {ReportOf(id) : id \in ids}
       /\ reportPc' = IF ids = {} THEN "retain" ELSE "post"
  /\ UNCHANGED <<store, active, apiVars, smtpVars, relayVars, told, faults>>

DeliverReports ==
  /\ reportPc = "post"
  /\ told' = told \cup reports
  /\ reportPc' = "mark"
  /\ UNCHANGED <<store, active, apiVars, smtpVars, relayVars, reports, faults>>

\* Mutant: the exception is logged and the cycle goes on.
DeliveryFails_GoesOn ==
  /\ reportPc = "post"
  /\ \E reached \in SUBSET reports : told' = told \cup reached
  /\ reportPc' = "mark"
  /\ UNCHANGED <<store, active, apiVars, smtpVars, relayVars, reports, faults>>

\* The endpoint is down, its answer is lost, or the callable raises half-way.
DeliveryFails ==
  /\ reportPc = "post"
  /\ \E reached \in SUBSET reports : told' = told \cup reached
  /\ reportPc' = "idle" /\ reports' = {}
  /\ UNCHANGED <<store, active, apiVars, smtpVars, relayVars, faults>>

MarkDelivered ==
  /\ reportPc = "mark"
  /\ msgs' = MarkReported(msgs, {r.id : r \in reports})
  /\ reportPc' = "retain" /\ reports' = {}
  /\ UNCHANGED <<accts, stamp, active, apiVars, smtpVars, relayVars, told, faults>>

ApplyRetention ==
  /\ reportPc = "retain"
  /\ msgs' = IF Retention = 0 THEN msgs ELSE RemoveReportedBefore(msgs, Retention)
  /\ reportPc' = "idle"
  /\ UNCHANGED <<accts, stamp, active, apiVars, smtpVars, relayVars, reports, told, faults>>

-----------------------------------------------------------------------------
(***************************************************************************)
(* Faults and time.  A statement that fails (the database is locked, the   *)
(* disk is full) ends the cycle or the request it is part of.              *)
(***************************************************************************)
Fault == faults < MaxFaults /\ faults' = faults + 1

SmtpCycleFails ==
  /\ smtpPc # "idle"
  /\ Fault /\ EndCycle
  /\ UNCHANGED <<store, active, apiVars, relayVars, reportVars, told>>

ReportCycleFails ==
  /\ reportPc # "idle"
  /\ Fault
  /\ reportPc' = "idle" /\ reports' = {}
  /\ UNCHANGED <<store, active, apiVars, smtpVars, relayVars, told>>

RequestFails(h) ==
  /\ apiPc[h] # "idle"
  /\ Fault /\ FinishRequest(h)
  /\ UNCHANGED <<store, active, smtpVars, relayVars, reportVars, told>>

\* The process dies and is started again: the tables are all that is left.
Crash ==
  /\ Fault /\ EndCycle
  /\ active' = StartActive
  /\ apiPc' = [h \in Handlers |-> "idle"]
  /\ apiItem' = [h \in Handlers |-> None]
  /\ reportPc' = "idle" /\ reports' = {}
  /\ UNCHANGED <<store, subs, relayVars, told>>

Tick ==
  /\ msgs' = Age(msgs)
  /\ UNCHANGED <<accts, stamp, active, apiVars, smtpVars, relayVars, reportVars, told, faults>>

-----------------------------------------------------------------------------
HandlerStep(h) == InsertValid(h) \/ InsertRejected(h) \/ MarkRejected(h)

Attempt == RelayAccepts \/ RelayRefuses \/ AnswerLost

SmtpStep ==
  \/ FetchBatch \/ ClearCurrent \/ BuildFails \/ BuildRaises \/ ResolveAccount
  \/ RateLimited \/ Attempt \/ StoreRetryCount \/ DeferRetry \/ FailPermanently \/ StampSent

ReportStep ==
  FetchReports \/ DeliverReports \/ DeliveryFails \/ MarkDelivered \/ ApplyRetention

ClientStep ==
  \/ \E h \in Handlers : Submit(h)
  \/ \E id \in MsgIds : DeleteMessage(id)
  \/ \E a \in Accounts : AddAccount(a) \/ DeleteAccount(a)
  \/ Suspend \/ Activate \/ CleanupMessages

FaultStep ==
  \/ SmtpCycleFails \/ ReportCycleFails \/ Crash
  \/ \E h \in Handlers : RequestFails(h)

Next ==
  \/ ClientStep
  \/ \E h \in Handlers : HandlerStep(h)
  \/ SmtpStep \/ ReportStep \/ FaultStep \/ Tick

Spec == Init /\ [][Next]_vars

(***************************************************************************)
(* Fairness.  The event loop runs every coroutine that can go on, and a    *)
(* loop that finds nothing to do polls again after its interval, so the    *)
(* tasks and the accepted requests make progress; the clock goes on.  The  *)
(* limiter cannot postpone a message forever once its windows are past,    *)
(* and the report endpoint is not down forever: both compete with their    *)
(* alternative and need strong fairness.  Nothing is assumed of the relay, *)
(* of the clients or of the faults.                                        *)
(***************************************************************************)
AttemptOf(id) == plan # << >> /\ Current.id = id /\ Attempt

Fairness ==
  /\ \A h \in Handlers : WF_vars(HandlerStep(h))
  /\ WF_vars(SmtpStep) /\ \A id \in MsgIds : SF_vars(AttemptOf(id))
  /\ WF_vars(ReportStep) /\ SF_vars(DeliverReports)
  /\ WF_vars(Tick)

FairSpec == Spec /\ Fairness

-----------------------------------------------------------------------------
(***************************************************************************)
(* Properties for any use of the ids.                                      *)
(***************************************************************************)

\* A message is given to the relay once, and once more at most for every crash, failing
\* statement or lost answer: nothing else can make the dispatcher repeat itself (core.py
\* 703-787, the steps between send_message and mark_sent).
DuplicatesArePaidFor ==
  \A id \in MsgIds, v \in Versions : accepted[id][v] <= 1 + faults

\* max_retries is kept across cycles, deferrals and replacements, although the count
\* travels through the payload column: a fault costs one attempt more (core.py 713-729).
AttemptsWithinBudget ==
  \A id \in MsgIds, v \in Versions : attempts[id][v] <= 1 + MaxRetries + faults

\* Nobody claims that a message was sent, neither the table nor a report, unless the relay
\* took some submission of it.
SentMeansTaken ==
  \A id \in MsgIds :
    (\/ HasStatus(msgs, id, "sent")
     \/ \E r \in reports \cup told : r.id = id /\ r.outcome = "sent")
    => \E v \in Versions : accepted[id][v] > 0

\* A message that waits to be sent leaves the table only because a client asked for it:
\* not by the retention of reports, even when mark_reported stamped the row after it was
\* queued again (persistence.py 368-402).
QueuedNeverDropped ==
  [][\A id \in MsgIds :
       HasStatus(msgs, id, "queued") /\ ~Present(msgs', id)
       => DeleteMessage(id) \/ \E a \in Accounts : DeleteAccount(a)]_vars

\* A message deleted while a task or a request works on a copy of it stays deleted: of all that
\* is written back afterwards (deferrals, retry counts, marks, stamps) nothing makes a row,
\* only a client's new submission does (core.py 604-787, 857-859).
DeletedStaysDeleted ==
  [][\A id \in MsgIds :
       ~Present(msgs, id) /\ Present(msgs', id)
       => \E h \in Handlers : InsertValid(h) \/ InsertRejected(h)]_vars

-----------------------------------------------------------------------------
(***************************************************************************)
(* Properties for clients that use an id once and submit valid messages.   *)
(***************************************************************************)

\* The row of a sent message carries the submission that was sent.
SentIsWhatWasTaken ==
  \A id \in MsgIds :
    HasStatus(msgs, id, "sent") => accepted[id][msgs[id].payload.ver] > 0

\* A message is not refused and then sent all the same: what the relay has taken, and is about
\* to be marked sent, had passed the validation of its volumes.
RefusedNeverTaken == smtpPc = "stamp" => Current.payload.content # "foreign"

\* The row of a message that was sent is only stamped as reported if the client was told "sent"
\* ("Resets reported_ts so the message will be reported with final state", persistence.py 277).
SentIsReportedAsSent ==
  \A id \in MsgIds :
    HasStatus(msgs, id, "sent") /\ msgs[id].reported # Never
    => \E r \in told : r.id = id /\ r.outcome = "sent"

\* "Messages that have been sent are never replaced" (persistence.py 192): when a client submits
\* the id of a sent message again, and the new submission is refused for its volumes, the row of
\* the one that was sent stays sent (core.py 428-429).
SentOutlivesRefusal ==
  [][\A h \in Handlers :
       LET id == apiItem[h].id
       IN  /\ MarkRejected(h) /\ apiItem[h].content = "foreign"
           /\ HasStatus(msgs, id, "sent") /\ msgs[id].payload.content = "good"
           => HasStatus(msgs', id, "sent")]_vars

\* Sent is final, where no submission is refused.
SentIsFinal ==
  [][\A id \in MsgIds :
       HasStatus(msgs, id, "sent") => HasStatus(msgs', id, "sent") \/ ~Present(msgs', id)]_vars

\* The stamp of a report stands for an outcome the client was told: a row that is final and
\* reported was told as it stands (core.py 819-859).
ReportedWasTold ==
  \A id \in MsgIds :
    Final(msgs, id) /\ msgs[id].reported # Never => ReportOf(id) \in told

\* A report may come twice, but never with another outcome: neither a retry after a lost answer, nor
\* a delivery that is repeated, nor a crash lets the client hear both (core.py 703-787, 819-859).
OneOutcomeTold ==
  \A r, s \in told : r.id = s.id => r.outcome = s.outcome

\* The retention takes no row whose outcome the client has not been told.
ForgottenWasTold ==
  [][\A id \in MsgIds :
       Present(msgs, id) /\ ~Present(msgs', id)
       => \/ DeleteMessage(id) \/ \E a \in Accounts : DeleteAccount(a)
          \/ ReportOf(id) \in told]_vars

\* What is about to be dispatched is due: neither the client's deferred_ts nor a retry nor
\* the limiter asks to wait any longer.
DispatchedIsDue ==
  \A i \in DOMAIN plan :
    LET id == plan[i].id
    IN  /\ HasStatus(msgs, id, "queued")
        /\ msgs[id].payload = plan[i].payload
        => msgs[id].wait = 0

\* Grouping by account lets messages of one account overtake those of another, whatever their
\* priorities, but never those of the same account (core.py 573-606).
OrderWithinAccount ==
  \A i, j \in DOMAIN plan :
    LET x == plan[i].id
        y == plan[j].id
    IN  /\ i < j /\ plan[i].payload.acct = plan[j].payload.acct
        /\ Present(msgs, x) /\ Present(msgs, y)
        => Before(msgs, x, y)

\* Every message that is queued comes to an outcome, unless it is deleted.
EveryMessageSettles ==
  \A id \in MsgIds : HasStatus(msgs, id, "queued") ~> ~HasStatus(msgs, id, "queued")

\* The same with accounts that come and go: what happens to one account is no reason for the
\* message of another to stay in the queue.
AccountsAreIsolated ==
  \A id \in MsgIds :
    HasStatus(msgs, id, "queued")
    ~> ~HasStatus(msgs, id, "queued") \/ msgs[id].payload.acct \notin accts

\* Every outcome is told, and as the row shows it if it is still there.
EveryOutcomeTold ==
  \A id \in MsgIds :
    Final(msgs, id)
    ~> \E r \in told : r.id = id /\ (Final(msgs, id) => r.outcome = msgs[id].status)

\* The detailed system keeps the promise of MailService: what the client sees of a message
\* is the status of its row, and a row that is gone was forgotten.
Stage(id) ==
  IF Present(msgs, id) THEN msgs[id].status
  ELSE IF \E r \in told : r.id = id THEN "gone" ELSE "absent"

Promise == INSTANCE MailService WITH
  Ids   <- MsgIds,
  stage <- [id \in MsgIds |-> Stage(id)],
  taken <- {id \in MsgIds : \E v \in Versions : accepted[id][v] > 0},
  heard <- {<<r.id, r.outcome>> : r \in told}

KeepsPromise == Promise!Spec
=============================================================================
