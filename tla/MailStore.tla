------------------------------ MODULE MailStore ------------------------------
(***************************************************************************)
(* The message table of async_mail_service/persistence.py and what each of *)
(* its SQL statements does to it.  Every method of Persistence opens its   *)
(* own connection and commits before it returns, so one operator here is   *)
(* one atomic step of whoever calls it.                                    *)
(*                                                                         *)
(* A table is a function from message ids to rows, None where there is no  *)
(* row.  The payload is reduced to what decides the fate of a message: the *)
(* number of the submission it came with (ver), the account it names, its  *)
(* retry_count, and its content: its attachments name a storage volume of  *)
(* another account ("foreign"), it passes the validation and cannot be     *)
(* built ("malformed"), or neither ("good").  The columns sent_ts and      *)
(* error_ts, which no statement leaves both set, are the field status;     *)
(* deferred_ts is the number of clock ticks left until it is due (wait, 0  *)
(* for NULL or past); reported_ts is the age of the report in ticks, Never *)
(* for NULL, and stops counting once it is past the retention.             *)
(***************************************************************************)
EXTENDS Integers, FiniteSets, Sequences

CONSTANTS
  MsgIds,      \* message ids the clients use
  Accounts,    \* SMTP account ids
  MaxVer,      \* bound: how often one id is submitted
  Priorities,  \* priorities the clients use
  MaxRetries,  \* max_retries of the service
  MaxWait,     \* bound: the longest deferral, in ticks
  Retention,   \* report_retention_seconds, in ticks
  QueueSize,   \* smtp_batch_size: LIMIT of the fetch queries
  None         \* no row, no item

Versions == 1 .. MaxVer
Never == -1

Contents == {"good", "foreign", "malformed"}

Payload == [ver : Versions, acct : Accounts, content : Contents, retry : 0 .. MaxRetries]

Row == [payload  : Payload,
        acct     : Accounts,
        prio     : Priorities,
        wait     : 0 .. MaxWait,
        created  : Nat,
        status   : {"queued", "sent", "error"},
        reported : Never .. Retention + 1]

Item == [id : MsgIds, ver : Versions, acct : Accounts, content : Contents,
         prio : Priorities, wait : 0 .. MaxWait]

Table == [MsgIds -> Row \cup {None}]

ASSUME StoreAssumption ==
  /\ IsFiniteSet(MsgIds)
  /\ MaxVer \in Nat /\ MaxRetries \in Nat /\ MaxWait \in Nat
  /\ Retention \in Nat /\ QueueSize \in Nat \ {0}
  /\ Priorities \subseteq Nat
  /\ None \notin Row /\ None \notin Item

(***************************************************************************)
(* Predicates of the queries.                                              *)
(***************************************************************************)
Present(tbl, id) == tbl[id] # None
HasStatus(tbl, id, s) == Present(tbl, id) /\ tbl[id].status = s
Final(tbl, id) == Present(tbl, id) /\ tbl[id].status # "queued"

\* Mutants: deferred_ts is not looked at; sent_ts is not looked at; errors are forgotten.
IsReady_IgnoresDeferral(tbl, id) == HasStatus(tbl, id, "queued")
IsReady_IgnoresSent(tbl, id) == Present(tbl, id) /\ tbl[id].status # "error" /\ tbl[id].wait = 0
IsUnreported_SentOnly(tbl, id) == HasStatus(tbl, id, "sent") /\ tbl[id].reported = Never

IsReady(tbl, id) == HasStatus(tbl, id, "queued") /\ tbl[id].wait = 0
IsUnreported(tbl, id) == Final(tbl, id) /\ tbl[id].reported = Never

\* ORDER BY priority ASC, created_at ASC, id ASC: rows are taken to be created in
\* distinct seconds, so that the first two keys decide.
Before(tbl, x, y) ==
  \/ tbl[x].prio < tbl[y].prio
  \/ tbl[x].prio = tbl[y].prio /\ tbl[x].created < tbl[y].created

FetchReadyMessages(tbl) ==
  LET ready == {id \in MsgIds : IsReady(tbl, id)}
  IN  {id \in ready : Cardinality({x \in ready : Before(tbl, x, id)}) < QueueSize}

(***************************************************************************)
(* Updates.  At(tbl, id, row) is UPDATE ... WHERE id=?: nothing happens    *)
(* when there is no such row.                                              *)
(***************************************************************************)
At(tbl, id, row) == IF Present(tbl, id) THEN [tbl EXCEPT ![id] = row] ELSE tbl

NewRow(item, created) ==
  [payload |-> [ver |-> item.ver, acct |-> item.acct, content |-> item.content, retry |-> 0],
   acct |-> item.acct, prio |-> item.prio, wait |-> item.wait,
   created |-> created, status |-> "queued", reported |-> Never]

Inserts(tbl, item) == ~HasStatus(tbl, item.id, "sent")

\* INSERT ... ON CONFLICT(id) DO UPDATE ... WHERE sent_ts IS NULL; created_at stays.
UpsertMessage(tbl, item, stamp) ==
  IF ~Inserts(tbl, item) THEN tbl
  ELSE [tbl EXCEPT ![item.id] =
          NewRow(item, IF Present(tbl, item.id) THEN tbl[item.id].created ELSE stamp)]

SetDeferred(tbl, id, ticks) ==
  IF HasStatus(tbl, id, "queued") THEN [tbl EXCEPT ![id].wait = ticks] ELSE tbl

ClearDeferred(tbl, id) == At(tbl, id, [tbl[id] EXCEPT !.wait = 0])

MarkSent(tbl, id) ==
  At(tbl, id, [tbl[id] EXCEPT !.status = "sent", !.wait = 0, !.reported = Never])

MarkError(tbl, id) ==
  At(tbl, id, [tbl[id] EXCEPT !.status = "error", !.wait = 0, !.reported = Never])

\* Mutant: the retry count is not written back.
UpdateMessagePayload_Lost(tbl, id, payload) == tbl

\* Mutant: the payload goes back with INSERT OR REPLACE instead of UPDATE.
UpdateMessagePayload_Upsert(tbl, id, payload) ==
  [tbl EXCEPT ![id] =
     [payload |-> payload, acct |-> payload.acct, prio |-> CHOOSE p \in Priorities : TRUE,
      wait |-> 0, created |-> 0, status |-> "queued", reported |-> Never]]

UpdateMessagePayload(tbl, id, payload) ==
  At(tbl, id, [tbl[id] EXCEPT !.payload = payload])

MarkReported(tbl, ids) ==
  [id \in MsgIds |->
     IF id \in ids /\ Present(tbl, id) THEN [tbl[id] EXCEPT !.reported = 0] ELSE tbl[id]]

\* Mutant: the condition on the final states is missing.
RemoveReportedBefore_AnyState(tbl, age) ==
  [id \in MsgIds |->
     IF Present(tbl, id) /\ tbl[id].reported > age THEN None ELSE tbl[id]]

\* DELETE ... WHERE reported_ts < now - age AND (sent_ts or error_ts is set)
RemoveReportedBefore(tbl, age) ==
  [id \in MsgIds |->
     IF Final(tbl, id) /\ tbl[id].reported > age THEN None ELSE tbl[id]]

DeleteMessageRow(tbl, id) == [tbl EXCEPT ![id] = None]

DeleteAccountRows(tbl, a) ==
  [id \in MsgIds |-> IF Present(tbl, id) /\ tbl[id].acct = a THEN None ELSE tbl[id]]

(***************************************************************************)
(* One tick of the wall clock, as the table sees it.                       *)
(***************************************************************************)
AgeRow(row) ==
  [row EXCEPT !.wait = IF row.wait = 0 THEN 0 ELSE row.wait - 1,
              !.reported = IF row.reported = Never THEN Never
                           ELSE IF row.reported > Retention THEN Retention + 1
                           ELSE row.reported + 1]

Age(tbl) == [id \in MsgIds |-> IF Present(tbl, id) THEN AgeRow(tbl[id]) ELSE None]
=============================================================================
