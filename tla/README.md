# gnr-async-mail-service in TLA+

The service accepts messages over HTTP, keeps them in an SQLite table, sends
them through SMTP relays and pushes the outcome of each to the client's
endpoint. This directory holds TLA+ modules of its core, the TLC runs that check
them, and theorems about them that TLAPS proves.

## The system

All coroutines run in one asyncio event loop; a coroutine loses control where
it awaits and nowhere else. Every method of `Persistence` opens its own
connection and commits, so the table changes between any two awaits of anyone.

| component | state it keeps | operations | hard parts |
|---|---|---|---|
| message table (`persistence.py`) | `messages`: payload, account, priority, `deferred_ts`, `sent_ts`, `error_ts`, `reported_ts` | upsert, fetch ready, defer, mark sent / error / reported, update payload, delete, retention | each statement is atomic and addressed by id alone: nothing checks that the row is still the one that was read |
| accounts table | account rows | add, delete (with its messages and send log), get | an account goes while its messages are being dispatched |
| request handlers (`core.py` 321-511) | none between requests | addMessages (two transactions for a refused item), deleteMessages, deleteAccount, suspend, activate, cleanupMessages | run between any two steps of the tasks and of each other |
| SMTP task (`core.py` 539-794) | the batch it read | fetch, clear deferral, build, resolve account, limit, send, retry / fail / mark sent | stale copies, crash between relay and table, lost answers, an exception that ends the cycle |
| report task (`core.py` 797-868) | the reports it read | fetch, deliver, mark reported, retention | failure half-way, outcomes that change while they are delivered |
| rate limiter, send log (`rate_limit.py`) | `send_log` | count in sliding windows, defer to the next fixed boundary, log | the clock goes on while it counts; gap between the relay's answer and `log_send`; newcomers take the place that falls free |
| SMTP pool (`smtp_pool.py`) | connections per task | get, cleanup | entries are read, then a NOOP is awaited, then written; cleanup works on a snapshot |
| lifecycle (`core.py` 514-561, 797-817, 871-938) | wake events, `_stop`, `_active`, test mode | start, stop, run now, suspend, activate, waits | lost wake-ups, waits that are never woken, slow stop |
| result queue (`core.py` 941-952) | 1000 events | put with timeout | nobody reads it |
| volumes (`persistence.py` 451-600, `config_loader.py`) | `volumes`, storage manager mounts | load from config, mount, add, delete, reload, authorise | reloads interleave or fail after the commit; the file is loaded again at every start |
| HTTP API, attachments, metrics, settings, scripts | none that matters here | | |

The SMTP task and the report task meet only in the message table and in a wake
event. Handlers change the table under both. The relay, its connections, the
client's endpoint and the storage manager are outside: the models say what they
may answer.

What makes each part correct:

* dispatcher: a message is sent once unless a fault explains the second time;
  `max_retries` is kept across cycles; nothing is marked sent that the relay did
  not take; what is dispatched is due; every queued message comes to an outcome.
* report task: every outcome is told; only what was told is stamped as reported;
  the retention forgets only what was told and drops nothing that waits.
* handlers: sent is final; a refused message is never sent; a deleted one stays
  deleted; accounts do not disturb each other.
* limiter: within any window the relay takes no more than the limit, but for what
  never came to the log; whoever is postponed gets a turn.
* pool: no connection is shared, used for the wrong account, or lost; an idle one
  is closed in the end.
* lifecycle: no wake-up is slept over; `stop` returns and lets no cycle begin
  after it; what is ready is dispatched and outcomes are posted.
* volumes: what is mounted is what the table says; a queued attachment is found
  where it was validated; a restart overwrites nothing.

## The modules

| module | what it is |
|---|---|
| `MailStore` | the message table and what each SQL statement of `persistence.py` does to it, as operators |
| `MailDispatch` | the state machine: handlers, SMTP task, report task, relay, endpoint, faults and the clock; `Spec`, `FairSpec` and the properties |
| `MailService` | the abstract promise to clients that use an id once |
| `MailLedger` | the inductive invariants behind the properties that hold for any use of the ids |
| `MailOnce` | the inductive invariants behind those that hold for clients that use an id once |
| `MailRateLimiter` | the limiter of one account, its send log, and the path of a message from the count to the log |
| `MailPool` | `get_connection` of several tasks against `cleanup` |
| `MailTasks` | the three loops, what starts, wakes and stops them, and the result queue |
| `MailVolumes` | the volumes table, the file, the mounts, the requests that change them and a message with an attachment |
| `MCMailDispatch`, `MCMailRateLimiter`, `MCMailVolumes` | instances for TLC; `MailPool` and `MailTasks` need none |
| `MailStoreProofs` | the statements keep the type of the table, and what each leaves alone |
| `MailDispatchProofs` | type correctness, and what may take a row out of the table or put one in |
| `MailLedgerProofs` | what the relay and the table can have seen of a submission |
| `MailOnceProofs` | what clients that use an id once are told is what happened; the refinement of `MailService` |
| `MailRateLimiterProofs` | the limits hold, whatever the windows |
| `MailPoolProofs` | who has a connection, where it is logged in, and that none is lost |
| `MailTasksProofs` | wake-ups, test mode and stop |
| `MailVolumesProofs` | what is mounted, and what a start does to the table |

`MailDispatch` composes the table, the handlers, both tasks, relay and endpoint.
The four other components touch it in one place each and are modelled beside it,
with the rest of the service reduced to what they see of it: the limiter answers
`RateLimited` there, the pool is inside `Attempt`, the loops decide when
`FetchBatch` and `FetchReports` come, and a volume decides whether `BuildFails`.
In `MailDispatch` each of these answers at any time in any way; the modules below
say what the answer really is, and justify its fairness (see there).

### State and code

* `msgs` is the table: a function from ids to rows or `None`. A row's `status`
  stands for `sent_ts` and `error_ts` (no statement leaves both set), `wait` for
  the ticks left until `deferred_ts`, `reported` for the age of `reported_ts`
  (`Never` is NULL; an age past the retention stays there). Its `payload` is
  reduced to the number of the submission it came with, its account, its
  `retry_count`, and its content: `good`, `foreign` (its attachments name a volume of
  another account, so it is refused) or `malformed` (accepted, but building it raises an
  exception that `_dispatch_message` does not catch, so that the cycle ends: `BuildRaises`).
  `payload.acct` and the column `acct` are kept apart because
  `update_message_payload` writes only the first.
* `apiPc`, `apiItem`: a request between two awaits. `Submit` is the validation
  (it reads the account), `InsertValid` the upsert, `InsertRejected` and
  `MarkRejected` the two transactions of a refused item.
* `smtpPc`, `plan`: the rest of the batch the SMTP task read, the current
  message first. `clear`, `build`, `send`, `retry`, `defer`, `fail`, `stamp` are
  the awaits of `_dispatch_message` and `_send_with_limits` in order; the rate
  limiter may answer any later tick.
* `reportPc`, `reports`: `post` is the delivery, `mark` is `mark_reported`,
  `retain` the retention. `active` is `_active`, read when a cycle starts.
* `subs`, `attempts`, `accepted`, `told`, `faults` are history: what was submitted,
  what the relay was offered and took, what the client was told, and how many
  faults (crash, failing statement, lost answer) there were. No action's guard
  reads them but the bounds `subs[id] < MaxVer` and `faults < MaxFaults`.

A cycle that ends by an exception (`EndCycle`) forgets its batch, which is what
the loop's `except Exception` does. `Crash` leaves the tables and `StartActive`.

`MailRateLimiter`: `pc` follows one message of the account through
`check_and_plan` (`limit`, one step per window), `send`, `stamp`, `log`. `taken`
and `logged` hold the ages of the last acceptances and of their rows in
`send_log`; `lag` is how long ago the limiter read the clock. A window of one
minute counts `timestamp > now - 60`, which is an age below 60 at that moment, hence
`logged[s] < Lengths[w] + lag`. `lost` marks acceptances that never came to the
log or were deleted with the account.

`MailPool`: `pc[t]` is the await at which a task stands in `get_connection`
(`probe`, `quit`, `connect`) or `use`; `probing`, `expired`, `victim` are the
three stages of `cleanup`. Only the SMTP task calls `get_connection` in this
service; the pool is written for many, keyed by task, and is modelled as written.
`link` says which connections are open, `stray` which ones a failed login or QUIT
left so.

`MailTasks`: `smtpPc`, `clientPc`, `cleanupPc` are where the loops stand; `first` is
the wait of test mode before the first cycle. `wake`, `wakeClient`, `stop` are the
`asyncio.Event`s. `ready` and `news` count what a cycle would find. An infinite
interval is a wait that only the event ends, a finite one may end at any moment.

`MailVolumes`: `table` and `mounts` are compared row by row; `up` splits the start
into the loading of the file and the mounting, `pc[h]` and `seen[h]` a request into
its commit, the listing and the configuration. The file may change between
starts. `draft` is one queued message with an attachment, followed from its
validation to its building. `gone`, `disturbed`, `excused` record what requests did.

### Deliberate abstractions

* Rows are created in distinct seconds, so that `ORDER BY priority, created_at`
  decides without the id.
* A request of `MailDispatch` carries one item. One with several is several of them
  there: the refused items go through their two transactions one after the other,
  then the valid ones are stored in one transaction. That order is among the
  interleavings of `Handlers`, and so are the steps that others take in between;
  what a list adds, that its valid items appear at once, is one of them.
* Every message names an account: there is no default host in this code
  (`core.py` 143-147), so a message without one is refused like an invalid one.
* An item has one defect at the most: an account that is not there, or a content that is
  not good.
* Every cycle may find another `batch_size` for each account, out of `BatchSizes`
  (addAccount replaces the row, and any error falls back to the default). The limits of
  an account do not change during a run.
* `updated_at` orders the reports; which of them make the LIMIT is left open.
* Metrics and logging are left out: nothing reads them.
* Connection parameters are reduced to the account; a NOOP, a login, a QUIT may
  fail at any time.
* In `MailRateLimiter` the clock ticks in units of the shortest window, modulo a
  common multiple of the lengths; a message waits `RetryWait` after any temporary
  error, and a permanent one is a choice at every attempt.
* A cycle of `MailTasks` knows only how many messages it dispatches; a put that
  waits for its timeout is one step, which tries and gives up.
* The special volumes (`base64` and its like) are always valid and never mounted.
  Deleting an account leaves its volumes, since SQLite does not enforce the
  foreign key of `persistence.py` 93 unless told to, and the code does not.

## The runs

Bounds: `MaxVer` submissions per id, `MaxFaults` faults, `MaxWait` the longest
deferral, `QueueSize` the LIMIT of the queries. The smallest that make the cases
happen: two submissions of an id are needed for a replacement, two handlers for
two of them to race, two ids for one message to wait behind
another, one fault for each
single failure at every step.

| run | specification | properties | shows |
|---|---|---|---|
| `reuse` | `Spec`; 1 id used twice, 2 handlers, every command, 1 retry, 1 fault | `TypeOK`, `DuplicatesArePaidFor`, `AttemptsWithinBudget`, `SentMeansTaken`, `QueuedNeverDropped`, `DeletedStaysDeleted` | they hold for any use of the ids |
| `unique` | `FairSpec`; 2 ids used once, 1 account with a `batch_size` of 1 or 2 in each cycle, 2 priorities, cleanup, 1 retry, 1 fault | `ReportedWasTold`, `OneOutcomeTold`, `DispatchedIsDue`, `OrderWithinAccount`, `SentIsFinal`, `ForgottenWasTold`, `KeepsPromise`, `EveryMessageSettles`, `EveryOutcomeTold` | they hold for clients that use an id once, submit valid messages and delete nothing; `KeepsPromise` is the refinement of `MailService`; nothing is stuck in the queue or untold |
| `limits` | `FairSpec`; 2 messages sent over and over, 4 acceptances remembered, windows of 1, 3 and 3 ticks with limits 1, 2 and none, 1 fault or account deletion, a clock that moves 1 tick while the limiter counts | `TypeOK`, `WithinLimits`, `LetThrough` | the limits hold at every moment but for what never came to the log; who is postponed gets a turn unless newcomers go on for ever |
| `pool` | `FairSpec`; 2 tasks, 2 accounts, 3 connections, one stray, ttl 1 | `TypeOK`, `ExclusiveUse`, `RightAccount`, `NoConnectionLost`, `IdleConnectionsClose` | neither the cleanup nor a failing NOOP, login or QUIT crosses two tasks or loses a connection |
| `tasks` | `FairSpec`; in and out of test mode, 2 ready messages, a result queue of 2 | `TypeOK`, `NoLostWakeup`, `StopIsPrompt`, `StopCompletes`, `QueueIsServed`, `OutcomesPosted` | the loops run when they should, and stop when they are told to |
| `volumes` | `Spec`; 2 volumes, 2 requests at a time, 12 files | `TypeOK`, `StaleOnlyIfDisturbed`, `FileVolumesPresent`, `ValidatedIsMounted`, `RestartKeepsRows` | what is mounted, and what becomes of the file |
| `replaced_in_flight` | `Spec`; 1 id used twice | `SentIsWhatWasTaken` | fails: the replacement is marked sent, the old copy was sent |
| `refused_resubmission` | `Spec`; 1 id used twice, items with a foreign volume | `SentOutlivesRefusal` | fails: the id of a sent message comes again and is refused; the row of the one that was sent, which the insert left alone, becomes an error |
| `stale_report` | `Spec`; 1 id used twice | `SentIsReportedAsSent` | fails: the outcome of the replacement counts as told |
| `refused_yet_sent` | `Spec`; 1 id, items with a foreign volume | `RefusedNeverTaken` | fails: read between the two transactions of its refusal |
| `orphaned_account` | `FairSpec`; 2 ids, 2 accounts, deleteAccount | `AccountsAreIsolated` | fails: an orphaned message ends every cycle before the others are reached |
| `run_now_ignored` | `FairSpec`; test mode, 1 ready message | `RunNowWakesDispatcher` | fails: run-now is called again and again, and the message is not dispatched |

The six that fail are disagreements between the code and its own documentation;
`PROJECT.json` quotes both. `reuse` and `unique` differ in what the clients may
do: each property is checked for the widest use of the ids for which it holds.

Why the bounds are enough where they are not obvious. `unique`: two messages of one
account are enough for one to wait behind the other, for a batch that leaves one of them
to the next cycle (size 1) or takes both (size 2), and for equal and different
priorities; a second account adds the grouping, which `OrderWithinAccount` does not
look across, and is left to `orphaned_account` and, for any number of accounts, to the
theorem `OrderKept`. `limits`: a window that
holds less than another and one of the same length without a limit make every
branch of `check_and_plan` count; four acceptances are one more than the longest
window can hold within its limit, plus the one that was lost. `pool`: three
connections are one for each task and one that the cleanup is closing; a stray one
is left out of the count as soon as the relay drops it. `tasks`: two messages make
a cycle that breaks off half-way, and fill a queue of two.

### Fairness

`MailDispatch`. The event loop runs every coroutine that can go on and each loop
polls again after its interval, hence `WF` of the handlers, of the SMTP step, of
the report step and of the clock. A message at the `send` step may be put off by
the rate limiter again and again; windows pass, so an attempt is made in the end
(`SF` of `AttemptOf(id)`). The endpoint is not down for ever (`SF` of
`DeliverReports`). The relay may refuse every attempt, clients and faults owe
nothing. `unique` deletes no account and has no malformed message: `orphaned_account` shows
what happens when one ends every cycle.
Two of these are assumed there and shown elsewhere:

* that the loops poll is `QueueIsServed` and `OutcomesPosted` of `MailTasks`. Both are
  about an active service outside test mode; in test mode only `stop` wakes the dispatcher
  (the theorem `SleepsInTestMode`, and the run `run_now_ignored`), and `FairSpec` of
  `MailDispatch` does not apply;
* that the limiter lets a message through is `LetThrough` of `MailRateLimiter`, and
  it holds only if clients stop submitting for a while: without that disjunct TLC
  finds a message that a newcomer overtakes at every boundary. `unique` has finitely
  many submissions, so its `SF` asks for no more than `LetThrough` gives.

`MailRateLimiter`: `WF` of the dispatcher's step and the clock, and `SF` of taking
each message, since the dispatcher goes through all that is due (`unique` shows
it). `MailPool`: every await of a task has a timeout (5, 15 and 30 seconds), the
cleanup comes round, the clock goes on; nothing says when there is something to
send. `MailTasks`: the loops go on where they can, and `SF` of `FetchBatch`: a
cycle does not raise before its first message for ever. That a cycle raises
(`SmtpCycleRaises`) is never owed, or an exception could be what ends a wait. `MailVolumes` has no
liveness: its requests are a few steps each.

Deadlock is checked in all runs; where the clock can always tick, or a message can
always be added, it says little.

### What else the modules show

Disagreements and surprises that no run is spent on; each is a behaviour of the
modules.

* `_active` is read by the report task only (`core.py` 821): a suspended or inactive
  service goes on sending. `config.ini` 20 and `config.ini.example` 36 call it the "Global
  on/off switch for the mail dispatcher", `api.py` 269 "Suspend the scheduler component",
  `docs/usage.rst` 29 "Enable scheduler". `MailDispatch` and `MailTasks` dispatch whatever
  `active` is, as the code does; `QueueIsServed` promises a turn only to an active
  service, where code and documentation agree.
* The payload that `update_message_payload` writes back with a retry count (`core.py` 728) is
  the dispatcher's copy: it overwrites that of a replacement stored meanwhile, whose
  content is lost, while the column `account_id` stays the replacement's. deleteAccount
  then goes by a column that the payload contradicts (`persistence.py` 152). Both are
  behaviours of `reuse`; `AttemptsWithinBudget` holds in spite of them.
* `_build_email` may raise what `_dispatch_message` does not catch (`core.py` 624-651 names
  KeyError and ValueError): such a message ends every cycle it is in, exactly as one whose
  account is gone does in `orphaned_account` (`BuildRaises`).
* `cleanup` may close a connection that a task has in use ("idle or broken",
  `smtp_pool.py` 71): the entry it takes is the one `get_connection` has just
  written. The message then fails with a network error and is retried;
  `RightAccount` allows for it by saying "or closed".
* A login that fails after `connect`, and a QUIT that fails, leave a connection open
  (`smtp_pool.py` 24-28, 60-63): `NoConnectionLost` has to except them.
* `stop` returns after up to 150 seconds, when the cleanup loop has slept enough; in
  test mode each loop runs one more cycle after it, and an event that `stop` left
  set makes the first cycle of the next `start` run at once. `main.py` never calls
  `stop`: the process just ends, which is `Crash`.
* A queue that is full for ever costs each dispatch `queue_put_timeout`, since
  nothing in the service reads `results()`.
* A volume deleted by request comes back at the next start if the file still has it;
  one bad entry keeps the whole file out.
* Outcomes gathered while suspended wait for the next wake-up after `activate`, up
  to five minutes.

## The proofs

Assumptions: `StoreAssumption` and `DispatchAssumption` (finite set of ids,
natural bounds, priorities are natural numbers, a queue size and batch sizes
above zero, retry delays that are a non-empty sequence of positive ticks);
`LimiterAssumption` (windows of positive length, one of which is the longest, and
integer limits); `PoolAssumption`, `TasksAssumption` and `VolumesAssumption`
(natural bounds, a result queue of at least one place, Boolean modes, and, for the
pool and the volumes, a `None` that is none of the values it stands beside). They
hold of every instance above and TLC evaluates them in each.

Of `MailDispatch`:

* `TypeCorrect == Spec => []TypeOK`. `TypeOK` alone is not inductive: that
  `retry` stays within `MaxRetries` when it is written back rests on the decision
  two steps before. `TypeInv` adds `RetryLeft`: at `retry` and `defer` the current
  payload has a retry left. One lemma per group of actions.
* `SentIsTaken == Spec => []SentMeansTaken`. Inductive with `StampIsEarned` (the
  step before `mark_sent` follows an acceptance). The history of the relay only
  grows (`HistoryGrows`), a row becomes sent only by `StampSent` (`OnlyStampSends`),
  a report is about a row of that status when it was read (`ReportsComeFromRows`).
* `QueuedStays == Spec => QueuedNeverDropped`, an action property. Every statement but
  the deletions keeps the rows that wait (`RowsKept`, with `UpdatesKeepRows` and
  `SweepsKeepRows` for the statements, `SmtpKeepsRows` and `HandlersKeepRows` for
  their users); the retention looks at rows with a final status, and only
  `DeleteMessage` and `DeleteAccount` look at no status at all.
* `DeletedStays == Spec => DeletedStaysDeleted`, the other direction: all that writes
  back is an UPDATE, which makes no row (`OnlyUpsertMakes`, `SweepsMakeNone`); only
  the two upserts of a request do.
* `NoUnpaidDuplicates == Spec => []DuplicatesArePaidFor` and
  `RetriesAreBounded == Spec => []AttemptsWithinBudget`, both from the inductive
  `LedgerInv`. The two bounds speak of the relay's history alone, so the invariant
  has to follow a submission through every place it can be in:
  - `SubmissionsAreNew`: what a request still holds, and what was never submitted, no
    row, copy or relay knows; so two requests, or a request and a replaced copy in
    flight, never share an account of attempts.
  - `RowsSpent` and `PlanSpent`: what the relay has seen of the submission in a queued
    row, or in a planned copy, is covered by the `retry_count` beside it and the
    faults. After the attempt of the current cycle the copy is one ahead, and until
    `update_message_payload` or `mark_*` the row is exempt (`Unwritten`): this is the gap
    between the relay's answer and the table. A cycle that breaks off there loses the
    attempt, and only a fault can break it off there (`BrokenCycle`): the fault pays.
  - `CopiesLag`: a copy never counts more retries than the row of the same submission,
    so writing the count back never lowers it.
  - `PlanIsInjective`: a batch holds each row once.
  One lemma per kind of step (`QuietStep`, `FetchStep`, `EarlyStep`, `AttemptStep`,
  `RetryStep`, `DoneStep`, `SubmitStep`, `InsertStep`, `BrokenCycle`), put together by
  `LedgerPreserved`. `LedgerInv` was model-checked on `reuse` with one handler before it
  was proved.

* Of clients that use an id once and submit valid messages (`MailOnce`, `MailOnceProofs`).
  The hypothesis `Once == MaxVer = 1 /\ "foreign" \notin Commands /\ "noAccount" \notin Commands` is
  on the constants: no id comes twice and nothing is refused. `unique` satisfies it, and the runs
  that fail show that it cannot be dropped from `SentStaysSent` (`refused_resubmission`) and
  `StampedAsTold` (`stale_report`). Messages and accounts may be deleted, malformed messages
  submitted, reports suspended, and there are as many requests, ids, accounts, retries and faults
  as one likes. The theorems are `StampedAsTold`, `ToldOneOutcome`, `DispatchedWhenDue`, `OrderKept`
  (`Spec => []P` for `ReportedWasTold`, `OneOutcomeTold`, `DispatchedIsDue`,
  `OrderWithinAccount`) and `SentStaysSent`, `ForgottenAsTold` (the action properties
  `SentIsFinal`, `ForgottenWasTold`). None of the six is inductive; they share `OnceInv`:
  - `NoRefusals`: no request stands between the two transactions of a refusal, which could turn
    a settled row into another one.
  - `PlannedRows`: the row of a message that is still in the plan is queued, due and of the
    account it was read with, or it is gone. This is why a cycle may act on a copy: nothing but the
    cycle itself defers or settles a row, and a row cannot come back under the same id.
  - `OrderWithinAccount` itself, which needs `PlannedRows` only when the batch is read.
  - `ReportsFit`: what is on its way to the client, or told, stays the outcome: its id is used
    up, no request holds it, and the row says the same if there still is one. `ReportsAgree` says
    that two reports of a message are the same; it outlives the row.
  - `MarkedWereTold`: at `mark` every report was delivered. `DeliveryFails`, half-way, never gets there.
  - `ReportedWasTold` itself: the stamp is `MarkDelivered`'s, and the row it hits still says what was
    told, by `ReportsFit`.

  The proof goes through one lemma about one row: whatever step is taken, a row that was there
  is untouched, is removed, is postponed by the cycle, is concluded by the cycle, or is stamped by
  `MarkDelivered` (`RowStep`); a row that was not there is the one a request inserts, with an id
  nothing knows yet (`NewRowStep`, `HeldIsUnused`). Each part of `OnceInv` then follows by these
  cases and not by the actions (`PlannedRowsStep`, `OrderStep`, `ReportsFitStep`, `ReportsAgreeStep`,
  `ReportedWasToldStep`). `OnceInv` was model-checked on an instance like that of `unique` before it was proved.
* `PromiseKept`: the refinement `Spec => KeepsPromise`, that is `Spec => Promise!Spec`, under `Once`
  and `NothingDeleted` (clients that delete a message break the promise themselves). The
  refinement mapping is `Stage`, read off the table. Step by step: `InsertValid` is `Accept`
  (`AcceptStep`); an attempt the relay takes is `HandOver` (`HandOverStep`); `StampSent` and
  `FailPermanently` are `Settle` (`SettleStep`); a delivery, whole or half-way, is `Tell`
  (`TellStep`); the retention and cleanupMessages are `Forget` (`ForgetStep`); all else, faults and
  restarts included, is a stutter (`PromiseStep`). It needs `WorkedOnIsPresent` (the rows a task works
  on are in the table) so that a mark or a report is about a message the promise still follows, and
  `StampIsEarned` so that what settles as sent was handed over.

Of `MailRateLimiter`: `TypeCorrect`, and `LimitsHold == Spec => []WithinLimits`, for any
windows, limits and lag. What counts against a window is what the relay took
within it and is not lost (`Against`). `Recorded` says that all of it but the one
at hand has its row, which is no older; so it is among what the limiter counts,
although the clock has gone on since (`CountedAll`). `Room` adds that the windows
already counted have room for one more, until the acceptance takes it; nothing
else adds to what counts (`OnlyAcceptanceAdds`). The rest is cardinality.

Of `MailPool`: `TypeCorrect`, and three theorems on top of it.
* `NeverShared == Spec => []ExclusiveUse` from `OneOwner`: no two tasks hold a
  connection, be it in hand or in their entries. Only a login gives a task a
  connection it did not hold (`OnlyConnectGives`), and that is nobody's.
* `ThroughItsAccount == Spec => []RightAccount` from `LoggedIn`: what an entry says of
  its connection, and what a task that probes or uses one believes, is true or the
  connection is closed. Connections somebody holds never change account (`HeldStay`).
* `NothingLeaks == Spec => []NoConnectionLost` from `LeakInv`. `NoConnectionLost` alone
  breaks when a send ends and the task lets go: the connection is safe then
  because it is still in the entry, or the cleanup took it while it was in use
  (`Kept`), and because the entry is about that connection (`OwnEntry`).

Of `MailTasks`: `TypeCorrect`; `StopsPromptly == Spec => []StopIsPrompt`,
`SleepsInTestMode == Spec => []TestModeSleeps` and
`WakeupsAreKept == Spec => []NoLostWakeup`, each from the property and what the
events must be where the loops stand (`PromptInv`, `SleepInv`, `FreshIsSet`).
`TestModeSleeps` is a property of no run: it says that what `run_now_ignored` finds in one
behaviour is so in all of them, in test mode no cycle is begun before `stop`.

Of `MailVolumes`: `TypeCorrect`; `MountsFollowTable == Spec => []StaleOnlyIfDisturbed` from
`OneAtATime`: undisturbed, one request at the most is under way, and what it has
listed is the table; `AttachmentsStay == Spec => []ValidatedIsMounted` from that and
`SameEverywhere`: the row of a validated volume is the same in the table, in every
list under way and in what is mounted; `FileIsLoaded == Spec => []FileVolumesPresent`
and `RestartKeeps == Spec => RestartKeepsRows` from what loading the file does
(`LoadKeeps`).

Model-checked only: the liveness properties `EveryMessageSettles`, `EveryOutcomeTold`,
`LetThrough`, `IdleConnectionsClose`, `StopCompletes`, `QueueIsServed` and `OutcomesPosted`; fairness
is out of the reach of TLAPS. Every other property of a passing run is the statement of a theorem.

## Not modelled

* HTTP routes but the volume ones, authentication and the shape of payloads
  (`api.py`): they keep no state and call `handle_command`.
* Attachments: I/O through an external library; only whether one can be had matters.
* Metrics, logging, settings (`main.py`), the unused `fetcher.py`, the scripts and the
  fake server: no part of the behaviour above depends on them.
* A change of an account's limits or credentials while messages are in flight; the columns `ttl` and `limit_behavior`, which nothing reads.
* A volume whose config the storage manager refuses: `configure` then raises out of
  `init` (`core.py` 244), and what it leaves mounted is the library's business. A
  database that fails while the file is loaded.
* `start` called twice without `stop`, which makes two sets of loops (`core.py` 520).
* Fractions of a second, and a clock that is set back.

## Plan

Every safety and action property of the runs that pass is proved, and so is the refinement. What
is left:

1. `Once` speaks of all clients. The same theorems hold for each id that is used once, whatever
   happens to the other ids, except the two about the batch (`DispatchedIsDue`,
   `OrderWithinAccount`), which relate several rows; `OnceInv` would have to be stated id by id.
2. The refinement with deletions: a promise in which the client may withdraw a message.
3. A second `start` without a `stop` (`core.py` 520), should a caller come to do that.
