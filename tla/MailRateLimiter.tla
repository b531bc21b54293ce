--------------------------- MODULE MailRateLimiter ---------------------------
(***************************************************************************)
(* The rate limiter of one SMTP account (async_mail_service/rate_limit.py) *)
(* between the dispatch of its messages and the send_log table it counts.  *)
(*                                                                         *)
(* Three windows slide: a message goes out only if fewer than the limit    *)
(* were logged within each.  Where a window is full, the message waits for *)
(* the next multiple of the window's length, which is not when the window  *)
(* slides free.  What the relay took is logged last, two statements after  *)
(* the relay took it.                                                      *)
(*                                                                         *)
(* The clock is kept modulo Period; a moment of the past is its age in     *)
(* ticks, and what is Horizon ticks old is past every window: it is        *)
(* forgotten.                                                              *)
(***************************************************************************)
EXTENDS Integers, FiniteSets, Sequences

CONSTANTS
  Msgs,       \* messages of the account
  MaxSends,   \* bound: how many acceptances are remembered at a time
  Lengths,    \* lengths of the windows, in ticks: a minute, an hour, a day
  Limits,     \* limits of the account for each, 0 for NULL
  Period,     \* a common multiple of the lengths
  MaxLag,     \* bound: ticks that pass while the limiter counts
  RetryWait,  \* delay before the retry of a refused message, in ticks
  MaxLosses,  \* bound: faults and account deletions
  None        \* not in the queue; no message at hand

Sends == 1 .. MaxSends

Windows == DOMAIN Lengths

\* Mutant: a limit of zero lets nothing through.
Limited_Zero(w) == Limits[w] >= 0

\* lim(): NULL, zero and negative limits are no limits.
Limited(w) == Limits[w] > 0

Horizon == MaxLag + CHOOSE l \in {Lengths[w] : w \in Windows} :
                      \A w \in Windows : Lengths[w] <= l

ASSUME LimiterAssumption ==
  /\ MaxSends \in Nat
  /\ Lengths \in Seq(Nat \ {0}) /\ Lengths # << >>
  /\ \E w \in Windows : \A v \in Windows : Lengths[v] <= Lengths[w]
  /\ Limits \in [Windows -> Int]
  /\ Period \in Nat \ {0} /\ \A w \in Windows : Period % Lengths[w] = 0
  /\ MaxLag \in Nat /\ RetryWait \in Nat /\ MaxLosses \in Nat
  /\ None \notin Msgs \cup Nat

VARIABLES
  phase,   \* the clock, modulo Period
  due,     \* ticks left until a queued message is due, None if it is not queued
  pc,      \* where the dispatcher stands
  cur,     \* the message it works on
  window,  \* the window that is counted next
  lag,     \* ticks since check_and_plan read the clock
  send,    \* the acceptance that waits to be logged
  taken,   \* history: age of each acceptance by the relay
  logged,  \* age of its row in send_log, None without one or past Horizon
  lost,    \* history: acceptances whose row a fault or a deletion took
  losses   \* history: how many faults and deletions

dispatcher == <<pc, cur, window, lag, send>>
record == <<taken, logged, lost>>
vars == <<phase, due, dispatcher, record, losses>>

Ages == 0 .. Horizon
MaxDue == CHOOSE d \in {RetryWait, Horizon} : d >= RetryWait /\ d >= Horizon

TypeOK ==
  /\ phase \in 0 .. Period - 1
  /\ due \in [Msgs -> 0 .. MaxDue \cup {None}]
  /\ pc \in {"idle", "limit", "send", "stamp", "log"}
  /\ cur \in Msgs \cup {None} /\ (pc = "idle" <=> cur = None)
  /\ window \in Windows /\ lag \in 0 .. MaxLag
  /\ send \in Sends \cup {None} /\ (pc \in {"stamp", "log"} <=> send # None)
  /\ taken \in [Sends -> Ages]
  /\ logged \in [Sends -> (0 .. Horizon - 1) \cup {None}]
  /\ lost \subseteq Sends
  /\ losses \in 0 .. MaxLosses

Init ==
  /\ phase \in 0 .. Period - 1
  /\ due = [m \in Msgs |-> None]
  /\ pc = "idle" /\ cur = None /\ window = 1 /\ lag = 0 /\ send = None
  /\ taken = [s \in Sends |-> Horizon]
  /\ logged = [s \in Sends |-> None]
  /\ lost = {} /\ losses = 0

Queued(m) == due[m] # None

-----------------------------------------------------------------------------
(***************************************************************************)
(* Clients.                                                                *)
(***************************************************************************)
Submit(m) ==
  /\ ~Queued(m)
  /\ due' = [due EXCEPT ![m] = 0]
  /\ UNCHANGED <<phase, dispatcher, record, losses>>

\* delete_account clears the account's messages and its send_log: an account that is
\* created again starts with an empty log.
DeleteAccount ==
  /\ losses < MaxLosses /\ losses' = losses + 1
  /\ due' = [m \in Msgs |-> None]
  /\ logged' = [s \in Sends |-> None]
  /\ lost' = lost \cup {s \in Sends : logged[s] # None}
  /\ UNCHANGED <<phase, dispatcher, taken>>

-----------------------------------------------------------------------------
(***************************************************************************)
(* The dispatcher.  It takes due messages one at a time; which of them     *)
(* comes first is the business of MailDispatch.                            *)
(***************************************************************************)
Idle ==
  /\ pc' = "idle" /\ cur' = None /\ send' = None /\ window' = 1 /\ lag' = 0

\* set_deferred on a row that is still there and queued.
Defer(m, ticks) == due' = IF Queued(m) THEN [due EXCEPT ![m] = ticks] ELSE due

\* The row is stamped, as sent or as failed, or it was gone.
Settle(m) == due' = [due EXCEPT ![m] = None]

TakeMessage(m) ==
  /\ pc = "idle"
  /\ due[m] = 0
  /\ pc' = "limit" /\ cur' = m /\ window' = 1 /\ lag' = 0
  /\ UNCHANGED <<phase, due, send, record, losses>>

\* count_sends_since(now - length): now is the moment check_and_plan began.
Counted(w) == {s \in Sends : logged[s] # None /\ logged[s] < Lengths[w] + lag}

\* Mutant: the limit is taken for the last count that is refused.
Full_OffByOne(w) == Limited(w) /\ Cardinality(Counted(w)) > Limits[w]

Full(w) == Limited(w) /\ Cardinality(Counted(w)) >= Limits[w]

\* Mutant: one boundary too far.
UntilBoundary_OffByOne(w) == 2 * Lengths[w] - ((phase - lag) % Lengths[w]) - lag

\* (now // length + 1) * length, in ticks from the present moment.
UntilBoundary(w) ==
  LET left == Lengths[w] - ((phase - lag) % Lengths[w]) - lag
  IN  IF left < 0 THEN 0 ELSE left

CountWindow ==
  /\ pc = "limit" /\ ~Full(window)
  /\ IF window + 1 \in Windows
     THEN window' = window + 1 /\ UNCHANGED <<pc, cur, lag, send>>
     ELSE pc' = "send" /\ window' = 1 /\ lag' = 0 /\ UNCHANGED <<cur, send>>
  /\ UNCHANGED <<phase, due, record, losses>>

PostponeMessage ==
  /\ pc = "limit" /\ Full(window)
  /\ Defer(cur, UntilBoundary(window))
  /\ Idle
  /\ UNCHANGED <<phase, record, losses>>

\* An acceptance that no window can reach any more, nor its row.
Forgotten(s) == taken[s] = Horizon /\ logged[s] = None /\ s # send

Accept(s) ==
  /\ pc = "send"
  /\ Forgotten(s) /\ \A x \in Sends : Forgotten(x) => s <= x
  /\ taken' = [taken EXCEPT ![s] = 0]
  /\ logged' = [logged EXCEPT ![s] = None]

RelayAccepts ==
  /\ \E s \in Sends : Accept(s) /\ send' = s /\ lost' = lost \ {s}
  /\ pc' = "stamp"
  /\ UNCHANGED <<phase, due, cur, window, lag, losses>>

\* A temporary error waits for its retry, a permanent one is final.
AfterError == Defer(cur, RetryWait) \/ Settle(cur)

RelayRefuses ==
  /\ pc = "send"
  /\ AfterError /\ Idle
  /\ UNCHANGED <<phase, record, losses>>

\* The relay took the message and its answer is lost: an error like another.
AnswerLost ==
  /\ losses < MaxLosses /\ losses' = losses + 1
  /\ \E s \in Sends : Accept(s) /\ lost' = lost \cup {s}
  /\ AfterError /\ Idle
  /\ UNCHANGED phase

StampSent ==
  /\ pc = "stamp"
  /\ Settle(cur)
  /\ pc' = "log"
  /\ UNCHANGED <<phase, cur, window, lag, send, record, losses>>

\* The clock is read before the row is committed.
LogSend ==
  /\ pc = "log"
  /\ \E age \in 0 .. MaxLag :
       age <= taken[send] /\ logged' = [logged EXCEPT ![send] = age]
  /\ Idle
  /\ UNCHANGED <<phase, due, taken, lost, losses>>

\* A statement fails, or the process dies: what was taken is not logged any more.
CycleFails ==
  /\ pc # "idle"
  /\ losses < MaxLosses /\ losses' = losses + 1
  /\ lost' = IF send = None THEN lost ELSE lost \cup {send}
  /\ Idle
  /\ UNCHANGED <<phase, due, taken, logged>>

-----------------------------------------------------------------------------
Older(age) == IF age # None /\ age < Horizon THEN age + 1 ELSE age

Tick ==
  /\ pc = "limit" => lag < MaxLag
  /\ phase' = (phase + 1) % Period
  /\ due' = [m \in Msgs |-> IF Queued(m) /\ due[m] > 0 THEN due[m] - 1 ELSE due[m]]
  /\ lag' = IF pc = "limit" THEN lag + 1 ELSE lag
  /\ taken' = [s \in Sends |-> Older(taken[s])]
  /\ logged' = [s \in Sends |-> IF logged[s] = Horizon - 1 THEN None ELSE Older(logged[s])]
  /\ lost' = {s \in lost : taken'[s] < Horizon}
  /\ UNCHANGED <<pc, cur, window, send, losses>>

DispatcherStep ==
  \/ \E m \in Msgs : TakeMessage(m)
  \/ CountWindow \/ PostponeMessage
  \/ RelayAccepts \/ RelayRefuses \/ AnswerLost \/ StampSent \/ LogSend

Next ==
  \/ \E m \in Msgs : Submit(m)
  \/ DeleteAccount \/ DispatcherStep \/ CycleFails \/ Tick

Spec == Init /\ [][Next]_vars

\* The event loop runs the dispatcher, messages take their turns, and the clock goes on.
Fairness ==
  /\ WF_vars(DispatcherStep) /\ \A m \in Msgs : SF_vars(TakeMessage(m))
  /\ WF_vars(Tick)

FairSpec == Spec /\ Fairness

-----------------------------------------------------------------------------
Within(w, sends) == {s \in sends : taken[s] < Lengths[w]}

\* The promise of limit_per_minute, _hour and _day: whenever one looks, the relay took no more
\* messages within the window than the limit allows, except one for each acceptance that never
\* came to the log, or that deleting the account removed from it.  The limiter counts rows while
\* the clock goes on, and a row is younger than the acceptance it stands for (rate_limit.py 14-41,
\* core.py 688-787).
WithinLimits ==
  \A w \in Windows : Limited(w) =>
    Cardinality(Within(w, Sends)) <= Limits[w] + Cardinality(Within(w, lost))

\* A message that is postponed to a fixed boundary comes to its attempt, although the window
\* slides: unless clients go on submitting, since a newcomer may take the place that falls free
\* between two boundaries (rate_limit.py 29-40).
LetThrough ==
  \/ \A m \in Msgs : Queued(m) ~> ~Queued(m) \/ (pc = "send" /\ cur = m)
  \/ []<><<\E m \in Msgs : Submit(m)>>_vars
=============================================================================
