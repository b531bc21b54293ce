------------------------------ MODULE MailLedger ------------------------------
(***************************************************************************)
(* Why the dispatcher repeats itself no more than it may: the inductive    *)
(* invariants behind DuplicatesArePaidFor, AttemptsWithinBudget and        *)
(* SentMeansTaken.  They follow a submission from the request that brings  *)
(* it, through the row, to the copy a dispatch cycle works on, and say     *)
(* what the relay can have seen of it at each of these places.             *)
(***************************************************************************)
EXTENDS MailDispatch

\* A request that has yet to store its item.
Holds(h) == apiPc[h] \in {"insert", "refuse"}

\* The relay has not seen the submission, no row and no planned copy carries it.
Unborn(id, v) ==
  /\ accepted[id][v] = 0 /\ attempts[id][v] = 0
  /\ Present(msgs, id) => msgs[id].payload.ver # v
  /\ \A i \in DOMAIN plan : plan[i].id = id => plan[i].payload.ver # v

\* Each submission enters the table once.
SubmissionsAreNew ==
  /\ \A id \in MsgIds, v \in Versions : v > subs[id] => Unborn(id, v)
  /\ \A h \in Handlers :
       Holds(h) => /\ apiItem[h].ver <= subs[apiItem[h].id]
                   /\ Unborn(apiItem[h].id, apiItem[h].ver)
  /\ \A g, h \in Handlers :
       g # h /\ Holds(g) /\ Holds(h) /\ apiItem[g].id = apiItem[h].id
       => apiItem[g].ver # apiItem[h].ver

\* What a payload may have cost before its next attempt.
Spent(id, p) ==
  /\ accepted[id][p.ver] <= faults
  /\ attempts[id][p.ver] <= p.retry + faults

\* A dispatch cycle plans each message once.
PlanIsInjective == \A i, j \in DOMAIN plan : plan[i].id = plan[j].id => i = j

\* The stages of the current message at which the attempt of this cycle is behind it.
Attempted == smtpPc \in {"stamp", "retry", "defer", "fail"}

PlanSpent ==
  /\ \A i \in DOMAIN plan : i # 1 \/ ~Attempted => Spent(plan[i].id, plan[i].payload)
  /\ Attempted =>
       /\ attempts[Current.id][Current.payload.ver] <= Current.payload.retry + 1 + faults
       /\ accepted[Current.id][Current.payload.ver] <=
            (IF smtpPc = "stamp" THEN 1 ELSE 0) + faults

\* The attempt is not yet to be seen in the row.
Unwritten(id, v) ==
  smtpPc \in {"stamp", "retry", "fail"} /\ Current.id = id /\ Current.payload.ver = v

RowsSpent ==
  \A id \in MsgIds :
    HasStatus(msgs, id, "queued") /\ ~Unwritten(id, msgs[id].payload.ver)
    => Spent(id, msgs[id].payload)

\* A copy never has more retries than the row it was read from, while that row carries the
\* same submission.
CopiesLag ==
  \A i \in DOMAIN plan :
    /\ Present(msgs, plan[i].id)
    /\ msgs[plan[i].id].payload.ver = plan[i].payload.ver
    => plan[i].payload.retry <= msgs[plan[i].id].payload.retry

\* What the whole history of a submission adds up to, wherever it is now: the two bounds, and
\* the account that explains them at each step of core.py 187-794.
LedgerInv ==
  /\ DuplicatesArePaidFor /\ AttemptsWithinBudget
  /\ SubmissionsAreNew
  /\ PlanIsInjective
  /\ PlanSpent /\ RowsSpent /\ CopiesLag

\* mark_sent follows the relay's answer.
StampIsEarned ==
  smtpPc = "stamp" => accepted[Current.id][Current.payload.ver] > 0

TakenInv == SentMeansTaken /\ StampIsEarned
=============================================================================
