------------------------------ MODULE MailOnce ------------------------------
(***************************************************************************)
(* Clients that use a message id once and submit valid messages: why what  *)
(* they are told is what happened.  The inductive invariants behind        *)
(* ReportedWasTold, OneOutcomeTold, ForgottenWasTold, DispatchedIsDue,     *)
(* OrderWithinAccount, SentIsFinal and the refinement of MailService.      *)
(***************************************************************************)
EXTENDS MailLedger

\* The clients' side of the bargain.
Once == MaxVer = 1 /\ "foreign" \notin Commands /\ "noAccount" \notin Commands

\* Nobody deletes messages or accounts.
NothingDeleted == {"deleteMessages", "deleteAccount"} \cap Commands = {}

\* No request has an item to refuse.
NoRefusals == \A h \in Handlers : apiPc[h] \in {"idle", "insert"}

\* A row that a cycle has yet to dispatch waits for it as it was read, or is deleted: nothing but
\* the cycle itself defers or settles it (core.py 563-794).
PlannedRows ==
  \A i \in DOMAIN plan :
    LET id == plan[i].id
    IN  Present(msgs, id) =>
          /\ msgs[id].status = "queued" /\ msgs[id].wait = 0
          /\ msgs[id].payload.acct = plan[i].payload.acct

\* An outcome on its way to the client, or told, stays the outcome: its id is used up, and the row,
\* if there still is one, says the same.
ReportFits(r) ==
  /\ subs[r.id] = MaxVer
  /\ \A h \in Handlers : Holds(h) => apiItem[h].id # r.id
  /\ Present(msgs, r.id) => Final(msgs, r.id) /\ ReportOf(r.id) = r

ReportsFit == \A r \in reports \cup told : ReportFits(r)

\* Two reports of a message are the same.
ReportsAgree == \A r, s \in reports \cup told : r.id = s.id => r = s

\* mark_reported stamps what was delivered (core.py 849-857).
MarkedWereTold == reportPc = "mark" => reports \subseteq told

OnceInv ==
  /\ NoRefusals
  /\ PlannedRows /\ OrderWithinAccount
  /\ ReportsFit /\ ReportsAgree /\ MarkedWereTold /\ ReportedWasTold

\* What the refinement needs beside: the rows a task works on are in the table, since only a
\* request deletes those that are queued or not reported.
WorkedOnIsPresent ==
  /\ \A i \in DOMAIN plan : Present(msgs, plan[i].id)
  /\ reportPc = "post" =>
       \A r \in reports : Present(msgs, r.id) /\ msgs[r.id].reported = Never
=============================================================================
