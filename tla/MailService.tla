----------------------------- MODULE MailService -----------------------------
(***************************************************************************)
(* What the service promises to clients that never use a message id twice: *)
(* every message it took is offered to the relay until it is sent or given *)
(* up, "sent" is only said of a message the relay took responsibility for, *)
(* the outcome is final, the client is told of it, and nothing is          *)
(* forgotten before it was.                                                *)
(***************************************************************************)
EXTENDS FiniteSets

CONSTANT Ids

VARIABLES
  stage,  \* where each message is in its life
  taken,  \* the messages the relay took responsibility for
  heard   \* <<id, outcome>> pairs the client was told

vars == <<stage, taken, heard>>

Outcomes == {"sent", "error"}
Settled(id) == stage[id] \in Outcomes

Init ==
  /\ stage = [id \in Ids |-> "absent"]
  /\ taken = {}
  /\ heard = {}

Accept(id) ==
  /\ stage[id] = "absent"
  /\ stage' = [stage EXCEPT ![id] = "queued"]
  /\ UNCHANGED <<taken, heard>>

HandOver(id) ==
  /\ stage[id] = "queued"
  /\ taken' = taken \cup {id}
  /\ UNCHANGED <<stage, heard>>

Settle(id, outcome) ==
  /\ stage[id] = "queued"
  /\ outcome = "sent" => id \in taken
  /\ stage' = [stage EXCEPT ![id] = outcome]
  /\ UNCHANGED <<taken, heard>>

Tell(ids) ==
  /\ \A id \in ids : Settled(id)
  /\ heard' = heard \cup {<<id, stage[id]>> : id \in ids}
  /\ UNCHANGED <<stage, taken>>

Forget(ids) ==
  /\ \A id \in ids : Settled(id) /\ <<id, stage[id]>> \in heard
  /\ stage' = [id \in Ids |-> IF id \in ids THEN "gone" ELSE stage[id]]
  /\ UNCHANGED <<taken, heard>>

Next ==
  \/ \E id \in Ids : Accept(id) \/ HandOver(id) \/ \E o \in Outcomes : Settle(id, o)
  \/ \E ids \in SUBSET Ids : Tell(ids) \/ Forget(ids)

Spec == Init /\ [][Next]_vars
=============================================================================
