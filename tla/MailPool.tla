------------------------------- MODULE MailPool -------------------------------
(***************************************************************************)
(* The SMTP connection pool (async_mail_service/smtp_pool.py): tasks that  *)
(* get a connection for every message they send, and the cleanup loop      *)
(* that closes what has been idle for longer than the ttl.                 *)
(*                                                                         *)
(* The pool has one entry for each task, under the task's id.  The pool's  *)
(* lock is never held across an await, so what it protects is part of one  *)
(* step; the NOOPs, QUITs and logins in between are where the others run.  *)
(* Connection parameters are reduced to the account they belong to.  The   *)
(* SMTP client is external: any NOOP may time out, and so may a login or a *)
(* QUIT, whose connection is then left open with nobody to close it.       *)
(***************************************************************************)
EXTENDS Naturals, FiniteSets

CONSTANTS
  Tasks,     \* tasks that send messages
  Accounts,  \* accounts they send for
  MaxConns,  \* bound: connections at a time
  MaxStray,  \* bound: connections left open at a time by a failed login or QUIT
  Ttl,       \* ttl of the pool, in ticks
  None       \* no entry, no connection, a closed connection

Conns == 1 .. MaxConns
Ages == 0 .. Ttl + 1
Entry == [conn : Conns, acct : Accounts, age : Ages]

ASSUME PoolAssumption ==
  /\ MaxConns \in Nat /\ MaxStray \in Nat /\ Ttl \in Nat \ {0}
  /\ None \notin Entry \cup Conns \cup Accounts

VARIABLES
  pool,    \* the entry of each task
  link,    \* the account an open connection is logged in to
  pc,      \* where each task stands
  conn,    \* the connection it has in hand
  want,    \* the account it sends for
  probing, \* tasks whose entries the cleanup has listed and not yet probed
  expired, \* tasks whose entries it is going to close
  victim,  \* the connection it is closing
  stray    \* history: open connections that a failed login or QUIT left behind

taskVars == <<pc, conn, want>>
sweepVars == <<probing, expired, victim>>
vars == <<pool, link, taskVars, sweepVars, stray>>

TypeOK ==
  /\ pool \in [Tasks -> Entry \cup {None}]
  /\ link \in [Conns -> Accounts \cup {None}]
  /\ pc \in [Tasks -> {"idle", "probe", "quit", "connect", "use"}]
  /\ conn \in [Tasks -> Conns \cup {None}]
  /\ want \in [Tasks -> Accounts \cup {None}]
  /\ \A t \in Tasks : /\ pc[t] = "idle" <=> want[t] = None
                      /\ pc[t] \in {"idle", "connect"} <=> conn[t] = None
  /\ probing \subseteq Tasks /\ expired \subseteq Tasks
  /\ victim \in Conns \cup {None}
  /\ stray \subseteq Conns /\ Cardinality(stray) <= MaxStray

Init ==
  /\ pool = [t \in Tasks |-> None]
  /\ link = [c \in Conns |-> None]
  /\ pc = [t \in Tasks |-> "idle"]
  /\ conn = [t \in Tasks |-> None] /\ want = [t \in Tasks |-> None]
  /\ probing = {} /\ expired = {} /\ victim = None
  /\ stray = {}

Open(c) == link[c] # None

Pooled == {pool[t].conn : t \in {u \in Tasks : pool[u] # None}}
InHand == {conn[t] : t \in Tasks} \cup {victim}

-----------------------------------------------------------------------------
(***************************************************************************)
(* get_connection, and the use of what it returns.                         *)
(***************************************************************************)

\* Mutant: the id of the task is not part of the key.
EntryOf_Shared(t) ==
  IF \E u \in Tasks : pool[u] # None THEN pool[CHOOSE u \in Tasks : pool[u] # None] ELSE None

EntryOf(t) == pool[t]

\* Mutant: whatever is young enough is used again.
Reusable_AnyAccount(entry, a) == entry.age < Ttl

Reusable(entry, a) == entry.acct = a /\ entry.age < Ttl

Goto(t, place, c) ==
  /\ pc' = [pc EXCEPT ![t] = place]
  /\ conn' = [conn EXCEPT ![t] = c]

Forget(t) == pool' = [pool EXCEPT ![t] = None]
Remember(t, c, a) == pool' = [pool EXCEPT ![t] = [conn |-> c, acct |-> a, age |-> 0]]

GetConnection(t, a) ==
  /\ pc[t] = "idle"
  /\ want' = [want EXCEPT ![t] = a]
  /\ IF EntryOf(t) = None THEN Goto(t, "connect", None) /\ UNCHANGED pool
     ELSE IF Reusable(EntryOf(t), a) THEN Goto(t, "probe", EntryOf(t).conn) /\ UNCHANGED pool
     ELSE Goto(t, "quit", EntryOf(t).conn) /\ Forget(t)
  /\ UNCHANGED <<link, sweepVars, stray>>

\* The entry is written again, whatever became of it during the NOOP.
ProbeAnswered(t) ==
  /\ pc[t] = "probe" /\ Open(conn[t])
  /\ Remember(t, conn[t], want[t])
  /\ Goto(t, "use", conn[t])
  /\ UNCHANGED <<link, want, sweepVars, stray>>

ProbeFails(t) ==
  /\ pc[t] = "probe"
  /\ Forget(t)
  /\ Goto(t, "quit", conn[t])
  /\ UNCHANGED <<link, want, sweepVars, stray>>

Stray(c) ==
  /\ stray' = stray \cup {c}
  /\ Cardinality(stray') <= MaxStray

\* Mutant: the connection is dropped without a QUIT.
Close_Dropped(c) == UNCHANGED <<link, stray>>

\* QUIT closes c, or fails and leaves it open.
Close(c) ==
  \/ link' = [link EXCEPT ![c] = None] /\ stray' = stray \ {c}
  \/ Open(c) /\ Stray(c) /\ UNCHANGED link

QuitOld(t) ==
  /\ pc[t] = "quit"
  /\ Close(conn[t])
  /\ Goto(t, "connect", None)
  /\ UNCHANGED <<pool, want, sweepVars>>

\* A new connection takes the first number that means nothing to anybody.
Unused(c) == ~Open(c) /\ c \notin Pooled \cup InHand
NewConn(c) == Unused(c) /\ \A d \in Conns : Unused(d) => c <= d

\* Mutant: the task keeps the connection it had.
Release_KeepsIt(t) ==
  /\ Goto(t, "idle", conn[t])
  /\ want' = [want EXCEPT ![t] = None]

Release(t) ==
  /\ Goto(t, "idle", None)
  /\ want' = [want EXCEPT ![t] = None]

Connect(t) ==
  /\ pc[t] = "connect"
  /\ \E c \in Conns :
       /\ NewConn(c)
       /\ link' = [link EXCEPT ![c] = want[t]]
       /\ Remember(t, c, want[t])
       /\ Goto(t, "use", c)
  /\ UNCHANGED <<want, sweepVars, stray>>

ConnectFails(t) ==
  /\ pc[t] = "connect"
  /\ Release(t)
  /\ UNCHANGED <<pool, link, sweepVars, stray>>

\* The login is refused or takes too long: the connection itself is open, and dropped.
LoginFails(t) ==
  /\ pc[t] = "connect"
  /\ \E c \in Conns :
       /\ NewConn(c)
       /\ link' = [link EXCEPT ![c] = want[t]]
       /\ Stray(c)
  /\ Release(t)
  /\ UNCHANGED <<pool, sweepVars>>

\* send_message returns or raises; the entry stays in the pool either way.
EndSend(t) ==
  /\ pc[t] = "use"
  /\ Release(t)
  /\ UNCHANGED <<pool, link, sweepVars, stray>>

-----------------------------------------------------------------------------
(***************************************************************************)
(* cleanup, run by the cleanup loop.                                       *)
(***************************************************************************)
Resting == probing = {} /\ expired = {} /\ victim = None

\* Mutant: a connection that answers is never too old.
TooOld_Never(t) == FALSE

TooOld(t) == pool[t].age > Ttl

ListEntries ==
  /\ Resting
  /\ LET listed == {t \in Tasks : pool[t] # None}
         old == {t \in listed : TooOld(t)}
     IN  /\ listed # {}
         /\ expired' = old
         /\ probing' = listed \ old
  /\ UNCHANGED <<pool, link, taskVars, victim, stray>>

\* The connection that was listed answers or not, if it is still the task's at all.
ProbeEntry ==
  /\ \E t \in probing :
       /\ probing' = probing \ {t}
       /\ expired' = expired \/ expired' = expired \cup {t}
  /\ UNCHANGED <<pool, link, taskVars, victim, stray>>

\* What is closed is what the task's entry holds by now.
TakeExpired ==
  /\ probing = {} /\ victim = None
  /\ \E t \in expired :
       /\ expired' = expired \ {t}
       /\ IF pool[t] = None THEN UNCHANGED <<pool, victim>>
          ELSE victim' = pool[t].conn /\ Forget(t)
  /\ UNCHANGED <<link, taskVars, probing, stray>>

CloseExpired ==
  /\ victim # None
  /\ Close(victim)
  /\ victim' = None
  /\ UNCHANGED <<pool, taskVars, probing, expired>>

-----------------------------------------------------------------------------
\* The relay ends a connection.
Drop(c) ==
  /\ Open(c)
  /\ link' = [link EXCEPT ![c] = None]
  /\ stray' = stray \ {c}
  /\ UNCHANGED <<pool, taskVars, sweepVars>>

Tick ==
  /\ pool' = [t \in Tasks |-> IF pool[t] # None /\ pool[t].age <= Ttl
                              THEN [pool[t] EXCEPT !.age = @ + 1] ELSE pool[t]]
  /\ UNCHANGED <<link, taskVars, sweepVars, stray>>

TaskStep(t) ==
  \/ ProbeAnswered(t) \/ ProbeFails(t) \/ QuitOld(t)
  \/ Connect(t) \/ ConnectFails(t) \/ LoginFails(t) \/ EndSend(t)

Sweep == ListEntries \/ ProbeEntry \/ TakeExpired \/ CloseExpired

Next ==
  \/ \E t \in Tasks : TaskStep(t) \/ \E a \in Accounts : GetConnection(t, a)
  \/ Sweep
  \/ \E c \in Conns : Drop(c)
  \/ Tick

Spec == Init /\ [][Next]_vars

\* Every await of a task has a timeout, the cleanup loop comes round, and the clock goes on.
\* Nothing is assumed of the relay, nor of when there is something to send.
FairSpec == Spec /\ WF_vars(Sweep) /\ WF_vars(Tick) /\ \A t \in Tasks : WF_vars(TaskStep(t))

-----------------------------------------------------------------------------
\* Two tasks never talk over the same connection, although entries are written again after a
\* NOOP during which the cleanup may have taken them (smtp_pool.py 40-68).
ExclusiveUse ==
  \A t, u \in Tasks :
    t # u /\ pc[t] = "use" /\ pc[u] = "use" => conn[t] # conn[u]

\* A message goes out through the account it was written for: the connection in use is logged
\* in to that account, or closed (smtp_pool.py 47-68).
RightAccount ==
  \A t \in Tasks : pc[t] = "use" => link[conn[t]] \in {want[t], None}

\* Nobody loses an open connection: it is in the pool, or with a task or the cleanup that is
\* going to close or return it, unless its login or its QUIT failed (smtp_pool.py 58-99).
NoConnectionLost ==
  \A c \in Conns :
    Open(c) => \/ c \in Pooled \cup stray \cup {victim}
               \/ \E t \in Tasks : conn[t] = c

\* A connection does not stay in the pool while nobody sends: the cleanup loop takes it out
\* (smtp_pool.py 70-99, core.py 871-875).
IdleConnectionsClose ==
  \A t \in Tasks :
    pc[t] = "idle" /\ pool[t] # None ~> pc[t] # "idle" \/ pool[t] = None
=============================================================================
