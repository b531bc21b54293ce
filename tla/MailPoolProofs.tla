---------------------------- MODULE MailPoolProofs ----------------------------
(***************************************************************************)
(* What MailPool keeps true for any number of tasks, accounts and          *)
(* connections.                                                            *)
(***************************************************************************)
EXTENDS MailPool, FiniteSetTheorems, TLAPS

(***************************************************************************)
(* Types.                                                                  *)
(***************************************************************************)

\* The type invariant in two parts: the tasks with their entries, and the rest.
TasksOK ==
  /\ pool \in [Tasks -> Entry \cup {None}]
  /\ pc \in [Tasks -> {"idle", "probe", "quit", "connect", "use"}]
  /\ conn \in [Tasks -> Conns \cup {None}]
  /\ want \in [Tasks -> Accounts \cup {None}]
  /\ \A t \in Tasks : /\ pc[t] = "idle" <=> want[t] = None
                      /\ pc[t] \in {"idle", "connect"} <=> conn[t] = None

LinksOK ==
  /\ link \in [Conns -> Accounts \cup {None}]
  /\ probing \subseteq Tasks /\ expired \subseteq Tasks
  /\ victim \in Conns \cup {None}
  /\ stray \subseteq Conns /\ Cardinality(stray) <= MaxStray

LEMMA TypeParts == TypeOK <=> TasksOK /\ LinksOK
BY DEF TypeOK, TasksOK, LinksOK

\* An entry, made anew or a tick older, is an entry.
LEMMA EntryTypes ==
  /\ \A c \in Conns, a \in Accounts : [conn |-> c, acct |-> a, age |-> 0] \in Entry
  /\ \A e \in Entry : e.age <= Ttl => [e EXCEPT !.age = @ + 1] \in Entry
  /\ \A e \in Entry : e # None /\ e.conn \in Conns /\ e.acct \in Accounts
BY PoolAssumption DEF Entry, Ages

\* A task keeps its place and its entry well typed.
LEMMA TaskTypes ==
  ASSUME TasksOK, NEW t \in Tasks, TaskStep(t) \/ \E a \in Accounts : GetConnection(t, a)
  PROVE  TasksOK'
<1> USE DEF TasksOK
<1>1. None \notin Conns \cup Accounts \cup Entry
  BY PoolAssumption
<1>2. CASE \E a \in Accounts : GetConnection(t, a)
  <2>1. PICK a \in Accounts : GetConnection(t, a)
    BY <1>2
  <2>2. CASE EntryOf(t) = None
    BY <1>1, <2>1, <2>2 DEF GetConnection, Goto
  <2>3. CASE EntryOf(t) # None
    <3>1. pool[t] \in Entry /\ pool[t].conn \in Conns
      BY <2>3, EntryTypes DEF EntryOf
    <3>2. QED
      BY <1>1, <2>1, <2>3, <3>1 DEF GetConnection, Goto, Forget, EntryOf
  <2>4. QED
    BY <2>2, <2>3
<1>3. CASE ProbeAnswered(t)
  <2>1. conn[t] \in Conns /\ want[t] \in Accounts
    BY <1>1, <1>3 DEF ProbeAnswered
  <2>2. QED
    BY <1>1, <1>3, <2>1, EntryTypes DEF ProbeAnswered, Remember, Goto
<1>4. CASE ProbeFails(t)
  BY <1>1, <1>4 DEF ProbeFails, Forget, Goto
<1>5. CASE QuitOld(t)
  BY <1>1, <1>5 DEF QuitOld, Goto
<1>6. CASE Connect(t)
  <2>1. want[t] \in Accounts
    BY <1>1, <1>6 DEF Connect
  <2>2. QED
    BY <1>1, <1>6, <2>1, EntryTypes DEF Connect, Remember, Goto
<1>7. CASE ConnectFails(t) \/ LoginFails(t) \/ EndSend(t)
  BY <1>1, <1>7 DEF ConnectFails, LoginFails, EndSend, Release, Goto
<1>8. QED
  BY <1>2, <1>3, <1>4, <1>5, <1>6, <1>7 DEF TaskStep

\* The strays are few: one that is closed is one less, one that is left is counted.
LEMMA StrayTypes ==
  ASSUME LinksOK, NEW c \in Conns,
         \/ stray' = stray
         \/ stray' = stray \ {c}
         \/ Stray(c)
  PROVE  stray' \subseteq Conns /\ Cardinality(stray') <= MaxStray
<1>1. IsFiniteSet(stray)
  <2>1. IsFiniteSet(1 .. MaxConns)
    BY FS_Interval, PoolAssumption
  <2>2. stray \subseteq 1 .. MaxConns
    BY DEF LinksOK, Conns
  <2>3. QED
    BY <2>1, <2>2, FS_Subset
<1>2. stray \ {c} \subseteq stray
  OBVIOUS
<1>3. Cardinality(stray \ {c}) <= Cardinality(stray)
  BY <1>1, <1>2, FS_Subset
<1>4. Cardinality(stray \ {c}) \in Nat /\ Cardinality(stray) \in Nat
  BY <1>1, <1>2, FS_Subset, FS_CardinalityType
<1>5. CASE stray' = stray \ {c}
  BY <1>3, <1>4, <1>5, PoolAssumption DEF LinksOK
<1>6. QED
  BY <1>5 DEF LinksOK, Stray

\* What a close or a drop does to the connections.
LEMMA CloseTypes ==
  ASSUME LinksOK, NEW c \in Conns, Close(c) \/ Drop(c)
  PROVE  /\ link' \in [Conns -> Accounts \cup {None}]
         /\ stray' \subseteq Conns /\ Cardinality(stray') <= MaxStray
BY StrayTypes DEF LinksOK, Close, Drop

\* The connections keep their types.
LEMMA LinkTypes ==
  ASSUME TasksOK, LinksOK, Next
  PROVE  LinksOK'
<1>1. CASE \E t \in Tasks : \/ \E a \in Accounts : GetConnection(t, a)
                            \/ ProbeAnswered(t) \/ ProbeFails(t) \/ ConnectFails(t) \/ EndSend(t)
  BY <1>1 DEF LinksOK, GetConnection, ProbeAnswered, ProbeFails, ConnectFails, EndSend, sweepVars
<1>2. ASSUME NEW t \in Tasks, QuitOld(t)
      PROVE  LinksOK'
  <2>1. conn[t] \in Conns
    BY <1>2 DEF QuitOld, TasksOK
  <2>2. QED
    BY <1>2, <2>1, CloseTypes DEF QuitOld, LinksOK, sweepVars
<1>3. ASSUME NEW t \in Tasks, Connect(t) \/ LoginFails(t)
      PROVE  LinksOK'
  <2>1. PICK c \in Conns : /\ link' = [link EXCEPT ![c] = want[t]]
                           /\ stray' = stray \/ Stray(c)
    BY <1>3 DEF Connect, LoginFails
  <2>2. QED
    BY <1>3, <2>1, StrayTypes DEF Connect, LoginFails, LinksOK, TasksOK, sweepVars
<1>4. CASE ListEntries \/ ProbeEntry \/ TakeExpired
  <2>1. \A t \in Tasks : pool[t] # None => pool[t].conn \in Conns
    BY EntryTypes DEF TasksOK
  <2>2. QED
    BY <1>4, <2>1 DEF ListEntries, ProbeEntry, TakeExpired, LinksOK
<1>5. CASE CloseExpired
  <2>1. victim \in Conns
    BY <1>5 DEF CloseExpired, LinksOK
  <2>2. QED
    BY <1>5, <2>1, CloseTypes DEF CloseExpired, LinksOK
<1>6. CASE \E c \in Conns : Drop(c)
  BY <1>6, CloseTypes DEF Drop, LinksOK, sweepVars
<1>7. CASE Tick
  BY <1>7 DEF Tick, LinksOK, sweepVars
<1>8. QED
  BY <1>1, <1>2, <1>3, <1>4, <1>5, <1>6, <1>7 DEF Next, TaskStep, Sweep

LEMMA TypeStep ==
  ASSUME TypeOK, [Next]_vars
  PROVE  TypeOK'
<1>1. TasksOK /\ LinksOK
  BY TypeParts
<1>2. CASE UNCHANGED vars
  BY <1>2 DEF TypeOK, vars, taskVars, sweepVars
<1>3. CASE Next
  <2>1. LinksOK'
    BY <1>1, <1>3, LinkTypes
  <2>2. ASSUME Sweep \/ \E c \in Conns : Drop(c)
        PROVE  TasksOK'
    BY <1>1, <2>2 DEF Sweep, ListEntries, ProbeEntry, TakeExpired, CloseExpired, Drop, Forget,
       TasksOK, taskVars
  <2>3. ASSUME Tick
        PROVE  TasksOK'
    <3>1. \A t \in Tasks : pool'[t] \in Entry \cup {None}
      BY <1>1, <2>3, EntryTypes DEF Tick, TasksOK
    <3>2. QED
      BY <1>1, <2>3, <3>1 DEF Tick, TasksOK, taskVars
  <2>4. TasksOK'
    BY <1>1, <1>3, <2>2, <2>3, TaskTypes DEF Next
  <2>5. QED
    BY <2>1, <2>4 DEF TypeOK, TasksOK, LinksOK
<1>4. QED
  BY <1>2, <1>3

\* Every reachable state is well typed, whatever the number of tasks and connections.
THEOREM TypeCorrect == Spec => []TypeOK
<1>1. Init => TypeOK
  <2>1. Cardinality({}) = 0
    BY FS_EmptySet
  <2>2. QED
    BY <2>1, PoolAssumption DEF Init, TypeOK
<1>2. QED
  BY <1>1, TypeStep, PTL DEF Spec

-----------------------------------------------------------------------------
(***************************************************************************)
(* Ownership: a connection has one task, in hand or in its entry.          *)
(***************************************************************************)
Holds(t, c) == conn[t] = c \/ (pool[t] # None /\ pool[t].conn = c)

OneOwner == \A t, u \in Tasks, c \in Conns : Holds(t, c) /\ Holds(u, c) => t = u

\* A connection that means nothing to anybody has no owner.
LEMMA UnusedIsNobodys ==
  ASSUME NEW c \in Conns, Unused(c), NEW t \in Tasks
  PROVE  ~Holds(t, c)
BY DEF Unused, Pooled, InHand, Holds

\* A login is the only step that gives a task a connection it did not hold.
LEMMA OnlyConnectGives ==
  ASSUME TypeOK, Next, ~ \E t \in Tasks : Connect(t), NEW u \in Tasks, NEW c \in Conns, Holds(u, c)'
  PROVE  Holds(u, c)
<1> USE DEF Holds
<1>1. None \notin Conns \cup Entry
  BY PoolAssumption
<1>2. CASE \E t \in Tasks, a \in Accounts : GetConnection(t, a)
  BY <1>1, <1>2 DEF TypeOK, GetConnection, Goto, Forget, EntryOf
<1>3. CASE \E t \in Tasks : ProbeAnswered(t)
  BY <1>1, <1>3 DEF TypeOK, ProbeAnswered, Goto, Remember
<1>4. CASE \E t \in Tasks : ProbeFails(t) \/ QuitOld(t)
  BY <1>1, <1>4 DEF TypeOK, ProbeFails, QuitOld, Goto, Forget
<1>5. CASE \E t \in Tasks : ConnectFails(t) \/ LoginFails(t) \/ EndSend(t)
  BY <1>1, <1>5 DEF TypeOK, ConnectFails, LoginFails, EndSend, Release, Goto
<1>6. CASE Sweep \/ \E d \in Conns : Drop(d)
  BY <1>1, <1>6 DEF TypeOK, Sweep, ListEntries, ProbeEntry, TakeExpired, CloseExpired, Drop,
     Forget, taskVars
<1>7. CASE Tick
  <2>1. pool'[u] # None => pool[u] # None /\ pool'[u].conn = pool[u].conn
    BY <1>1, <1>7 DEF TypeOK, Tick, Entry
  <2>2. QED
    BY <1>7, <2>1 DEF Tick, taskVars
<1>8. QED
  BY <1>2, <1>3, <1>4, <1>5, <1>6, <1>7 DEF Next, TaskStep

LEMMA OwnerStep ==
  ASSUME TypeOK, OneOwner, [Next]_vars
  PROVE  OneOwner'
<1>1. CASE UNCHANGED vars
  BY <1>1 DEF OneOwner, Holds, vars, taskVars
<1>2. CASE Next /\ ~ \E t \in Tasks : Connect(t)
  BY <1>2, OnlyConnectGives DEF OneOwner
<1>3. ASSUME NEW t \in Tasks, Connect(t)
      PROVE  OneOwner'
  <2>1. PICK c \in Conns : NewConn(c) /\ Remember(t, c, want[t]) /\ Goto(t, "use", c)
    BY <1>3 DEF Connect
  <2>2. \A u \in Tasks : ~Holds(u, c)
    BY <2>1, UnusedIsNobodys DEF NewConn
  <2>3. \A d \in Conns : Holds(t, d)' => d = c
    BY <2>1 DEF TypeOK, Remember, Goto, Holds
  <2>4. \A u \in Tasks, d \in Conns : u # t => (Holds(u, d)' <=> Holds(u, d))
    BY <2>1 DEF TypeOK, Remember, Goto, Holds
  <2>5. QED
    BY <2>2, <2>3, <2>4 DEF OneOwner
<1>4. QED
  BY <1>1, <1>2, <1>3

\* Whatever the cleanup takes, probes or closes meanwhile, two tasks that send at the same time
\* do not send over the same connection.
THEOREM NeverShared == Spec => []ExclusiveUse
<1>1. Init => OneOwner
  BY PoolAssumption DEF Init, OneOwner, Holds
<1>2. TypeOK /\ OneOwner => ExclusiveUse
  BY PoolAssumption DEF TypeOK, OneOwner, Holds, ExclusiveUse
<1>3. QED
  BY <1>1, <1>2, OwnerStep, TypeCorrect, PTL DEF Spec

-----------------------------------------------------------------------------
(***************************************************************************)
(* Accounts: who is logged in where.                                       *)
(***************************************************************************)

\* An entry, or a connection that is probed or used, is logged in as its task believes or closed.
EntriesLoggedIn == \A t \in Tasks : pool[t] # None => link[pool[t].conn] \in {pool[t].acct, None}
TasksLoggedIn ==
  \A t \in Tasks : pc[t] \in {"probe", "use"} => link[conn[t]] \in {want[t], None}
LoggedIn == EntriesLoggedIn /\ TasksLoggedIn

\* Connections somebody holds are closed or stay as they are.
LEMMA HeldStay ==
  ASSUME TypeOK, Next, NEW t \in Tasks, NEW c \in Conns, Holds(t, c)
  PROVE  link'[c] \in {link[c], None}
<1>1. CASE \E u \in Tasks : Connect(u) \/ LoginFails(u)
  <2>1. PICK u \in Tasks, d \in Conns : Unused(d) /\ link' = [link EXCEPT ![d] = want[u]]
    BY <1>1 DEF Connect, LoginFails, NewConn
  <2>2. d # c
    BY <2>1, UnusedIsNobodys
  <2>3. QED
    BY <2>1, <2>2 DEF TypeOK
<1>2. CASE \E u \in Tasks : \/ \E a \in Accounts : GetConnection(u, a)
                            \/ ProbeAnswered(u) \/ ProbeFails(u) \/ ConnectFails(u) \/ EndSend(u)
  BY <1>2 DEF GetConnection, ProbeAnswered, ProbeFails, ConnectFails, EndSend
<1>3. CASE \/ \E d \in Conns \cup {None} : Close(d)
           \/ \E d \in Conns : Drop(d)
  BY <1>3 DEF Close, Drop, TypeOK
<1>4. CASE \/ \E u \in Tasks : QuitOld(u)
           \/ CloseExpired
  BY <1>3, <1>4 DEF QuitOld, CloseExpired, TypeOK
<1>5. CASE ListEntries \/ ProbeEntry \/ TakeExpired \/ Tick
  BY <1>5 DEF ListEntries, ProbeEntry, TakeExpired, Tick
<1>6. QED
  BY <1>1, <1>2, <1>3, <1>4, <1>5 DEF Next, TaskStep, Sweep

\* An entry that is written holds the connection its task has just probed or logged in.
LEMMA EntriesStep ==
  ASSUME TypeOK, LoggedIn, Next
  PROVE  EntriesLoggedIn'
<1> USE DEF EntriesLoggedIn
<1>1. None \notin Conns \cup Entry \cup Accounts
  BY PoolAssumption
<1>2. ASSUME NEW t \in Tasks, pool'[t] # None, pool[t] # None,
             pool'[t].conn = pool[t].conn, pool'[t].acct = pool[t].acct
      PROVE  link'[pool'[t].conn] \in {pool'[t].acct, None}
  <2>1. pool[t].conn \in Conns /\ Holds(t, pool[t].conn)
    BY <1>2, EntryTypes DEF TypeOK, Holds
  <2>2. link'[pool[t].conn] \in {link[pool[t].conn], None}
    BY <2>1, HeldStay
  <2>3. QED
    BY <1>2, <2>2 DEF LoggedIn
<1>3. CASE \E u \in Tasks : ProbeAnswered(u)
  <2>1. PICK u \in Tasks : ProbeAnswered(u)
    BY <1>3
  <2>2. pool'[u].conn = conn[u] /\ pool'[u].acct = want[u] /\ link' = link
    BY <2>1 DEF ProbeAnswered, Remember, TypeOK
  <2>3. link[conn[u]] \in {want[u], None}
    BY <2>1 DEF ProbeAnswered, LoggedIn, TasksLoggedIn
  <2>4. \A t \in Tasks \ {u} : pool'[t] = pool[t]
    BY <2>1 DEF ProbeAnswered, Remember, TypeOK
  <2>5. QED
    BY <1>2, <2>2, <2>3, <2>4
<1>4. CASE \E u \in Tasks : Connect(u)
  <2>1. PICK u \in Tasks, c \in Conns : /\ link' = [link EXCEPT ![c] = want[u]]
                                        /\ Remember(u, c, want[u])
    BY <1>4 DEF Connect
  <2>2. pool'[u].conn = c /\ pool'[u].acct = want[u] /\ link'[c] = want[u]
    BY <2>1 DEF Remember, TypeOK
  <2>3. \A t \in Tasks \ {u} : pool'[t] = pool[t]
    BY <2>1 DEF Remember, TypeOK
  <2>4. QED
    BY <1>2, <2>2, <2>3
<1>5. CASE Tick
  <2>1. \A t \in Tasks : pool'[t] # None =>
          pool[t] # None /\ pool'[t].conn = pool[t].conn /\ pool'[t].acct = pool[t].acct
    BY <1>1, <1>5 DEF TypeOK, Tick, Entry
  <2>2. QED
    BY <1>2, <2>1
<1>6. CASE \A t \in Tasks : pool'[t] \in {pool[t], None}
  BY <1>2, <1>6
<1>7. CASE \E t \in Tasks : ProbeFails(t) \/ QuitOld(t) \/ ConnectFails(t)
                            \/ LoginFails(t) \/ EndSend(t)
  BY <1>6, <1>7 DEF TypeOK, ProbeFails, QuitOld, ConnectFails, LoginFails, EndSend, Forget
<1>8. CASE \E t \in Tasks, a \in Accounts : GetConnection(t, a)
  BY <1>6, <1>8 DEF TypeOK, GetConnection, Forget
<1>9. CASE Sweep \/ \E c \in Conns : Drop(c)
  BY <1>6, <1>9 DEF TypeOK, Sweep, ListEntries, ProbeEntry, TakeExpired, CloseExpired, Drop, Forget
<1>10. QED
  BY <1>3, <1>4, <1>5, <1>7, <1>8, <1>9 DEF Next, TaskStep

\* A task comes to a connection by its entry, by a NOOP that was answered or by a login.
LEMMA TasksStep ==
  ASSUME TypeOK, LoggedIn, Next
  PROVE  TasksLoggedIn'
<1> USE DEF TasksLoggedIn
<1>1. None \notin Conns \cup Entry \cup Accounts
  BY PoolAssumption
<1>2. ASSUME NEW t \in Tasks, pc'[t] \in {"probe", "use"}, pc[t] \in {"probe", "use"},
             conn'[t] = conn[t], want'[t] = want[t]
      PROVE  link'[conn'[t]] \in {want'[t], None}
  <2>1. conn[t] \in Conns /\ Holds(t, conn[t])
    BY <1>2 DEF TypeOK, Holds
  <2>2. link'[conn[t]] \in {link[conn[t]], None}
    BY <2>1, HeldStay
  <2>3. QED
    BY <1>2, <2>2 DEF LoggedIn
<1>3. CASE \E u \in Tasks, a \in Accounts : GetConnection(u, a)
  <2>1. PICK u \in Tasks, a \in Accounts : GetConnection(u, a)
    BY <1>3
  <2>2. link' = link /\ want'[u] = a
    BY <2>1 DEF GetConnection, TypeOK
  <2>3. pc'[u] \in {"probe", "use"} => pool[u] # None /\ pool[u].acct = a /\ conn'[u] = pool[u].conn
    BY <2>1 DEF GetConnection, TypeOK, Goto, EntryOf, Reusable
  <2>4. \A t \in Tasks \ {u} : pc'[t] = pc[t] /\ conn'[t] = conn[t] /\ want'[t] = want[t]
    BY <2>1 DEF GetConnection, TypeOK, Goto
  <2>5. QED
    BY <1>2, <2>2, <2>3, <2>4 DEF LoggedIn, EntriesLoggedIn
<1>4. CASE \E u \in Tasks : ProbeAnswered(u)
  BY <1>2, <1>4 DEF ProbeAnswered, Goto, TypeOK
<1>5. CASE \E u \in Tasks : Connect(u)
  <2>1. PICK u \in Tasks, c \in Conns : /\ link' = [link EXCEPT ![c] = want[u]]
                                        /\ Goto(u, "use", c) /\ want' = want
    BY <1>5 DEF Connect
  <2>2. conn'[u] = c /\ link'[c] = want'[u]
    BY <2>1 DEF Goto, TypeOK
  <2>3. \A t \in Tasks \ {u} : pc'[t] = pc[t] /\ conn'[t] = conn[t] /\ want'[t] = want[t]
    BY <2>1 DEF Goto, TypeOK
  <2>4. QED
    BY <1>2, <2>2, <2>3
<1>6. CASE \E u \in Tasks : ProbeFails(u) \/ QuitOld(u)
  BY <1>2, <1>6 DEF ProbeFails, QuitOld, Goto, TypeOK
<1>7. CASE \E u \in Tasks : ConnectFails(u) \/ LoginFails(u) \/ EndSend(u)
  BY <1>2, <1>7 DEF ConnectFails, LoginFails, EndSend, Release, Goto, TypeOK
<1>8. CASE Sweep \/ Tick \/ \E c \in Conns : Drop(c)
  BY <1>2, <1>8 DEF TypeOK, Sweep, ListEntries, ProbeEntry, TakeExpired, CloseExpired, Drop,
     Tick, taskVars
<1>9. QED
  BY <1>3, <1>4, <1>5, <1>6, <1>7, <1>8 DEF Next, TaskStep

LEMMA LoggedInStep ==
  ASSUME TypeOK, LoggedIn, [Next]_vars
  PROVE  LoggedIn'
<1>1. CASE UNCHANGED vars
  BY <1>1 DEF LoggedIn, EntriesLoggedIn, TasksLoggedIn, vars, taskVars
<1>2. QED
  BY <1>1, EntriesStep, TasksStep DEF LoggedIn

\* A connection is used only for the account it is logged in to, however entries are written
\* again, taken and closed in between.
THEOREM ThroughItsAccount == Spec => []RightAccount
<1>1. Init => LoggedIn
  BY DEF Init, LoggedIn, EntriesLoggedIn, TasksLoggedIn
<1>2. LoggedIn => RightAccount
  BY DEF LoggedIn, TasksLoggedIn, RightAccount
<1>3. QED
  BY <1>1, <1>2, LoggedInStep, TypeCorrect, PTL DEF Spec

-----------------------------------------------------------------------------
(***************************************************************************)
(* Leaks: where an open connection can be.                                 *)
(***************************************************************************)

\* The entry of a task that probes or uses a connection is about that connection, and a task
\* that closes one or logs in has none.
OwnEntry ==
  \A t \in Tasks :
    /\ pc[t] \in {"probe", "use"} /\ pool[t] # None => pool[t].conn = conn[t]
    /\ pc[t] \in {"quit", "connect"} => pool[t] = None

Left(c) == c \in stray \/ c = victim
Kept == \A t \in Tasks : pc[t] = "use" /\ Open(conn[t]) => pool[t] # None \/ Left(conn[t])

Safe(c) == Left(c) \/ \E t \in Tasks : Holds(t, c)
AllSafe == \A c \in Conns : Open(c) => Safe(c)

LeakInv == OwnEntry /\ Kept /\ AllSafe

LEMMA OwnEntryStep ==
  ASSUME TypeOK, OwnEntry, Next
  PROVE  OwnEntry'
<1> USE DEF OwnEntry
<1>1. None \notin Conns \cup Entry
  BY PoolAssumption
<1>2. CASE \E t \in Tasks, a \in Accounts : GetConnection(t, a)
  BY <1>1, <1>2 DEF TypeOK, GetConnection, Goto, Forget, EntryOf
<1>3. CASE \E t \in Tasks : ProbeAnswered(t)
  BY <1>1, <1>3 DEF TypeOK, ProbeAnswered, Goto, Remember
<1>4. CASE \E t \in Tasks : ProbeFails(t) \/ QuitOld(t)
  BY <1>1, <1>4 DEF TypeOK, ProbeFails, QuitOld, Goto, Forget
<1>5. CASE \E t \in Tasks : Connect(t)
  BY <1>1, <1>5 DEF TypeOK, Connect, Goto, Remember
<1>6. CASE \E t \in Tasks : ConnectFails(t) \/ LoginFails(t) \/ EndSend(t)
  BY <1>1, <1>6 DEF TypeOK, ConnectFails, LoginFails, EndSend, Release, Goto
<1>7. CASE Sweep \/ \E d \in Conns : Drop(d)
  BY <1>1, <1>7 DEF TypeOK, Sweep, ListEntries, ProbeEntry, TakeExpired, CloseExpired, Drop,
     Forget, taskVars
<1>8. CASE Tick
  <2>1. \A u \in Tasks : /\ pool'[u] # None => pool[u] # None /\ pool'[u].conn = pool[u].conn
                         /\ pool[u] = None => pool'[u] = None
    BY <1>1, <1>8 DEF TypeOK, Tick, Entry
  <2>2. QED
    BY <1>8, <2>1 DEF Tick, taskVars
<1>9. QED
  BY <1>2, <1>3, <1>4, <1>5, <1>6, <1>7, <1>8 DEF Next, TaskStep

\* A stray connection, or one the cleanup closes, is closed or left.
LEMMA LeftStays ==
  ASSUME TypeOK, Next, NEW c \in Conns, Left(c), Open(c)'
  PROVE  Left(c)'
<1> USE DEF Left, Open
<1>1. CASE \E t \in Tasks : \/ \E a \in Accounts : GetConnection(t, a)
                            \/ ProbeAnswered(t) \/ ProbeFails(t)
                            \/ Connect(t) \/ ConnectFails(t) \/ LoginFails(t) \/ EndSend(t)
  BY <1>1 DEF GetConnection, ProbeAnswered, ProbeFails, Connect, ConnectFails, LoginFails, EndSend,
     Stray, sweepVars
<1>2. CASE \E t \in Tasks : QuitOld(t)
  BY <1>2 DEF TypeOK, QuitOld, Close, Stray, sweepVars
<1>3. CASE ListEntries \/ ProbeEntry \/ TakeExpired
  BY <1>3, PoolAssumption DEF ListEntries, ProbeEntry, TakeExpired
<1>4. CASE CloseExpired
  BY <1>4 DEF TypeOK, CloseExpired, Close, Stray
<1>5. CASE Tick \/ \E d \in Conns : Drop(d)
  BY <1>5 DEF TypeOK, Tick, Drop, sweepVars
<1>6. QED
  BY <1>1, <1>2, <1>3, <1>4, <1>5 DEF Next, TaskStep, Sweep

\* What an entry holds stays in it, or goes to its task or to the cleanup.
LEMMA EntryStays ==
  ASSUME TypeOK, OwnEntry, Next, NEW u \in Tasks, pool[u] # None
  PROVE  \/ pool'[u] # None /\ pool'[u].conn = pool[u].conn
         \/ pc'[u] \in {"quit", "probe"} /\ conn'[u] = pool[u].conn
         \/ victim' = pool[u].conn
<1>1. None \notin Conns \cup Entry
  BY PoolAssumption
<1>2. CASE \E t \in Tasks, a \in Accounts : GetConnection(t, a)
  BY <1>1, <1>2 DEF TypeOK, GetConnection, Goto, Forget, EntryOf
<1>3. CASE \E t \in Tasks : ProbeAnswered(t)
  <2>1. PICK t \in Tasks : ProbeAnswered(t)
    BY <1>3
  <2>2. conn[t] \in Conns /\ want[t] \in Accounts
    BY <1>1, <2>1 DEF TypeOK, ProbeAnswered
  <2>3. [conn |-> conn[t], acct |-> want[t], age |-> 0] # None
    BY <2>2, EntryTypes
  <2>4. CASE t = u
    BY <2>1, <2>3, <2>4 DEF TypeOK, ProbeAnswered, Remember, OwnEntry
  <2>5. CASE t # u
    BY <2>1, <2>5 DEF TypeOK, ProbeAnswered, Remember
  <2>6. QED
    BY <2>4, <2>5
<1>4. CASE \E t \in Tasks : ProbeFails(t)
  BY <1>1, <1>4 DEF TypeOK, ProbeFails, Goto, Forget, OwnEntry
<1>5. CASE \E t \in Tasks : Connect(t)
  BY <1>1, <1>5 DEF TypeOK, Connect, Remember, OwnEntry
<1>6. CASE \E t \in Tasks : QuitOld(t) \/ ConnectFails(t) \/ LoginFails(t) \/ EndSend(t)
  BY <1>6 DEF QuitOld, ConnectFails, LoginFails, EndSend
<1>7. CASE Sweep \/ \E d \in Conns : Drop(d)
  BY <1>1, <1>7 DEF TypeOK, Sweep, ListEntries, ProbeEntry, TakeExpired, CloseExpired, Drop, Forget
<1>8. CASE Tick
  <2>1. pool[u] \in Entry
    BY DEF TypeOK
  <2>2. CASE pool[u].age <= Ttl
    <3>1. pool'[u] = [pool[u] EXCEPT !.age = @ + 1]
      BY <1>8, <2>2 DEF Tick
    <3>2. pool'[u] # None
      BY <2>1, <2>2, <3>1, EntryTypes
    <3>3. QED
      BY <2>1, <3>1, <3>2 DEF Entry
  <2>3. CASE ~(pool[u].age <= Ttl)
    BY <1>8, <2>3 DEF Tick
  <2>4. QED
    BY <2>2, <2>3
<1>9. QED
  BY <1>2, <1>3, <1>4, <1>5, <1>6, <1>7, <1>8 DEF Next, TaskStep

\* A connection in hand stays in hand, or is closed, left, or still in the entry of its task.
LEMMA HandStays ==
  ASSUME TypeOK, OwnEntry, Kept, Next, NEW u \in Tasks, NEW c \in Conns, conn[u] = c, Open(c), Open(c)'
  PROVE  conn'[u] = c \/ Left(c)' \/ Holds(u, c)'
<1>1. None \notin Conns \cup Entry
  BY PoolAssumption
<1>2. CASE \E t \in Tasks, a \in Accounts : GetConnection(t, a)
  BY <1>1, <1>2 DEF TypeOK, GetConnection, Goto
<1>3. CASE \E t \in Tasks : ProbeAnswered(t) \/ ProbeFails(t)
  BY <1>3 DEF TypeOK, ProbeAnswered, ProbeFails, Goto
<1>4. CASE \E t \in Tasks : QuitOld(t)
  BY <1>4 DEF TypeOK, QuitOld, Close, Stray, Open, Left, Goto
<1>5. CASE \E t \in Tasks : Connect(t) \/ ConnectFails(t) \/ LoginFails(t)
  BY <1>1, <1>5 DEF TypeOK, Connect, ConnectFails, LoginFails, Release, Goto
<1>6. ASSUME NEW t \in Tasks, EndSend(t), t = u
      PROVE  Left(c)' \/ Holds(u, c)'
  <2>1. pool[u] # None \/ Left(c)
    BY <1>6 DEF EndSend, Kept
  <2>2. pool[u] # None => Holds(u, c)'
    BY <1>6 DEF EndSend, OwnEntry, Holds
  <2>3. QED
    BY <2>1, <2>2, LeftStays
<1>7. ASSUME NEW t \in Tasks, EndSend(t), t # u
      PROVE  conn'[u] = c
  BY <1>7 DEF TypeOK, EndSend, Release, Goto
<1>8. CASE Sweep \/ Tick \/ \E d \in Conns : Drop(d)
  BY <1>8 DEF Sweep, ListEntries, ProbeEntry, TakeExpired, CloseExpired, Tick, Drop, taskVars
<1>9. QED
  BY <1>2, <1>3, <1>4, <1>5, <1>6, <1>7, <1>8 DEF Next, TaskStep

\* A task comes to a connection with an entry for it, and goes on with the connection it has.
LEMMA ComesToUse ==
  ASSUME TypeOK, Next, NEW u \in Tasks, pc'[u] = "use"
  PROVE  pool'[u] # None \/ (pc[u] = "use" /\ conn'[u] = conn[u])
<1>1. None \notin Conns \cup Entry
  BY PoolAssumption
<1>2. CASE \E t \in Tasks, a \in Accounts : GetConnection(t, a)
  BY <1>2 DEF TypeOK, GetConnection, Goto
<1>3. CASE \E t \in Tasks : ProbeAnswered(t)
  <2>1. PICK t \in Tasks : ProbeAnswered(t)
    BY <1>3
  <2>2. conn[t] \in Conns /\ want[t] \in Accounts
    BY <1>1, <2>1 DEF TypeOK, ProbeAnswered
  <2>3. QED
    BY <1>1, <2>1, <2>2, EntryTypes DEF TypeOK, ProbeAnswered, Goto, Remember
<1>4. CASE \E t \in Tasks : ProbeFails(t) \/ QuitOld(t)
  BY <1>4 DEF TypeOK, ProbeFails, QuitOld, Goto
<1>5. CASE \E t \in Tasks : Connect(t)
  <2>1. PICK t \in Tasks, c \in Conns : Remember(t, c, want[t]) /\ Goto(t, "use", c)
    BY <1>5 DEF Connect
  <2>2. pc[t] = "connect"
    BY <1>5, <2>1 DEF TypeOK, Connect, Goto
  <2>3. pool'[t] = [conn |-> c, acct |-> want[t], age |-> 0]
    BY <2>1 DEF TypeOK, Remember
  <2>4. want[t] \in Accounts
    BY <2>2, PoolAssumption DEF TypeOK
  <2>5. pool'[t] # None
    BY <2>3, <2>4, EntryTypes
  <2>6. QED
    BY <2>1, <2>5 DEF TypeOK, Goto
<1>6. CASE \E t \in Tasks : ConnectFails(t) \/ LoginFails(t) \/ EndSend(t)
  BY <1>6 DEF TypeOK, ConnectFails, LoginFails, EndSend, Release, Goto
<1>7. CASE Sweep \/ Tick \/ \E d \in Conns : Drop(d)
  BY <1>7 DEF Sweep, ListEntries, ProbeEntry, TakeExpired, CloseExpired, Tick, Drop, taskVars
<1>8. QED
  BY <1>2, <1>3, <1>4, <1>5, <1>6, <1>7 DEF Next, TaskStep

LEMMA KeptStep ==
  ASSUME TypeOK, LeakInv, Next
  PROVE  Kept'
<1> SUFFICES ASSUME NEW u \in Tasks, pc'[u] = "use", Open(conn[u])', pool'[u] = None
             PROVE  Left(conn[u])'
  BY DEF Kept
<1>1. pc[u] = "use" /\ conn'[u] = conn[u]
  BY ComesToUse
<1>2. conn[u] \in Conns
  BY <1>1 DEF TypeOK
<1>3. Holds(u, conn[u])
  BY DEF Holds
<1>4. link'[conn[u]] \in {link[conn[u]], None}
  BY <1>2, <1>3, HeldStay
<1>5. Open(conn[u]) /\ link'[conn[u]] # None
  BY <1>1, <1>4 DEF Open
<1>6. CASE pool[u] # None
  <2>1. pool[u].conn = conn[u]
    BY <1>1, <1>6 DEF LeakInv, OwnEntry
  <2>2. victim' = conn[u]
    BY <1>1, <1>6, <2>1, EntryStays DEF LeakInv
  <2>3. QED
    BY <1>1, <2>2 DEF Left
<1>7. CASE Left(conn[u])
  <2> DEFINE c == conn[u]
  <2>1. \A d \in Conns : Left(d) /\ link'[d] # None => Left(d)'
    BY LeftStays DEF Open
  <2>2. Left(c)'
    BY <1>1, <1>2, <1>5, <1>7, <2>1 DEF Left
  <2>3. QED
    BY <2>2
<1>8. QED
  BY <1>1, <1>5, <1>6, <1>7 DEF LeakInv, Kept

LEMMA SafeStep ==
  ASSUME TypeOK, LeakInv, Next
  PROVE  AllSafe'
<1> SUFFICES ASSUME NEW c \in Conns, Open(c)'
             PROVE  Safe(c)'
  BY DEF AllSafe
<1>1. CASE ~Open(c)
  <2>1. PICK t \in Tasks, d \in Conns : /\ link' = [link EXCEPT ![d] = want[t]]
                                        /\ d \in stray' \/ Goto(t, "use", d)
    <3>1. CASE \E t \in Tasks : Connect(t) \/ LoginFails(t)
      BY <3>1 DEF Connect, LoginFails, Stray
    <3>2. CASE \E t \in Tasks : \/ \E a \in Accounts : GetConnection(t, a)
                                \/ ProbeAnswered(t) \/ ProbeFails(t) \/ ConnectFails(t) \/ EndSend(t)
      BY <1>1, <3>2 DEF GetConnection, ProbeAnswered, ProbeFails, ConnectFails, EndSend, Open
    <3>3. CASE \E t \in Tasks : QuitOld(t)
      BY <1>1, <3>3 DEF TypeOK, QuitOld, Close, Open
    <3>4. CASE Sweep \/ Tick \/ \E d \in Conns : Drop(d)
      BY <1>1, <3>4 DEF TypeOK, Sweep, ListEntries, ProbeEntry, TakeExpired, CloseExpired, Close,
         Tick, Drop, Open
    <3>5. QED
      BY <3>1, <3>2, <3>3, <3>4 DEF Next, TaskStep
  <2>2. d = c
    BY <1>1, <2>1 DEF TypeOK, Open
  <2>3. c \in stray' \/ conn'[t] = c
    BY <2>1, <2>2 DEF TypeOK, Goto
  <2>4. QED
    BY <2>3 DEF Safe, Left, Holds
<1>2. CASE Open(c) /\ Left(c)
  BY <1>2, LeftStays DEF Safe
<1>3. ASSUME Open(c), NEW u \in Tasks, conn[u] = c
      PROVE  Safe(c)'
  BY <1>3, HandStays DEF LeakInv, Safe, Holds
<1>4. ASSUME Open(c), NEW u \in Tasks, pool[u] # None, pool[u].conn = c
      PROVE  Safe(c)'
  BY <1>4, EntryStays DEF LeakInv, Safe, Holds, Left
<1>5. QED
  BY <1>1, <1>2, <1>3, <1>4 DEF LeakInv, AllSafe, Safe, Holds

LEMMA LeakStep ==
  ASSUME TypeOK, LeakInv, [Next]_vars
  PROVE  LeakInv'
<1>1. CASE UNCHANGED vars
  BY <1>1 DEF LeakInv, OwnEntry, Kept, AllSafe, Safe, Left, Holds, Open, vars, taskVars, sweepVars
<1>2. QED
  BY <1>1, OwnEntryStep, KeptStep, SafeStep DEF LeakInv

\* An open connection is never lost, unless a login or a QUIT on it failed: the pool, a task or
\* the cleanup still has it.
THEOREM NothingLeaks == Spec => []NoConnectionLost
<1>1. Init => LeakInv
  BY DEF Init, LeakInv, OwnEntry, Kept, AllSafe, Open
<1>2. TypeOK /\ LeakInv => NoConnectionLost
  BY DEF LeakInv, AllSafe, Safe, Left, Holds, Pooled, NoConnectionLost
<1>3. QED
  BY <1>1, <1>2, LeakStep, TypeCorrect, PTL DEF Spec
=============================================================================
