----------------------------- MODULE MailVolumes -----------------------------
(***************************************************************************)
(* Storage volumes: the volumes table (persistence.py), the [volumes]      *)
(* section of config.ini read at start (config_loader.py), the requests    *)
(* that add and delete volumes and then mount the table anew (api.py,      *)
(* core.py), and the validation of the volumes that a message names.       *)
(*                                                                         *)
(* A table is a function from volume names, which are unique, to rows,     *)
(* None where there is no row; a row is reduced to its owner, Global for   *)
(* NULL, and to what is mounted, backend and config together.  Deleting an *)
(* account leaves its volumes: SQLite does not enforce the foreign key     *)
(* unless it is told to.  The storage manager is external: configure       *)
(* replaces everything it had mounted.                                     *)
(***************************************************************************)
EXTENDS FiniteSets

CONSTANTS
  Names,      \* volume names
  Accounts,   \* accounts that own volumes
  Global,     \* owner of a volume that is everybody's; an empty account_id in the file
  Mountables, \* backends with their configs
  ApiRows,    \* rows that requests bring
  Files,      \* contents of the [volumes] section to consider
  Handlers,   \* requests the server works on at the same time
  None        \* no row, no entry, nothing at hand

Owners == Accounts \cup {Global}
Row == [owner : Owners, mount : Mountables]
Table == [Names -> Row \cup {None}]

\* What the file says of a name: which fields it gives, whether the config is JSON, and the
\* values of the fields it gives.
Entry == [fields : SUBSET {"backend", "config", "account_id", "other"},
          json : BOOLEAN, owner : Owners, mount : Mountables]

ASSUME VolumesAssumption ==
  /\ ApiRows \subseteq Row
  /\ Files \subseteq [Names -> Entry \cup {None}]
  /\ None \notin Row \cup Entry

VARIABLES
  table,      \* the volumes table
  mounts,     \* what the storage manager has mounted
  up,         \* where the start of the process stands
  pc,         \* where each request stands
  seen,       \* the table as it listed it
  draft,      \* a queued message: the volume its attachment names, as it was validated
  file,       \* history: the file as it was read last
  gone,       \* history: names deleted by request since then
  disturbed,  \* history: a request overlapped another, or failed, since the last that did not
  excused     \* history: since the draft was validated, its volume was meant to change

requests == <<pc, seen>>
history == <<file, gone, disturbed, excused>>
vars == <<table, mounts, up, requests, draft, history>>

Nothing == [n \in Names |-> None]

TypeOK ==
  /\ table \in Table /\ mounts \in Table
  /\ up \in {"down", "loaded", "up"}
  /\ pc \in [Handlers -> {"idle", "list", "configure"}]
  /\ seen \in [Handlers -> Table]
  /\ draft = None \/ draft \in [name : Names, acct : Accounts, row : Row]
  /\ file \in Files /\ gone \subseteq Names
  /\ disturbed \in BOOLEAN /\ excused \in BOOLEAN
  /\ up # "up" => mounts = Nothing /\ \A h \in Handlers : pc[h] = "idle"

Init ==
  /\ table = Nothing /\ mounts = Nothing /\ up = "down"
  /\ pc = [h \in Handlers |-> "idle"] /\ seen = [h \in Handlers |-> Nothing]
  /\ draft = None
  /\ file \in Files /\ gone = {} /\ disturbed = FALSE /\ excused = FALSE

-----------------------------------------------------------------------------
(***************************************************************************)
(* The process starts: it loads the file, then mounts the table.  Requests *)
(* are served only after that.                                             *)
(***************************************************************************)
Named(f) == {n \in Names : f[n] # None}

\* A name with a field that is not known has an entry too, and so needs the other fields.
Broken(f) ==
  \E n \in Named(f) :
    \/ ~({"backend", "config"} \subseteq f[n].fields)
    \/ ~f[n].json

\* Mutant: a missing account_id stays missing.
ParsedRow_NoOwner(e) ==
  [owner |-> IF "account_id" \in e.fields THEN e.owner ELSE None, mount |-> e.mount]

\* An account_id that is missing or blank makes the volume global.
ParsedRow(e) ==
  [owner |-> IF "account_id" \in e.fields THEN e.owner ELSE Global, mount |-> e.mount]

\* Mutants: overwrite = True; one volume that exists keeps the others out.
LoadVolumes_Overwrites(tbl, f) ==
  IF Broken(f) THEN tbl
  ELSE [n \in Names |-> IF n \in Named(f) THEN ParsedRow(f[n]) ELSE tbl[n]]
LoadVolumes_AllNew(tbl, f) ==
  IF Broken(f) \/ \E n \in Named(f) : tbl[n] # None THEN tbl
  ELSE [n \in Names |-> IF n \in Named(f) THEN ParsedRow(f[n]) ELSE tbl[n]]

\* parse_volumes raises for the whole file, and init goes on without it; names that exist
\* are left as they are.
LoadVolumes(tbl, f) ==
  IF Broken(f) THEN tbl
  ELSE [n \in Names |-> IF n \in Named(f) /\ tbl[n] = None THEN ParsedRow(f[n]) ELSE tbl[n]]

LoadConfig ==
  /\ up = "down" /\ up' = "loaded"
  /\ file' \in Files
  /\ table' = LoadVolumes(table, file')
  /\ gone' = {}
  /\ UNCHANGED <<mounts, requests, draft, disturbed, excused>>

\* Mutant: volumes are mounted by requests only.
MountAtStart_Nothing ==
  /\ up = "loaded" /\ up' = "up"
  /\ disturbed' = FALSE
  /\ UNCHANGED <<table, mounts, requests, draft, file, gone, excused>>

MountAtStart ==
  /\ up = "loaded" /\ up' = "up"
  /\ mounts' = table
  /\ disturbed' = FALSE
  /\ UNCHANGED <<table, requests, draft, file, gone, excused>>

Crash ==
  /\ up' = "down"
  /\ mounts' = Nothing
  /\ pc' = [h \in Handlers |-> "idle"] /\ seen' = [h \in Handlers |-> Nothing]
  /\ UNCHANGED <<table, draft, history>>

-----------------------------------------------------------------------------
(***************************************************************************)
(* Requests.  Each commits its change, lists the table, and configures the *)
(* storage manager with what it listed.                                    *)
(***************************************************************************)
Busy(h) == pc[h] # "idle"

\* The request of h for the volume n has changed the table.
Begin(h, n) ==
  /\ up = "up" /\ ~Busy(h)
  /\ LET overlap == \E g \in Handlers : Busy(g)
     IN  /\ disturbed' = overlap
         /\ excused' = (excused \/ overlap \/ (draft # None /\ n = draft.name))
  /\ pc' = [pc EXCEPT ![h] = "list"]
  /\ UNCHANGED <<mounts, up, seen, draft, file>>

AddVolume(h, n, row) ==
  /\ table' = [table EXCEPT ![n] = row]
  /\ gone' = gone \ {n}
  /\ Begin(h, n)

\* Without an account the volume is deleted whoever owns it.
Deletable(n, a) == table[n] # None /\ a \in {None, table[n].owner}

DeleteVolume(h, n, a) ==
  /\ Deletable(n, a)
  /\ table' = [table EXCEPT ![n] = None]
  /\ gone' = gone \cup {n}
  /\ Begin(h, n)

ListVolumes(h) ==
  /\ pc[h] = "list"
  /\ pc' = [pc EXCEPT ![h] = "configure"]
  /\ seen' = [seen EXCEPT ![h] = table]
  /\ UNCHANGED <<table, mounts, up, draft, history>>

EndRequest(h) ==
  /\ pc' = [pc EXCEPT ![h] = "idle"]
  /\ seen' = [seen EXCEPT ![h] = Nothing]

\* Mutant: configure adds to what is mounted.
Mounted_Added(tbl) == [n \in Names |-> IF tbl[n] = None THEN mounts[n] ELSE tbl[n]]

Mounted(tbl) == tbl

Configure(h) ==
  /\ pc[h] = "configure"
  /\ mounts' = Mounted(seen[h])
  /\ EndRequest(h)
  /\ UNCHANGED <<table, up, draft, history>>

\* The database does not answer: the change stays in the table and is not mounted.
ReloadFails(h) ==
  /\ pc[h] = "list"
  /\ EndRequest(h)
  /\ disturbed' = TRUE
  /\ UNCHANGED <<table, mounts, up, draft, file, gone, excused>>

-----------------------------------------------------------------------------
(***************************************************************************)
(* Messages with an attachment.                                            *)
(***************************************************************************)

\* get_volume: the account's own volume, or else a global one.  Special volumes are left out.
GetVolume(n, a) ==
  IF table[n] # None /\ table[n].owner \in {a, Global} THEN table[n] ELSE None

\* validate_storage_paths, for a message that is queued with one attachment.
ValidateMessage(n, a) ==
  /\ up = "up" /\ draft = None
  /\ GetVolume(n, a) # None
  /\ draft' = [name |-> n, acct |-> a, row |-> GetVolume(n, a)]
  /\ excused' = (disturbed \/ \E h \in Handlers : Busy(h))
  /\ UNCHANGED <<table, mounts, up, requests, file, gone, disturbed>>

\* The message leaves the queue: built from whatever is mounted under the name, or, where its
\* attachment cannot be had there, as an error.
BuildMessage ==
  /\ up = "up" /\ draft # None
  /\ draft' = None /\ excused' = FALSE
  /\ UNCHANGED <<table, mounts, up, requests, file, gone, disturbed>>

-----------------------------------------------------------------------------
Next ==
  \/ LoadConfig \/ MountAtStart \/ Crash
  \/ \E h \in Handlers :
       \/ \E n \in Names, row \in ApiRows : AddVolume(h, n, row)
       \/ \E n \in Names, a \in Accounts \cup {None} : DeleteVolume(h, n, a)
       \/ ListVolumes(h) \/ Configure(h) \/ ReloadFails(h)
  \/ \E n \in Names, a \in Accounts : ValidateMessage(n, a)
  \/ BuildMessage

Spec == Init /\ [][Next]_vars

-----------------------------------------------------------------------------
\* Between requests the storage manager has mounted what the table says, unless two requests
\* overlapped, the older list being configured last, or one broke off after its commit; the next
\* request that runs alone, or a restart, sets it right (api.py 364-404, core.py 249-269).
StaleOnlyIfDisturbed ==
  up = "up" /\ (\A h \in Handlers : ~Busy(h)) /\ mounts # table => disturbed

\* What an operator set up by request survives every restart, whatever the file says of the name
\* by then (config_loader.py 122-133, "Existing volumes in database are NOT replaced",
\* VOLUMES.md 58).
RestartKeepsRows ==
  [][\A n \in Names : table[n] # None /\ table'[n] # table[n] => up = "up"]_vars

\* Each volume of the file that was read is in the table, or was deleted by request since the
\* start, even if others of the file were there before; a file with one bad entry gives none
\* (config_loader.py 30-138).
FileVolumesPresent ==
  up # "down" /\ ~Broken(file) => \A n \in Named(file) : table[n] # None \/ n \in gone

\* A message that waits in the queue finds its attachment where it was validated, across
\* restarts, unless since then, or at that moment, a request meant to change the volume or was
\* not alone (core.py 407-412, 1054-1083, persistence.py 498-600).
ValidatedIsMounted ==
  up = "up" /\ draft # None => mounts[draft.name] = draft.row \/ excused
=============================================================================
