-------------------------- MODULE MailVolumesProofs --------------------------
(***************************************************************************)
(* What MailVolumes keeps true for any volumes, accounts, contents of the  *)
(* file and number of requests at a time.                                  *)
(***************************************************************************)
EXTENDS MailVolumes, TLAPS

\* What GetVolume finds is the row of that name.
LEMMA FoundIsRow ==
  ASSUME TypeOK, NEW n \in Names, NEW a, GetVolume(n, a) # None
  PROVE  GetVolume(n, a) = table[n] /\ table[n] \in Row
BY DEF TypeOK, Table, GetVolume

\* Loading the file adds well-typed rows and changes none that exists.
LEMMA LoadKeeps ==
  ASSUME TypeOK, NEW f \in Files
  PROVE  /\ LoadVolumes(table, f) \in Table
         /\ \A n \in Names : table[n] # None => LoadVolumes(table, f)[n] = table[n]
         /\ ~Broken(f) => \A n \in Named(f) : LoadVolumes(table, f)[n] # None
<1>1. \A n \in Named(f) : f[n] \in Entry /\ ParsedRow(f[n]) \in Row
  BY VolumesAssumption DEF Named, Entry, ParsedRow, Row, Owners
<1>2. \A n \in Names : table[n] \in Row \cup {None}
  BY DEF TypeOK, Table
<1>3. Named(f) \subseteq Names /\ None \notin Row
  BY VolumesAssumption DEF Named
<1>4. CASE Broken(f)
  BY <1>4 DEF LoadVolumes, TypeOK
<1>5. CASE ~Broken(f)
  <2>1. LoadVolumes(table, f) =
          [n \in Names |-> IF n \in Named(f) /\ table[n] = None THEN ParsedRow(f[n]) ELSE table[n]]
    BY <1>5 DEF LoadVolumes
  <2>2. \A n \in Names : LoadVolumes(table, f)[n] \in Row \cup {None}
    BY <1>1, <1>2, <2>1
  <2>3. LoadVolumes(table, f) \in Table
    BY <2>1, <2>2 DEF Table
  <2>4. QED
    BY <1>1, <1>3, <2>1, <2>3
<1>6. QED
  BY <1>4, <1>5

\* A request begins when its change of the table is committed.
Change(h, n) ==
  /\ Begin(h, n)
  /\ \/ \E row \in ApiRows : table' = [table EXCEPT ![n] = row] /\ gone' = gone \ {n}
     \/ table' = [table EXCEPT ![n] = None] /\ gone' = gone \cup {n}

LEMMA RequestsChange ==
  ASSUME NEW h \in Handlers, NEW n \in Names,
         \/ \E row \in ApiRows : AddVolume(h, n, row)
         \/ \E a \in Accounts \cup {None} : DeleteVolume(h, n, a)
  PROVE  Change(h, n)
BY DEF AddVolume, DeleteVolume, Change

-----------------------------------------------------------------------------
(***************************************************************************)
(* Types.                                                                  *)
(***************************************************************************)
LEMMA TypeStep ==
  ASSUME TypeOK, [Next]_vars
  PROVE  TypeOK'
<1> USE DEF requests, history
<1>1. CASE UNCHANGED vars
  BY <1>1 DEF TypeOK, vars
<1>2. Nothing \in Table
  BY DEF Nothing, Table
<1>3. CASE LoadConfig
  <2>1. file' \in Files /\ table' = LoadVolumes(table, file')
    BY <1>3 DEF LoadConfig
  <2>2. table' \in Table
    BY <2>1, LoadKeeps
  <2>3. QED
    BY <1>3, <2>2 DEF LoadConfig, TypeOK
<1>4. CASE MountAtStart
  BY <1>4 DEF MountAtStart, TypeOK
<1>5. CASE Crash
  BY <1>2, <1>5 DEF Crash, TypeOK
<1>6. ASSUME NEW h \in Handlers, NEW n \in Names, Change(h, n)
      PROVE  TypeOK'
  <2>1. table' \in Table
    BY <1>6, VolumesAssumption DEF Change, TypeOK, Table
  <2>2. disturbed' \in BOOLEAN /\ excused' \in BOOLEAN
    BY <1>6 DEF Change, Begin, TypeOK
  <2>3. QED
    BY <1>6, <2>1, <2>2 DEF Change, Begin, TypeOK
<1>7. ASSUME NEW h \in Handlers, ListVolumes(h)
      PROVE  TypeOK'
  BY <1>7 DEF ListVolumes, TypeOK
<1>8. ASSUME NEW h \in Handlers, Configure(h)
      PROVE  TypeOK'
  BY <1>2, <1>8 DEF Configure, EndRequest, Mounted, TypeOK
<1>9. ASSUME NEW h \in Handlers, ReloadFails(h)
      PROVE  TypeOK'
  BY <1>2, <1>9 DEF ReloadFails, EndRequest, TypeOK
<1>10. ASSUME NEW n \in Names, NEW a \in Accounts, ValidateMessage(n, a)
       PROVE  TypeOK'
  <2>1. draft' \in [name : Names, acct : Accounts, row : Row]
    BY <1>10, FoundIsRow DEF ValidateMessage
  <2>2. excused' \in BOOLEAN
    BY <1>10 DEF ValidateMessage, TypeOK
  <2>3. QED
    BY <1>10, <2>1, <2>2 DEF ValidateMessage, TypeOK
<1>11. CASE BuildMessage
  BY <1>11 DEF BuildMessage, TypeOK
<1>12. QED
  BY <1>1, <1>3, <1>4, <1>5, <1>6, <1>7, <1>8, <1>9, <1>10, <1>11, RequestsChange DEF Next

\* Every reachable state is well typed, and nothing is mounted or asked before the process is up.
THEOREM TypeCorrect == Spec => []TypeOK
<1>1. Nothing \in Table
  BY DEF Nothing, Table
<1>2. Init => TypeOK
  <2> SUFFICES ASSUME Init PROVE TypeOK
    OBVIOUS
  <2>1. disturbed \in BOOLEAN /\ excused \in BOOLEAN
    BY DEF Init
  <2>2. QED
    BY <1>1, <2>1 DEF Init, TypeOK
<1>3. QED
  BY <1>2, TypeStep, PTL DEF Spec

-----------------------------------------------------------------------------
(***************************************************************************)
(* What is mounted.                                                        *)
(***************************************************************************)

\* While nothing disturbed the requests, at most one of them is under way; what it has listed
\* is the table, and once it is done the table is what is mounted.
AtMostOne == \A g, h \in Handlers : Busy(g) /\ Busy(h) => g = h
ListIsTable == \A h \in Handlers : pc[h] = "configure" => seen[h] = table
IdleMeansMounted == (\A h \in Handlers : ~Busy(h)) => mounts = table

OneAtATime == up = "up" /\ ~disturbed => AtMostOne /\ ListIsTable /\ IdleMeansMounted

LEMMA OneAtATimeStep ==
  ASSUME TypeOK, OneAtATime, [Next]_vars
  PROVE  OneAtATime'
<1> USE DEF OneAtATime, AtMostOne, ListIsTable, IdleMeansMounted, Busy, requests, history
<1>1. CASE UNCHANGED vars
  BY <1>1 DEF vars
<1>2. CASE LoadConfig \/ Crash
  BY <1>2 DEF LoadConfig, Crash
<1>3. CASE MountAtStart
  BY <1>3 DEF MountAtStart, TypeOK
<1>4. ASSUME NEW h \in Handlers, NEW n \in Names, Change(h, n)
      PROVE  OneAtATime'
  BY <1>4 DEF Change, Begin, TypeOK
<1>5. ASSUME NEW h \in Handlers, ListVolumes(h)
      PROVE  OneAtATime'
  BY <1>5 DEF ListVolumes, TypeOK
<1>6. ASSUME NEW h \in Handlers, Configure(h)
      PROVE  OneAtATime'
  BY <1>6 DEF Configure, EndRequest, Mounted, TypeOK
<1>7. ASSUME NEW h \in Handlers, ReloadFails(h)
      PROVE  OneAtATime'
  BY <1>7 DEF ReloadFails
<1>8. CASE BuildMessage \/ \E n \in Names, a \in Accounts : ValidateMessage(n, a)
  BY <1>8 DEF ValidateMessage, BuildMessage
<1>9. QED
  BY <1>1, <1>2, <1>3, <1>4, <1>5, <1>6, <1>7, <1>8, RequestsChange DEF Next

\* Between requests the table is mounted, unless two of them overlapped or one broke off, for any
\* number of requests at a time.
THEOREM MountsFollowTable == Spec => []StaleOnlyIfDisturbed
<1>1. Init => OneAtATime
  BY DEF Init, OneAtATime
<1>2. TypeOK /\ OneAtATime => StaleOnlyIfDisturbed
  BY DEF TypeOK, OneAtATime, IdleMeansMounted, StaleOnlyIfDisturbed
<1>3. QED
  BY <1>1, <1>2, OneAtATimeStep, TypeCorrect, PTL DEF Spec

\* Until it is excused, the volume of a validated message is the same in the table, in every list
\* under way and among what is mounted.
SameEverywhere ==
  draft # None /\ ~excused =>
    /\ table[draft.name] = draft.row
    /\ up = "up" => mounts[draft.name] = draft.row
    /\ \A h \in Handlers : pc[h] = "configure" => seen[h][draft.name] = draft.row

LEMMA SameStep ==
  ASSUME TypeOK, OneAtATime, SameEverywhere, [Next]_vars
  PROVE  SameEverywhere'
<1> USE DEF SameEverywhere, requests, history
<1>1. draft # None => draft.name \in Names /\ draft.row \in Row /\ draft.row # None
  BY VolumesAssumption DEF TypeOK
<1>2. CASE UNCHANGED vars
  BY <1>2 DEF vars
<1>3. CASE LoadConfig
  <2>1. draft' = draft /\ pc' = pc /\ seen' = seen /\ excused' = excused /\ up' = "loaded"
    BY <1>3 DEF LoadConfig
  <2>2. draft # None /\ ~excused => table'[draft.name] = table[draft.name]
    BY <1>1, <1>3, LoadKeeps DEF LoadConfig
  <2>3. QED
    BY <2>1, <2>2
<1>4. CASE MountAtStart \/ Crash
  BY <1>1, <1>4 DEF MountAtStart, Crash
<1>5. ASSUME NEW h \in Handlers, NEW n \in Names, Change(h, n)
      PROVE  SameEverywhere'
  <2>1. draft' = draft /\ mounts' = mounts /\ up' = up /\ seen' = seen
    BY <1>5 DEF Change, Begin
  <2>2. draft # None /\ ~excused' => ~excused /\ n # draft.name
    BY <1>5 DEF Change, Begin
  <2>3. draft # None /\ ~excused' => table'[draft.name] = table[draft.name]
    BY <1>1, <1>5, <2>2 DEF Change, TypeOK, Table
  <2>4. \A g \in Handlers : pc'[g] = "configure" => pc[g] = "configure"
    BY <1>5 DEF Change, Begin, TypeOK
  <2>5. QED
    BY <2>1, <2>2, <2>3, <2>4
<1>6. ASSUME NEW h \in Handlers, ListVolumes(h)
      PROVE  SameEverywhere'
  BY <1>6 DEF ListVolumes, TypeOK
<1>7. ASSUME NEW h \in Handlers, Configure(h)
      PROVE  SameEverywhere'
  BY <1>7 DEF Configure, EndRequest, Mounted, TypeOK
<1>8. ASSUME NEW h \in Handlers, ReloadFails(h)
      PROVE  SameEverywhere'
  BY <1>8 DEF ReloadFails, EndRequest, TypeOK
<1>9. ASSUME NEW n \in Names, NEW a \in Accounts, ValidateMessage(n, a)
      PROVE  SameEverywhere'
  <2>1. draft' = [name |-> n, acct |-> a, row |-> table[n]]
    BY <1>9, FoundIsRow DEF ValidateMessage
  <2>2. ~excused' => ~disturbed /\ \A h \in Handlers : pc[h] = "idle"
    BY <1>9 DEF ValidateMessage, Busy
  <2>3. ~excused' => mounts = table
    BY <1>9, <2>2 DEF ValidateMessage, OneAtATime, IdleMeansMounted, Busy
  <2>4. table' = table /\ mounts' = mounts /\ pc' = pc
    BY <1>9 DEF ValidateMessage
  <2>5. draft'.name = n /\ draft'.row = table[n]
    BY <2>1
  <2>6. QED
    BY <2>2, <2>3, <2>4, <2>5
<1>10. CASE BuildMessage
  BY <1>10 DEF BuildMessage
<1>11. QED
  BY <1>2, <1>3, <1>4, <1>5, <1>6, <1>7, <1>8, <1>9, <1>10, RequestsChange DEF Next

\* A message that waits finds its attachment where it was validated, over any number of restarts
\* and of requests for other volumes.
THEOREM AttachmentsStay == Spec => []ValidatedIsMounted
<1>1. Init => OneAtATime /\ SameEverywhere
  BY DEF Init, OneAtATime, SameEverywhere
<1>2. SameEverywhere => ValidatedIsMounted
  BY DEF SameEverywhere, ValidatedIsMounted
<1>3. QED
  BY <1>1, <1>2, OneAtATimeStep, SameStep, TypeCorrect, PTL DEF Spec

-----------------------------------------------------------------------------
(***************************************************************************)
(* The file.                                                               *)
(***************************************************************************)

LEMMA PresentStep ==
  ASSUME TypeOK, FileVolumesPresent, [Next]_vars
  PROVE  FileVolumesPresent'
<1> USE DEF FileVolumesPresent, Broken, Named, history
<1>1. CASE UNCHANGED vars
  BY <1>1 DEF vars
<1>2. CASE LoadConfig
  BY <1>2, LoadKeeps DEF LoadConfig
<1>3. CASE MountAtStart \/ Crash
  BY <1>3 DEF MountAtStart, Crash
<1>4. ASSUME NEW h \in Handlers, NEW n \in Names, Change(h, n)
      PROVE  FileVolumesPresent'
  <2>1. file' = file /\ up' = up /\ up = "up"
    BY <1>4 DEF Change, Begin
  <2>2. \A m \in Names : table[m] # None \/ m \in gone => table'[m] # None \/ m \in gone'
    BY <1>4, VolumesAssumption DEF Change, TypeOK, Table
  <2>3. QED
    BY <2>1, <2>2
<1>5. CASE \E h \in Handlers : ListVolumes(h) \/ Configure(h) \/ ReloadFails(h)
  BY <1>5 DEF ListVolumes, Configure, ReloadFails
<1>6. CASE BuildMessage \/ \E n \in Names, a \in Accounts : ValidateMessage(n, a)
  BY <1>6 DEF ValidateMessage, BuildMessage
<1>7. QED
  BY <1>1, <1>2, <1>3, <1>4, <1>5, <1>6, RequestsChange DEF Next

\* After a start the volumes of the file are all there, or have been deleted by request, or none
\* was taken because one entry is broken.
THEOREM FileIsLoaded == Spec => []FileVolumesPresent
<1>1. Init => FileVolumesPresent
  BY DEF Init, FileVolumesPresent
<1>2. QED
  BY <1>1, PresentStep, TypeCorrect, PTL DEF Spec

\* No start changes a row that is there, whatever the file says of its name.
THEOREM RestartKeeps == Spec => RestartKeepsRows
<1>1. TypeOK /\ [Next]_vars =>
        [\A n \in Names : table[n] # None /\ table'[n] # table[n] => up = "up"]_vars
  <2> SUFFICES ASSUME TypeOK, Next, NEW n \in Names, table[n] # None, table'[n] # table[n]
               PROVE  up = "up"
    OBVIOUS
  <2>1. CASE LoadConfig
    BY <2>1, LoadKeeps DEF LoadConfig
  <2>2. ASSUME NEW h \in Handlers, NEW m \in Names, Change(h, m)
        PROVE  up = "up"
    BY <2>2 DEF Change, Begin
  <2>3. CASE \/ MountAtStart \/ Crash \/ BuildMessage
             \/ \E h \in Handlers : ListVolumes(h) \/ Configure(h) \/ ReloadFails(h)
             \/ \E m \in Names, a \in Accounts : ValidateMessage(m, a)
    BY <2>3 DEF MountAtStart, Crash, BuildMessage, ListVolumes, Configure, ReloadFails, ValidateMessage
  <2>4. QED
    BY <2>1, <2>2, <2>3, RequestsChange DEF Next
<1>2. QED
  BY <1>1, TypeCorrect, PTL DEF Spec, RestartKeepsRows
=============================================================================
