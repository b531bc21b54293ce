--------------------------- MODULE MailStoreProofs ---------------------------
(***************************************************************************)
(* What the statements of MailStore return, for every table: they keep its *)
(* type, and each of them changes only what it is for.                     *)
(***************************************************************************)
EXTENDS MailStore, TLAPS

\* INSERT ... ON CONFLICT: the result is a table (persistence.py 187-227).
LEMMA UpsertType ==
  ASSUME NEW tbl \in Table, NEW item \in Item, NEW stamp \in Nat
  PROVE  UpsertMessage(tbl, item, stamp) \in Table
<1> DEFINE created == IF Present(tbl, item.id) THEN tbl[item.id].created ELSE stamp
<1>1. item.id \in MsgIds
  BY DEF Item
<1>2. created \in Nat
  BY <1>1 DEF Table, Row, Present
<1>3. NewRow(item, created) \in Row
  BY <1>2, StoreAssumption DEF NewRow, Row, Payload, Item, Never
<1>4. QED
  BY <1>1, <1>3 DEF UpsertMessage, Table

\* Zero ticks is a deferral, no report is an age.
LEMMA RowBounds ==
  0 \in 0 .. MaxWait /\ Never \in Never .. Retention + 1 /\ 0 \in Never .. Retention + 1
BY StoreAssumption DEF Never

\* The updates keep the type of the table (persistence.py 248-317).
LEMMA UpdateTypes ==
  ASSUME NEW tbl \in Table, NEW id \in MsgIds
  PROVE  /\ \A ticks \in 0 .. MaxWait : SetDeferred(tbl, id, ticks) \in Table
         /\ ClearDeferred(tbl, id) \in Table
         /\ MarkSent(tbl, id) \in Table
         /\ MarkError(tbl, id) \in Table
         /\ \A p \in Payload : UpdateMessagePayload(tbl, id, p) \in Table
<1> DEFINE row == tbl[id]
<1>1. CASE ~Present(tbl, id)
  BY <1>1 DEF SetDeferred, ClearDeferred, MarkSent, MarkError, UpdateMessagePayload, At,
              HasStatus
<1>2. CASE Present(tbl, id)
  <2>1. row \in Row
    BY <1>2 DEF Table, Present
  <2> HIDE DEF row
  <2>2. \A ticks \in 0 .. MaxWait : [row EXCEPT !.wait = ticks] \in Row
    BY <2>1 DEF Row
  <2>3. [row EXCEPT !.status = "sent", !.wait = 0, !.reported = Never] \in Row
    BY <2>1, RowBounds DEF Row
  <2>4. [row EXCEPT !.status = "error", !.wait = 0, !.reported = Never] \in Row
    BY <2>1, RowBounds DEF Row
  <2>5. \A p \in Payload : [row EXCEPT !.payload = p] \in Row
    BY <2>1 DEF Row
  <2>6. \A new \in Row : [tbl EXCEPT ![id] = new] \in Table
    BY DEF Table
  <2>7. \A ticks \in 0 .. MaxWait :
          [tbl EXCEPT ![id].wait = ticks] = [tbl EXCEPT ![id] = [row EXCEPT !.wait = ticks]]
    BY DEF row
  <2>8. QED
    BY <1>2, <2>2, <2>3, <2>4, <2>5, <2>6, <2>7, RowBounds
       DEF SetDeferred, ClearDeferred, MarkSent, MarkError, UpdateMessagePayload, At, row
<1>3. QED
  BY <1>1, <1>2

\* The deletions and the statements on many rows keep the type (persistence.py 152-158,
\* 319-324, 368-402).
LEMMA SweepTypes ==
  ASSUME NEW tbl \in Table
  PROVE  /\ \A ids : MarkReported(tbl, ids) \in Table
         /\ \A age : RemoveReportedBefore(tbl, age) \in Table
         /\ \A id \in MsgIds : DeleteMessageRow(tbl, id) \in Table
         /\ \A a : DeleteAccountRows(tbl, a) \in Table
<1>1. \A id \in MsgIds : Present(tbl, id) => [tbl[id] EXCEPT !.reported = 0] \in Row
  BY RowBounds DEF Table, Row, Present
<1>2. \A ids : MarkReported(tbl, ids) \in Table
  BY <1>1 DEF MarkReported, Table
<1>3. QED
  BY <1>2 DEF RemoveReportedBefore, DeleteMessageRow, DeleteAccountRows, Table

\* An older row is a row: no deferral falls below zero, no age passes its bound.
LEMMA AgedRow ==
  ASSUME NEW row \in Row
  PROVE  AgeRow(row) \in Row
<1>1. (IF row.wait = 0 THEN 0 ELSE row.wait - 1) \in 0 .. MaxWait
  BY StoreAssumption DEF Row
<1>2. (IF row.reported = Never THEN Never
       ELSE IF row.reported > Retention THEN Retention + 1
       ELSE row.reported + 1) \in Never .. Retention + 1
  BY StoreAssumption DEF Row, Never
<1>3. QED
  BY <1>1, <1>2 DEF AgeRow, Row

\* The clock keeps the type of the table.
LEMMA AgeType ==
  ASSUME NEW tbl \in Table
  PROVE  Age(tbl) \in Table
<1>1. \A id \in MsgIds : Present(tbl, id) => tbl[id] \in Row
  BY DEF Table, Present
<1>2. QED
  BY <1>1, AgedRow DEF Age, Table

-----------------------------------------------------------------------------
(***************************************************************************)
(* What the statements leave alone.                                        *)
(***************************************************************************)

\* No row appears, none gets another payload, none is queued that was not.
Tame(old, new) ==
  \A id \in MsgIds :
    Present(new, id) =>
      /\ Present(old, id)
      /\ new[id].payload = old[id].payload
      /\ new[id].status = "queued" => old[id].status = "queued"

NoNewSent(old, new) ==
  \A id \in MsgIds : HasStatus(new, id, "sent") => HasStatus(old, id, "sent")

\* set_deferred, clear_deferred, mark_sent and mark_error are tame, and only mark_sent makes
\* a row sent (persistence.py 248-304).
LEMMA UpdatesAreTame ==
  ASSUME NEW tbl \in Table, NEW id \in MsgIds, NEW ticks \in 0 .. MaxWait
  PROVE  /\ Tame(tbl, SetDeferred(tbl, id, ticks)) /\ NoNewSent(tbl, SetDeferred(tbl, id, ticks))
         /\ Tame(tbl, ClearDeferred(tbl, id)) /\ NoNewSent(tbl, ClearDeferred(tbl, id))
         /\ Tame(tbl, MarkError(tbl, id)) /\ NoNewSent(tbl, MarkError(tbl, id))
         /\ Tame(tbl, MarkSent(tbl, id))
<1> DEFINE row == tbl[id]
<1>1. CASE ~Present(tbl, id)
  BY <1>1 DEF SetDeferred, ClearDeferred, MarkSent, MarkError, At, HasStatus, Tame, NoNewSent
<1>2. CASE Present(tbl, id)
  <2>1. row \in Row
    BY <1>2 DEF Table, Present
  <2>2. ASSUME NEW new \in Row, new.payload = row.payload,
               new.status = "queued" => row.status = "queued"
        PROVE  /\ Tame(tbl, [tbl EXCEPT ![id] = new])
               /\ (new.status = "sent" => row.status = "sent")
                  => NoNewSent(tbl, [tbl EXCEPT ![id] = new])
    BY <1>2, <2>2 DEF Tame, NoNewSent, HasStatus, Present, Table
  <2> HIDE DEF row
  <2>3. /\ [row EXCEPT !.wait = ticks] \in Row
        /\ [row EXCEPT !.wait = ticks].payload = row.payload
        /\ [row EXCEPT !.wait = ticks].status = row.status
    BY <2>1 DEF Row
  <2>4. /\ [row EXCEPT !.wait = 0] \in Row
        /\ [row EXCEPT !.wait = 0].payload = row.payload
        /\ [row EXCEPT !.wait = 0].status = row.status
    BY <2>1, RowBounds DEF Row
  <2>5. ASSUME NEW s \in {"sent", "error"}
        PROVE  /\ [row EXCEPT !.status = s, !.wait = 0, !.reported = Never] \in Row
               /\ [row EXCEPT !.status = s, !.wait = 0, !.reported = Never].payload = row.payload
               /\ [row EXCEPT !.status = s, !.wait = 0, !.reported = Never].status = s
    BY <2>1, RowBounds DEF Row
  <2>6. [tbl EXCEPT ![id].wait = ticks] = [tbl EXCEPT ![id] = [row EXCEPT !.wait = ticks]]
    BY DEF row
  <2>7. Tame(tbl, tbl) /\ NoNewSent(tbl, tbl)
    BY DEF Tame, NoNewSent
  <2>8. /\ Tame(tbl, SetDeferred(tbl, id, ticks)) /\ NoNewSent(tbl, SetDeferred(tbl, id, ticks))
    BY <2>2, <2>3, <2>6, <2>7 DEF SetDeferred
  <2>9. /\ Tame(tbl, ClearDeferred(tbl, id)) /\ NoNewSent(tbl, ClearDeferred(tbl, id))
    BY <1>2, <2>2, <2>4 DEF ClearDeferred, At, row
  <2>10. /\ Tame(tbl, MarkError(tbl, id)) /\ NoNewSent(tbl, MarkError(tbl, id))
    BY <1>2, <2>2, <2>5 DEF MarkError, At, row
  <2>11. Tame(tbl, MarkSent(tbl, id))
    BY <1>2, <2>2, <2>5 DEF MarkSent, At, row
  <2>12. QED
    BY <2>8, <2>9, <2>10, <2>11
<1>3. QED
  BY <1>1, <1>2

\* Once marked, the message is not queued any more.
LEMMA MarkedIsNotQueued ==
  ASSUME NEW tbl \in Table, NEW id \in MsgIds
  PROVE  /\ ~HasStatus(MarkSent(tbl, id), id, "queued")
         /\ ~HasStatus(MarkError(tbl, id), id, "queued")
         /\ \A x \in MsgIds \ {id} : MarkSent(tbl, id)[x] = tbl[x]
<1>1. CASE ~Present(tbl, id)
  BY <1>1 DEF MarkSent, MarkError, At, HasStatus
<1>2. CASE Present(tbl, id)
  <2>1. /\ [tbl[id] EXCEPT !.status = "sent", !.wait = 0, !.reported = Never].status = "sent"
        /\ [tbl[id] EXCEPT !.status = "error", !.wait = 0, !.reported = Never].status = "error"
    BY <1>2 DEF Present, Table, Row
  <2>2. QED
    BY <1>2, <2>1 DEF MarkSent, MarkError, At, HasStatus, Table
<1>3. QED
  BY <1>1, <1>2

\* So are the statements on many rows, the deletions and the clock.
LEMMA SweepsAreTame ==
  ASSUME NEW tbl \in Table
  PROVE  /\ \A ids : Tame(tbl, MarkReported(tbl, ids)) /\ NoNewSent(tbl, MarkReported(tbl, ids))
         /\ \A age : Tame(tbl, RemoveReportedBefore(tbl, age))
                      /\ NoNewSent(tbl, RemoveReportedBefore(tbl, age))
         /\ \A id \in MsgIds : Tame(tbl, DeleteMessageRow(tbl, id))
                              /\ NoNewSent(tbl, DeleteMessageRow(tbl, id))
         /\ \A a : Tame(tbl, DeleteAccountRows(tbl, a)) /\ NoNewSent(tbl, DeleteAccountRows(tbl, a))
         /\ Tame(tbl, Age(tbl)) /\ NoNewSent(tbl, Age(tbl))
<1>1. \A ids : Tame(tbl, MarkReported(tbl, ids)) /\ NoNewSent(tbl, MarkReported(tbl, ids))
  <2>1. \A id \in MsgIds : Present(tbl, id) =>
          /\ [tbl[id] EXCEPT !.reported = 0].payload = tbl[id].payload
          /\ [tbl[id] EXCEPT !.reported = 0].status = tbl[id].status
    BY DEF Present, Table, Row
  <2>2. QED
    BY <2>1 DEF MarkReported, Tame, NoNewSent, HasStatus, Present
<1>2. \A age : Tame(tbl, RemoveReportedBefore(tbl, age))
               /\ NoNewSent(tbl, RemoveReportedBefore(tbl, age))
  BY DEF RemoveReportedBefore, Tame, NoNewSent, HasStatus, Present
<1>3. \A id \in MsgIds : Tame(tbl, DeleteMessageRow(tbl, id))
                       /\ NoNewSent(tbl, DeleteMessageRow(tbl, id))
  BY DEF DeleteMessageRow, Tame, NoNewSent, HasStatus, Present, Table
<1>4. \A a : Tame(tbl, DeleteAccountRows(tbl, a)) /\ NoNewSent(tbl, DeleteAccountRows(tbl, a))
  BY DEF DeleteAccountRows, Tame, NoNewSent, HasStatus, Present
<1>5. Tame(tbl, Age(tbl)) /\ NoNewSent(tbl, Age(tbl))
  <2>1. \A id \in MsgIds : Present(tbl, id) =>
          /\ AgeRow(tbl[id]).payload = tbl[id].payload
          /\ AgeRow(tbl[id]).status = tbl[id].status
    BY DEF Present, Table, Row, AgeRow
  <2>2. QED
    BY <2>1 DEF Age, Tame, NoNewSent, HasStatus, Present
<1>6. QED
  BY <1>1, <1>2, <1>3, <1>4, <1>5

\* An upsert touches one row, which then carries the item in the queue, unless the row was sent
\* already (persistence.py 203-222).
LEMMA UpsertEffect ==
  ASSUME NEW tbl \in Table, NEW item \in Item, NEW stamp \in Nat
  PROVE  LET new == UpsertMessage(tbl, item, stamp)
         IN  /\ \A id \in MsgIds \ {item.id} : new[id] = tbl[id]
             /\ \/ new = tbl
                \/ /\ HasStatus(new, item.id, "queued")
                   /\ new[item.id].payload.ver = item.ver
                   /\ new[item.id].payload.retry = 0
<1> DEFINE created == IF Present(tbl, item.id) THEN tbl[item.id].created ELSE stamp
<1>1. item.id \in MsgIds
  BY DEF Item
<1>2. UpsertMessage(tbl, item, stamp) \in Table
  BY UpsertType
<1>3. /\ NewRow(item, created).status = "queued"
      /\ NewRow(item, created).payload.ver = item.ver
      /\ NewRow(item, created).payload.retry = 0
  BY DEF NewRow
<1>4. created \in Nat
  BY <1>1 DEF Table, Row, Present
<1>5. NewRow(item, created) \in Row
  BY <1>4, StoreAssumption DEF NewRow, Row, Payload, Item, Never
<1>6. NewRow(item, created) # None
  BY <1>5, StoreAssumption
<1>7. QED
  BY <1>1, <1>3, <1>6 DEF UpsertMessage, HasStatus, Present, Table

\* A payload that is written back replaces that of its row and nothing else (persistence.py
\* 306-317).
LEMMA PayloadEffect ==
  ASSUME NEW tbl \in Table, NEW id \in MsgIds, NEW p \in Payload
  PROVE  LET new == UpdateMessagePayload(tbl, id, p)
         IN  /\ \A x \in MsgIds \ {id} : new[x] = tbl[x]
             /\ \A s : HasStatus(new, id, s) <=> HasStatus(tbl, id, s)
             /\ Present(new, id) <=> Present(tbl, id)
             /\ Present(new, id) => new[id].payload = p
<1>1. CASE ~Present(tbl, id)
  BY <1>1 DEF UpdateMessagePayload, At
<1>2. CASE Present(tbl, id)
  <2>1. tbl[id] \in Row
    BY <1>2 DEF Present, Table
  <2>2. /\ [tbl[id] EXCEPT !.payload = p] \in Row
        /\ [tbl[id] EXCEPT !.payload = p].payload = p
        /\ [tbl[id] EXCEPT !.payload = p].status = tbl[id].status
    BY <2>1 DEF Row
  <2>3. [tbl[id] EXCEPT !.payload = p] # None
    BY <2>2, StoreAssumption
  <2>4. QED
    BY <1>2, <2>2, <2>3 DEF UpdateMessagePayload, At, HasStatus, Present, Table
<1>3. QED
  BY <1>1, <1>2

\* Every row of old is in new.
RowsKept(old, new) == \A x \in MsgIds : Present(old, x) => Present(new, x)

\* No update and no upsert loses a row (persistence.py 187-317).
LEMMA UpdatesKeepRows ==
  ASSUME NEW tbl \in Table, NEW id \in MsgIds
  PROVE  /\ \A ticks \in 0 .. MaxWait : RowsKept(tbl, SetDeferred(tbl, id, ticks))
         /\ RowsKept(tbl, ClearDeferred(tbl, id))
         /\ RowsKept(tbl, MarkSent(tbl, id))
         /\ RowsKept(tbl, MarkError(tbl, id))
         /\ \A p \in Payload : RowsKept(tbl, UpdateMessagePayload(tbl, id, p))
<1> DEFINE row == tbl[id]
<1>1. CASE ~Present(tbl, id)
  BY <1>1 DEF SetDeferred, ClearDeferred, MarkSent, MarkError, UpdateMessagePayload, At,
              HasStatus, RowsKept
<1>2. CASE Present(tbl, id)
  <2>1. row \in Row
    BY <1>2 DEF Table, Present
  <2>2. \A new \in Row : RowsKept(tbl, [tbl EXCEPT ![id] = new])
    BY StoreAssumption DEF RowsKept, Present, Table
  <2> HIDE DEF row
  <2>3. \A ticks \in 0 .. MaxWait : [row EXCEPT !.wait = ticks] \in Row
    BY <2>1 DEF Row
  <2>4. [row EXCEPT !.status = "sent", !.wait = 0, !.reported = Never] \in Row
    BY <2>1, RowBounds DEF Row
  <2>5. [row EXCEPT !.status = "error", !.wait = 0, !.reported = Never] \in Row
    BY <2>1, RowBounds DEF Row
  <2>6. \A p \in Payload : [row EXCEPT !.payload = p] \in Row
    BY <2>1 DEF Row
  <2>7. \A ticks \in 0 .. MaxWait :
          [tbl EXCEPT ![id].wait = ticks] = [tbl EXCEPT ![id] = [row EXCEPT !.wait = ticks]]
    BY DEF row
  <2>8. RowsKept(tbl, tbl)
    BY DEF RowsKept
  <2>9. QED
    BY <1>2, <2>2, <2>3, <2>4, <2>5, <2>6, <2>7, <2>8, RowBounds
       DEF SetDeferred, ClearDeferred, MarkSent, MarkError, UpdateMessagePayload, At, row
<1>3. QED
  BY <1>1, <1>2

\* Nor do an upsert, mark_reported and the clock.
LEMMA SweepsKeepRows ==
  ASSUME NEW tbl \in Table
  PROVE  /\ \A item \in Item, stamp \in Nat : RowsKept(tbl, UpsertMessage(tbl, item, stamp))
         /\ \A ids : RowsKept(tbl, MarkReported(tbl, ids))
         /\ RowsKept(tbl, Age(tbl))
<1>1. ASSUME NEW item \in Item, NEW stamp \in Nat
      PROVE  RowsKept(tbl, UpsertMessage(tbl, item, stamp))
  <2>1. item.id \in MsgIds
    BY DEF Item
  <2>2. \A x \in MsgIds \ {item.id} : UpsertMessage(tbl, item, stamp)[x] = tbl[x]
    BY UpsertEffect
  <2>3. \/ UpsertMessage(tbl, item, stamp) = tbl
        \/ HasStatus(UpsertMessage(tbl, item, stamp), item.id, "queued")
    BY UpsertEffect
  <2>4. QED
    BY <2>1, <2>2, <2>3 DEF RowsKept, Present, HasStatus
<1>2. \A x \in MsgIds : Present(tbl, x) => tbl[x] \in Row
  BY DEF Table, Present
<1>3. \A ids : RowsKept(tbl, MarkReported(tbl, ids))
  <2>1. \A row \in Row : [row EXCEPT !.reported = 0] \in Row
    BY RowBounds DEF Row
  <2>2. \A row \in Row : row # None
    BY StoreAssumption
  <2>3. QED
    BY <1>2, <2>1, <2>2 DEF RowsKept, MarkReported, Present
<1>4. RowsKept(tbl, Age(tbl))
  <2>1. \A x \in MsgIds : Present(tbl, x) => Age(tbl)[x] = AgeRow(tbl[x])
    BY DEF Age
  <2>2. \A row \in Row : AgeRow(row) \in Row
    BY AgedRow
  <2>3. QED
    BY <1>2, <2>1, <2>2, StoreAssumption DEF RowsKept, Present
<1>5. QED
  BY <1>1, <1>3, <1>4

\* Every row of new was in old.
NoneMade(old, new) == \A x \in MsgIds : Present(new, x) => Present(old, x)

\* Updates and deletions make no row: the one that is not there stays so (persistence.py 187-353).
LEMMA OnlyUpsertMakes ==
  ASSUME NEW tbl \in Table, NEW id \in MsgIds
  PROVE  /\ \A ticks : NoneMade(tbl, SetDeferred(tbl, id, ticks))
         /\ NoneMade(tbl, ClearDeferred(tbl, id))
         /\ NoneMade(tbl, MarkSent(tbl, id))
         /\ NoneMade(tbl, MarkError(tbl, id))
         /\ \A p : NoneMade(tbl, UpdateMessagePayload(tbl, id, p))
         /\ NoneMade(tbl, DeleteMessageRow(tbl, id))
<1>1. \A row : NoneMade(tbl, At(tbl, id, row))
  BY DEF NoneMade, At, Present, Table
<1>2. \A ticks : NoneMade(tbl, SetDeferred(tbl, id, ticks))
  BY DEF NoneMade, SetDeferred, HasStatus, Present, Table
<1>3. NoneMade(tbl, DeleteMessageRow(tbl, id))
  BY DEF NoneMade, DeleteMessageRow, Present, Table
<1>4. QED
  BY <1>1, <1>2, <1>3 DEF ClearDeferred, MarkSent, MarkError, UpdateMessagePayload

LEMMA SweepsMakeNone ==
  ASSUME NEW tbl \in Table
  PROVE  /\ \A ids : NoneMade(tbl, MarkReported(tbl, ids))
         /\ \A age : NoneMade(tbl, RemoveReportedBefore(tbl, age))
         /\ \A a : NoneMade(tbl, DeleteAccountRows(tbl, a))
         /\ NoneMade(tbl, Age(tbl))
BY DEF NoneMade, MarkReported, RemoveReportedBefore, DeleteAccountRows, Age, Present
=============================================================================
