------------------------- MODULE ZinaInbox_proofs -------------------------
(* The receive pipeline implements the safe part of ZinaInbox, and what it   *)
(* was told to accept is held: for every set of sessions, any number of      *)
(* hand-overs, ends of the process and failing callbacks, if no SQL          *)
(* statement fails.                                                          *)
EXTENDS ZinaReceive_proofs

USE ConstantsAssumption

----------------------------------------------------------------------------
(* The inductive invariant.                                                 *)

\* A message that was handed over has its raw row, or a fate: its hash is
\* stored or it was refused (R).
Live(d, R, m) == HasRow(d.raw, m) \/ m \in d.hashes \/ m \in R

\* An item of the queue or of the retry's list names the raw row of its own
\* message, or none, and then the message has a fate.
RawNamed(d, R, seq, m) == NamesRow(d.raw, seq, m) /\ Live(d, R, m)
RawOK(d, R, list) ==
    \A k \in 1 .. Len(list) : list[k].cmd = "ReceivedRawData" =>
        RawNamed(d, R, list[k].seq, list[k].msg)

\* The transport reads its number with a second statement: until then it is
\* the last one given out.
TransportOK(d, R) ==
    /\ tpc = "inserted"  => RawNamed(d, R, d.raw.last, tmsg)
    /\ tpc = "sequenced" => RawNamed(d, R, tseq, tmsg)

\* What the transport was told OK for, up to the end of the process.
AcceptedOK(d, R) ==
    crashes = 0 => \A k \in 1 .. Len(accepted) : Live(d, R, accepted[k])

RowsInv ==
    /\ GoodTable(db.raw) /\ GoodTable(disk.raw) /\ disk.raw.rows \subseteq db.raw.rows
    /\ RawOK(db, rejected, queue) /\ RawOK(db, rejected, rlist)
    /\ TransportOK(db, rejected)
    /\ AcceptedOK(db, rejected)

\* What is shown is hashed, and what was refused stays closed: no key for it
\* comes back, so it is never shown.
Closed(d) == \A m \in rejected : KeyGone(d, m) /\ m \notin d.hashes
FateInv ==
    /\ events \subseteq disk.hashes
    /\ qpc \in {"deliver", "delivered"} => Front.msg \in db.hashes
    /\ Closed(db) /\ Closed(disk)
    /\ qpc \in {"decrypted", "tx", "stored"} => Front.msg \notin rejected
    /\ qpc \in {"decrypted", "tx"} =>
         \A m \in rejected : m.s = Front.msg.s => db.nr[m.s] # NoConv

\* Until the process ends, every message that is not hashed has its key, in
\* the database or in the decryption under way.
Opening(m) == qpc \in {"decrypted", "tx"} /\ m.s = Front.msg.s
FreshInv ==
    crashes = 0 =>
      /\ rejected = {}
      /\ \A m \in Msgs \ db.hashes :
           IF Opening(m) THEN \/ m = Front.msg \/ m \in db.staged
                              \/ m \in cur.staged \/ m.i >= cur.nr
                         ELSE ~KeyGone(db, m)

InboxInv == KeyInv /\ ListInv /\ HeldInv /\ RowsInv /\ FateInv
----------------------------------------------------------------------------
(* Rows of the raw table and the items that name them.                      *)

\* A later state of the raw table: rows go, new ones get new numbers, and no
\* message loses its row without a fate.
Later(d, R, e, S) ==
    /\ d.raw.last <= e.raw.last
    /\ \A r \in e.raw.rows : r \in d.raw.rows \/ d.raw.last < r.seq
    /\ \A m \in Msgs : Live(d, R, m) => Live(e, S, m)

LEMMA RawNamedKept ==
  ASSUME NEW d \in Database, NEW e \in Database, NEW R, NEW S, Later(d, R, e, S),
         NEW seq \in Nat, NEW m \in Msgs, RawNamed(d, R, seq, m)
  PROVE  RawNamed(e, S, seq, m)
<1>1. d.raw.last \in Nat /\ e.raw.last \in Nat /\ \A r \in e.raw.rows : r.seq \in Nat
  BY DEF Database, Table, Row
<1> QED
  BY <1>1 DEF Later, RawNamed, NamesRow

LEMMA RawKept ==
  ASSUME NEW d \in Database, NEW e \in Database, NEW R, NEW S, Later(d, R, e, S),
         NEW list \in Seq(Item), RawOK(d, R, list)
  PROVE  RawOK(e, S, list)
<1> SUFFICES ASSUME NEW k \in 1 .. Len(list), list[k].cmd = "ReceivedRawData"
             PROVE  RawNamed(e, S, list[k].seq, list[k].msg)
  BY DEF RawOK
<1>1. list[k] \in Item
  OBVIOUS
<1>2. list[k].seq \in Nat /\ list[k].msg \in Msgs
  BY <1>1 DEF Item
<1>3. RawNamed(d, R, list[k].seq, list[k].msg)
  BY DEF RawOK
<1> QED
  BY <1>2, <1>3, RawNamedKept

LEMMA RawSpliced ==
  ASSUME NEW d, NEW R, NEW q \in Seq(Item), NEW r \in Seq(Item),
         RawOK(d, R, q), RawOK(d, R, r)
  PROVE  RawOK(d, R, q \o r)
<1> SUFFICES ASSUME NEW k \in 1 .. Len(q \o r), (q \o r)[k].cmd = "ReceivedRawData"
             PROVE  RawNamed(d, R, (q \o r)[k].seq, (q \o r)[k].msg)
  BY DEF RawOK
<1>1. CASE k <= Len(q)
  <2>1. (q \o r)[k] = q[k] /\ k \in 1 .. Len(q)
    BY <1>1
  <2> QED
    BY <2>1 DEF RawOK
<1>2. CASE k > Len(q)
  <2>1. (q \o r)[k] = r[k - Len(q)] /\ k - Len(q) \in 1 .. Len(r)
    BY <1>2
  <2> QED
    BY <2>1 DEF RawOK
<1> QED
  BY <1>1, <1>2

LEMMA RawAppended ==
  ASSUME NEW d, NEW R, NEW q \in Seq(Item), NEW x \in Item, RawOK(d, R, q),
         x.cmd = "ReceivedRawData" => RawNamed(d, R, x.seq, x.msg)
  PROVE  RawOK(d, R, Append(q, x))
  BY DEF RawOK

LEMMA RawPopped ==
  ASSUME NEW d, NEW R, NEW q \in Seq(Item), q # <<>>, RawOK(d, R, q)
  PROVE  /\ RawOK(d, R, Tail(q))
         /\ q[1].cmd = "ReceivedRawData" => RawNamed(d, R, q[1].seq, q[1].msg)
<1>1. \A k \in 1 .. Len(Tail(q)) : Tail(q)[k] = q[k + 1] /\ k + 1 \in 1 .. Len(q)
  OBVIOUS
<1> QED
  BY <1>1 DEF RawOK

LEMMA ReceiptRaw ==
  ASSUME NEW d, NEW R, NEW m \in Msgs
  PROVE  RawOK(d, R, Receipt(m))
  BY DEF RawOK, Receipt, SendItem

\* The raw table as it was.
LEMMA SameRawLater ==
  ASSUME NEW d \in Database, NEW e \in Database, NEW R, NEW S,
         e.raw = d.raw, d.hashes \subseteq e.hashes, R \subseteq S
  PROVE  Later(d, R, e, S)
<1>1. d.raw.last \in Nat
  BY DEF Database, Table
<1> QED
  BY <1>1 DEF Later, Live, HasRow

\* The row of a message that has a fate is deleted by its number.
LEMMA DeleteLater ==
  ASSUME NEW d \in Database, NEW e \in Database, NEW R, NEW S, NEW seq \in Nat,
         NEW m \in Msgs, NamesRow(d.raw, seq, m), e.raw = Delete(d.raw, seq),
         m \in e.hashes \cup S, d.hashes \subseteq e.hashes, R \subseteq S
  PROVE  Later(d, R, e, S) /\ e.raw.last = d.raw.last
<1>1. /\ e.raw.last = d.raw.last
      /\ e.raw.rows = {r \in d.raw.rows : r.seq # seq}
  BY DEF Delete, Database, Table
<1>2. d.raw.last \in Nat
  BY DEF Database, Table
<1>3. \A x \in Msgs : HasRow(d.raw, x) => HasRow(e.raw, x) \/ x = m
  BY <1>1 DEF HasRow, NamesRow
<1>4. \A x \in Msgs : Live(d, R, x) => Live(e, S, x)
  BY <1>3 DEF Live
<1> QED
  BY <1>1, <1>2, <1>4 DEF Later

LEMMA InsertLater ==
  ASSUME NEW d \in Database, NEW e \in Database, NEW R, NEW m \in Msgs,
         e = [d EXCEPT !.raw = Insert(@, m)], GoodTable(d.raw)
  PROVE  Later(d, R, e, R) /\ RawNamed(e, R, e.raw.last, m)
<1>1. /\ e.raw.last = d.raw.last + 1 /\ e.hashes = d.hashes
      /\ e.raw.rows = d.raw.rows \cup {[seq |-> d.raw.last + 1, msg |-> m]}
  BY DEF Insert, Database
<1>2. d.raw.last \in Nat /\ \A r \in d.raw.rows : r.seq \in Nat /\ r.seq <= d.raw.last
  BY DEF Database, Table, Row, GoodTable
<1>3. \A x \in Msgs : HasRow(d.raw, x) => HasRow(e.raw, x)
  BY <1>1 DEF HasRow
<1>4. Later(d, R, e, R)
  BY <1>1, <1>2, <1>3 DEF Later, Live
<1>5. HasRow(e.raw, m)
  <2>1. [seq |-> d.raw.last + 1, msg |-> m] \in e.raw.rows
    BY <1>1
  <2> QED
    BY <2>1 DEF HasRow
<1>6. NamesRow(e.raw, e.raw.last, m)
  BY <1>1, <1>2 DEF NamesRow
<1> QED
  BY <1>4, <1>5, <1>6 DEF RawNamed, Live

LEMMA TransportKept ==
  ASSUME TypeOK, TypeOK', TransportOK(db, rejected), UNCHANGED transVars,
         Later(db, rejected, db', rejected'), db'.raw.last = db.raw.last
  PROVE  TransportOK(db, rejected)'
<1>1. /\ db \in Database /\ db' \in Database /\ tmsg \in Msgs /\ tseq \in Nat
      /\ db.raw.last \in Nat
  BY DEF TypeOK, DbType, TransType, Database, Table
<1> QED
  BY <1>1, RawNamedKept DEF TransportOK, transVars

LEMMA AcceptedKept ==
  ASSUME TypeOK, AcceptedOK(db, rejected), Later(db, rejected, db', rejected'),
         UNCHANGED <<accepted, crashes>>
  PROVE  AcceptedOK(db, rejected)'
<1>1. \A k \in 1 .. Len(accepted) : accepted[k] \in Msgs
  BY DEF TypeOK, HistType
<1> QED
  BY <1>1 DEF AcceptedOK, Later

LEMMA RowsFrame ==
  ASSUME TypeOK, TypeOK', RowsInv, Later(db, rejected, db', rejected'),
         db'.raw.last = db.raw.last, GoodTable(db'.raw), GoodTable(disk'.raw),
         disk'.raw.rows \subseteq db'.raw.rows,
         RawOK(db, rejected, queue'), RawOK(db, rejected, rlist'), UNCHANGED transVars,
         UNCHANGED <<accepted, crashes>>
  PROVE  RowsInv'
<1>1. /\ db \in Database /\ db' \in Database
      /\ queue' \in Seq(Item) /\ rlist' \in Seq(Item)
  BY DEF TypeOK, DbType, QueueType, RetryType
<1>2. RawOK(db', rejected', queue') /\ RawOK(db', rejected', rlist')
  BY <1>1, RawKept
<1>3. TransportOK(db, rejected)'
  BY TransportKept DEF RowsInv
<1>4. AcceptedOK(db, rejected)'
  BY AcceptedKept DEF RowsInv
<1> QED
  BY <1>2, <1>3, <1>4 DEF RowsInv

\* The tables of raw data stay as they are.
LEMMA RowsSame ==
  ASSUME TypeOK, TypeOK', RowsInv, db'.raw = db.raw, disk'.raw = disk.raw,
         db.hashes \subseteq db'.hashes, rejected \subseteq rejected',
         RawOK(db, rejected, queue'), RawOK(db, rejected, rlist'), UNCHANGED transVars,
         UNCHANGED <<accepted, crashes>>
  PROVE  RowsInv'
<1>1. Later(db, rejected, db', rejected')
  BY SameRawLater DEF TypeOK, DbType
<1> QED
  BY <1>1, RowsFrame DEF RowsInv

\* The queue thread deletes the raw row of the message in front.
LEMMA RowsDeleted ==
  ASSUME TypeOK, TypeOK', RowsInv, queue # <<>>, Front.cmd = "ReceivedRawData",
         db'.raw = Delete(db.raw, Front.seq), disk' = db',
         Front.msg \in db'.hashes \cup rejected', db.hashes \subseteq db'.hashes,
         rejected \subseteq rejected', RawOK(db, rejected, queue'),
         rlist' = rlist, UNCHANGED transVars,
         UNCHANGED <<accepted, crashes>>
  PROVE  RowsInv'
<1>1. /\ db \in Database /\ db' \in Database /\ queue \in Seq(Item) /\ db.raw \in Table
      /\ Front.msg \in Msgs /\ Front.seq \in Nat /\ NoMsg \in Msgs
  BY FrontIs, DatabaseTypes, NoMsgType DEF TypeOK, DbType, QueueType
<1>2. NamesRow(db.raw, Front.seq, Front.msg)
  BY <1>1, RawPopped DEF RowsInv, RawNamed, Front
<1>3. Later(db, rejected, db', rejected') /\ db'.raw.last = db.raw.last
  BY <1>1, <1>2, DeleteLater
<1>4. GoodTable(db'.raw)
  BY <1>1, TablesGood DEF RowsInv
<1> QED
  BY <1>3, <1>4, RowsFrame DEF RowsInv

LEMMA RowsStep ==
  ASSUME dbErrors' = 0, KeyInv, KeyInv', HeldInv, RowsInv, [Next]_vars
  PROVE  RowsInv'
<1>a. /\ TypeOK /\ TypeOK' /\ TxState /\ TxState' /\ dbErrors = 0
      /\ TxContent /\ PlainOK
  BY DEF KeyInv, HeldInv
<1>b. /\ db \in Database /\ disk \in Database /\ db' \in Database /\ db.raw \in Table
      /\ queue \in Seq(Item) /\ rlist \in Seq(Item)
      /\ tmsg \in Msgs /\ tseq \in Nat
  BY <1>a, DatabaseTypes DEF TypeOK, DbType, QueueType, RetryType, TransType
<1>c. /\ GoodTable(db.raw) /\ GoodTable(disk.raw) /\ disk.raw.rows \subseteq db.raw.rows
      /\ RawOK(db, rejected, queue) /\ RawOK(db, rejected, rlist)
      /\ TransportOK(db, rejected) /\ AcceptedOK(db, rejected)
  BY DEF RowsInv
<1>d. queue # <<>> => /\ Front \in Item /\ Front.msg \in Msgs /\ Front.seq \in Nat
                      /\ Tail(queue) \in Seq(Item)
                      /\ RawOK(db, rejected, Tail(queue))
  BY <1>a, <1>b, <1>c, FrontIs, FrontType, RawPopped DEF TypeOK
<1>e. /\ \A t : /\ [db EXCEPT !.raw = t].raw = t
                /\ [db EXCEPT !.raw = t].hashes = db.hashes
      /\ \A t : /\ [db EXCEPT !.preKeys = t].raw = db.raw
                /\ [db EXCEPT !.preKeys = t].hashes = db.hashes
      /\ \A t : /\ [db EXCEPT !.staged = t].raw = db.raw
                /\ [db EXCEPT !.staged = t].hashes = db.hashes
      /\ \A t : /\ [db EXCEPT !.temp = t].raw = db.raw
                /\ [db EXCEPT !.temp = t].hashes = db.hashes
  BY <1>b DEF Database
<1> USE DEF queueVars, transVars, retryVars, appVars, histVars, faultVars, dbVars
<1>1. ASSUME NEW m \in Msgs, RecvInsert(m) PROVE RowsInv'
  <2>1. /\ db' = [db EXCEPT !.raw = Insert(@, m)] /\ (disk' = disk \/ disk' = db')
        /\ queue' = queue /\ rlist' = rlist /\ rejected' = rejected
        /\ tpc' = "inserted" /\ tmsg' = m
    BY <1>1 DEF RecvInsert, Write
  <2>2. /\ Later(db, rejected, db', rejected)
        /\ RawNamed(db', rejected, db'.raw.last, m)
    BY <1>b, <1>c, <2>1, InsertLater
  <2>3. GoodTable(db'.raw) /\ db.raw.rows \subseteq db'.raw.rows
    <3>1. db'.raw = Insert(db.raw, m)
      BY <2>1, <1>e
    <3>2. GoodTable(db'.raw)
      BY <3>1, <1>b, <1>c, TablesGood
    <3> QED
      BY <3>1, <3>2 DEF Insert
  <2>4. RawOK(db', rejected, queue) /\ RawOK(db', rejected, rlist)
    BY <1>b, <1>c, <2>2, RawKept
  <2>5. TransportOK(db, rejected)'
    BY <2>1, <2>2 DEF TransportOK
  <2>6. AcceptedOK(db, rejected)'
    BY <1>1, <1>a, <1>c, <2>1, <2>2, AcceptedKept DEF RecvInsert
  <2> QED
    BY <1>c, <2>1, <2>3, <2>4, <2>5, <2>6 DEF RowsInv
<1>2. ASSUME NEW m \in Msgs, RecvInsertFails(m) PROVE RowsInv'
  BY <1>2, <1>a DEF RecvInsertFails, DbFails
<1>3. ASSUME RecvSequence PROVE RowsInv'
  <2>1. TransportOK(db, rejected)'
    BY <1>3, <1>c DEF RecvSequence, TransportOK
  <2>2. AcceptedOK(db, rejected)'
    BY <1>3, <1>c DEF RecvSequence, AcceptedOK
  <2> QED
    BY <1>3, <1>c, <2>1, <2>2 DEF RecvSequence, RowsInv
<1>4. ASSUME RecvQueue PROVE RowsInv'
  <2>1. RawItem(tseq, tmsg) \in Item /\ RawNamed(db, rejected, tseq, tmsg)
    BY <1>4, <1>b, <1>c, ItemTypes DEF RecvQueue, TransportOK
  <2>2. RawOK(db, rejected, queue')
    BY <1>4, <1>b, <1>c, <2>1, RawAppended DEF RecvQueue, RawItem
  <2>3. TransportOK(db, rejected)'
    BY <1>4 DEF RecvQueue, TransportOK
  <2>4. AcceptedOK(db, rejected)'
    <3>1. accepted \in Seq(Msgs)
      BY <1>a DEF TypeOK, HistType
    <3> QED
      BY <1>4, <1>b, <1>c, <2>1, <3>1 DEF RecvQueue, AcceptedOK, RawNamed
  <2> QED
    BY <1>4, <1>c, <2>2, <2>3, <2>4 DEF RecvQueue, RowsInv
<1>5. ASSUME RawDuplicate PROVE RowsInv'
  <2>1. /\ queue # <<>> /\ Front.cmd = "ReceivedRawData" /\ Front.msg \in db.hashes
        /\ db' = [db EXCEPT !.raw = Delete(@, Front.seq)] /\ disk' = db'
        /\ queue' = Tail(queue) /\ rejected' = rejected
    BY <1>5, <1>a DEF RawDuplicate, QueueIs, QueueStep, Write, TxState, Pop
  <2>2. db'.raw = Delete(db.raw, Front.seq) /\ db'.hashes = db.hashes
    BY <2>1, <1>e
  <2> QED
    BY <1>5, <1>a, <1>d, <2>1, <2>2, RowsDeleted DEF RawDuplicate
<1>6. ASSUME DecryptFails PROVE RowsInv'
  <2>1. /\ queue # <<>> /\ Front.cmd = "ReceivedRawData"
        /\ db' = [db EXCEPT !.raw = Delete(@, Front.seq)] /\ disk' = db'
        /\ queue' = Tail(queue) /\ rejected' = rejected \cup {Front.msg}
    BY <1>6, <1>a DEF DecryptFails, RawNew, QueueIs, QueueStep, Write, TxState, Pop
  <2>2. db'.raw = Delete(db.raw, Front.seq) /\ db'.hashes = db.hashes
    BY <2>1, <1>e
  <2> QED
    BY <1>6, <1>a, <1>d, <2>1, <2>2, RowsDeleted DEF DecryptFails
<1>7. ASSUME disk = db, disk' = db', db'.raw = db.raw, db'.hashes = db.hashes,
             queue' = queue \/ (queue # <<>> /\ queue' = Tail(queue)),
             rlist' = rlist, rejected' = rejected, UNCHANGED transVars,
             UNCHANGED <<accepted, crashes>>
      PROVE  RowsInv'
  BY <1>7, <1>a, <1>c, <1>d, RowsSame
<1>8. ASSUME DecryptSetup PROVE RowsInv'
  BY <1>8, <1>7, <1>a, <1>e DEF DecryptSetup, Write, TxState, RawNew, QueueIs, QueueStep
<1>9. ASSUME DecryptStaged PROVE RowsInv'
  BY <1>9, <1>7, <1>a, <1>e DEF DecryptStaged, Write, TxState, RawNew, QueueIs, QueueStep
<1>10. ASSUME DecryptChain PROVE RowsInv'
  BY <1>10, <1>a, <1>c, RowsSame DEF DecryptChain
<1>11. ASSUME TxBegin PROVE RowsInv'
  BY <1>11, <1>a, <1>c, RowsSame DEF TxBegin
<1>12. ASSUME TxStore PROVE RowsInv'
  <2>1. db'.raw = db.raw /\ disk' = disk /\ db.hashes \subseteq db'.hashes
    BY <1>12, <1>a DEF TxStore, Write, TxState, QueueStep
  <2> QED
    BY <1>12, <1>a, <1>c, <2>1, RowsSame DEF TxStore
<1>13. ASSUME TxStoreFails \/ TxCommitFails PROVE RowsInv'
  BY <1>13, <1>a DEF TxStoreFails, TxCommitFails, DbFails
<1>14. ASSUME TxCommit PROVE RowsInv'
  <2>1. /\ queue # <<>> /\ Front.cmd = "ReceivedRawData" /\ Front.msg \in db.hashes
        /\ db' = [db EXCEPT !.raw = Delete(@, Front.seq)] /\ disk' = db'
        /\ queue' = queue \o Receipt(Front.msg) /\ rejected' = rejected
    BY <1>14, <1>a DEF TxCommit, QueueStep, TxContent, PlainOK
  <2>2. db'.raw = Delete(db.raw, Front.seq) /\ db'.hashes = db.hashes
    BY <2>1, <1>e
  <2>3. RawOK(db, rejected, queue')
    BY <2>1, <1>b, <1>c, <1>d, ItemTypes, ReceiptRaw, RawSpliced
  <2> QED
    BY <1>14, <1>a, <2>1, <2>2, <2>3, RowsDeleted DEF TxCommit
<1>15. ASSUME Deliver PROVE RowsInv'
  BY <1>15, <1>a, <1>c, RowsSame DEF Deliver
<1>16. ASSUME DeliverFails \/ SendReceipt PROVE RowsInv'
  <2>1. queue # <<>> /\ queue' = Tail(queue)
    BY <1>16 DEF DeliverFails, SendReceipt, Delivering, QueueIs, QueueStep, Pop
  <2> QED
    BY <1>16, <1>a, <1>c, <1>d, <2>1, RowsSame DEF DeliverFails, SendReceipt
<1>17. ASSUME Delivered PROVE RowsInv'
  BY <1>17, <1>7, <1>a, <1>e DEF Delivered, Write, TxState, QueueStep, Pop
<1>18. ASSUME RetryStart \/ RetryTempEnd \/ RetryReceiptsEnd PROVE RowsInv'
  BY <1>18, <1>a, <1>c, RowsSame DEF RetryStart, RetryTempEnd, RetryReceiptsEnd
<1>19. ASSUME RetryTemp PROVE RowsInv'
  <2>1. PICK r \in db.temp.rows : rlist' = Append(rlist, TempItem(r.seq, r.msg))
    BY <1>19 DEF RetryTemp
  <2>2. TempItem(r.seq, r.msg) \in Item
    BY <1>b, DatabaseTypes, ItemTypes DEF Table, Row
  <2>3. RawOK(db, rejected, rlist')
    BY <1>b, <1>c, <2>1, <2>2, RawAppended DEF TempItem
  <2> QED
    BY <1>19, <1>a, <1>c, <2>3, RowsSame DEF RetryTemp
<1>20. ASSUME RetryRaw PROVE RowsInv'
  <2>1. PICK r \in db.raw.rows : rlist' = Append(rlist, RawItem(r.seq, r.msg))
    BY <1>20 DEF RetryRaw
  <2>2. RawItem(r.seq, r.msg) \in Item
    BY <1>b, ItemTypes DEF Table, Row
  <2>3. RawNamed(db, rejected, r.seq, r.msg)
    BY <1>c DEF RawNamed, NamesRow, Live, HasRow, GoodTable
  <2>4. RawOK(db, rejected, rlist')
    BY <1>b, <1>c, <2>1, <2>2, <2>3, RawAppended DEF RawItem
  <2> QED
    BY <1>20, <1>a, <1>c, <2>4, RowsSame DEF RetryRaw
<1>21. ASSUME RetryQueue PROVE RowsInv'
  <2>1. RawOK(db, rejected, queue')
    BY <1>21, <1>b, <1>c, RawSpliced DEF RetryQueue
  <2>2. RawOK(db, rejected, rlist')
    BY <1>21 DEF RetryQueue, RawOK
  <2> QED
    BY <1>21, <1>a, <1>c, <2>1, <2>2, RowsSame DEF RetryQueue
<1>22. ASSUME RetryReceipt PROVE RowsInv'
  <2>1. rlist[rcursor + 1] \in Item
    BY <1>22, <1>a DEF RetryReceipt, TypeOK, RetryType
  <2>2. rlist[rcursor + 1].msg \in Msgs
    BY <2>1 DEF Item
  <2>3. RawOK(db, rejected, queue')
    BY <1>22, <1>b, <1>c, <2>2, ItemTypes, ReceiptRaw, RawSpliced DEF RetryReceipt
  <2> QED
    BY <1>22, <1>a, <1>c, <2>3, RowsSame DEF RetryReceipt
<1>23. ASSUME Crash PROVE RowsInv'
  <2>1. crashes' # 0
    BY <1>23, <1>a DEF Crash, TypeOK, FaultType
  <2> QED
    BY <1>23, <1>c, <2>1 DEF Crash, RowsInv, RawOK, TransportOK, AcceptedOK
<1>24. CASE UNCHANGED vars
  BY <1>24, <1>a, <1>c, RowsSame DEF vars
<1> QED
  BY <1>1, <1>2, <1>3, <1>4, <1>5, <1>6, <1>8, <1>9, <1>10, <1>11, <1>12, <1>13, <1>14,
     <1>15, <1>16, <1>17, <1>18, <1>19, <1>20, <1>21, <1>22, <1>23, <1>24
     DEF Next, Transport, QueueThread, Retry

----------------------------------------------------------------------------
(* What becomes of a message is settled once.                               *)

SameRing(d, e) == SameKeys(d, e) /\ d.preKeys = e.preKeys

LEMMA RingKept ==
  ASSUME NEW d \in Database, NEW t
  PROVE  SameRing([d EXCEPT !.raw = t], d) /\ SameRing([d EXCEPT !.temp = t], d)
  BY DEF SameRing, SameKeys, Database

LEMMA SameRingSame ==
  ASSUME NEW d, NEW e, SameRing(e, d), NEW m
  PROVE  KeyGone(e, m) <=> KeyGone(d, m)
  BY DEF SameRing, SameKeys, KeyGone

\* The queue thread's message is the same, or it has none.
LEMMA FateFrame ==
  ASSUME FateInv, SameRing(db', db), SameRing(disk', disk),
         UNCHANGED <<events, rejected>>,
         qpc' = "idle" \/ (qpc' = qpc /\ Front' = Front)
  PROVE  FateInv'
<1>1. Closed(db)' /\ Closed(disk)'
  BY SameRingSame DEF FateInv, Closed, SameRing, SameKeys
<1>2. events' \subseteq disk'.hashes
  BY DEF FateInv, SameRing, SameKeys
<1>3. CASE qpc' = "idle"
  BY <1>1, <1>2, <1>3 DEF FateInv
<1>4. CASE qpc' = qpc /\ Front' = Front
  BY <1>1, <1>2, <1>4 DEF FateInv, SameRing, SameKeys
<1> QED
  BY <1>3, <1>4

\* Who works on a message finds it in front again.
LEMMA FrontStays ==
  ASSUME KeyInv, queue # <<>> => queue'[1] = queue[1], qpc' = qpc
  PROVE  qpc' = "idle" \/ (qpc' = qpc /\ Front' = Front)
  BY DEF KeyInv, TxState, Front

LEMMA FateStep ==
  ASSUME dbErrors' = 0, KeyInv, KeyInv', HeldInv, FateInv, [Next]_vars
  PROVE  FateInv'
<1>a. /\ TypeOK /\ TypeOK' /\ TxState /\ TxState' /\ dbErrors = 0 /\ CurAhead
      /\ TxContent /\ PlainOK /\ ItemsOK(db, queue)
      /\ db \in Database /\ disk \in Database /\ db' \in Database
      /\ queue \in Seq(Item) /\ rlist \in Seq(Item)
  BY DEF KeyInv, HeldInv, TypeOK, DbType, QueueType, RetryType
<1>b. /\ events \subseteq disk.hashes /\ Closed(db) /\ Closed(disk)
      /\ qpc \in {"deliver", "delivered"} => Front.msg \in db.hashes
      /\ qpc \in {"decrypted", "tx", "stored"} => Front.msg \notin rejected
      /\ qpc \in {"decrypted", "tx"} =>
           \A m \in rejected : m.s = Front.msg.s => db.nr[m.s] # NoConv
  BY DEF FateInv
<1>c. SameRing(db, db) /\ SameRing(disk, disk)
  BY DEF SameRing, SameKeys
<1>d. queue # <<>> => /\ Front \in Item /\ Front.msg \in Msgs
                      /\ Front.msg.s \in Sessions /\ Front.msg.i \in 0 .. LastIdx
                      /\ ItemOK(db, Front)
  BY <1>a, FrontIs, ItemsPopped DEF TypeOK, Front
<1>e. /\ db.nr \in [Sessions -> NoConv .. LastIdx + 1] /\ rejected \subseteq Msgs
      /\ db.hashes \subseteq Msgs /\ db.staged \subseteq Msgs
      /\ \A m \in Msgs : m.s \in Sessions /\ m.i \in 0 .. LastIdx
  BY <1>a, DatabaseTypes, MsgFields DEF TypeOK, AppType
<1> USE DEF queueVars, transVars, retryVars, appVars, histVars, faultVars, dbVars
<1>1. ASSUME NEW m \in Msgs, RecvInsert(m) PROVE FateInv'
  <2>1. SameRing(db', db) /\ SameRing(disk', disk)
    BY <1>1, <1>a, <1>c, RingKept DEF RecvInsert, Write, TxState
  <2> QED
    BY <1>1, <2>1, FateFrame DEF RecvInsert, Front
<1>2. ASSUME NEW m \in Msgs, RecvInsertFails(m) PROVE FateInv'
  BY <1>2, <1>a DEF RecvInsertFails, DbFails
<1>3. ASSUME RecvSequence PROVE FateInv'
  BY <1>3, <1>c, FateFrame DEF RecvSequence, Front
<1>4. ASSUME RecvQueue PROVE FateInv'
  <2>1. RawItem(tseq, tmsg) \in Item
    BY <1>a, ItemTypes DEF TypeOK, TransType
  <2>2. queue # <<>> => queue'[1] = queue[1]
    BY <1>4, <2>1, <1>a, FrontKeptAppend DEF RecvQueue
  <2>3. qpc' = "idle" \/ (qpc' = qpc /\ Front' = Front)
    BY <1>4, <2>2, FrontStays DEF RecvQueue
  <2> QED
    BY <1>4, <1>c, <2>3, FateFrame DEF RecvQueue
<1>5. ASSUME RawDuplicate \/ Delivered PROVE FateInv'
  <2>1. /\ SameRing(db', db) /\ qpc' = "idle" /\ disk = db /\ disk' = db'
        /\ UNCHANGED <<events, rejected>>
    BY <1>5, <1>a, RingKept
       DEF RawDuplicate, Delivered, QueueIs, QueueStep, Write, TxState, Pop
  <2> QED
    BY <2>1, FateFrame
<1>6. ASSUME DecryptSetup PROVE FateInv'
  <2>1. /\ queue # <<>> /\ db.nr[Front.msg.s] = NoConv /\ Front.msg.s \in db.preKeys
        /\ db' = [db EXCEPT !.preKeys = @ \ {Front.msg.s}] /\ disk' = db' /\ disk = db
        /\ qpc' = "decrypted" /\ Front' = Front
        /\ events' = events /\ rejected' = rejected
    BY <1>6, <1>a DEF DecryptSetup, RawNew, QueueIs, QueueStep, Write, TxState, Front
  <2>2. SameKeys(db', db) /\ db'.preKeys = db.preKeys \ {Front.msg.s}
    BY <2>1, <1>a DEF SameKeys, Database
  <2>3. Closed(db)' /\ Closed(disk)'
    BY <2>1, <2>2, <1>b DEF Closed, KeyGone, SameKeys
  <2>4. Front.msg \notin rejected
    BY <2>1, <1>b DEF Closed, KeyGone
  <2>5. \A m \in rejected : m.s = Front.msg.s => db.nr[m.s] # NoConv
    BY <2>1, <1>b DEF Closed, KeyGone
  <2> QED
    BY <2>1, <2>2, <2>3, <2>4, <2>5, <1>b DEF FateInv, SameKeys
<1>7. ASSUME DecryptStaged PROVE FateInv'
  <2>1. /\ queue # <<>> /\ db.nr[Front.msg.s] # NoConv /\ Front.msg \in db.staged
        /\ db' = [db EXCEPT !.staged = @ \ {Front.msg}] /\ disk' = db' /\ disk = db
        /\ qpc' = "decrypted" /\ Front' = Front
        /\ events' = events /\ rejected' = rejected
    BY <1>7, <1>a DEF DecryptStaged, RawNew, QueueIs, QueueStep, Write, TxState, Front
  <2>2. /\ db'.staged = db.staged \ {Front.msg} /\ db'.nr = db.nr
        /\ db'.hashes = db.hashes /\ db'.preKeys = db.preKeys
    BY <2>1, <1>a DEF Database
  <2>3. Closed(db)' /\ Closed(disk)'
    BY <2>1, <2>2, <1>b DEF Closed, KeyGone
  <2>4. Front.msg \notin rejected
    BY <2>1, <1>b DEF Closed, KeyGone
  <2> QED
    BY <2>1, <2>2, <2>3, <2>4, <1>b DEF FateInv
<1>8. ASSUME DecryptChain PROVE FateInv'
  <2>1. /\ queue # <<>> /\ db.nr[Front.msg.s] # NoConv /\ db.nr[Front.msg.s] <= Front.msg.i
        /\ db' = db /\ disk' = disk /\ qpc' = "decrypted" /\ Front' = Front
        /\ events' = events /\ rejected' = rejected
    BY <1>8, <1>d, <1>e DEF DecryptChain, RawNew, QueueIs, QueueStep, Front, NoConv
  <2>2. Front.msg \notin rejected
    BY <2>1, <1>b, <1>d, <1>e DEF Closed, KeyGone, NoConv
  <2> QED
    BY <2>1, <2>2, <1>b DEF FateInv, Closed
<1>9. ASSUME DecryptFails PROVE FateInv'
  <2>1. /\ Front.msg \notin db.hashes /\ KeyGone(db, Front.msg) /\ disk = db
        /\ SameRing(db', db) /\ disk' = db' /\ qpc' = "idle"
        /\ rejected' = rejected \cup {Front.msg} /\ events' = events
    BY <1>9, <1>a, RingKept
       DEF DecryptFails, RawNew, QueueIs, QueueStep, Write, TxState, Pop
  <2>2. Closed(db)' /\ Closed(disk)'
    BY <2>1, <1>b, SameRingSame DEF Closed, SameRing, SameKeys
  <2> QED
    BY <2>1, <2>2, <1>b DEF FateInv, SameRing, SameKeys
<1>10. ASSUME TxBegin PROVE FateInv'
  BY <1>10, <1>b DEF TxBegin, QueueStep, FateInv, Closed, Front
<1>11. ASSUME TxStore PROVE FateInv'
  <2>1. /\ qpc = "tx" /\ queue # <<>> /\ qpc' = "stored" /\ Front' = Front /\ disk' = disk
        /\ db'.hashes = db.hashes \cup {Front.msg} /\ db'.preKeys = db.preKeys
        /\ db'.nr = [db.nr EXCEPT ![Front.msg.s] = cur.nr]
        /\ db'.staged = db.staged \cup cur.staged
        /\ events' = events /\ rejected' = rejected
    BY <1>11, <1>a DEF TxStore, Write, TxState, QueueStep, Front
  <2>2. /\ db.nr[Front.msg.s] <= cur.nr /\ Front.msg.i < cur.nr /\ cur.nr \in Int
        /\ \A x \in cur.staged : x.s = Front.msg.s /\ db.nr[x.s] <= x.i
    BY <2>1, <1>a DEF CurAhead, TypeOK, QueueType, NoConv
  <2>3. ASSUME NEW m \in rejected PROVE KeyGone(db', m) /\ m \notin db'.hashes
    <3>1. KeyGone(db, m) /\ m \notin db.hashes /\ m # Front.msg /\ m \in Msgs
      BY <2>1, <1>b, <1>e DEF Closed
    <3>2. CASE m.s # Front.msg.s
      <4>1. db'.nr[m.s] = db.nr[m.s] /\ m \notin cur.staged
        BY <2>1, <2>2, <3>1, <3>2, <1>d, <1>e
      <4> QED
        BY <2>1, <3>1, <4>1 DEF KeyGone
    <3>3. CASE m.s = Front.msg.s
      <4>1. db.nr[m.s] # NoConv /\ m \notin db.staged /\ m.i < db.nr[m.s]
        BY <2>1, <3>1, <3>3, <1>b DEF KeyGone
      <4>2. db'.nr[m.s] = cur.nr /\ db.nr[m.s] \in Int /\ m.i \in Nat
        BY <2>1, <3>1, <3>3, <1>d, <1>e DEF NoConv
      <4>3. m \notin cur.staged
        BY <2>2, <4>1, <4>2
      <4>4. m.i < cur.nr
        BY <2>2, <3>3, <4>1, <4>2
      <4> QED
        BY <2>1, <3>1, <4>1, <4>2, <4>3, <4>4 DEF KeyGone, NoConv
    <3> QED
      BY <3>2, <3>3
  <2>4. Closed(db)' /\ Closed(disk)'
    BY <2>1, <2>3, <1>b DEF Closed
  <2> QED
    BY <2>1, <2>4, <1>b DEF FateInv
<1>12. ASSUME TxStoreFails \/ TxCommitFails PROVE FateInv'
  BY <1>12, <1>a DEF TxStoreFails, TxCommitFails, DbFails
<1>13. ASSUME TxCommit PROVE FateInv'
  <2>1. /\ qpc = "stored" /\ queue # <<>> /\ SameRing(db', db) /\ disk' = db'
        /\ queue' = queue \o Receipt(Front.msg) /\ qpc' = "deliver"
        /\ db.hashes = disk.hashes \cup {Front.msg}
        /\ events' = events /\ rejected' = rejected
    BY <1>13, <1>a, RingKept DEF TxCommit, QueueStep, TxContent
  <2>2. Front' = Front
    BY <2>1, <1>a, <1>d, ItemTypes, FrontKept DEF Front
  <2>3. Closed(db)' /\ Closed(disk)'
    BY <2>1, <1>b, SameRingSame DEF Closed, SameRing, SameKeys
  <2> QED
    BY <2>1, <2>2, <2>3, <1>b DEF FateInv, SameRing, SameKeys
<1>14. ASSUME Deliver PROVE FateInv'
  <2>1. /\ queue # <<>> /\ db' = db /\ disk' = disk /\ disk = db /\ Front' = Front
        /\ qpc' = "delivered" /\ events' = events \cup {Front.msg} /\ rejected' = rejected
    BY <1>14, <1>a DEF Deliver, Delivering, QueueStep, QueueIs, TxState, Front
  <2>2. Front.msg \in db.hashes
    BY <1>14, <2>1, <1>b, <1>d DEF Deliver, Delivering, QueueStep, QueueIs, ItemOK
  <2> QED
    BY <2>1, <2>2, <1>b DEF FateInv, Closed
<1>15. ASSUME DeliverFails \/ SendReceipt PROVE FateInv'
  BY <1>15, <1>c, FateFrame DEF DeliverFails, SendReceipt, Pop
<1>16. ASSUME \/ RetryStart \/ RetryTemp \/ RetryTempEnd
              \/ RetryReceiptsEnd \/ RetryRaw \/ UNCHANGED vars
       PROVE  FateInv'
  BY <1>16, <1>c, FateFrame
     DEF RetryStart, RetryTemp, RetryTempEnd, RetryReceiptsEnd, RetryRaw, vars, Front
<1>17. ASSUME RetryQueue PROVE FateInv'
  <2>1. qpc' = "idle" \/ (qpc' = qpc /\ Front' = Front)
    BY <1>17, <1>a, FrontKept, FrontStays DEF RetryQueue
  <2> QED
    BY <1>17, <1>c, <2>1, FateFrame DEF RetryQueue
<1>18. ASSUME RetryReceipt PROVE FateInv'
  <2>1. rlist[rcursor + 1] \in Item
    BY <1>18, <1>a DEF RetryReceipt, TypeOK, RetryType
  <2>2. Receipt(rlist[rcursor + 1].msg) \in Seq(Item)
    BY <2>1, ItemTypes DEF Item
  <2>3. qpc' = "idle" \/ (qpc' = qpc /\ Front' = Front)
    BY <1>18, <1>a, <2>2, FrontKept, FrontStays DEF RetryReceipt
  <2> QED
    BY <1>18, <1>c, <2>3, FateFrame DEF RetryReceipt
<1>19. ASSUME Crash PROVE FateInv'
  BY <1>19, <1>b DEF Crash, FateInv, Closed
<1> QED
  BY <1>1, <1>2, <1>3, <1>4, <1>5, <1>6, <1>7, <1>8, <1>9, <1>10, <1>11, <1>12, <1>13,
     <1>14, <1>15, <1>16, <1>17, <1>18, <1>19
     DEF Next, Transport, QueueThread, Retry

----------------------------------------------------------------------------
(* As long as the process lives every message has its key.                  *)

LEMMA FreshFrame ==
  ASSUME FreshInv, SameRing(db', db), UNCHANGED <<rejected, crashes>>,
         \/ qpc' \notin {"decrypted", "tx"} /\ qpc \notin {"decrypted", "tx"}
         \/ /\ qpc' \in {"decrypted", "tx"} /\ qpc \in {"decrypted", "tx"}
            /\ cur' = cur /\ Front' = Front
  PROVE  FreshInv'
<1>1. db'.hashes = db.hashes /\ db'.staged = db.staged
  BY DEF SameRing, SameKeys
<1>2. \A m \in Msgs : KeyGone(db, m)' <=> KeyGone(db, m)
  BY SameRingSame
<1>3. \A m \in Msgs : Opening(m)' <=> Opening(m)
  BY DEF Opening
<1>4. \A m : Opening(m) => cur' = cur /\ Front' = Front
  BY DEF Opening
<1> QED
  BY <1>1, <1>2, <1>3, <1>4 DEF FreshInv

LEMMA FreshStep ==
  ASSUME dbErrors' = 0, KeyInv, KeyInv', HeldInv, FreshInv, [Next]_vars
  PROVE  FreshInv'
<1>a. /\ TypeOK /\ TypeOK' /\ TxState /\ TxState' /\ dbErrors = 0
      /\ db \in Database /\ disk \in Database /\ db' \in Database
      /\ queue \in Seq(Item) /\ rlist \in Seq(Item)
  BY DEF KeyInv, HeldInv, TypeOK, DbType, QueueType, RetryType
<1>c. SameRing(db, db)
  BY DEF SameRing, SameKeys
<1>d. queue # <<>> => /\ Front \in Item /\ Front.msg \in Msgs
                      /\ Front.msg.s \in Sessions /\ Front.msg.i \in 0 .. LastIdx
  BY <1>a, FrontIs DEF TypeOK
<1>e. /\ db.nr \in [Sessions -> NoConv .. LastIdx + 1]
      /\ \A m \in Msgs : /\ m.s \in Sessions /\ m.i \in 0 .. LastIdx
                         /\ m = [s |-> m.s, i |-> m.i]
      /\ \A m \in Msgs : db.nr[m.s] \in Int
  BY <1>a, DatabaseTypes, MsgFields DEF NoConv
<1>f. crashes = 0 =>
        /\ rejected = {}
        /\ \A m \in Msgs \ db.hashes :
             IF Opening(m) THEN \/ m = Front.msg \/ m \in db.staged
                                \/ m \in cur.staged \/ m.i >= cur.nr
                           ELSE ~KeyGone(db, m)
  BY DEF FreshInv
<1> USE DEF queueVars, transVars, retryVars, appVars, histVars, faultVars, dbVars
<1>1. ASSUME NEW m \in Msgs, RecvInsert(m) PROVE FreshInv'
  BY <1>1, <1>a, RingKept, FreshFrame DEF RecvInsert, Write, Front
<1>2. ASSUME NEW m \in Msgs, RecvInsertFails(m) PROVE FreshInv'
  BY <1>2, <1>a DEF RecvInsertFails, DbFails
<1>3. ASSUME RecvSequence PROVE FreshInv'
  BY <1>3, <1>c, FreshFrame DEF RecvSequence, Front
<1>s. ASSUME queue # <<>> => queue'[1] = queue[1], qpc' = qpc, cur' = cur, db' = db,
             UNCHANGED <<rejected, crashes>>
      PROVE  FreshInv'
  <2>1. qpc' = "idle" \/ Front' = Front
    BY <1>s, FrontStays
  <2> QED
    BY <1>s, <1>c, <2>1, FreshFrame
<1>4. ASSUME RecvQueue PROVE FreshInv'
  <2>1. RawItem(tseq, tmsg) \in Item
    BY <1>a, ItemTypes DEF TypeOK, TransType
  <2>2. queue # <<>> => queue'[1] = queue[1]
    BY <1>4, <2>1, <1>a, FrontKeptAppend DEF RecvQueue
  <2> QED
    BY <1>4, <1>s, <2>2 DEF RecvQueue
<1>5. ASSUME RawDuplicate \/ Delivered PROVE FreshInv'
  <2>1. /\ SameRing(db', db) /\ qpc' = "idle" /\ qpc \in {"idle", "delivered"}
        /\ UNCHANGED <<rejected, crashes>>
    BY <1>5, <1>a, RingKept DEF RawDuplicate, Delivered, QueueIs, QueueStep, Write, Pop
  <2> QED
    BY <2>1, FreshFrame
<1>o. ASSUME qpc = "idle" PROVE \A m \in Msgs \ db.hashes : crashes = 0 => ~KeyGone(db, m)
  BY <1>o, <1>f DEF Opening
<1>6. ASSUME DecryptSetup PROVE FreshInv'
  <2>1. /\ qpc = "idle" /\ queue # <<>> /\ db.nr[Front.msg.s] = NoConv
        /\ db' = [db EXCEPT !.preKeys = @ \ {Front.msg.s}]
        /\ qpc' = "decrypted" /\ Front' = Front /\ cur'.nr = Front.msg.i + 1
        /\ cur'.staged = [s : {Front.msg.s}, i : 0 .. Front.msg.i - 1]
        /\ rejected' = rejected /\ crashes' = crashes
    BY <1>6 DEF DecryptSetup, RawNew, QueueIs, QueueStep, Write, Front
  <2>2. SameKeys(db', db) /\ db'.preKeys = db.preKeys \ {Front.msg.s}
    BY <2>1, <1>a DEF SameKeys, Database
  <2>3. ASSUME NEW m \in Msgs \ db.hashes, crashes = 0, m.s # Front.msg.s
        PROVE  ~KeyGone(db', m)
    BY <2>1, <2>2, <2>3, <1>o DEF KeyGone, SameKeys
  <2>4. ASSUME NEW m \in Msgs, m.s = Front.msg.s, m.i < cur'.nr, m # Front.msg
        PROVE  m \in cur'.staged
    <3>1. m.i \in 0 .. Front.msg.i - 1
      BY <2>1, <2>4, <1>d, <1>e
    <3> QED
      BY <2>1, <2>4, <3>1, <1>e
  <2>5. \A m \in Msgs : Opening(m)' <=> m.s = Front.msg.s
    BY <2>1 DEF Opening
  <2>6. cur'.nr \in Int
    BY <2>1, <1>d
  <2>7. ASSUME crashes' = 0, NEW m \in Msgs \ db'.hashes
        PROVE  IF Opening(m)' THEN \/ m = Front'.msg \/ m \in db'.staged
                                   \/ m \in cur'.staged \/ m.i >= cur'.nr
                              ELSE ~KeyGone(db', m)
    <3>1. m \in Msgs \ db.hashes /\ crashes = 0 /\ m.i \in Int
      BY <2>1, <2>2, <2>7, <1>e DEF SameKeys
    <3>2. CASE m.s = Front.msg.s
      BY <2>1, <2>4, <2>5, <2>6, <3>1, <3>2
    <3>3. CASE m.s # Front.msg.s
      BY <2>3, <2>5, <3>1, <3>3
    <3> QED
      BY <3>2, <3>3
  <2> QED
    BY <2>1, <2>7, <1>f DEF FreshInv
<1>7. ASSUME DecryptStaged PROVE FreshInv'
  <2>1. /\ qpc = "idle" /\ queue # <<>> /\ db.nr[Front.msg.s] # NoConv
        /\ db' = [db EXCEPT !.staged = @ \ {Front.msg}]
        /\ qpc' = "decrypted" /\ Front' = Front /\ cur'.nr = db.nr[Front.msg.s]
        /\ rejected' = rejected /\ crashes' = crashes
    BY <1>7 DEF DecryptStaged, RawNew, QueueIs, QueueStep, Write, Front
  <2>2. /\ db'.staged = db.staged \ {Front.msg} /\ db'.nr = db.nr
        /\ db'.hashes = db.hashes /\ db'.preKeys = db.preKeys
    BY <2>1, <1>a DEF Database
  <2>3. \A m \in Msgs : Opening(m)' <=> m.s = Front.msg.s
    BY <2>1 DEF Opening
  <2>7. ASSUME crashes' = 0, NEW m \in Msgs \ db'.hashes
        PROVE  IF Opening(m)' THEN \/ m = Front'.msg \/ m \in db'.staged
                                   \/ m \in cur'.staged \/ m.i >= cur'.nr
                              ELSE ~KeyGone(db', m)
    <3>1. ~KeyGone(db, m)
      BY <2>1, <2>2, <2>7, <1>o
    <3>2. CASE m.s = Front.msg.s
      BY <2>1, <2>2, <2>3, <3>1, <3>2, <1>e DEF KeyGone
    <3>3. CASE m.s # Front.msg.s
      BY <2>1, <2>2, <2>3, <3>1, <3>3 DEF KeyGone
    <3> QED
      BY <3>2, <3>3
  <2> QED
    BY <2>1, <2>7, <1>f DEF FreshInv
<1>8. ASSUME DecryptChain PROVE FreshInv'
  <2>1. /\ qpc = "idle" /\ queue # <<>> /\ db.nr[Front.msg.s] # NoConv /\ db' = db
        /\ qpc' = "decrypted" /\ Front' = Front /\ cur'.nr = Front.msg.i + 1
        /\ cur'.staged = [s : {Front.msg.s}, i : db.nr[Front.msg.s] .. Front.msg.i - 1]
        /\ rejected' = rejected /\ crashes' = crashes
    BY <1>8 DEF DecryptChain, RawNew, QueueIs, QueueStep, Front
  <2>3. \A m \in Msgs : Opening(m)' <=> m.s = Front.msg.s
    BY <2>1 DEF Opening
  <2>7. ASSUME crashes' = 0, NEW m \in Msgs \ db'.hashes
        PROVE  IF Opening(m)' THEN \/ m = Front'.msg \/ m \in db'.staged
                                   \/ m \in cur'.staged \/ m.i >= cur'.nr
                              ELSE ~KeyGone(db', m)
    <3>1. ~KeyGone(db, m)
      BY <2>1, <2>7, <1>o
    <3>2. CASE m.s = Front.msg.s /\ m \notin db.staged /\ m.i < cur'.nr /\ m # Front.msg
      <4>1. m.i >= db.nr[m.s]
        BY <2>1, <3>1, <3>2, <1>e DEF KeyGone
      <4>2. m.i \in db.nr[Front.msg.s] .. Front.msg.i - 1
        BY <2>1, <3>2, <4>1, <1>d, <1>e
      <4>3. m \in cur'.staged
        BY <2>1, <3>2, <4>2, <1>e
      <4> QED
        BY <2>3, <3>2, <4>3
    <3>3. CASE m.s # Front.msg.s
      BY <2>1, <2>3, <3>1, <3>3
    <3>4. cur'.nr \in Int
      BY <2>1, <1>d
    <3> QED
      BY <2>1, <2>3, <3>2, <3>3, <3>4, <1>e
  <2> QED
    BY <2>1, <2>7, <1>f DEF FreshInv
<1>9. ASSUME DecryptFails PROVE FreshInv'
  <2>1. /\ qpc = "idle" /\ queue # <<>> /\ Front.msg \notin db.hashes
        /\ KeyGone(db, Front.msg) /\ crashes' = crashes
    BY <1>9 DEF DecryptFails, RawNew, QueueIs, QueueStep
  <2>2. crashes # 0
    BY <2>1, <1>d, <1>o
  <2> QED
    BY <2>1, <2>2 DEF FreshInv
<1>10. ASSUME TxBegin PROVE FreshInv'
  BY <1>10, <1>c, FreshFrame DEF TxBegin, QueueStep, Front
<1>11. ASSUME TxStore PROVE FreshInv'
  <2>1. /\ qpc = "tx" /\ queue # <<>> /\ qpc' = "stored" /\ Front' = Front
        /\ db'.hashes = db.hashes \cup {Front.msg} /\ db'.preKeys = db.preKeys
        /\ db'.nr = [db.nr EXCEPT ![Front.msg.s] = cur.nr]
        /\ db'.staged = db.staged \cup cur.staged
        /\ rejected' = rejected /\ crashes' = crashes
    BY <1>11 DEF TxStore, Write, QueueStep, Front
  <2>2. cur.nr \in Int /\ cur.nr # NoConv
    <3>1. Front.msg.i < cur.nr /\ cur.nr \in Int
      BY <2>1 DEF KeyInv, CurAhead, TypeOK, QueueType, NoConv
    <3> QED
      BY <2>1, <3>1, <1>d DEF NoConv
  <2>7. ASSUME crashes' = 0, NEW m \in Msgs \ db'.hashes
        PROVE  ~KeyGone(db', m)
    <3>2. CASE m.s = Front.msg.s
      <4>1. m \in db.staged \/ m \in cur.staged \/ m.i >= cur.nr
        BY <2>1, <2>7, <3>2, <1>f DEF Opening
      <4>2. db'.nr[m.s] = cur.nr
        BY <2>1, <3>2, <1>d, <1>e
      <4> QED
        BY <2>1, <2>2, <4>1, <4>2, <1>e DEF KeyGone
    <3>3. CASE m.s # Front.msg.s
      <4>1. ~KeyGone(db, m)
        BY <2>1, <2>7, <3>3, <1>f DEF Opening
      <4>2. db'.nr[m.s] = db.nr[m.s]
        BY <2>1, <3>3, <1>d, <1>e
      <4> QED
        BY <2>1, <4>1, <4>2 DEF KeyGone
    <3> QED
      BY <3>2, <3>3
  <2>8. \A m \in Msgs : ~Opening(m)'
    BY <2>1 DEF Opening
  <2> QED
    BY <2>1, <2>7, <2>8, <1>f DEF FreshInv
<1>12. ASSUME TxStoreFails \/ TxCommitFails PROVE FreshInv'
  BY <1>12, <1>a DEF TxStoreFails, TxCommitFails, DbFails
<1>13. ASSUME TxCommit PROVE FreshInv'
  BY <1>13, <1>a, RingKept, FreshFrame DEF TxCommit, QueueStep
<1>14. ASSUME Deliver \/ DeliverFails \/ SendReceipt PROVE FreshInv'
  BY <1>14, <1>c, FreshFrame
     DEF Deliver, DeliverFails, SendReceipt, Delivering, QueueStep, QueueIs, Pop
<1>16. ASSUME \/ RetryStart \/ RetryTemp \/ RetryTempEnd
              \/ RetryReceiptsEnd \/ RetryRaw \/ UNCHANGED vars
       PROVE  FreshInv'
  BY <1>16, <1>s
     DEF RetryStart, RetryTemp, RetryTempEnd, RetryReceiptsEnd, RetryRaw, vars
<1>17. ASSUME RetryQueue PROVE FreshInv'
  <2>1. queue # <<>> => queue'[1] = queue[1]
    BY <1>17, <1>a, FrontKept DEF RetryQueue
  <2> QED
    BY <1>17, <1>s, <2>1 DEF RetryQueue
<1>18. ASSUME RetryReceipt PROVE FreshInv'
  <2>1. rlist[rcursor + 1] \in Item
    BY <1>18, <1>a DEF RetryReceipt, TypeOK, RetryType
  <2>2. Receipt(rlist[rcursor + 1].msg) \in Seq(Item)
    BY <2>1, ItemTypes DEF Item
  <2>3. queue # <<>> => queue'[1] = queue[1]
    BY <1>18, <1>a, <2>2, FrontKept DEF RetryReceipt
  <2> QED
    BY <1>18, <1>s, <2>3 DEF RetryReceipt
<1>19. ASSUME Crash PROVE FreshInv'
  BY <1>19, <1>a DEF Crash, FreshInv, TypeOK, FaultType
<1> QED
  BY <1>1, <1>2, <1>3, <1>4, <1>5, <1>6, <1>7, <1>8, <1>9, <1>10, <1>11, <1>12, <1>13,
     <1>14, <1>16, <1>17, <1>18, <1>19
     DEF Next, Transport, QueueThread, Retry

----------------------------------------------------------------------------
(* Every step is a step of the abstract inbox, or none of its own.          *)

InboxStep == Inbox!Step \/ UNCHANGED <<Kept, events, rejected>>

LEMMA InboxSame ==
  ASSUME disk'.raw = disk.raw, disk'.temp = disk.temp, UNCHANGED <<events, rejected>>
  PROVE  InboxStep
  BY DEF InboxStep, Kept, HasRow

\* A row of one message goes, of either table.
LEMMA RowGoes ==
  ASSUME NEW m \in Msgs, NEW seq \in Nat, disk \in Database,
         \/ disk'.temp = disk.temp /\ disk'.raw = Delete(disk.raw, seq)
              /\ NamesRow(disk.raw, seq, m)
         \/ disk'.raw = disk.raw /\ disk'.temp = Delete(disk.temp, seq)
              /\ NamesRow(disk.temp, seq, m)
  PROVE  Kept' = Kept \/ Kept' = Kept \ {m}
<1>1. \A t \in Table : /\ Delete(t, seq).rows = {r \in t.rows : r.seq # seq}
  BY DEF Delete, Table
<1>2. disk.raw \in Table /\ disk.temp \in Table
  BY DatabaseTypes
<1>3. ASSUME NEW x \in Msgs, x # m PROVE x \in Kept' <=> x \in Kept
  BY <1>1, <1>2, <1>3 DEF Kept, HasRow, NamesRow
<1>4. m \in Kept' => m \in Kept
  BY <1>1, <1>2 DEF Kept, HasRow
<1>5. Kept \subseteq Msgs /\ Kept' \subseteq Msgs
  BY DEF Kept
<1> QED
  BY <1>3, <1>4, <1>5

\* ... of a message that was shown or refused.
LEMMA InboxClears ==
  ASSUME NEW m \in Msgs, Kept' = Kept \/ Kept' = Kept \ {m},
         m \in events \cup rejected \/ m \in Kept', UNCHANGED <<events, rejected>>
  PROVE  InboxStep
<1>1. CASE Kept' = Kept
  BY <1>1 DEF InboxStep
<1>2. CASE Kept' # Kept
  <2>1. Inbox!Clear(m)
    BY <1>2 DEF Inbox!Clear
  <2> QED
    BY <2>1 DEF InboxStep, Inbox!Step
<1> QED
  BY <1>1, <1>2

LEMMA InboxKeeps ==
  ASSUME Kept \subseteq Kept', UNCHANGED <<events, rejected>>
  PROVE  InboxStep
<1>1. Kept' \in SUBSET Msgs /\ Kept' = Kept \cup Kept'
  BY DEF Kept
<1>2. PICK S \in SUBSET Msgs : Kept' = Kept \cup S
  BY <1>1
<1>3. Inbox!Keep(S)
  BY <1>2 DEF Inbox!Keep
<1> QED
  BY <1>2, <1>3 DEF InboxStep, Inbox!Step

LEMMA InboxRefined ==
  ASSUME dbErrors' = 0, InboxInv, InboxInv', [Next]_vars
  PROVE  InboxStep
<1>a. /\ TypeOK /\ TxState /\ TxState' /\ dbErrors = 0 /\ TxContent /\ PlainOK
      /\ ItemsOK(db, queue) /\ HashedIsHeld /\ HashedIsHeld'
      /\ db \in Database /\ disk \in Database /\ queue \in Seq(Item)
  BY DEF InboxInv, KeyInv, HeldInv, TypeOK, DbType, QueueType
<1>b. /\ events \subseteq disk.hashes /\ Closed(db) /\ Closed(disk)
      /\ qpc \in {"deliver", "delivered"} => Front.msg \in db.hashes
      /\ disk.raw.rows \subseteq db.raw.rows /\ RawOK(db, rejected, queue)
  BY DEF InboxInv, FateInv, RowsInv
<1>d. queue # <<>> => /\ Front.msg \in Msgs /\ Front.seq \in Nat /\ ItemOK(db, Front)
                      /\ Front.cmd = "ReceivedRawData" =>
                           RawNamed(db, rejected, Front.seq, Front.msg)
  BY <1>a, <1>b, FrontIs, ItemsPopped, RawPopped DEF TypeOK, Front
<1>e. \A t : /\ [db EXCEPT !.raw = t].raw = t /\ [db EXCEPT !.raw = t].temp = db.temp
             /\ [db EXCEPT !.raw = t].hashes = db.hashes
             /\ [db EXCEPT !.temp = t].temp = t /\ [db EXCEPT !.temp = t].raw = db.raw
             /\ [db EXCEPT !.preKeys = t].raw = db.raw
             /\ [db EXCEPT !.preKeys = t].temp = db.temp
             /\ [db EXCEPT !.staged = t].raw = db.raw
             /\ [db EXCEPT !.staged = t].temp = db.temp
  BY <1>a DEF Database
<1>f. \A m \in Msgs : m \in disk.hashes => m \in events \/ m \in Kept
  BY <1>a DEF HashedIsHeld, Held, Kept
<1> USE DEF queueVars, transVars, retryVars, appVars, histVars, faultVars, dbVars
<1>1. ASSUME NEW m \in Msgs, RecvInsert(m) PROVE InboxStep
  <2>1. /\ db' = [db EXCEPT !.raw = Insert(@, m)] /\ UNCHANGED <<events, rejected>>
        /\ disk' = disk \/ (disk' = db' /\ disk = db)
    BY <1>1, <1>a DEF RecvInsert, Write, TxState
  <2>2. db'.raw = Insert(db.raw, m) /\ db'.temp = db.temp
    BY <2>1, <1>e
  <2>r. db.raw.rows \subseteq db'.raw.rows
    BY <2>2 DEF Insert
  <2>3. \A x : HasRow(disk.raw, x) => HasRow(disk'.raw, x)
    BY <2>1, <2>r DEF HasRow
  <2>4. disk'.temp = disk.temp
    BY <2>1, <2>2
  <2> QED
    BY <2>1, <2>3, <2>4, InboxKeeps DEF Kept
<1>2. ASSUME NEW m \in Msgs, RecvInsertFails(m) PROVE InboxStep
  BY <1>2, <1>a DEF RecvInsertFails, DbFails
<1>3. ASSUME \/ RecvSequence \/ RecvQueue \/ DecryptChain \/ TxBegin
             \/ DeliverFails \/ SendReceipt \/ Retry \/ Crash \/ UNCHANGED vars
      PROVE  InboxStep
  <2>1. disk' = disk /\ UNCHANGED <<events, rejected>>
    <3>1. CASE Retry
      BY <3>1 DEF Retry, RetryStart, RetryTemp, RetryTempEnd, RetryReceipt,
                  RetryReceiptsEnd, RetryRaw, RetryQueue
    <3>2. CASE RecvSequence \/ RecvQueue \/ DecryptChain \/ TxBegin
      BY <3>2 DEF RecvSequence, RecvQueue, DecryptChain, TxBegin
    <3>3. CASE DeliverFails \/ SendReceipt
      BY <3>3 DEF DeliverFails, SendReceipt
    <3>4. CASE Crash \/ UNCHANGED vars
      BY <3>4 DEF Crash, vars
    <3> QED
      BY <1>3, <3>1, <3>2, <3>3, <3>4
  <2> QED
    BY <2>1, InboxSame
<1>4. ASSUME DecryptSetup \/ DecryptStaged PROVE InboxStep
  <2>1. /\ disk = db /\ disk' = db' /\ UNCHANGED <<events, rejected>>
        /\ \/ db' = [db EXCEPT !.preKeys = @ \ {Front.msg.s}]
           \/ db' = [db EXCEPT !.staged = @ \ {Front.msg}]
    BY <1>4, <1>a
       DEF DecryptSetup, DecryptStaged, RawNew, QueueIs, QueueStep, Write, TxState
  <2>2. db'.raw = db.raw /\ db'.temp = db.temp
    BY <2>1, <1>a DEF Database
  <2> QED
    BY <2>1, <2>2, InboxSame
<1>5. ASSUME RawDuplicate PROVE InboxStep
  <2>1. /\ queue # <<>> /\ Front.cmd = "ReceivedRawData" /\ Front.msg \in db.hashes
        /\ disk = db /\ disk' = db' /\ UNCHANGED <<events, rejected>>
        /\ db' = [db EXCEPT !.raw = Delete(@, Front.seq)]
    BY <1>5, <1>a DEF RawDuplicate, QueueIs, QueueStep, Write, TxState
  <2>2. /\ db'.raw = Delete(db.raw, Front.seq) /\ db'.temp = db.temp
        /\ db'.hashes = db.hashes
    BY <2>1, <1>e
  <2>3. Kept' = Kept \/ Kept' = Kept \ {Front.msg}
    BY <2>1, <2>2, <1>a, <1>d, RowGoes DEF RawNamed
  <2>4. Front.msg \in events' \/ Front.msg \in Kept'
    BY <2>1, <2>2, <1>a, <1>d DEF HashedIsHeld, Held, Kept
  <2> QED
    BY <2>1, <2>3, <2>4, <1>d, InboxClears
<1>6. ASSUME DecryptFails PROVE InboxStep
  <2>1. /\ queue # <<>> /\ Front.cmd = "ReceivedRawData" /\ Front.msg \notin db.hashes
        /\ disk = db /\ disk' = db' /\ events' = events
        /\ rejected' = rejected \cup {Front.msg}
        /\ db' = [db EXCEPT !.raw = Delete(@, Front.seq)]
    BY <1>6, <1>a DEF DecryptFails, RawNew, QueueIs, QueueStep, Write, TxState
  <2>2. db'.raw = Delete(db.raw, Front.seq) /\ db'.temp = db.temp
    BY <2>1, <1>e
  <2>3. Kept' = Kept \/ Kept' = Kept \ {Front.msg}
    BY <2>1, <2>2, <1>a, <1>d, RowGoes DEF RawNamed
  <2>4. CASE Front.msg \in rejected
    <3>1. UNCHANGED <<events, rejected>>
      BY <2>1, <2>4
    <3> QED
      BY <2>1, <2>3, <2>4, <3>1, <1>d, InboxClears
  <2>5. CASE Front.msg \notin rejected
    <3>1. Front.msg \in Kept
      BY <2>1, <2>5, <1>d DEF RawNamed, Live, Kept
    <3>2. Front.msg \notin events
      BY <2>1, <1>b
    <3>3. Inbox!Refuse(Front.msg)
      BY <2>1, <2>3, <2>5, <3>1, <3>2 DEF Inbox!Refuse
    <3> QED
      BY <2>1, <3>3, <1>d DEF InboxStep, Inbox!Step, Inbox!Settle
  <2> QED
    BY <2>4, <2>5
<1>7. ASSUME TxStore PROVE InboxStep
  BY <1>7, <1>a, InboxSame DEF TxStore, Write, QueueStep, TxState
<1>8. ASSUME TxStoreFails \/ TxCommitFails PROVE InboxStep
  BY <1>8, <1>a DEF TxStoreFails, TxCommitFails, DbFails
<1>9. ASSUME TxCommit PROVE InboxStep
  <2>1. /\ queue # <<>> /\ Front.cmd = "ReceivedRawData"
        /\ db.temp = Insert(disk.temp, Front.msg)
        /\ disk' = db' /\ UNCHANGED <<events, rejected>>
        /\ db' = [db EXCEPT !.raw = Delete(@, Front.seq)]
    BY <1>9, <1>a DEF TxCommit, QueueStep, TxContent, PlainOK
  <2>2. db'.raw = Delete(db.raw, Front.seq) /\ db'.temp = db.temp
    BY <2>1, <1>e
  <2>3. /\ [seq |-> disk.temp.last + 1, msg |-> Front.msg] \in disk'.temp.rows
        /\ disk.temp.rows \subseteq disk'.temp.rows
    BY <2>1, <2>2 DEF Insert
  <2>4. HasRow(disk'.temp, Front.msg) /\ \A x : HasRow(disk.temp, x) => HasRow(disk'.temp, x)
    BY <2>3 DEF HasRow
  <2>5. disk'.raw.rows = {r \in db.raw.rows : r.seq # Front.seq}
    BY <2>1, <2>2, <1>a DEF Delete, Database, Table
  <2>6. NamesRow(db.raw, Front.seq, Front.msg)
    BY <2>1, <1>d DEF RawNamed
  <2>7. ASSUME NEW x \in Msgs, HasRow(disk.raw, x), x # Front.msg
        PROVE  HasRow(disk'.raw, x)
    BY <2>5, <2>6, <2>7, <1>b DEF HasRow, NamesRow
  <2> QED
    BY <2>1, <2>4, <2>7, InboxKeeps DEF Kept
<1>10. ASSUME Deliver PROVE InboxStep
  <2>1. /\ queue # <<>> /\ disk' = disk /\ disk = db
        /\ events' = events \cup {Front.msg} /\ rejected' = rejected
    BY <1>10, <1>a DEF Deliver, Delivering, QueueStep, QueueIs, TxState
  <2>2. Front.msg \in db.hashes
    BY <1>10, <2>1, <1>b, <1>d DEF Deliver, Delivering, QueueStep, QueueIs, ItemOK
  <2>3. CASE Front.msg \in events
    BY <2>1, <2>3, InboxSame
  <2>4. CASE Front.msg \notin events
    <3>1. Front.msg \in Kept /\ Front.msg \notin rejected
      BY <2>1, <2>2, <2>4, <1>b, <1>d, <1>f DEF Closed
    <3>2. Kept' = Kept
      BY <2>1 DEF Kept
    <3>3. Inbox!Show(Front.msg)
      BY <2>1, <2>4, <3>1, <3>2 DEF Inbox!Show
    <3> QED
      BY <2>1, <3>3, <1>d DEF InboxStep, Inbox!Step, Inbox!Settle
  <2> QED
    BY <2>3, <2>4
<1>11. ASSUME Delivered PROVE InboxStep
  <2>1. /\ queue # <<>> /\ disk = db /\ disk' = db' /\ UNCHANGED <<events, rejected>>
        /\ db' = [db EXCEPT !.temp = Delete(@, PlainSeq)]
        /\ Front.msg \in events /\ NamesRow(db.temp, PlainSeq, Front.msg)
    BY <1>11, <1>a DEF Delivered, QueueStep, Write, TxState, PlainOK
  <2>2. db'.temp = Delete(db.temp, PlainSeq) /\ db'.raw = db.raw
    BY <2>1, <1>e
  <2>3. PlainSeq \in Nat
    BY <2>1, <1>a, <1>d DEF PlainSeq, TypeOK, QueueType
  <2>4. Kept' = Kept \/ Kept' = Kept \ {Front.msg}
    BY <2>1, <2>2, <2>3, <1>a, <1>d, RowGoes
  <2> QED
    BY <2>1, <2>4, <1>d, InboxClears
<1> QED
  BY <1>1, <1>2, <1>3, <1>4, <1>5, <1>6, <1>7, <1>8, <1>9, <1>10, <1>11
     DEF Next, Transport, QueueThread

----------------------------------------------------------------------------
LEMMA InboxInit == Init => InboxInv /\ FreshInv /\ Inbox!Init
<1> SUFFICES ASSUME Init PROVE InboxInv /\ FreshInv /\ Inbox!Init
  OBVIOUS
<1>1. RowsInv
  BY DEF Init, RowsInv, EmptyTable, GoodTable, RawOK, TransportOK, AcceptedOK
<1>2. FateInv
  BY DEF Init, FateInv, Closed
<1>3. FreshInv
  BY MsgFields DEF Init, FreshInv, Opening, KeyGone
<1>4. Inbox!Init
  BY DEF Init, Inbox!Init, Kept, HasRow, EmptyTable
<1> QED
  BY <1>1, <1>2, <1>3, <1>4, KeyInit, HeldInit DEF Init, ListInv, InboxInv

LEMMA InboxAlways == Spec => [](KeyInv /\ (dbErrors = 0 => InboxInv /\ FreshInv))
<1>1. KeyInv /\ (dbErrors = 0 => InboxInv /\ FreshInv) /\ [Next]_vars
        => (KeyInv /\ (dbErrors = 0 => InboxInv /\ FreshInv))'
  BY ErrorsStay, KeyStep, ListStep, HeldStep, RowsStep, FateStep, FreshStep
     DEF InboxInv, KeyInv
<1> QED
  BY <1>1, InboxInit, KeyInit, PTL DEF Spec

\* The pipeline keeps the safe part of the promise of ZinaInbox: what is on the
\* disk goes only when it was shown or refused, nothing is ever both, whatever
\* the threads, the retry and the ends of the process do, as long as the database
\* takes what it is given.
THEOREM InboxImplemented == Spec => InboxSafety
<1> DEFINE I == KeyInv /\ (dbErrors = 0 => InboxInv /\ FreshInv)
<1>1. I /\ I' /\ [Next]_vars => [Inbox!Next]_(Inbox!inboxVars)
  <2> SUFFICES ASSUME I, I', [Next]_vars PROVE [Inbox!Next]_(Inbox!inboxVars)
    OBVIOUS
  <2>1. dbErrors \in Nat /\ dbErrors' \in Nat /\ TypeOK
    BY DEF KeyInv, TypeOK, FaultType
  <2>2. CASE dbErrors' = 0
    <3>1. dbErrors = 0 /\ InboxStep
      BY <2>1, <2>2, ErrorsStay, InboxRefined
    <3>2. UNCHANGED (dbErrors > 0)
      BY <2>2, <3>1
    <3> QED
      BY <3>1, <3>2 DEF InboxStep, Inbox!Next, Inbox!inboxVars
  <2>3. CASE dbErrors' # 0
    BY <2>1, <2>3 DEF Inbox!Next
  <2> QED
    BY <2>2, <2>3
<1>2. Init => Inbox!Init
  BY InboxInit
<1> QED
  BY <1>1, <1>2, InboxAlways, PTL DEF Spec, InboxSafety, Inbox!SafeSpec

\* Only the end of the process makes a message undecryptable (a pre-key or a
\* staged key spent by a decryption that was not stored).
THEOREM OnlyFaultsReject == Spec => []RejectedOnlyByFault
<1>1. KeyInv /\ (dbErrors = 0 => InboxInv /\ FreshInv) => RejectedOnlyByFault
  BY DEF KeyInv, TypeOK, FaultType, FreshInv, RejectedOnlyByFault, NoneRejected
<1> QED
  BY <1>1, InboxAlways, PTL

\* A message the transport was told OK for is in the chat database or has its
\* raw or plain row, as long as the process lives.
THEOREM AcceptedAreHeld == Spec => []AcceptedIsHeld
<1>1. ASSUME InboxInv, FreshInv PROVE crashes = 0 => StoredIsHeld
  <2> SUFFICES ASSUME crashes = 0, NEW k \in 1 .. Len(accepted)
               PROVE  \/ accepted[k] \in events \/ HasRow(db.raw, accepted[k])
                      \/ HasRow(db.temp, accepted[k])
    BY DEF StoredIsHeld, Accepted
  <2> DEFINE m == accepted[k]
  <2>1. HasRow(db.raw, m) \/ m \in db.hashes
    BY <1>1 DEF InboxInv, RowsInv, AcceptedOK, Live, FreshInv
  <2>2. \/ disk = db
        \/ db.temp = disk.temp /\ db.hashes = disk.hashes
        \/ db.temp = Insert(disk.temp, Front.msg) /\ db.hashes = disk.hashes \cup {Front.msg}
    BY <1>1 DEF InboxInv, KeyInv, HeldInv, TxState, TxContent
  <2>3. \A x \in disk.hashes : x \in events \/ HasRow(disk.temp, x)
    BY <1>1 DEF InboxInv, HeldInv, HashedIsHeld, Held
  <2>4. CASE db.temp = disk.temp /\ db.hashes = disk.hashes
    BY <2>1, <2>3, <2>4
  <2>5. CASE /\ db.temp = Insert(disk.temp, Front.msg)
             /\ db.hashes = disk.hashes \cup {Front.msg}
    <3>1. /\ [seq |-> disk.temp.last + 1, msg |-> Front.msg] \in db.temp.rows
          /\ disk.temp.rows \subseteq db.temp.rows
      BY <2>5 DEF Insert
    <3>2. /\ HasRow(db.temp, Front.msg)
          /\ \A x : HasRow(disk.temp, x) => HasRow(db.temp, x)
      BY <3>1 DEF HasRow
    <3> QED
      BY <2>1, <2>3, <2>5, <3>2
  <2> QED
    BY <2>2, <2>4, <2>5
<1>2. KeyInv /\ (dbErrors = 0 => InboxInv /\ FreshInv) => AcceptedIsHeld
  BY <1>1 DEF KeyInv, TypeOK, FaultType, AcceptedIsHeld
<1> QED
  BY <1>2, InboxAlways, PTL

\* The app shows a text message once, whatever fails: the second delivery finds
\* it in the chat database.
RunsInv == \A m \in Msgs \ Commands : runs[m] = IF m \in events THEN 1 ELSE 0

LEMMA RunsStep == TypeOK /\ RunsInv /\ [Next]_vars => RunsInv'
<1> SUFFICES ASSUME TypeOK, RunsInv, [Next]_vars PROVE RunsInv'
  OBVIOUS
<1>1. CASE Deliver
  <2>1. /\ events' = events \cup {Front.msg} /\ Front.msg \in Msgs
        /\ runs' = [runs EXCEPT ![Front.msg] = IF KnownToApp(Front.msg) THEN @ ELSE @ + 1]
    BY <1>1, FrontIs DEF Deliver, Delivering, QueueStep, QueueIs, TypeOK
  <2>2. runs \in [Msgs -> Nat]
    BY DEF TypeOK, HistType
  <2>3. ASSUME NEW m \in Msgs \ Commands
        PROVE  runs'[m] = IF m \in events' THEN 1 ELSE 0
    <3>1. runs[m] = IF m \in events THEN 1 ELSE 0
      BY DEF RunsInv
    <3>2. CASE m = Front.msg
      BY <2>1, <2>2, <3>1, <3>2 DEF KnownToApp
    <3>3. CASE m # Front.msg
      BY <2>1, <2>2, <3>1, <3>3
    <3> QED
      BY <3>2, <3>3
  <2> QED
    BY <2>3 DEF RunsInv
<1>2. CASE UNCHANGED <<events, runs>>
  BY <1>2 DEF RunsInv
<1>3. Deliver \/ UNCHANGED <<events, runs>>
  <2>1. CASE Transport
    BY <2>1 DEF Transport, RecvInsert, RecvInsertFails, DbFails, RecvSequence, RecvQueue,
                appVars, histVars
  <2>2. CASE QueueThread
    BY <2>2 DEF QueueThread, RawDuplicate, DecryptSetup, DecryptStaged, DecryptChain,
       DecryptFails, TxBegin, TxStore, TxStoreFails, TxCommit, TxCommitFails,
       DeliverFails, Delivered, SendReceipt, appVars, histVars
  <2>3. CASE Retry
    BY <2>3 DEF Retry, RetryStart, RetryTemp, RetryTempEnd, RetryReceipt,
       RetryReceiptsEnd, RetryRaw, RetryQueue, appVars, histVars
  <2>4. CASE Crash \/ UNCHANGED vars
    BY <2>4 DEF Crash, vars, appVars, histVars
  <2> QED
    BY <2>1, <2>2, <2>3, <2>4 DEF Next
<1> QED
  BY <1>1, <1>2, <1>3

THEOREM ShownAreShownOnce == Spec => []ShownOnce
<1>1. Init => RunsInv
  BY DEF Init, RunsInv
<1>2. RunsInv => ShownOnce
  BY DEF RunsInv, ShownOnce
<1> QED
  BY <1>1, <1>2, RunsStep, TypeCorrect, PTL DEF Spec

----------------------------------------------------------------------------
(* The retry keeps the order of arrival: the inductive invariant.           *)

\* The messages in the order their raw data was stored, those handed over at
\* all, and those handed over once: a duplicate has no place of its own.
Line   == IF tpc = "idle" THEN accepted ELSE Append(accepted, tmsg)
Known  == {m \in Msgs : handed[m] > 0}
Single == {m \in Msgs : handed[m] = 1}
Order  == {p \in Msgs \X Msgs :
             \E a, b \in 1 .. Len(Line) : a < b /\ Line[a] = p[1] /\ Line[b] = p[2]}

LineInv ==
    /\ \A k \in 1 .. Len(Line) : Line[k] \in Known
    /\ \A m \in Known : \E k \in 1 .. Len(Line) : Line[k] = m
    /\ \A j, k \in 1 .. Len(Line) : Line[j] = Line[k] /\ Line[j] \in Single => j = k

\* A number of the raw table names a known message (K), and the one row of a
\* message handed over once (S).
Own(K, S, rows, seq, m) == m \in K /\ (m \in S => \A r \in rows : r.msg = m => r.seq = seq)
OwnItems(K, S, rows, list) ==
    \A k \in 1 .. Len(list) : list[k].cmd = "ReceivedRawData" =>
        Own(K, S, rows, list[k].seq, list[k].msg)
OwnInv ==
    /\ db.hashes \subseteq Known
    /\ \A r \in db.raw.rows : Own(Known, Single, db.raw.rows, r.seq, r.msg)
    /\ OwnItems(Known, Single, db.raw.rows, queue)
    /\ OwnItems(Known, Single, db.raw.rows, rlist)
    /\ tpc = "inserted"  => Own(Known, Single, db.raw.rows, db.raw.last, tmsg)
    /\ tpc = "sequenced" => Own(Known, Single, db.raw.rows, tseq, tmsg)

\* Message x is hashed (H), or its item lies in front of place n of the queue.
Ahead(H, q, x, n) ==
    x \in H \/ \E j \in 1 .. n - 1 : q[j].cmd = "ReceivedRawData" /\ q[j].msg = x

\* The items of all earlier messages come first (E is the order of the line).
InTurn(H, S, E, q) ==
    \A k \in 1 .. Len(q), x \in S :
       q[k].cmd = "ReceivedRawData" /\ q[k].msg \in S /\ <<x, q[k].msg>> \in E
         => Ahead(H, q, x, k)
TurnInv ==
    /\ \A x \in Single : \/ Ahead(db.hashes, queue, x, Len(queue) + 1)
                         \/ tpc # "idle" /\ tmsg = x
    /\ InTurn(db.hashes, Single, Order, queue)

\* So the hashed messages are the first of the line, and only the last of them
\* may still have its raw row, until the queue thread commits.
HashInv ==
    /\ \A h \in Single \cap db.hashes, x \in Single \ db.hashes : <<h, x>> \in Order
    /\ qpc \in {"decrypted", "tx"} => Front.msg \notin db.hashes
    /\ \A r \in db.raw.rows : r.msg \in Single \cap db.hashes =>
         /\ qpc = "stored" /\ r.msg = Front.msg
         /\ \A h \in Single \cap db.hashes : <<r.msg, h>> \notin Order

\* The rows of both tables, the list, and what the retry has yet to list keep
\* to the line.
RowsInOrder(S, E, rows) ==
    \A r, q \in rows : r.seq < q.seq /\ r.msg \in S /\ q.msg \in S => <<q.msg, r.msg>> \notin E
RestFollows(S, E, list, rows, cursor) ==
    \A k \in 1 .. Len(list), r \in rows :
       r.seq > cursor /\ r.msg \in S /\ list[k].msg \in S => <<r.msg, list[k].msg>> \notin E
ListInOrder(S, E, list) ==
    \A j, k \in 1 .. Len(list) :
       j < k /\ list[j].msg \in S /\ list[k].msg \in S => <<list[k].msg, list[j].msg>> \notin E
RetryInv ==
    /\ RowsInOrder(Single, Order, db.raw.rows) /\ RowsInOrder(Single, Order, db.temp.rows)
    /\ rpc = "idle" => rlist = <<>>
    /\ rpc = "temp" => RestFollows(Single, Order, rlist, db.temp.rows, rcursor)
    /\ rpc = "raw"  => RestFollows(Single, Order, rlist, db.raw.rows, rcursor)
    /\ ListInOrder(Single, Order, rlist)

OrderInv == LineInv /\ OwnInv /\ TurnInv /\ HashInv /\ RetryInv

----------------------------------------------------------------------------
(* The line only gets longer, by messages that were not known before.       *)

\* What two states have in common that are a step apart: the known messages
\* keep their order, and a new one comes after them.
Longer(K, S, E, L, T, F) ==
    /\ K \subseteq L /\ K \cap T \subseteq S
    /\ \A x, y \in K \cap T : <<x, y>> \in F => <<x, y>> \in E
    /\ \A x, y \in K \cap T : <<x, y>> \in E => <<x, y>> \in F
    /\ \A x \in K \cap T, y \in T \ K : <<x, y>> \in F /\ <<y, x>> \notin F

LEMMA LineType ==
  ASSUME TypeOK
  PROVE  Line \in Seq(Msgs) /\ Known \subseteq Msgs /\ Single \subseteq Known
  BY DEF TypeOK, TransType, HistType, Line, Known, Single

\* The order of the messages handed over once is strict and total.
LEMMA OrderFacts ==
  ASSUME TypeOK, LineInv, NEW x \in Single, NEW y \in Single
  PROVE  /\ <<x, y>> \in Order => <<y, x>> \notin Order
         /\ x # y => <<x, y>> \in Order \/ <<y, x>> \in Order
<1> DEFINE E(u, v) == \E a, b \in 1 .. Len(Line) : a < b /\ Line[a] = u /\ Line[b] = v
<1>1. \A u, v \in Msgs : <<u, v>> \in Order <=> E(u, v)
  BY DEF Order
<1>2. x \in Msgs /\ y \in Msgs /\ x \in Known /\ y \in Known /\ Len(Line) \in Nat
  BY LineType
<1>3. PICK j \in 1 .. Len(Line) : Line[j] = x
  BY <1>2 DEF LineInv
<1>4. PICK k \in 1 .. Len(Line) : Line[k] = y
  BY <1>2 DEF LineInv
<1>5. \A a \in 1 .. Len(Line) : (Line[a] = x => a = j) /\ (Line[a] = y => a = k)
  BY <1>3, <1>4 DEF LineInv
<1>6. E(x, y) <=> j < k
  BY <1>3, <1>4, <1>5
<1>7. E(y, x) <=> k < j
  BY <1>3, <1>4, <1>5
<1>8. x # y => j # k
  BY <1>3, <1>4
<1> HIDE DEF E
<1> QED
  BY <1>1, <1>2, <1>6, <1>7, <1>8

\* The message the transport is storing is the last of the line.
LEMMA TransportIsLast ==
  ASSUME TypeOK, LineInv, tpc # "idle", tmsg \in Single, NEW y \in Single
  PROVE  <<tmsg, y>> \notin Order
<1>1. Line = Append(accepted, tmsg) /\ accepted \in Seq(Msgs) /\ tmsg \in Msgs
  BY DEF TypeOK, HistType, TransType, Line
<1>2. Line[Len(Line)] = tmsg /\ Len(Line) \in 1 .. Len(Line)
  BY <1>1
<1>3. \A a \in 1 .. Len(Line) : Line[a] = tmsg => a = Len(Line)
  BY <1>2 DEF LineInv
<1>4. ASSUME <<tmsg, y>> \in Order PROVE FALSE
  <2>1. PICK a, b \in 1 .. Len(Line) : a < b /\ Line[a] = tmsg
    BY <1>4 DEF Order
  <2> QED
    BY <1>2, <1>3, <2>1
<1> QED
  BY <1>4

LEMMA SameLine ==
  ASSUME TypeOK, LineInv, Line' = Line, handed' = handed
  PROVE  /\ Known' = Known /\ Single' = Single /\ Order' = Order /\ LineInv'
         /\ Longer(Known, Single, Order, Known', Single', Order')
<1>1. Known' = Known /\ Single' = Single /\ Order' = Order
  BY DEF Known, Single, Order
<1>2. LineInv'
  BY <1>1 DEF LineInv
<1>3. Single \subseteq Known
  BY LineType
<1> QED
  BY <1>1, <1>2, <1>3 DEF Longer

\* The transport stores the raw data of m.
LEMMA LineGrows ==
  ASSUME TypeOK, TypeOK', LineInv, NEW m \in Msgs, RecvInsert(m)
  PROVE  /\ LineInv' /\ Longer(Known, Single, Order, Known', Single', Order')
         /\ m \in Known' /\ Known' = Known \cup {m}
         /\ m \in Known => m \notin Single'
<1>1. /\ Line = accepted /\ Line' = Append(Line, m) /\ Line \in Seq(Msgs)
      /\ handed \in [Msgs -> Nat] /\ handed' = [handed EXCEPT ![m] = @ + 1]
  BY LineType DEF RecvInsert, HandOver, Line, TypeOK, HistType, histVars
<1> DEFINE n == Len(Line)
<1>2. /\ n \in Nat /\ Len(Line') = n + 1 /\ Line'[n + 1] = m
      /\ \A k \in 1 .. n : Line'[k] = Line[k]
  BY <1>1
<1>3. /\ Known' = Known \cup {m} /\ (m \in Known => m \notin Single')
      /\ Known \cap Single' \subseteq Single
      /\ m \notin Known \cap Single' /\ Single' \subseteq Known'
  BY <1>1 DEF Known, Single
<1> DEFINE E(u, v) == \E a, b \in 1 .. n : a < b /\ Line[a] = u /\ Line[b] = v
           F(u, v) == \E a, b \in 1 .. n + 1 : a < b /\ Line'[a] = u /\ Line'[b] = v
<1>4. \A u, v \in Msgs : <<u, v>> \in Order <=> E(u, v)
  BY DEF Order
<1>5. \A u, v \in Msgs : <<u, v>> \in Order' <=> F(u, v)
  BY <1>2 DEF Order
<1>6. \A u, v : v # m => (F(u, v) => E(u, v))
  <2> SUFFICES ASSUME NEW u, NEW v, v # m, F(u, v) PROVE E(u, v)
    OBVIOUS
  <2>1. PICK a, b \in 1 .. n + 1 : a < b /\ Line'[a] = u /\ Line'[b] = v
    OBVIOUS
  <2>2. b # n + 1
    BY <1>2, <2>1
  <2>3. a \in 1 .. n /\ b \in 1 .. n
    BY <1>2, <2>1, <2>2
  <2> QED
    BY <1>2, <2>1, <2>3
<1>7. \A u, v : E(u, v) => F(u, v)
  BY <1>2
<1>8. \A u \in Known : F(u, m)
  <2> SUFFICES ASSUME NEW u \in Known PROVE F(u, m)
    OBVIOUS
  <2>1. PICK a \in 1 .. n : Line[a] = u
    BY DEF LineInv
  <2> QED
    BY <1>2, <2>1
<1>9. \A v \in Known : v # m /\ F(m, v) => m \in Known
  <2> SUFFICES ASSUME NEW v \in Known, v # m, F(m, v) PROVE m \in Known
    OBVIOUS
  <2>1. PICK a, b \in 1 .. n : Line[a] = m
    BY <1>6
  <2> QED
    BY <2>1 DEF LineInv
<1>10. LineInv'
  <2>1. \A k \in 1 .. n + 1 : Line'[k] \in Known'
    BY <1>2, <1>3 DEF LineInv
  <2>2. \A x \in Known' : \E k \in 1 .. n + 1 : Line'[k] = x
    <3> SUFFICES ASSUME NEW x \in Known' PROVE \E k \in 1 .. n + 1 : Line'[k] = x
      OBVIOUS
    <3>1. CASE x = m
      BY <1>2, <3>1
    <3>2. CASE x \in Known
      <4>1. PICK k \in 1 .. n : Line[k] = x
        BY <3>2 DEF LineInv
      <4> QED
        BY <1>2, <4>1
    <3> QED
      BY <1>3, <3>1, <3>2
  <2>3. ASSUME NEW j \in 1 .. n + 1, NEW k \in 1 .. n + 1,
               Line'[j] = Line'[k], Line'[j] \in Single'
        PROVE  j = k
    <3>1. CASE j \in 1 .. n /\ k \in 1 .. n
      <4>1. Line[j] \in Known /\ Line[j] = Line[k] /\ Line[j] \in Single'
        BY <1>2, <2>3, <3>1 DEF LineInv
      <4> QED
        BY <1>3, <3>1, <4>1 DEF LineInv
    <3>2. CASE j = n + 1 /\ k \in 1 .. n
      BY <1>2, <1>3, <2>3, <3>2 DEF LineInv
    <3>3. CASE k = n + 1 /\ j \in 1 .. n
      BY <1>2, <1>3, <2>3, <3>3 DEF LineInv
    <3> QED
      BY <1>2, <3>1, <3>2, <3>3
  <2> QED
    BY <1>2, <2>1, <2>2, <2>3 DEF LineInv
<1>11. Longer(Known, Single, Order, Known', Single', Order')
  <2> HIDE DEF E, F
  <2>1. Known \subseteq Msgs /\ Known' \subseteq Msgs
    BY DEF Known
  <2>2. \A x, y \in Known \cap Single' :
           /\ x # m /\ y # m /\ x \in Msgs /\ y \in Msgs
           /\ <<x, y>> \in Order' <=> <<x, y>> \in Order
    BY <1>3, <1>4, <1>5, <1>6, <1>7, <2>1
  <2>3. ASSUME NEW x \in Known \cap Single', NEW y \in Single' \ Known
        PROVE  <<x, y>> \in Order' /\ <<y, x>> \notin Order'
    <3>1. y = m /\ x # m /\ x \in Msgs /\ y \in Msgs
      BY <1>3, <2>1
    <3> QED
      BY <1>5, <1>8, <1>9, <3>1
  <2> QED
    BY <1>3, <2>2, <2>3 DEF Longer
<1> QED
  BY <1>3, <1>10, <1>11

----------------------------------------------------------------------------
(* What a step without a fault does to the tables, the queue and the list.  *)

\* The queue thread is done with the front, which is no message that waits.
Done ==
    /\ queue # <<>> /\ queue' = Tail(queue) /\ qpc' = "idle"
    /\ qpc \notin {"decrypted", "tx", "stored"}
    /\ Front.cmd = "ReceivedRawData" => Front.msg \in db.hashes
    /\ db'.hashes = db.hashes /\ db'.raw.last = db.raw.last
    /\ db'.raw.rows \subseteq db.raw.rows /\ db'.temp.rows \subseteq db.temp.rows
    /\ UNCHANGED <<transVars, retryVars, accepted, handed>>

\* Nothing but the place of the queue thread changes.
Quiet ==
    /\ db'.raw = db.raw /\ db'.temp = db.temp /\ db'.hashes = db.hashes
    /\ UNCHANGED <<queue, transVars, retryVars, accepted, handed>>
    /\ qpc' = "stored" <=> qpc = "stored"
    /\ qpc' \in {"decrypted", "tx"} =>
         qpc \in {"decrypted", "tx"} \/ Front.msg \notin db.hashes

LEMMA NoCrashes == TypeOK /\ [Next]_vars /\ crashes' = 0 => crashes = 0
<1> SUFFICES ASSUME TypeOK, [Next]_vars, crashes' = 0 PROVE crashes = 0
  OBVIOUS
<1>1. crashes' = crashes + 1 => FALSE
  BY DEF TypeOK, FaultType
<1> QED
  BY <1>1 DEF Next, Transport, QueueThread, Retry, vars, faultVars, DbFails, RecvInsert,
     RecvInsertFails, RecvSequence, RecvQueue, RawDuplicate, DecryptSetup, DecryptStaged,
     DecryptChain, DecryptFails, TxBegin, TxStore, TxStoreFails, TxCommit, TxCommitFails,
     Deliver, DeliverFails, Delivered, SendReceipt, RetryStart, RetryTemp, RetryTempEnd,
     RetryReceipt, RetryReceiptsEnd, RetryRaw, RetryQueue, Crash

LEMMA Shapes ==
  ASSUME InboxInv, FreshInv, InboxInv', crashes' = 0, dbErrors' = 0, [Next]_vars
  PROVE  \/ \E m \in Msgs : RecvInsert(m)
         \/ RecvSequence \/ RecvQueue \/ Done \/ Quiet \/ TxStore \/ TxCommit \/ Retry
<1>a. /\ TypeOK /\ TxState /\ db \in Database /\ db.raw \in Table /\ db.temp \in Table
      /\ dbErrors = 0 /\ crashes = 0 /\ PlainOK
  BY NoCrashes, DatabaseTypes DEF InboxInv, KeyInv, HeldInv, TypeOK, DbType
<1>b. \A n : /\ Delete(db.raw, n).rows \subseteq db.raw.rows
             /\ Delete(db.raw, n).last = db.raw.last
             /\ Delete(db.temp, n).rows \subseteq db.temp.rows
  BY <1>a DEF Delete, Table
<1>c. \A t : /\ [db EXCEPT !.raw = t].raw = t /\ [db EXCEPT !.raw = t].temp = db.temp
             /\ [db EXCEPT !.raw = t].hashes = db.hashes
             /\ [db EXCEPT !.temp = t].raw = db.raw /\ [db EXCEPT !.temp = t].temp = t
             /\ [db EXCEPT !.temp = t].hashes = db.hashes
             /\ [db EXCEPT !.preKeys = t].raw = db.raw
             /\ [db EXCEPT !.preKeys = t].temp = db.temp
             /\ [db EXCEPT !.preKeys = t].hashes = db.hashes
             /\ [db EXCEPT !.staged = t].raw = db.raw
             /\ [db EXCEPT !.staged = t].temp = db.temp
             /\ [db EXCEPT !.staged = t].hashes = db.hashes
  BY <1>a DEF Database
<1> USE DEF queueVars, transVars, retryVars, appVars, histVars, faultVars, dbVars
<1>1. ASSUME DecryptFails PROVE FALSE
  <2>1. /\ Front.msg \in Msgs \ db.hashes /\ KeyGone(db, Front.msg) /\ qpc = "idle"
        /\ queue # <<>>
    BY <1>1, <1>a, FrontIs DEF DecryptFails, RawNew, QueueIs, QueueStep, TypeOK
  <2> QED
    BY <1>a, <2>1 DEF FreshInv, Opening
<1>2. ~Crash /\ ~TxStoreFails /\ ~TxCommitFails /\ \A m : ~RecvInsertFails(m)
  BY <1>a DEF Crash, TxStoreFails, TxCommitFails, RecvInsertFails, DbFails
<1>3. ASSUME RawDuplicate PROVE Done
  <2>1. db' = [db EXCEPT !.raw = Delete(db.raw, Front.seq)]
    BY <1>3 DEF RawDuplicate, Write
  <2> QED
    BY <1>3, <1>b, <1>c, <2>1 DEF RawDuplicate, QueueIs, QueueStep, Pop, Done
<1>4. ASSUME DecryptSetup \/ DecryptStaged \/ DecryptChain PROVE Quiet
  <2>1. db'.raw = db.raw /\ db'.temp = db.temp /\ db'.hashes = db.hashes
    <3>1. CASE DecryptSetup
      BY <3>1, <1>c DEF DecryptSetup, Write
    <3>2. CASE DecryptStaged
      BY <3>2, <1>c DEF DecryptStaged, Write
    <3>3. CASE DecryptChain
      BY <3>3 DEF DecryptChain
    <3> QED
      BY <1>4, <3>1, <3>2, <3>3
  <2>2. qpc = "idle" /\ qpc' = "decrypted" /\ Front.msg \notin db.hashes
    BY <1>4 DEF DecryptSetup, DecryptStaged, DecryptChain, RawNew, QueueIs, QueueStep
  <2>3. UNCHANGED <<queue, transVars, retryVars, accepted, handed>>
    BY <1>4 DEF DecryptSetup, DecryptStaged, DecryptChain
  <2> QED
    BY <2>1, <2>2, <2>3 DEF Quiet
<1>5. ASSUME TxBegin PROVE Quiet
  BY <1>5 DEF TxBegin, QueueStep, Quiet
<1>6. ASSUME Deliver PROVE Quiet
  BY <1>6 DEF Deliver, Delivering, QueueIs, QueueStep, Quiet
<1>7. qpc \in {"deliver", "delivered"} => Front.msg \in db.hashes
  BY DEF InboxInv, FateInv
<1>8. ASSUME DeliverFails PROVE Done
  BY <1>8, <1>7, <1>a DEF DeliverFails, Delivering, QueueIs, QueueStep, Pop, Done
<1>9. ASSUME Delivered PROVE Done
  <2>1. db' = [db EXCEPT !.temp = Delete(db.temp, PlainSeq)]
    BY <1>9 DEF Delivered, Write
  <2> QED
    BY <1>9, <1>7, <1>b, <1>c, <2>1 DEF Delivered, QueueStep, Pop, Done
<1>10. ASSUME SendReceipt PROVE Done
  BY <1>10 DEF SendReceipt, QueueIs, QueueStep, Pop, Done
<1>11. ASSUME UNCHANGED vars PROVE Quiet
  BY <1>11, <1>a DEF vars, Quiet, Front
<1>12. QueueThread => Done \/ Quiet \/ TxStore \/ TxCommit
  BY <1>1, <1>2, <1>3, <1>4, <1>5, <1>6, <1>8, <1>9, <1>10 DEF QueueThread
<1>13. Transport => (\E m \in Msgs : RecvInsert(m)) \/ RecvSequence \/ RecvQueue
  BY <1>2 DEF Transport
<1> QED
  BY <1>2, <1>11, <1>12, <1>13 DEF Next

\* The items sendDeliveryReceipt queues are no raw data.
LEMMA ReceiptItems ==
  ASSUME NEW m \in Msgs
  PROVE  /\ Receipt(m) \in Seq(Item)
         /\ \A k \in 1 .. Len(Receipt(m)) : Receipt(m)[k].cmd # "ReceivedRawData"
<1>1. Receipt(m) \in Seq(Item)
  BY ItemTypes
<1>2. SendItem(m).cmd = "SendMessage"
  BY DEF SendItem
<1> QED
  BY <1>1, <1>2 DEF Receipt

----------------------------------------------------------------------------
(* The line itself.                                                         *)

LEMMA LineStep ==
  ASSUME InboxInv, FreshInv, InboxInv', LineInv, crashes' = 0, dbErrors' = 0, [Next]_vars
  PROVE  LineInv' /\ Longer(Known, Single, Order, Known', Single', Order')
<1>a. TypeOK /\ TypeOK'
  BY DEF InboxInv, KeyInv
<1>1. CASE \E m \in Msgs : RecvInsert(m)
  BY <1>1, <1>a, LineGrows
<1>2. CASE Line' = Line /\ handed' = handed
  BY <1>2, <1>a, SameLine
<1>3. ASSUME RecvSequence \/ RecvQueue \/ Done \/ Quiet \/ TxStore \/ TxCommit \/ Retry
      PROVE  Line' = Line /\ handed' = handed
  BY <1>3 DEF RecvSequence, RecvQueue, Done, Quiet, TxStore, TxCommit, Retry, RetryStart,
     RetryTemp, RetryTempEnd, RetryReceipt, RetryReceiptsEnd, RetryRaw, RetryQueue,
     Line, transVars, histVars
<1> QED
  BY <1>1, <1>2, <1>3, Shapes

----------------------------------------------------------------------------
(* Numbers of raw rows.                                                     *)

LEMMA OwnKept ==
  ASSUME NEW K, NEW S, NEW L, NEW T, NEW R, NEW Q, NEW seq, NEW m,
         K \subseteq L, K \cap T \subseteq S,
         \A r \in Q : r \in R \/ r.msg \notin K \/ r.msg \notin T,
         Own(K, S, R, seq, m)
  PROVE  Own(L, T, Q, seq, m)
  BY DEF Own

LEMMA OwnItemsKept ==
  ASSUME NEW K, NEW S, NEW L, NEW T, NEW R, NEW Q, NEW list,
         K \subseteq L, K \cap T \subseteq S,
         \A r \in Q : r \in R \/ r.msg \notin K \/ r.msg \notin T,
         OwnItems(K, S, R, list)
  PROVE  OwnItems(L, T, Q, list)
  BY OwnKept DEF OwnItems

LEMMA OwnItemsSpliced ==
  ASSUME NEW K, NEW S, NEW R, NEW q \in Seq(Item), NEW l \in Seq(Item),
         OwnItems(K, S, R, q), OwnItems(K, S, R, l)
  PROVE  OwnItems(K, S, R, q \o l)
<1> SUFFICES ASSUME NEW k \in 1 .. Len(q \o l), (q \o l)[k].cmd = "ReceivedRawData"
             PROVE  Own(K, S, R, (q \o l)[k].seq, (q \o l)[k].msg)
  BY DEF OwnItems
<1>1. CASE k <= Len(q)
  <2>1. (q \o l)[k] = q[k] /\ k \in 1 .. Len(q)
    BY <1>1
  <2> QED
    BY <2>1 DEF OwnItems
<1>2. CASE k > Len(q)
  <2>1. (q \o l)[k] = l[k - Len(q)] /\ k - Len(q) \in 1 .. Len(l)
    BY <1>2
  <2> QED
    BY <2>1 DEF OwnItems
<1> QED
  BY <1>1, <1>2

LEMMA OwnItemsAppended ==
  ASSUME NEW K, NEW S, NEW R, NEW q \in Seq(Item), NEW x \in Item,
         OwnItems(K, S, R, q),
         x.cmd = "ReceivedRawData" => Own(K, S, R, x.seq, x.msg)
  PROVE  OwnItems(K, S, R, Append(q, x))
  BY DEF OwnItems

LEMMA OwnItemsPopped ==
  ASSUME NEW K, NEW S, NEW R, NEW q \in Seq(Item), q # <<>>, OwnItems(K, S, R, q)
  PROVE  OwnItems(K, S, R, Tail(q))
<1>1. \A k \in 1 .. Len(Tail(q)) : Tail(q)[k] = q[k + 1] /\ k + 1 \in 1 .. Len(q)
  OBVIOUS
<1> QED
  BY <1>1 DEF OwnItems

\* What was named before still is, by the numbers that were held before.
LEMMA OwnFrame ==
  ASSUME OwnInv, Longer(Known, Single, Order, Known', Single', Order'),
         \A r \in db'.raw.rows :
            r \in db.raw.rows \/ r.msg \notin Known \/ r.msg \notin Single'
  PROVE  /\ db.hashes \subseteq Known'
         /\ \A r \in db.raw.rows : Own(Known', Single', db'.raw.rows, r.seq, r.msg)
         /\ OwnItems(Known', Single', db'.raw.rows, queue)
         /\ OwnItems(Known', Single', db'.raw.rows, rlist)
         /\ tpc = "inserted"  => Own(Known', Single', db'.raw.rows, db.raw.last, tmsg)
         /\ tpc = "sequenced" => Own(Known', Single', db'.raw.rows, tseq, tmsg)
<1>1. Known \subseteq Known' /\ Known \cap Single' \subseteq Single
  BY DEF Longer
<1>2. \A seq, m : Own(Known, Single, db.raw.rows, seq, m)
                    => Own(Known', Single', db'.raw.rows, seq, m)
  BY <1>1, OwnKept
<1> QED
  BY <1>1, <1>2 DEF OwnInv, OwnItems

LEMMA OwnStep ==
  ASSUME InboxInv, FreshInv, InboxInv', LineInv, OwnInv, crashes' = 0, dbErrors' = 0,
         [Next]_vars
  PROVE  OwnInv'
<1>a. /\ TypeOK /\ TypeOK' /\ PlainOK /\ db \in Database /\ db.raw \in Table
      /\ queue \in Seq(Item) /\ rlist \in Seq(Item) /\ TxState
  BY DatabaseTypes DEF InboxInv, KeyInv, HeldInv, TypeOK, DbType, QueueType, RetryType
<1>b. Longer(Known, Single, Order, Known', Single', Order')
  BY LineStep
<1>c. queue # <<>> => Front = queue[1] /\ Front \in Item /\ Front.msg \in Msgs
  BY <1>a, FrontIs DEF TypeOK, Front
<1>d. \A n : /\ Delete(db.raw, n).rows \subseteq db.raw.rows
             /\ Delete(db.raw, n).last = db.raw.last
  BY <1>a DEF Delete, Table
<1> USE DEF transVars, retryVars
<1>1. ASSUME NEW m \in Msgs, RecvInsert(m) PROVE OwnInv'
  <2>1. /\ db'.raw = Insert(db.raw, m) /\ db'.hashes = db.hashes
        /\ queue' = queue /\ rlist' = rlist /\ tpc' = "inserted" /\ tmsg' = m
    BY <1>1, <1>a DEF RecvInsert, Write, Database, queueVars
  <2> DEFINE new == [seq |-> db.raw.last + 1, msg |-> m]
  <2>2. db'.raw.rows = db.raw.rows \cup {new} /\ db'.raw.last = new.seq /\ new.msg = m
    BY <2>1 DEF Insert
  <2>3. m \in Known' /\ (m \in Known => m \notin Single')
    BY <1>1, <1>a, LineGrows
  <2> HIDE DEF new
  <2>4. \A r \in db'.raw.rows :
           r \in db.raw.rows \/ r.msg \notin Known \/ r.msg \notin Single'
    BY <2>2, <2>3
  <2>5. /\ db.hashes \subseteq Known'
        /\ \A r \in db.raw.rows : Own(Known', Single', db'.raw.rows, r.seq, r.msg)
        /\ OwnItems(Known', Single', db'.raw.rows, queue)
        /\ OwnItems(Known', Single', db'.raw.rows, rlist)
    BY <1>b, <2>4, OwnFrame
  <2>6. \A r \in db.raw.rows : r.msg \in Known
    BY DEF OwnInv, Own
  <2>7. Own(Known', Single', db'.raw.rows, new.seq, m)
    BY <2>2, <2>3, <2>6 DEF Own
  <2> QED
    BY <2>1, <2>2, <2>5, <2>7 DEF OwnInv
<1>2. ASSUME db'.raw.rows \subseteq db.raw.rows, db'.raw.last = db.raw.last
      PROVE  /\ db.hashes \subseteq Known'
             /\ \A r \in db'.raw.rows : Own(Known', Single', db'.raw.rows, r.seq, r.msg)
             /\ OwnItems(Known', Single', db'.raw.rows, queue)
             /\ OwnItems(Known', Single', db'.raw.rows, rlist)
             /\ tpc = "inserted"  => Own(Known', Single', db'.raw.rows, db'.raw.last, tmsg)
             /\ tpc = "sequenced" => Own(Known', Single', db'.raw.rows, tseq, tmsg)
  BY <1>2, <1>b, OwnFrame
<1>3. CASE RecvSequence
  <2>1. /\ db' = db /\ queue' = queue /\ rlist' = rlist /\ tmsg' = tmsg
        /\ tpc = "inserted" /\ tpc' = "sequenced" /\ tseq' = db.raw.last
    BY <1>3 DEF RecvSequence, dbVars, queueVars
  <2> QED
    BY <1>2, <2>1 DEF OwnInv
<1>4. CASE RecvQueue
  <2>1. /\ db' = db /\ queue' = Append(queue, RawItem(tseq, tmsg)) /\ rlist' = rlist
        /\ tpc = "sequenced" /\ tpc' = "idle"
    BY <1>4 DEF RecvQueue, dbVars
  <2>2. /\ RawItem(tseq, tmsg) \in Item /\ RawItem(tseq, tmsg).seq = tseq
        /\ RawItem(tseq, tmsg).msg = tmsg
    BY <1>a, ItemTypes DEF TypeOK, TransType, RawItem
  <2>3. OwnItems(Known', Single', db'.raw.rows, queue')
    BY <1>2, <1>a, <2>1, <2>2, OwnItemsAppended
  <2> QED
    BY <1>2, <2>1, <2>3 DEF OwnInv
<1>5. CASE Done
  <2>1. OwnItems(Known', Single', db'.raw.rows, queue')
    BY <1>5, <1>2, <1>a, OwnItemsPopped DEF Done
  <2> QED
    BY <1>5, <1>2, <2>1 DEF Done, OwnInv
<1>6. CASE Quiet
  BY <1>6, <1>2 DEF Quiet, OwnInv
<1>7. CASE TxStore
  <2>1. /\ db'.raw = db.raw /\ db'.hashes = db.hashes \cup {Front.msg} /\ queue # <<>>
        /\ qpc = "tx" /\ UNCHANGED <<queue, rlist, tpc, tmsg, tseq>>
    BY <1>7 DEF TxStore, Write, QueueStep
  <2>2. Front.cmd = "ReceivedRawData" /\ Front = queue[1] /\ 1 \in 1 .. Len(queue)
    BY <1>a, <1>c, <2>1 DEF PlainOK
  <2>3. Front.msg \in Known
    BY <2>2 DEF OwnInv, OwnItems, Own
  <2>4. Front.msg \in Known'
    BY <1>b, <2>3 DEF Longer
  <2> QED
    BY <1>2, <2>1, <2>4 DEF OwnInv
<1>8. CASE TxCommit
  <2>1. /\ db'.raw = Delete(db.raw, Front.seq) /\ db'.hashes = db.hashes /\ queue # <<>>
        /\ queue' = queue \o Receipt(Front.msg) /\ UNCHANGED <<rlist, tpc, tmsg, tseq>>
    BY <1>8, <1>a DEF TxCommit, QueueStep, Database
  <2>2. OwnItems(Known', Single', db'.raw.rows, Receipt(Front.msg))
    BY <1>c, <2>1, ReceiptItems DEF OwnItems
  <2>3. db'.raw.rows \subseteq db.raw.rows /\ db'.raw.last = db.raw.last
    BY <1>d, <2>1
  <2>4. OwnItems(Known', Single', db'.raw.rows, queue')
    BY <1>2, <1>a, <1>c, <2>1, <2>2, <2>3, OwnItemsSpliced, ReceiptItems
  <2> QED
    BY <1>2, <2>1, <2>3, <2>4 DEF OwnInv
<1>9. ASSUME db' = db, UNCHANGED <<tpc, tmsg, tseq>>,
             OwnItems(Known', Single', db'.raw.rows, queue'),
             OwnItems(Known', Single', db'.raw.rows, rlist')
      PROVE  OwnInv'
  BY <1>9, <1>2 DEF OwnInv
<1>e. \A r \in db.raw.rows \cup db.temp.rows : r.seq \in Nat /\ r.msg \in Msgs
  BY <1>a DEF Database, Table, Row
<1>10. CASE RetryStart \/ RetryTempEnd \/ RetryReceiptsEnd
  BY <1>10, <1>2 DEF RetryStart, RetryTempEnd, RetryReceiptsEnd, OwnInv, dbVars, queueVars
<1>11. CASE RetryTemp
  <2>1. PICK r \in db.temp.rows : rlist' = Append(rlist, TempItem(r.seq, r.msg))
    BY <1>11 DEF RetryTemp
  <2>2. TempItem(r.seq, r.msg) \in Item /\ TempItem(r.seq, r.msg).cmd # "ReceivedRawData"
    BY <1>e, ItemTypes DEF TempItem
  <2>3. db' = db /\ queue' = queue /\ UNCHANGED <<tpc, tmsg, tseq>>
    BY <1>11 DEF RetryTemp, dbVars, queueVars
  <2>4. OwnItems(Known', Single', db'.raw.rows, rlist')
    BY <1>2, <1>a, <2>1, <2>2, <2>3, OwnItemsAppended
  <2> QED
    BY <1>2, <1>9, <2>3, <2>4
<1>12. CASE RetryRaw
  <2>1. PICK r \in db.raw.rows : rlist' = Append(rlist, RawItem(r.seq, r.msg))
    BY <1>12 DEF RetryRaw
  <2>2. /\ RawItem(r.seq, r.msg) \in Item /\ RawItem(r.seq, r.msg).seq = r.seq
        /\ RawItem(r.seq, r.msg).msg = r.msg
    BY <1>e, ItemTypes DEF RawItem
  <2>3. db' = db /\ queue' = queue /\ UNCHANGED <<tpc, tmsg, tseq>>
    BY <1>12 DEF RetryRaw, dbVars, queueVars
  <2>4. OwnItems(Known', Single', db'.raw.rows, rlist')
    BY <1>2, <1>a, <2>1, <2>2, <2>3, OwnItemsAppended
  <2> QED
    BY <1>2, <1>9, <2>3, <2>4
<1>13. CASE RetryReceipt
  <2>1. /\ queue' = queue \o Receipt(rlist[rcursor + 1].msg) /\ rcursor < Len(rlist)
        /\ db' = db /\ rlist' = rlist /\ UNCHANGED <<tpc, tmsg, tseq>>
    BY <1>13 DEF RetryReceipt, dbVars
  <2>2. rlist[rcursor + 1] \in Item
    BY <1>a, <2>1 DEF TypeOK, RetryType
  <2>3. rlist[rcursor + 1].msg \in Msgs
    BY <2>2 DEF Item
  <2> DEFINE m == rlist[rcursor + 1].msg
  <2>4. OwnItems(Known', Single', db'.raw.rows, Receipt(m)) /\ Receipt(m) \in Seq(Item)
    BY <2>3, ReceiptItems DEF OwnItems
  <2>5. OwnItems(Known', Single', db'.raw.rows, queue')
    BY <1>2, <1>a, <2>1, <2>4, OwnItemsSpliced
  <2> QED
    BY <1>2, <1>9, <2>1, <2>5
<1>14. CASE RetryQueue
  <2>1. /\ queue' = queue \o rlist /\ rlist' = <<>> /\ db' = db
        /\ UNCHANGED <<tpc, tmsg, tseq>>
    BY <1>14 DEF RetryQueue, dbVars
  <2>2. OwnItems(Known', Single', db'.raw.rows, queue')
    BY <1>2, <1>a, <2>1, OwnItemsSpliced
  <2>3. OwnItems(Known', Single', db'.raw.rows, rlist')
    BY <2>1 DEF OwnItems
  <2> QED
    BY <1>9, <2>1, <2>2, <2>3
<1> QED
  BY <1>1, <1>3, <1>4, <1>5, <1>6, <1>7, <1>8, <1>10, <1>11, <1>12, <1>13, <1>14, Shapes
     DEF Retry

\* All steps but the storing of raw data leave the line alone.
LEMMA SameOrder ==
  ASSUME TypeOK, LineInv,
         RecvSequence \/ RecvQueue \/ Done \/ Quiet \/ TxStore \/ TxCommit \/ Retry
  PROVE  Known' = Known /\ Single' = Single /\ Order' = Order
<1>1. Line' = Line /\ handed' = handed
  BY DEF RecvSequence, RecvQueue, Done, Quiet, TxStore, TxCommit, Retry, RetryStart,
     RetryTemp, RetryTempEnd, RetryReceipt, RetryReceiptsEnd, RetryRaw, RetryQueue,
     Line, transVars, histVars
<1> QED
  BY <1>1, SameLine

----------------------------------------------------------------------------
(* The queue keeps to the line.                                             *)

LEMMA AheadSpliced ==
  ASSUME NEW H, NEW q \in Seq(Item), NEW l \in Seq(Item), NEW x,
         NEW n \in 1 .. Len(q) + 1, NEW k \in Nat, n <= k, Ahead(H, q, x, n)
  PROVE  Ahead(H, q \o l, x, k)
<1>1. CASE x \in H
  BY <1>1 DEF Ahead
<1>2. ASSUME NEW j \in 1 .. n - 1, q[j].cmd = "ReceivedRawData" /\ q[j].msg = x
      PROVE  Ahead(H, q \o l, x, k)
  <2>1. (q \o l)[j] = q[j] /\ j \in 1 .. k - 1
    OBVIOUS
  <2> QED
    BY <1>2, <2>1 DEF Ahead
<1> QED
  BY <1>1, <1>2 DEF Ahead

LEMMA AheadPopped ==
  ASSUME NEW H, NEW q \in Seq(Item), q # <<>>, NEW x, NEW n \in 1 .. Len(q),
         q[1].cmd = "ReceivedRawData" => q[1].msg \in H, Ahead(H, q, x, n + 1)
  PROVE  Ahead(H, Tail(q), x, n)
<1>1. CASE x \in H
  BY <1>1 DEF Ahead
<1>2. ASSUME NEW j \in 1 .. n, q[j].cmd = "ReceivedRawData" /\ q[j].msg = x, x \notin H
      PROVE  Ahead(H, Tail(q), x, n)
  <2>1. j # 1
    BY <1>2
  <2>2. Tail(q)[j - 1] = q[j] /\ j - 1 \in 1 .. n - 1
    BY <2>1
  <2> QED
    BY <1>2, <2>2 DEF Ahead
<1>3. x \in H \/ \E j \in 1 .. n : q[j].cmd = "ReceivedRawData" /\ q[j].msg = x
  BY DEF Ahead
<1> QED
  BY <1>1, <1>2, <1>3

LEMMA InTurnKept ==
  ASSUME NEW K, NEW S, NEW E, NEW L, NEW T, NEW F, NEW R, NEW H, NEW G, NEW q,
         Longer(K, S, E, L, T, F), H \subseteq G, OwnItems(K, S, R, q), InTurn(H, S, E, q)
  PROVE  InTurn(G, T, F, q)
<1> SUFFICES ASSUME NEW k \in 1 .. Len(q), NEW x \in T, q[k].cmd = "ReceivedRawData",
                    q[k].msg \in T, <<x, q[k].msg>> \in F
             PROVE  Ahead(G, q, x, k)
  BY DEF InTurn
<1>1. q[k].msg \in K \cap T
  BY DEF OwnItems, Own
<1>2. x \in K
  BY <1>1 DEF Longer
<1>3. x \in S /\ q[k].msg \in S /\ <<x, q[k].msg>> \in E
  BY <1>1, <1>2 DEF Longer
<1>4. Ahead(H, q, x, k)
  BY <1>3 DEF InTurn
<1> QED
  BY <1>4 DEF Ahead

LEMMA InTurnSpliced ==
  ASSUME NEW H, NEW S, NEW E, NEW q \in Seq(Item), NEW l \in Seq(Item), InTurn(H, S, E, q),
         \A k \in 1 .. Len(l), x \in S :
            l[k].cmd = "ReceivedRawData" /\ l[k].msg \in S /\ <<x, l[k].msg>> \in E
              => Ahead(H, q, x, Len(q) + 1)
  PROVE  InTurn(H, S, E, q \o l)
<1> SUFFICES ASSUME NEW k \in 1 .. Len(q \o l), NEW x \in S,
                    (q \o l)[k].cmd = "ReceivedRawData", (q \o l)[k].msg \in S,
                    <<x, (q \o l)[k].msg>> \in E
             PROVE  Ahead(H, q \o l, x, k)
  BY DEF InTurn
<1>1. Len(q) \in Nat /\ Len(l) \in Nat /\ k \in Nat
  OBVIOUS
<1>2. CASE k <= Len(q)
  <2>1. (q \o l)[k] = q[k] /\ k \in 1 .. Len(q)
    BY <1>2
  <2>2. Ahead(H, q, x, k)
    BY <2>1 DEF InTurn
  <2> QED
    BY <1>1, <2>1, <2>2, AheadSpliced
<1>3. CASE k > Len(q)
  <2>1. (q \o l)[k] = l[k - Len(q)] /\ k - Len(q) \in 1 .. Len(l)
    BY <1>3
  <2>2. Ahead(H, q, x, Len(q) + 1) /\ Len(q) + 1 <= k /\ Len(q) + 1 \in 1 .. Len(q) + 1
    BY <1>1, <1>3, <2>1
  <2> QED
    BY <1>1, <2>2, AheadSpliced
<1> QED
  BY <1>1, <1>2, <1>3

LEMMA InTurnPopped ==
  ASSUME NEW H, NEW S, NEW E, NEW q \in Seq(Item), q # <<>>, InTurn(H, S, E, q),
         q[1].cmd = "ReceivedRawData" => q[1].msg \in H
  PROVE  InTurn(H, S, E, Tail(q))
<1> SUFFICES ASSUME NEW k \in 1 .. Len(Tail(q)), NEW x \in S,
                    Tail(q)[k].cmd = "ReceivedRawData", Tail(q)[k].msg \in S,
                    <<x, Tail(q)[k].msg>> \in E
             PROVE  Ahead(H, Tail(q), x, k)
  BY DEF InTurn
<1>1. Tail(q)[k] = q[k + 1] /\ k + 1 \in 1 .. Len(q) /\ k \in 1 .. Len(q)
  OBVIOUS
<1>2. Ahead(H, q, x, k + 1)
  BY <1>1 DEF InTurn
<1> QED
  BY <1>1, <1>2, AheadPopped

LEMMA TurnStep ==
  ASSUME InboxInv, FreshInv, InboxInv', LineInv, OwnInv, TurnInv, crashes' = 0,
         dbErrors' = 0, [Next]_vars
  PROVE  TurnInv'
<1>a. /\ TypeOK /\ TypeOK' /\ db \in Database /\ TxState
      /\ queue \in Seq(Item) /\ rlist \in Seq(Item) /\ Len(queue) \in Nat
  BY DEF InboxInv, KeyInv, TypeOK, DbType, QueueType, RetryType
<1>b. Longer(Known, Single, Order, Known', Single', Order')
  BY LineStep
<1>c. queue # <<>> => Front = queue[1] /\ Front \in Item /\ Front.msg \in Msgs
  BY <1>a, FrontIs DEF TypeOK, Front
<1>d. Single \subseteq Known
  BY <1>a, LineType
<1>e. /\ \A x \in Single : \/ Ahead(db.hashes, queue, x, Len(queue) + 1)
                           \/ tpc # "idle" /\ tmsg = x
      /\ InTurn(db.hashes, Single, Order, queue)
  BY DEF TurnInv
<1> USE DEF transVars, retryVars
<1>1. ASSUME NEW m \in Msgs, RecvInsert(m) PROVE TurnInv'
  <2>1. /\ db'.hashes = db.hashes /\ queue' = queue /\ tpc = "idle"
        /\ tpc' = "inserted" /\ tmsg' = m
    BY <1>1, <1>a DEF RecvInsert, Write, Database, queueVars
  <2>2. Known' = Known \cup {m}
    BY <1>1, <1>a, LineGrows
  <2>3. \A x \in Single' : x = m \/ x \in Single
    BY <1>a, <1>b, <2>2, LineType DEF Longer, Known, Single
  <2>4. InTurn(db.hashes, Single', Order', queue)
    BY <1>b, <1>e, InTurnKept DEF OwnInv
  <2> QED
    BY <1>e, <2>1, <2>3, <2>4 DEF TurnInv
<1>2. CASE RecvSequence
  <2>1. /\ db' = db /\ queue' = queue /\ tpc = "inserted" /\ tpc' = "sequenced"
        /\ tmsg' = tmsg /\ Single' = Single /\ Order' = Order
    BY <1>2, <1>a, SameOrder DEF RecvSequence, dbVars, queueVars
  <2> QED
    BY <1>e, <2>1 DEF TurnInv
<1>3. CASE RecvQueue
  <2> DEFINE item == RawItem(tseq, tmsg)
             l    == <<item>>
  <2>1. /\ db' = db /\ tpc = "sequenced" /\ Single' = Single /\ Order' = Order
        /\ queue' = Append(queue, item)
    BY <1>3, <1>a, SameOrder DEF RecvQueue, dbVars
  <2>2. item \in Item /\ item.cmd = "ReceivedRawData" /\ item.msg = tmsg
    BY <1>a, ItemTypes DEF TypeOK, TransType, RawItem
  <2> HIDE DEF item
  <2>3. l \in Seq(Item) /\ queue' = queue \o l /\ Len(l) = 1 /\ l[1] = item
    BY <1>a, <2>1, <2>2
  <2> HIDE DEF l
  <2>4. ASSUME NEW x \in Single, tmsg \in Single, <<x, tmsg>> \in Order
        PROVE  Ahead(db.hashes, queue, x, Len(queue) + 1)
    BY <1>a, <1>e, <2>4, OrderFacts
  <2>5. InTurn(db.hashes, Single, Order, queue')
    <3>1. \A k \in 1 .. Len(l) : l[k].msg = tmsg
      BY <2>2, <2>3
    <3>2. \A k \in 1 .. Len(l), x \in Single :
            l[k].cmd = "ReceivedRawData" /\ l[k].msg \in Single /\ <<x, l[k].msg>> \in Order
              => Ahead(db.hashes, queue, x, Len(queue) + 1)
      BY <2>4, <3>1
    <3> QED
      BY <1>a, <1>e, <2>3, <3>2, InTurnSpliced
  <2>6. ASSUME NEW x \in Single
        PROVE  Ahead(db.hashes, queue', x, Len(queue') + 1)
    <3>1. CASE Ahead(db.hashes, queue, x, Len(queue) + 1)
      <4>1. /\ Len(queue) + 1 \in 1 .. Len(queue) + 1 /\ Len(queue') + 1 \in Nat
            /\ Len(queue) + 1 <= Len(queue') + 1
        BY <1>a, <2>3
      <4> QED
        BY <1>a, <2>3, <3>1, <4>1, AheadSpliced
    <3>2. CASE tmsg = x
      <4>1. /\ queue'[Len(queue) + 1] = item /\ Len(queue') = Len(queue) + 1
            /\ Len(queue) + 1 \in 1 .. (Len(queue') + 1) - 1
        BY <1>a, <2>1, <2>2
      <4> QED
        BY <2>2, <3>2, <4>1 DEF Ahead
    <3> QED
      BY <1>e, <3>1, <3>2
  <2> QED
    BY <2>1, <2>5, <2>6 DEF TurnInv
<1>4. CASE Done
  <2>1. /\ db'.hashes = db.hashes /\ tpc' = tpc /\ tmsg' = tmsg
        /\ Single' = Single /\ Order' = Order /\ queue # <<>> /\ queue' = Tail(queue)
        /\ queue[1].cmd = "ReceivedRawData" => queue[1].msg \in db.hashes
    BY <1>4, <1>a, <1>c, SameOrder DEF Done
  <2>2. InTurn(db.hashes, Single, Order, queue')
    BY <1>a, <1>e, <2>1, InTurnPopped
  <2>3. Len(queue) \in 1 .. Len(queue) /\ Len(queue') + 1 = Len(queue)
    BY <1>a, <2>1
  <2>4. \A x : Ahead(db.hashes, queue, x, Len(queue) + 1)
                 => Ahead(db.hashes, queue', x, Len(queue') + 1)
    BY <1>a, <2>1, <2>3, AheadPopped
  <2> QED
    BY <1>e, <2>1, <2>2, <2>4 DEF TurnInv
<1>5. CASE Quiet
  <2>1. /\ db'.hashes = db.hashes /\ queue' = queue /\ tpc' = tpc /\ tmsg' = tmsg
        /\ Single' = Single /\ Order' = Order
    BY <1>5, <1>a, SameOrder DEF Quiet
  <2> QED
    BY <1>e, <2>1 DEF TurnInv
<1>6. CASE TxStore
  <2>1. /\ db.hashes \subseteq db'.hashes /\ queue' = queue /\ tpc' = tpc /\ tmsg' = tmsg
        /\ Single' = Single /\ Order' = Order
    BY <1>6, <1>a, SameOrder DEF TxStore, Write
  <2>2. InTurn(db'.hashes, Single', Order', queue')
    BY <1>b, <1>e, <2>1, InTurnKept DEF OwnInv
  <2> QED
    BY <1>e, <2>1, <2>2 DEF TurnInv, Ahead
<1>7. ASSUME NEW l \in Seq(Item), queue' = queue \o l, db'.hashes = db.hashes,
             tpc' = tpc, tmsg' = tmsg, Single' = Single, Order' = Order,
             \A k \in 1 .. Len(l), x \in Single :
               l[k].cmd = "ReceivedRawData" /\ l[k].msg \in Single
                 /\ <<x, l[k].msg>> \in Order => Ahead(db.hashes, queue, x, Len(queue) + 1)
      PROVE  TurnInv'
  <2>1. InTurn(db.hashes, Single, Order, queue')
    BY <1>7, <1>a, <1>e, InTurnSpliced
  <2>2. /\ Len(queue) + 1 \in 1 .. Len(queue) + 1 /\ Len(queue') + 1 \in Nat
        /\ Len(queue) + 1 <= Len(queue') + 1
    BY <1>7, <1>a
  <2>3. \A x : Ahead(db.hashes, queue, x, Len(queue) + 1)
                 => Ahead(db.hashes, queue', x, Len(queue') + 1)
    BY <1>7, <1>a, <2>2, AheadSpliced
  <2> QED
    BY <1>7, <1>e, <2>1, <2>3 DEF TurnInv
<1>8. CASE TxCommit
  <2>1. /\ db'.hashes = db.hashes /\ queue # <<>> /\ tpc' = tpc /\ tmsg' = tmsg
        /\ queue' = queue \o Receipt(Front.msg) /\ Single' = Single /\ Order' = Order
    BY <1>8, <1>a, SameOrder DEF TxCommit, QueueStep, Database
  <2> QED
    BY <1>7, <1>c, <2>1, ReceiptItems
<1>9. CASE RetryReceipt
  <2>1. /\ queue' = queue \o Receipt(rlist[rcursor + 1].msg) /\ rcursor < Len(rlist)
        /\ db' = db /\ tpc' = tpc /\ tmsg' = tmsg /\ Single' = Single /\ Order' = Order
    BY <1>9, <1>a, SameOrder DEF RetryReceipt, dbVars, Retry
  <2>2. rlist[rcursor + 1] \in Item
    BY <1>a, <2>1 DEF TypeOK, RetryType
  <2>3. rlist[rcursor + 1].msg \in Msgs
    BY <2>2 DEF Item
  <2> QED
    BY <1>7, <2>1, <2>3, ReceiptItems
<1>10. CASE RetryQueue
  <2>1. /\ queue' = queue \o rlist /\ db' = db /\ tpc' = tpc /\ tmsg' = tmsg
        /\ Single' = Single /\ Order' = Order
    BY <1>10, <1>a, SameOrder DEF RetryQueue, dbVars, Retry
  <2>2. ASSUME NEW k \in 1 .. Len(rlist), NEW x \in Single, rlist[k].msg \in Single,
               <<x, rlist[k].msg>> \in Order
        PROVE  Ahead(db.hashes, queue, x, Len(queue) + 1)
    <3>1. ~(tpc # "idle" /\ tmsg = x)
      BY <1>a, <2>2, TransportIsLast
    <3> QED
      BY <1>e, <3>1
  <2> QED
    BY <1>7, <1>a, <2>1, <2>2
<1>11. CASE RetryStart \/ RetryTemp \/ RetryTempEnd \/ RetryReceiptsEnd \/ RetryRaw
  <2>1. Single' = Single /\ Order' = Order
    BY <1>11, <1>a, SameOrder DEF Retry
  <2>2. db' = db /\ queue' = queue /\ tpc' = tpc /\ tmsg' = tmsg
    BY <1>11 DEF RetryStart, RetryTemp, RetryTempEnd, RetryReceiptsEnd, RetryRaw, dbVars,
       queueVars
  <2> QED
    BY <1>e, <2>1, <2>2 DEF TurnInv
<1> QED
  BY <1>1, <1>2, <1>3, <1>4, <1>5, <1>6, <1>8, <1>9, <1>10, <1>11, Shapes DEF Retry

----------------------------------------------------------------------------
(* The hashed messages are the first of the line.                           *)

LEMMA HashFrame ==
  ASSUME HashInv, Single' = Single, Order' = Order, db'.hashes = db.hashes,
         db'.raw.rows \subseteq db.raw.rows,
         qpc' \in {"decrypted", "tx"} => Front'.msg \notin db.hashes,
         qpc = "stored" => qpc' = "stored" /\ Front' = Front
  PROVE  HashInv'
  BY DEF HashInv

LEMMA HashStep ==
  ASSUME InboxInv, FreshInv, InboxInv', LineInv, OwnInv, TurnInv, HashInv, crashes' = 0,
         dbErrors' = 0, [Next]_vars
  PROVE  HashInv'
<1>a. /\ TypeOK /\ TypeOK' /\ db \in Database /\ TxState /\ PlainOK /\ db.raw \in Table
      /\ queue \in Seq(Item) /\ rlist \in Seq(Item)
  BY DatabaseTypes DEF InboxInv, KeyInv, HeldInv, TypeOK, DbType, QueueType, RetryType
<1>b. queue # <<>> => Front = queue[1] /\ Front \in Item /\ Front.msg \in Msgs
  BY <1>a, FrontIs DEF TypeOK, Front
<1>c. Single \subseteq Known
  BY <1>a, LineType
<1>d. /\ \A h \in Single \cap db.hashes, x \in Single \ db.hashes : <<h, x>> \in Order
      /\ qpc \in {"decrypted", "tx"} => Front.msg \notin db.hashes
      /\ \A r \in db.raw.rows : r.msg \in Single \cap db.hashes =>
           /\ qpc = "stored" /\ r.msg = Front.msg
           /\ \A h \in Single \cap db.hashes : <<r.msg, h>> \notin Order
  BY DEF HashInv
<1> USE DEF transVars, retryVars
<1>1. ASSUME NEW m \in Msgs, RecvInsert(m) PROVE HashInv'
  <2>1. /\ db'.hashes = db.hashes /\ queue' = queue /\ qpc' = qpc
        /\ db'.raw = Insert(db.raw, m)
    BY <1>1, <1>a DEF RecvInsert, Write, Database, queueVars
  <2>2. /\ Known' = Known \cup {m} /\ (m \in Known => m \notin Single')
        /\ Longer(Known, Single, Order, Known', Single', Order')
    BY <1>1, <1>a, LineGrows
  <2>3. Front' = Front
    BY <2>1 DEF Front
  <2>4. db.hashes \subseteq Known /\ \A r \in db.raw.rows : r.msg \in Known
    BY DEF OwnInv, Own
  <2>5. \A r \in db'.raw.rows : r \in db.raw.rows \/ r.msg = m
    BY <2>1 DEF Insert
  <2>6. \A h \in Single' \cap db.hashes : h \in Single \cap db.hashes /\ h \in Known \cap Single'
    BY <2>2, <2>4 DEF Longer
  <2>7. ASSUME NEW h \in Single' \cap db.hashes, NEW x \in Single' \ db.hashes
        PROVE  <<h, x>> \in Order'
    <3>1. CASE x \in Known
      <4>1. x \in Single \ db.hashes /\ x \in Known \cap Single'
        BY <2>2, <2>7, <3>1 DEF Longer
      <4>2. <<h, x>> \in Order
        BY <1>d, <2>6, <4>1
      <4> QED
        BY <2>2, <2>6, <4>1, <4>2 DEF Longer
    <3>2. CASE x \notin Known
      BY <2>2, <2>6, <2>7, <3>2 DEF Longer
    <3> QED
      BY <3>1, <3>2
  <2>8. ASSUME NEW r \in db'.raw.rows, r.msg \in Single' \cap db.hashes
        PROVE  /\ qpc = "stored" /\ r.msg = Front.msg
               /\ \A h \in Single' \cap db.hashes : <<r.msg, h>> \notin Order'
    <3>1. r.msg \in Single \cap db.hashes /\ r.msg \in Known \cap Single' /\ r.msg # m
      BY <2>2, <2>6, <2>8
    <3>2. r \in db.raw.rows
      BY <2>5, <3>1
    <3>3. /\ qpc = "stored" /\ r.msg = Front.msg
          /\ \A h \in Single \cap db.hashes : <<r.msg, h>> \notin Order
      BY <1>d, <3>1, <3>2
    <3> QED
      BY <2>2, <2>6, <3>1, <3>3 DEF Longer
  <2> QED
    BY <1>d, <2>1, <2>3, <2>7, <2>8 DEF HashInv
<1>2. ASSUME UNCHANGED <<db, queue, qpc>>, Single' = Single, Order' = Order
      PROVE  HashInv'
  BY <1>2 DEF HashInv, Front
<1>3. ASSUME NEW l \in Seq(Item), db' = db, qpc' = qpc, queue' = queue \o l,
             Single' = Single, Order' = Order
      PROVE  HashInv'
  <2>1. qpc # "idle" => Front' = Front
    BY <1>3, <1>a, FrontKept DEF TxState, Front
  <2> QED
    BY <1>3, <1>d, <2>1 DEF HashInv
<1>4. CASE RecvSequence
  BY <1>4, <1>2, <1>a, SameOrder DEF RecvSequence, dbVars, queueVars
<1>5. CASE RecvQueue
  <2>1. RawItem(tseq, tmsg) \in Item
    BY <1>a, ItemTypes DEF TypeOK, TransType
  <2>2. /\ <<RawItem(tseq, tmsg)>> \in Seq(Item)
        /\ Append(queue, RawItem(tseq, tmsg)) = queue \o <<RawItem(tseq, tmsg)>>
    BY <1>a, <2>1
  <2>3. /\ db' = db /\ qpc' = qpc /\ queue' = queue \o <<RawItem(tseq, tmsg)>>
        /\ Single' = Single /\ Order' = Order
    BY <1>5, <1>a, <2>2, SameOrder DEF RecvQueue, dbVars
  <2> QED
    BY <1>3, <2>2, <2>3
<1>6. CASE Done
  <2>1. Single' = Single /\ Order' = Order
    BY <1>6, <1>a, SameOrder
  <2> QED
    BY <1>6, <2>1, HashFrame DEF Done
<1>7. CASE Quiet
  <2>1. Single' = Single /\ Order' = Order
    BY <1>7, <1>a, SameOrder
  <2>2. Front' = Front /\ db'.raw.rows = db.raw.rows /\ db'.hashes = db.hashes
    BY <1>7 DEF Quiet, Front
  <2>3. /\ qpc' = "stored" <=> qpc = "stored"
        /\ qpc' \in {"decrypted", "tx"} =>
             qpc \in {"decrypted", "tx"} \/ Front.msg \notin db.hashes
    BY <1>7 DEF Quiet
  <2> QED
    BY <1>d, <2>1, <2>2, <2>3, HashFrame
<1>8. CASE TxStore
  <2> DEFINE m == Front.msg
  <2>1. /\ qpc = "tx" /\ qpc' = "stored" /\ queue # <<>> /\ queue' = queue
        /\ db'.hashes = db.hashes \cup {m} /\ db'.raw = db.raw
        /\ Single' = Single /\ Order' = Order
    BY <1>8, <1>a, SameOrder DEF TxStore, Write, QueueStep
  <2>2. /\ m \notin db.hashes /\ Front' = Front /\ Front = queue[1] /\ 1 \in 1 .. Len(queue)
        /\ queue[1].cmd = "ReceivedRawData"
    BY <1>a, <1>b, <1>d, <2>1 DEF PlainOK, Front
  <2>3. ASSUME m \in Single, NEW x \in Single, <<x, m>> \in Order PROVE x \in db.hashes
    <3>1. Ahead(db.hashes, queue, x, 1)
      BY <2>2, <2>3 DEF TurnInv, InTurn
    <3> QED
      BY <3>1 DEF Ahead
  <2> HIDE DEF m
  <2>4. ASSUME NEW h \in Single \cap db'.hashes, NEW x \in Single \ db'.hashes
        PROVE  <<h, x>> \in Order
    <3>1. CASE h = m
      BY <1>a, <2>1, <2>3, <2>4, <3>1, OrderFacts
    <3>2. CASE h \in db.hashes
      BY <1>d, <2>1, <2>4, <3>2
    <3> QED
      BY <2>1, <2>4, <3>1, <3>2
  <2>5. ASSUME NEW r \in db.raw.rows, r.msg \in Single \cap db'.hashes
        PROVE  /\ r.msg = m
               /\ \A h \in Single \cap db'.hashes : <<r.msg, h>> \notin Order
    <3>1. r.msg \notin db.hashes
      BY <1>d, <2>1, <2>5
    <3>2. r.msg = m /\ m \in Single
      BY <2>1, <2>5, <3>1
    <3>3. ASSUME NEW h \in Single \cap db'.hashes PROVE <<m, h>> \notin Order
      <4>1. CASE h = m
        BY <1>a, <3>2, <4>1, OrderFacts
      <4>2. CASE h \in db.hashes
        <5>1. <<h, m>> \in Order
          BY <1>d, <2>2, <3>2, <3>3, <4>2 DEF m
        <5> QED
          BY <1>a, <3>2, <3>3, <5>1, OrderFacts
      <4> QED
        BY <2>1, <3>3, <4>1, <4>2
    <3> QED
      BY <3>2, <3>3
  <2>6. Front'.msg = m
    BY <2>2 DEF m
  <2> QED
    BY <2>1, <2>4, <2>5, <2>6 DEF HashInv
<1>9. CASE TxCommit
  <2>1. /\ qpc = "stored" /\ qpc' = "deliver" /\ queue # <<>>
        /\ db'.hashes = db.hashes /\ db'.raw = Delete(db.raw, Front.seq)
        /\ Single' = Single /\ Order' = Order
    BY <1>9, <1>a, SameOrder DEF TxCommit, QueueStep, Database
  <2>2. \A r \in db'.raw.rows : r \in db.raw.rows /\ r.seq # Front.seq
    BY <1>a, <2>1 DEF Delete, Table
  <2>3. Front = queue[1] /\ 1 \in 1 .. Len(queue) /\ Front.cmd = "ReceivedRawData"
    BY <1>a, <1>b, <2>1 DEF PlainOK
  <2>4. Own(Known, Single, db.raw.rows, Front.seq, Front.msg)
    BY <2>3 DEF OwnInv, OwnItems
  <2>5. ASSUME NEW r \in db'.raw.rows, r.msg \in Single \cap db.hashes PROVE FALSE
    <3>1. r.msg = Front.msg /\ r \in db.raw.rows /\ r.seq # Front.seq
      BY <1>d, <2>2, <2>5
    <3> QED
      BY <2>4, <2>5, <3>1 DEF Own
  <2> QED
    BY <1>d, <2>1, <2>5 DEF HashInv
<1>10. CASE RetryReceipt
  <2>1. /\ queue' = queue \o Receipt(rlist[rcursor + 1].msg) /\ rcursor < Len(rlist)
        /\ db' = db /\ qpc' = qpc /\ Single' = Single /\ Order' = Order
    BY <1>10, <1>a, SameOrder DEF RetryReceipt, dbVars, Retry
  <2>2. rlist[rcursor + 1] \in Item
    BY <1>a, <2>1 DEF TypeOK, RetryType
  <2>3. rlist[rcursor + 1].msg \in Msgs
    BY <2>2 DEF Item
  <2> QED
    BY <1>3, <2>1, <2>3, ReceiptItems
<1>11. CASE RetryQueue
  <2>1. /\ queue' = queue \o rlist /\ db' = db /\ qpc' = qpc
        /\ Single' = Single /\ Order' = Order
    BY <1>11, <1>a, SameOrder DEF RetryQueue, dbVars, Retry
  <2> QED
    BY <1>3, <1>a, <2>1
<1>12. CASE RetryStart \/ RetryTemp \/ RetryTempEnd \/ RetryReceiptsEnd \/ RetryRaw
  <2>1. Single' = Single /\ Order' = Order
    BY <1>12, <1>a, SameOrder DEF Retry
  <2>2. UNCHANGED <<db, queue, qpc>>
    BY <1>12 DEF RetryStart, RetryTemp, RetryTempEnd, RetryReceiptsEnd, RetryRaw, dbVars,
       queueVars
  <2> QED
    BY <1>2, <2>1, <2>2
<1> QED
  BY <1>1, <1>4, <1>5, <1>6, <1>7, <1>8, <1>9, <1>10, <1>11, <1>12, Shapes DEF Retry

----------------------------------------------------------------------------
(* The tables and the list of the retry keep to the line.                   *)

LEMMA RowsOrderKept ==
  ASSUME NEW K, NEW S, NEW E, NEW L, NEW T, NEW F, Longer(K, S, E, L, T, F),
         NEW R, NEW Q, Q \subseteq R, \A r \in R : r.msg \in K, RowsInOrder(S, E, R)
  PROVE  RowsInOrder(T, F, Q)
<1> SUFFICES ASSUME NEW r \in Q, NEW q \in Q, r.seq < q.seq, r.msg \in T, q.msg \in T
             PROVE  <<q.msg, r.msg>> \notin F
  BY DEF RowsInOrder
<1>1. r.msg \in K \cap T /\ q.msg \in K \cap T /\ r.msg \in S /\ q.msg \in S
  BY DEF Longer
<1>2. <<q.msg, r.msg>> \notin E
  BY <1>1 DEF RowsInOrder
<1> QED
  BY <1>1, <1>2 DEF Longer

LEMMA RowsOrderInserted ==
  ASSUME NEW S, NEW E, NEW t \in Table, GoodTable(t), NEW m \in Msgs, RowsInOrder(S, E, t.rows),
         m \in S => \A r \in t.rows : r.msg \in S => <<m, r.msg>> \notin E
  PROVE  RowsInOrder(S, E, Insert(t, m).rows)
<1>1. /\ Insert(t, m).rows = t.rows \cup {[seq |-> t.last + 1, msg |-> m]} /\ t.last \in Nat
      /\ \A r \in t.rows : r.seq \in Nat /\ r.seq <= t.last
  BY DEF Insert, GoodTable, Table, Row
<1> SUFFICES ASSUME NEW r \in Insert(t, m).rows, NEW q \in Insert(t, m).rows,
                    r.seq < q.seq, r.msg \in S, q.msg \in S
             PROVE  <<q.msg, r.msg>> \notin E
  BY DEF RowsInOrder
<1>2. r \in t.rows
  BY <1>1
<1>3. CASE q \in t.rows
  BY <1>2, <1>3 DEF RowsInOrder
<1>4. CASE q = [seq |-> t.last + 1, msg |-> m]
  BY <1>2, <1>4
<1> QED
  BY <1>1, <1>3, <1>4

LEMMA RestKept ==
  ASSUME NEW K, NEW S, NEW E, NEW L, NEW T, NEW F, Longer(K, S, E, L, T, F),
         NEW R, NEW Q, Q \subseteq R, \A r \in R : r.msg \in K,
         NEW list, \A k \in 1 .. Len(list) : list[k].msg \in K,
         NEW c, RestFollows(S, E, list, R, c)
  PROVE  RestFollows(T, F, list, Q, c)
<1> SUFFICES ASSUME NEW k \in 1 .. Len(list), NEW r \in Q, r.seq > c, r.msg \in T,
                    list[k].msg \in T
             PROVE  <<r.msg, list[k].msg>> \notin F
  BY DEF RestFollows
<1>1. r.msg \in K \cap T /\ list[k].msg \in K \cap T /\ r.msg \in S /\ list[k].msg \in S
  BY DEF Longer
<1>2. <<r.msg, list[k].msg>> \notin E
  BY <1>1 DEF RestFollows
<1> QED
  BY <1>1, <1>2 DEF Longer

LEMMA ListKept ==
  ASSUME NEW K, NEW S, NEW E, NEW L, NEW T, NEW F, Longer(K, S, E, L, T, F),
         NEW list, \A k \in 1 .. Len(list) : list[k].msg \in K, ListInOrder(S, E, list)
  PROVE  ListInOrder(T, F, list)
<1> SUFFICES ASSUME NEW j \in 1 .. Len(list), NEW k \in 1 .. Len(list), j < k,
                    list[j].msg \in T, list[k].msg \in T
             PROVE  <<list[k].msg, list[j].msg>> \notin F
  BY DEF ListInOrder
<1>1. /\ list[j].msg \in K \cap T /\ list[k].msg \in K \cap T
      /\ list[j].msg \in S /\ list[k].msg \in S
  BY DEF Longer
<1>2. <<list[k].msg, list[j].msg>> \notin E
  BY <1>1 DEF ListInOrder
<1> QED
  BY <1>1, <1>2 DEF Longer

\* The next row of a table is put at the end of the list.
LEMMA ListsNext ==
  ASSUME NEW S, NEW E, NEW rows \in SUBSET Row, NEW list \in Seq(Item), NEW c \in Nat,
         NEW r \in rows, r.seq > c, NEW x \in Item, x.msg = r.msg, RowsInOrder(S, E, rows),
         RestFollows(S, E, list, rows, c), ListInOrder(S, E, list)
  PROVE  /\ RestFollows(S, E, Append(list, x), rows, r.seq)
         /\ ListInOrder(S, E, Append(list, x))
<1>1. \A q \in rows : q.seq \in Nat
  BY DEF Row
<1> DEFINE new == Append(list, x)
<1>2. /\ Len(list) \in Nat /\ Len(new) = Len(list) + 1 /\ new[Len(list) + 1] = x
      /\ \A k \in 1 .. Len(list) : new[k] = list[k]
  OBVIOUS
<1> HIDE DEF new
<1>3. ASSUME NEW k \in 1 .. Len(new), NEW q \in rows, q.seq > r.seq, q.msg \in S,
             new[k].msg \in S
      PROVE  <<q.msg, new[k].msg>> \notin E
  <2>1. CASE k \in 1 .. Len(list)
    <3>1. q.seq > c
      BY <1>1, <1>3
    <3> QED
      BY <1>2, <1>3, <2>1, <3>1 DEF RestFollows
  <2>2. CASE k = Len(list) + 1
    <3>1. r.seq < q.seq
      BY <1>1, <1>3
    <3> QED
      BY <1>2, <1>3, <2>2, <3>1 DEF RowsInOrder
  <2> QED
    BY <1>2, <2>1, <2>2
<1>4. ASSUME NEW j \in 1 .. Len(new), NEW k \in 1 .. Len(new), j < k, new[j].msg \in S,
             new[k].msg \in S
      PROVE  <<new[k].msg, new[j].msg>> \notin E
  <2>1. j \in 1 .. Len(list)
    BY <1>2, <1>4
  <2>2. CASE k \in 1 .. Len(list)
    BY <1>2, <1>4, <2>1, <2>2 DEF ListInOrder
  <2>3. CASE k = Len(list) + 1
    BY <1>2, <1>4, <2>1, <2>3 DEF RestFollows
  <2> QED
    BY <1>2, <2>2, <2>3
<1>5. RestFollows(S, E, new, rows, r.seq) /\ ListInOrder(S, E, new)
  BY <1>3, <1>4 DEF RestFollows, ListInOrder
<1> QED
  BY <1>5 DEF new

LEMMA RetryStep ==
  ASSUME InboxInv, FreshInv, InboxInv', LineInv, OwnInv, TurnInv, HashInv, RetryInv,
         crashes' = 0, dbErrors' = 0, [Next]_vars
  PROVE  RetryInv'
<1>a. /\ TypeOK /\ TypeOK' /\ db \in Database /\ TxState /\ PlainOK
      /\ db.raw \in Table /\ db.temp \in Table /\ queue \in Seq(Item) /\ rlist \in Seq(Item)
      /\ db.raw.rows \subseteq Row /\ db.temp.rows \subseteq Row /\ rcursor \in Nat
  BY DatabaseTypes DEF InboxInv, KeyInv, HeldInv, TypeOK, DbType, QueueType, RetryType, Table
<1>b. Longer(Known, Single, Order, Known', Single', Order')
  BY LineStep
<1>c. /\ RowsInOrder(Single, Order, db.raw.rows) /\ RowsInOrder(Single, Order, db.temp.rows)
      /\ rpc = "idle" => rlist = <<>>
      /\ rpc = "temp" => RestFollows(Single, Order, rlist, db.temp.rows, rcursor)
      /\ rpc = "raw"  => RestFollows(Single, Order, rlist, db.raw.rows, rcursor)
      /\ ListInOrder(Single, Order, rlist)
  BY DEF RetryInv
<1>d. /\ \A r \in db.raw.rows : r.msg \in Known
      /\ \A r \in db.temp.rows : r.msg \in Known /\ r.msg \in db.hashes
      /\ db.hashes \subseteq Known /\ GoodTable(db.raw) /\ GoodTable(db.temp)
  BY DEF OwnInv, Own, InboxInv, HeldInv, RowsInv, TempHashed
<1>e. \A k \in 1 .. Len(rlist) :
        /\ rlist[k].msg \in Known
        /\ rlist[k].cmd # "ReceivedRawData" => rlist[k].msg \in db.hashes
  <2> SUFFICES ASSUME NEW k \in 1 .. Len(rlist)
               PROVE  /\ rlist[k].msg \in Known
                      /\ rlist[k].cmd # "ReceivedRawData" => rlist[k].msg \in db.hashes
    OBVIOUS
  <2>1. CASE rlist[k].cmd = "ReceivedRawData"
    BY <2>1 DEF OwnInv, OwnItems, Own
  <2>2. CASE rlist[k].cmd # "ReceivedRawData"
    BY <1>d, <2>2 DEF InboxInv, HeldInv, ItemsOK, ItemOK
  <2> QED
    BY <2>1, <2>2
<1>f. rpc \in {"idle", "temp", "receipts"} =>
        \A k \in 1 .. Len(rlist) : rlist[k].msg \in db.hashes
  BY <1>e DEF InboxInv, ListInv
<1> USE DEF transVars, retryVars
<1>1. ASSUME db'.raw.rows \subseteq db.raw.rows, db'.temp.rows \subseteq db.temp.rows,
             UNCHANGED retryVars
      PROVE  RetryInv'
  <2>1. /\ RowsInOrder(Single', Order', db'.raw.rows)
        /\ RowsInOrder(Single', Order', db'.temp.rows)
    BY <1>1, <1>b, <1>c, <1>d, RowsOrderKept
  <2>2. ListInOrder(Single', Order', rlist)
    BY <1>b, <1>c, <1>e, ListKept
  <2>3. rpc = "temp" => RestFollows(Single', Order', rlist, db'.temp.rows, rcursor)
    BY <1>1, <1>b, <1>c, <1>d, <1>e, RestKept
  <2>4. rpc = "raw" => RestFollows(Single', Order', rlist, db'.raw.rows, rcursor)
    BY <1>1, <1>b, <1>c, <1>d, <1>e, RestKept
  <2> QED
    BY <1>1, <1>c, <2>1, <2>2, <2>3, <2>4 DEF RetryInv
<1>2. ASSUME NEW m \in Msgs, RecvInsert(m) PROVE RetryInv'
  <2>1. /\ db'.raw = Insert(db.raw, m) /\ db'.temp = db.temp /\ UNCHANGED retryVars
    BY <1>2, <1>a DEF RecvInsert, Write, Database
  <2>2. /\ m \in Known' /\ (m \in Known => m \notin Single')
    BY <1>2, <1>a, LineGrows
  <2>3. ASSUME m \in Single', NEW x \in Known, x \in Single' PROVE <<m, x>> \notin Order'
    BY <1>b, <2>2, <2>3 DEF Longer
  <2>4. RowsInOrder(Single', Order', db.raw.rows)
    BY <1>b, <1>c, <1>d, RowsOrderKept
  <2>5. RowsInOrder(Single', Order', db'.raw.rows)
    BY <1>a, <1>d, <2>1, <2>3, <2>4, RowsOrderInserted
  <2>6. RowsInOrder(Single', Order', db'.temp.rows)
    BY <1>b, <1>c, <1>d, <2>1, RowsOrderKept
  <2>7. ListInOrder(Single', Order', rlist)
    BY <1>b, <1>c, <1>e, ListKept
  <2>8. rpc = "temp" => RestFollows(Single', Order', rlist, db'.temp.rows, rcursor)
    BY <1>b, <1>c, <1>d, <1>e, <2>1, RestKept
  <2>9. rpc = "raw" => RestFollows(Single', Order', rlist, db'.raw.rows, rcursor)
    <3> SUFFICES ASSUME rpc = "raw" PROVE RestFollows(Single', Order', rlist, db'.raw.rows, rcursor)
      OBVIOUS
    <3>1. RestFollows(Single', Order', rlist, db.raw.rows, rcursor)
      BY <1>b, <1>c, <1>d, <1>e, RestKept
    <3>2. \A r \in db'.raw.rows : r \in db.raw.rows \/ r.msg = m
      BY <2>1 DEF Insert
    <3> QED
      BY <1>e, <2>3, <3>1, <3>2 DEF RestFollows
  <2> QED
    BY <1>c, <2>1, <2>5, <2>6, <2>7, <2>8, <2>9 DEF RetryInv
<1>3. CASE RecvSequence \/ RecvQueue \/ Quiet
  BY <1>3, <1>1 DEF RecvSequence, RecvQueue, Quiet, dbVars
<1>4. CASE Done
  BY <1>4, <1>1 DEF Done
<1>5. CASE TxStore
  <2> DEFINE m == Front.msg
  <2>1. /\ qpc = "tx" /\ queue # <<>> /\ UNCHANGED retryVars
        /\ db'.raw = db.raw /\ db'.temp = Insert(db.temp, m)
        /\ Single' = Single /\ Order' = Order
    BY <1>5, <1>a, SameOrder DEF TxStore, Write, QueueStep
  <2>2. m \in Msgs /\ m \notin db.hashes
    BY <1>a, <2>1, FrontIs DEF TypeOK, HashInv
  <2> HIDE DEF m
  <2>3. ASSUME m \in Single, NEW h \in Single \cap db.hashes PROVE <<m, h>> \notin Order
    <3>1. <<h, m>> \in Order
      BY <2>2, <2>3 DEF HashInv
    <3> QED
      BY <1>a, <2>3, <3>1, OrderFacts
  <2>4. RowsInOrder(Single, Order, db'.temp.rows)
    BY <1>a, <1>c, <1>d, <2>1, <2>2, <2>3, RowsOrderInserted
  <2>5. rpc = "temp" => RestFollows(Single, Order, rlist, db'.temp.rows, rcursor)
    <3>1. \A r \in db'.temp.rows : r \in db.temp.rows \/ r.msg = m
      BY <2>1 DEF Insert
    <3> QED
      BY <1>c, <1>f, <2>3, <3>1 DEF RestFollows
  <2> QED
    BY <1>c, <2>1, <2>4, <2>5 DEF RetryInv
<1>6. CASE TxCommit
  <2>1. /\ db'.raw = Delete(db.raw, Front.seq) /\ db'.temp = db.temp /\ UNCHANGED retryVars
    BY <1>6, <1>a DEF TxCommit, Database
  <2>2. db'.raw.rows \subseteq db.raw.rows
    BY <1>a, <2>1 DEF Delete, Table
  <2> QED
    BY <1>1, <2>1, <2>2
<1>7. CASE Retry
  <2>a. Single' = Single /\ Order' = Order
    BY <1>7, <1>a, SameOrder
  <2>1. CASE RetryStart
    <3>1. db' = db /\ rpc = "idle" /\ rpc' = "temp" /\ rlist' = rlist
      BY <2>1 DEF RetryStart, dbVars
    <3>2. RestFollows(Single, Order, rlist, db.temp.rows, rcursor')
      BY <1>c, <3>1 DEF RestFollows
    <3> QED
      BY <1>c, <2>a, <3>1, <3>2 DEF RetryInv
  <2>2. CASE RetryTemp
    <3>1. PICK r \in db.temp.rows :
            /\ NextRow(db.temp.rows, r) /\ rcursor' = r.seq
            /\ rlist' = Append(rlist, TempItem(r.seq, r.msg))
      BY <2>2 DEF RetryTemp
    <3>2. db' = db /\ rpc = "temp" /\ rpc' = "temp"
      BY <2>2 DEF RetryTemp, dbVars
    <3>3. r.seq \in Nat /\ r.msg \in Msgs /\ r.seq > rcursor
      BY <1>a, <3>1 DEF Row, NextRow
    <3>4. TempItem(r.seq, r.msg) \in Item /\ TempItem(r.seq, r.msg).msg = r.msg
      BY <3>3, ItemTypes DEF TempItem
    <3>5. /\ RestFollows(Single, Order, rlist', db.temp.rows, rcursor')
          /\ ListInOrder(Single, Order, rlist')
      BY <1>a, <1>c, <3>1, <3>2, <3>3, <3>4, ListsNext
    <3> QED
      BY <1>c, <2>a, <3>2, <3>5 DEF RetryInv
  <2>3. CASE RetryTempEnd \/ RetryReceipt
    BY <1>c, <2>a, <2>3 DEF RetryTempEnd, RetryReceipt, RetryInv, dbVars
  <2>4. CASE RetryReceiptsEnd
    <3>1. db' = db /\ rpc = "receipts" /\ rpc' = "raw" /\ rlist' = rlist
      BY <2>4 DEF RetryReceiptsEnd, dbVars
    <3>2. RestFollows(Single, Order, rlist, db.raw.rows, rcursor')
      <4> SUFFICES ASSUME NEW k \in 1 .. Len(rlist), NEW r \in db.raw.rows,
                          r.msg \in Single, rlist[k].msg \in Single
                   PROVE  <<r.msg, rlist[k].msg>> \notin Order
        BY DEF RestFollows
      <4>1. rlist[k].msg \in Single \cap db.hashes
        BY <1>f, <3>1
      <4>2. CASE r.msg \in db.hashes
        BY <4>1, <4>2 DEF HashInv
      <4>3. CASE r.msg \notin db.hashes
        <5>1. <<rlist[k].msg, r.msg>> \in Order
          BY <4>1, <4>3 DEF HashInv
        <5> QED
          BY <1>a, <5>1, OrderFacts
      <4> QED
        BY <4>2, <4>3
    <3> QED
      BY <1>c, <2>a, <3>1, <3>2 DEF RetryInv
  <2>5. CASE RetryRaw
    <3>1. PICK r \in db.raw.rows :
            /\ NextRow(db.raw.rows, r) /\ rcursor' = r.seq
            /\ rlist' = Append(rlist, RawItem(r.seq, r.msg))
      BY <2>5 DEF RetryRaw
    <3>2. db' = db /\ rpc = "raw" /\ rpc' = "raw"
      BY <2>5 DEF RetryRaw, dbVars
    <3>3. r.seq \in Nat /\ r.msg \in Msgs /\ r.seq > rcursor
      BY <1>a, <3>1 DEF Row, NextRow
    <3>4. RawItem(r.seq, r.msg) \in Item /\ RawItem(r.seq, r.msg).msg = r.msg
      BY <3>3, ItemTypes DEF RawItem
    <3>5. /\ RestFollows(Single, Order, rlist', db.raw.rows, rcursor')
          /\ ListInOrder(Single, Order, rlist')
      BY <1>a, <1>c, <3>1, <3>2, <3>3, <3>4, ListsNext
    <3> QED
      BY <1>c, <2>a, <3>2, <3>5 DEF RetryInv
  <2>6. CASE RetryQueue
    <3>1. db' = db /\ rpc' = "done" /\ rlist' = <<>>
      BY <2>6 DEF RetryQueue, dbVars
    <3>2. ListInOrder(Single, Order, rlist')
      BY <3>1 DEF ListInOrder
    <3> QED
      BY <1>c, <2>a, <3>1, <3>2 DEF RetryInv
  <2> QED
    BY <1>7, <2>1, <2>2, <2>3, <2>4, <2>5, <2>6 DEF Retry
<1> QED
  BY <1>2, <1>3, <1>4, <1>5, <1>6, <1>7, Shapes

----------------------------------------------------------------------------
LEMMA OrderInit == Init => OrderInv
<1> SUFFICES ASSUME Init PROVE OrderInv
  OBVIOUS
<1>1. Line = <<>> /\ Known = {} /\ Single = {}
  BY DEF Init, Line, Known, Single
<1>2. queue = <<>> /\ rlist = <<>> /\ qpc = "idle" /\ tpc = "idle" /\ rpc = "idle"
  BY DEF Init
<1>3. db.raw.rows = {} /\ db.temp.rows = {} /\ db.hashes = {}
  BY DEF Init, EmptyTable
<1>4. LineInv /\ OwnInv
  BY <1>1, <1>2, <1>3 DEF LineInv, OwnInv, OwnItems
<1>5. TurnInv /\ HashInv
  BY <1>1, <1>2, <1>3 DEF TurnInv, InTurn, HashInv
<1>6. RetryInv
  BY <1>1, <1>2, <1>3 DEF RetryInv, RowsInOrder, ListInOrder
<1> QED
  BY <1>4, <1>5, <1>6 DEF OrderInv

\* The list the retry builds keeps the order of arrival: plain texts come before
\* raw data and each of the two in the order of its table, which is the order in
\* which the messages were stored, although they were decrypted by the queue
\* thread and the retry itself had queued some of them before.
THEOREM RetryIsOrdered == Spec => []RetryKeepsOrder
<1> DEFINE NoFault == crashes = 0 /\ dbErrors = 0
           I == KeyInv /\ (dbErrors = 0 => InboxInv /\ FreshInv)
<1>1. I /\ I' /\ (NoFault => OrderInv) /\ [Next]_vars => (NoFault => OrderInv)'
  <2> SUFFICES ASSUME I, I', NoFault => OrderInv, [Next]_vars, crashes' = 0, dbErrors' = 0
               PROVE  OrderInv'
    OBVIOUS
  <2>1. crashes = 0 /\ dbErrors = 0
    BY NoCrashes, ErrorsStay DEF KeyInv
  <2>2. InboxInv /\ FreshInv /\ InboxInv' /\ OrderInv
    BY <2>1
  <2> QED
    BY <2>2, LineStep, OwnStep, TurnStep, HashStep, RetryStep DEF OrderInv
<1>2. Init => (NoFault => OrderInv)
  BY OrderInit
<1>3. I /\ (NoFault => OrderInv) => RetryKeepsOrder
  <2> SUFFICES ASSUME I, NoFault => OrderInv, crashes + dbErrors = 0,
                      NEW j \in 1 .. Len(rlist), NEW k \in 1 .. Len(rlist), j < k,
                      Ordered(rlist[j].msg), Ordered(rlist[k].msg)
               PROVE  AcceptedAt(rlist[j].msg) <= AcceptedAt(rlist[k].msg)
    BY DEF RetryKeepsOrder
  <2>1. TypeOK /\ OrderInv
    BY DEF KeyInv, TypeOK, FaultType
  <2> DEFINE x == rlist[j].msg
             y == rlist[k].msg
  <2>2. rlist[j] \in Item /\ rlist[k] \in Item
    BY <2>1 DEF TypeOK, RetryType
  <2>3. x \in Single /\ y \in Single
    BY <2>2 DEF Ordered, Single, Item
  <2>4. <<y, x>> \notin Order
    BY <2>1, <2>3 DEF OrderInv, RetryInv, ListInOrder
  <2>5. /\ AcceptedAt(x) \in 1 .. Len(accepted) /\ accepted[AcceptedAt(x)] = x
        /\ AcceptedAt(y) \in 1 .. Len(accepted) /\ accepted[AcceptedAt(y)] = y
    BY DEF Ordered, Accepted, AcceptedAt
  <2> HIDE DEF x, y
  <2>6. /\ Len(accepted) \in Nat
        /\ \A n \in 1 .. Len(accepted) : n \in 1 .. Len(Line) /\ Line[n] = accepted[n]
    BY <2>1 DEF TypeOK, HistType, TransType, Line
  <2>7. ~(AcceptedAt(y) < AcceptedAt(x))
    BY <2>3, <2>4, <2>5, <2>6 DEF Order, Single
  <2> QED
    BY <2>5, <2>6, <2>7 DEF x, y
<1> HIDE DEF I, NoFault
<1>4. Spec => []I
  BY InboxAlways DEF I
<1> QED
  BY <1>1, <1>2, <1>3, <1>4, PTL DEF Spec
============================================================================
