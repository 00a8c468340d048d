------------------------- MODULE ZinaReceive_proofs -------------------------
(* Theorems about ZinaReceive, for every set of sessions and every bound.   *)
EXTENDS ZinaReceive, TLAPS

USE ConstantsAssumption

LEMMA MsgFields ==
  ASSUME NEW m \in Msgs
  PROVE  m.s \in Sessions /\ m.i \in 0 .. LastIdx /\ m = [s |-> m.s, i |-> m.i]
  BY DEF Msgs

LEMMA NoMsgType == NoMsg \in Msgs
<1>1. PICK s \in Sessions : TRUE
  OBVIOUS
<1>2. [s |-> s, i |-> 0] \in Msgs
  BY DEF Msgs
<1> QED
  BY <1>2 DEF NoMsg

\* Splicing a list onto a queue in use leaves the message in process in front.
LEMMA FrontKept ==
  ASSUME NEW q \in Seq(Item), NEW r \in Seq(Item), q # <<>>
  PROVE  /\ q \o r \in Seq(Item) /\ q \o r # <<>> /\ (q \o r)[1] = q[1]
  OBVIOUS

LEMMA FrontKeptAppend ==
  ASSUME NEW q \in Seq(Item), NEW r \in Item, q # <<>>
  PROVE  /\ Append(q, r) \in Seq(Item) /\ Append(q, r) # <<>>
         /\ Append(q, r)[1] = q[1]
  OBVIOUS

LEMMA ItemTypes ==
  ASSUME NEW m \in Msgs, NEW n \in Nat
  PROVE  /\ RawItem(n, m) \in Item /\ TempItem(n, m) \in Item
         /\ Receipt(m) \in Seq(Item)
<1>1. RawItem(n, m) \in Item
  BY DEF RawItem, Item
<1>2. TempItem(n, m) \in Item
  BY DEF TempItem, Item
<1>3. SendItem(m) \in Item
  BY DEF SendItem, Item
<1>4. Receipt(m) \in Seq(Item)
  BY <1>3 DEF Receipt
<1> QED
  BY <1>1, <1>2, <1>4

LEMMA FrontType ==
  ASSUME queue \in Seq(Item), queue # <<>>
  PROVE  /\ queue[1] \in Item /\ queue[1].msg \in Msgs /\ queue[1].seq \in Nat
         /\ Tail(queue) \in Seq(Item)
<1>1. queue[1] \in Item
  OBVIOUS
<1> QED
  BY <1>1 DEF Item

LEMMA TableTypes ==
  ASSUME NEW t \in Table, NEW m \in Msgs, NEW n \in Nat
  PROVE  Insert(t, m) \in Table /\ Delete(t, n) \in Table
<1>1. [seq |-> t.last + 1, msg |-> m] \in Row
  BY DEF Table, Row
<1>2. Insert(t, m) \in Table
  BY <1>1 DEF Table, Insert
<1>3. Delete(t, n) \in Table
  BY DEF Table, Delete
<1> QED
  BY <1>2, <1>3

\* The statements of the queue thread and of the transport keep the type.
LEMMA DatabaseTypes ==
  ASSUME NEW d \in Database
  PROVE  /\ d.raw \in Table /\ d.temp \in Table
         /\ d.nr \in [Sessions -> NoConv .. LastIdx + 1]
         /\ d.hashes \subseteq Msgs /\ d.staged \subseteq Msgs
         /\ d.preKeys \subseteq Sessions
         /\ \A t \in Table : [d EXCEPT !.raw = t] \in Database
         /\ \A t \in Table : [d EXCEPT !.temp = t] \in Database
         /\ \A S \in SUBSET Sessions : [d EXCEPT !.preKeys = S] \in Database
         /\ \A S \in SUBSET Msgs : [d EXCEPT !.staged = S] \in Database
  BY DEF Database

LEMMA WriteType ==
  ASSUME DbType, NEW d \in Database, Write(d), inTx' \in BOOLEAN
  PROVE  DbType'
  BY DEF DbType, Write

LEMMA TypeInit == Init => TypeOK
<1> SUFFICES ASSUME Init PROVE TypeOK
  OBVIOUS
<1>1. DbType
  <2>1. EmptyTable \in Table
    BY DEF EmptyTable, Table
  <2>2. [s \in Sessions |-> NoConv] \in [Sessions -> NoConv .. LastIdx + 1]
    BY DEF NoConv
  <2>3. db \in Database
    BY <2>1, <2>2 DEF Init, Database
  <2> QED
    BY <2>3 DEF Init, DbType
<1>2. QueueType
  BY DEF Init, QueueType, EmptyCur, NoConv
<1>3. TransType /\ RetryType
  BY NoMsgType DEF Init, TransType, RetryType
<1>4. AppType /\ HistType /\ FaultType
  BY DEF Init, AppType, HistType, FaultType
<1> QED
  BY <1>1, <1>2, <1>3, <1>4 DEF TypeOK

\* Leaving the front of the queue behind.
LEMMA PopType ==
  ASSUME QueueType, queue # <<>>, Pop
  PROVE  QueueType'
  BY FrontType DEF QueueType, Pop, EmptyCur, NoConv

LEMMA FrontIs ==
  ASSUME QueueType, queue # <<>>
  PROVE  /\ Front \in Item /\ Front.msg \in Msgs /\ Front.seq \in Nat
         /\ Front.msg.s \in Sessions /\ Front.msg.i \in 0 .. LastIdx
  BY FrontType, MsgFields DEF QueueType, Front

LEMMA TypeStep == TypeOK /\ [Next]_vars => TypeOK'
<1> SUFFICES ASSUME TypeOK, [Next]_vars PROVE TypeOK'
  OBVIOUS
<1>a. /\ DbType /\ QueueType /\ TransType /\ RetryType
      /\ AppType /\ HistType /\ FaultType
  BY DEF TypeOK
<1>b. /\ db \in Database /\ disk \in Database /\ db.raw \in Table /\ db.temp \in Table
      /\ db.nr \in [Sessions -> NoConv .. LastIdx + 1]
      /\ db.hashes \subseteq Msgs /\ db.staged \subseteq Msgs /\ db.preKeys \subseteq Sessions
  BY <1>a, DatabaseTypes DEF DbType
<1> USE <1>a
<1> USE DEF queueVars, transVars, retryVars, appVars, histVars, faultVars, dbVars
<1>1. ASSUME NEW m \in Msgs, RecvInsert(m) PROVE TypeOK'
  <2>1. [db EXCEPT !.raw = Insert(@, m)] \in Database
    BY <1>b, TableTypes, DatabaseTypes
  <2>D. DbType'
    BY <1>1, <2>1, WriteType DEF RecvInsert, DbType
  <2>TH. TransType' /\ HistType'
    BY <1>1 DEF RecvInsert, HandOver, TransType, HistType
  <2>z. QueueType' /\ RetryType' /\ AppType' /\ FaultType'
    BY <1>1 DEF RecvInsert, QueueType, RetryType, AppType, FaultType
  <2> QED
    BY <2>D, <2>TH, <2>z DEF TypeOK
<1>2. ASSUME NEW m \in Msgs, RecvInsertFails(m) PROVE TypeOK'
  <2>HF. HistType' /\ FaultType'
    BY <1>2 DEF RecvInsertFails, HandOver, DbFails, HistType, FaultType
  <2>z. DbType' /\ QueueType' /\ TransType' /\ RetryType' /\ AppType'
    BY <1>2 DEF RecvInsertFails, DbType, QueueType, TransType, RetryType, AppType
  <2> QED
    BY <2>HF, <2>z DEF TypeOK
<1>3. ASSUME RecvSequence PROVE TypeOK'
  <2>T. TransType'
    BY <1>3, <1>b DEF RecvSequence, TransType, Table
  <2>z. DbType' /\ QueueType' /\ RetryType' /\ AppType' /\ HistType' /\ FaultType'
    BY <1>3 DEF RecvSequence, DbType, QueueType, RetryType, AppType, HistType, FaultType
  <2> QED
    BY <2>T, <2>z DEF TypeOK
<1>4. ASSUME RecvQueue PROVE TypeOK'
  <2>Q. QueueType'
    BY <1>4, ItemTypes DEF RecvQueue, QueueType, TransType
  <2>T. TransType'
    BY <1>4, NoMsgType DEF RecvQueue, TransType
  <2>H. HistType'
    BY <1>4 DEF RecvQueue, HistType, TransType
  <2>z. DbType' /\ RetryType' /\ AppType' /\ FaultType'
    BY <1>4 DEF RecvQueue, DbType, RetryType, AppType, FaultType
  <2> QED
    BY <2>Q, <2>T, <2>H, <2>z DEF TypeOK
<1>5. ASSUME RawDuplicate PROVE TypeOK'
  <2>0. queue # <<>> /\ Front \in Item /\ Front.msg \in Msgs /\ Front.seq \in Nat
        /\ Front.msg.s \in Sessions /\ Front.msg.i \in 0 .. LastIdx
    BY <1>5, FrontIs DEF RawDuplicate, QueueStep, QueueIs, RawNew, Delivering
  <2>1. [db EXCEPT !.raw = Delete(@, Front.seq)] \in Database
    BY <1>b, <2>0, TableTypes, DatabaseTypes
  <2>D. DbType'
    BY <1>5, <2>1, WriteType DEF RawDuplicate, DbType
  <2>Q. QueueType'
    BY <1>5, <2>0, PopType DEF RawDuplicate
  <2>z. TransType' /\ RetryType' /\ AppType' /\ HistType' /\ FaultType'
    BY <1>5 DEF RawDuplicate, TransType, RetryType, AppType, HistType, FaultType
  <2> QED
    BY <2>D, <2>Q, <2>z DEF TypeOK
<1>6. ASSUME DecryptSetup PROVE TypeOK'
  <2>0. queue # <<>> /\ Front \in Item /\ Front.msg \in Msgs /\ Front.seq \in Nat
        /\ Front.msg.s \in Sessions /\ Front.msg.i \in 0 .. LastIdx
    BY <1>6, FrontIs DEF DecryptSetup, QueueStep, QueueIs, RawNew, Delivering
  <2>1. [db EXCEPT !.preKeys = @ \ {Front.msg.s}] \in Database
    BY <1>b, DatabaseTypes
  <2>D. DbType'
    BY <1>6, <2>1, WriteType DEF DecryptSetup, DbType
  <2>2. [s : {Front.msg.s}, i : 0 .. Front.msg.i - 1] \subseteq Msgs
    BY <2>0 DEF Msgs
  <2>3. cur' \in [nr : NoConv .. LastIdx + 1, staged : SUBSET Msgs, seq : Nat]
    <3>1. cur' = [nr |-> Front.msg.i + 1,
                  staged |-> [s : {Front.msg.s}, i : 0 .. Front.msg.i - 1], seq |-> 0]
      BY <1>6 DEF DecryptSetup
    <3>2. Front.msg.i + 1 \in NoConv .. LastIdx + 1
      BY <2>0 DEF NoConv
    <3> QED
      BY <2>2, <3>1, <3>2
  <2>Q. QueueType'
    BY <1>6, <2>3 DEF DecryptSetup, QueueType
  <2>z. TransType' /\ RetryType' /\ AppType' /\ HistType' /\ FaultType'
    BY <1>6 DEF DecryptSetup, TransType, RetryType, AppType, HistType, FaultType
  <2> QED
    BY <2>D, <2>Q, <2>z DEF TypeOK
<1>7. ASSUME DecryptStaged PROVE TypeOK'
  <2>0. queue # <<>> /\ Front \in Item /\ Front.msg \in Msgs /\ Front.seq \in Nat
        /\ Front.msg.s \in Sessions /\ Front.msg.i \in 0 .. LastIdx
    BY <1>7, FrontIs DEF DecryptStaged, QueueStep, QueueIs, RawNew, Delivering
  <2>1. [db EXCEPT !.staged = @ \ {Front.msg}] \in Database
    BY <1>b, DatabaseTypes
  <2>D. DbType'
    BY <1>7, <2>1, WriteType DEF DecryptStaged, DbType
  <2>Q. QueueType'
    BY <1>7, <2>0, <1>b DEF DecryptStaged, QueueType
  <2>z. TransType' /\ RetryType' /\ AppType' /\ HistType' /\ FaultType'
    BY <1>7 DEF DecryptStaged, TransType, RetryType, AppType, HistType, FaultType
  <2> QED
    BY <2>D, <2>Q, <2>z DEF TypeOK
<1>8. ASSUME DecryptChain PROVE TypeOK'
  <2>0. queue # <<>> /\ Front \in Item /\ Front.msg \in Msgs /\ Front.seq \in Nat
        /\ Front.msg.s \in Sessions /\ Front.msg.i \in 0 .. LastIdx
    BY <1>8, FrontIs DEF DecryptChain, QueueStep, QueueIs, RawNew, Delivering
  <2>1. db.nr[Front.msg.s] \in 0 .. LastIdx + 1
    BY <1>8, <1>b, <2>0 DEF DecryptChain, NoConv
  <2>2. [s : {Front.msg.s}, i : db.nr[Front.msg.s] .. Front.msg.i - 1] \subseteq Msgs
    BY <2>0, <2>1 DEF Msgs
  <2>3. cur' \in [nr : NoConv .. LastIdx + 1, staged : SUBSET Msgs, seq : Nat]
    BY <1>8, <2>0, <2>2 DEF DecryptChain, NoConv
  <2>Q. QueueType'
    BY <1>8, <2>3 DEF DecryptChain, QueueType
  <2>z. DbType' /\ TransType' /\ RetryType' /\ AppType' /\ HistType' /\ FaultType'
    BY <1>8 DEF DecryptChain, DbType, TransType, RetryType, AppType, HistType, FaultType
  <2> QED
    BY <2>Q, <2>z DEF TypeOK
<1>9. ASSUME DecryptFails PROVE TypeOK'
  <2>0. queue # <<>> /\ Front \in Item /\ Front.msg \in Msgs /\ Front.seq \in Nat
        /\ Front.msg.s \in Sessions /\ Front.msg.i \in 0 .. LastIdx
    BY <1>9, FrontIs DEF DecryptFails, QueueStep, QueueIs, RawNew, Delivering
  <2>1. [db EXCEPT !.raw = Delete(@, Front.seq)] \in Database
    BY <1>b, <2>0, TableTypes, DatabaseTypes
  <2>D. DbType'
    BY <1>9, <2>1, WriteType DEF DecryptFails, DbType
  <2>Q. QueueType'
    BY <1>9, <2>0, PopType DEF DecryptFails
  <2>A. AppType'
    BY <1>9, <2>0 DEF DecryptFails, AppType
  <2>z. TransType' /\ RetryType' /\ HistType' /\ FaultType'
    BY <1>9 DEF DecryptFails, TransType, RetryType, HistType, FaultType
  <2> QED
    BY <2>D, <2>Q, <2>A, <2>z DEF TypeOK
<1>10. ASSUME TxBegin PROVE TypeOK'
  <2>DQ. DbType' /\ QueueType'
    BY <1>10 DEF TxBegin, DbType, QueueType
  <2>z. TransType' /\ RetryType' /\ AppType' /\ HistType' /\ FaultType'
    BY <1>10 DEF TxBegin, TransType, RetryType, AppType, HistType, FaultType
  <2> QED
    BY <2>DQ, <2>z DEF TypeOK
<1>11. ASSUME TxStore PROVE TypeOK'
  <2>0. queue # <<>> /\ Front \in Item /\ Front.msg \in Msgs /\ Front.seq \in Nat
        /\ Front.msg.s \in Sessions /\ Front.msg.i \in 0 .. LastIdx
    BY <1>11, FrontIs DEF TxStore, QueueStep, QueueIs, RawNew, Delivering
  <2>1. cur.nr \in NoConv .. LastIdx + 1 /\ cur.staged \subseteq Msgs
    BY DEF QueueType
  <2>2. [db.nr EXCEPT ![Front.msg.s] = cur.nr] \in [Sessions -> NoConv .. LastIdx + 1]
    BY <1>b, <2>1
  <2>3. Insert(db.temp, Front.msg) \in Table
    BY <1>b, <2>0, TableTypes
  <2>4. [raw     |-> db.raw,
         temp    |-> Insert(db.temp, Front.msg),
         hashes  |-> db.hashes \cup {Front.msg},
         preKeys |-> db.preKeys,
         nr      |-> [db.nr EXCEPT ![Front.msg.s] = cur.nr],
         staged  |-> db.staged \cup cur.staged] \in Database
    BY <1>b, <2>0, <2>1, <2>2, <2>3 DEF Database
  <2>D. DbType'
    BY <1>11, <2>4, WriteType DEF TxStore, DbType
  <2>5. cur' \in [nr : NoConv .. LastIdx + 1, staged : SUBSET Msgs, seq : Nat]
    <3>1. db.temp.last + 1 \in Nat /\ cur' = [cur EXCEPT !.seq = db.temp.last + 1]
      BY <1>11, <1>b DEF TxStore, Table
    <3> QED
      BY <3>1 DEF QueueType
  <2>Q. QueueType'
    BY <1>11, <2>5 DEF TxStore, QueueType
  <2>z. TransType' /\ RetryType' /\ AppType' /\ HistType' /\ FaultType'
    BY <1>11 DEF TxStore, TransType, RetryType, AppType, HistType, FaultType
  <2> QED
    BY <2>D, <2>Q, <2>z DEF TypeOK
<1>12. ASSUME TxStoreFails PROVE TypeOK'
  <2>0. queue # <<>> /\ Front \in Item /\ Front.msg \in Msgs /\ Front.seq \in Nat
        /\ Front.msg.s \in Sessions /\ Front.msg.i \in 0 .. LastIdx
    BY <1>12, FrontIs DEF TxStoreFails, QueueStep, QueueIs, RawNew, Delivering
  <2>D. DbType'
    BY <1>12 DEF TxStoreFails, DbType
  <2>F. FaultType'
    BY <1>12 DEF TxStoreFails, DbFails, FaultType
  <2>Q. QueueType'
    BY <1>12, <2>0, PopType DEF TxStoreFails
  <2>z. TransType' /\ RetryType' /\ AppType' /\ HistType'
    BY <1>12 DEF TxStoreFails, TransType, RetryType, AppType, HistType
  <2> QED
    BY <2>D, <2>F, <2>Q, <2>z DEF TypeOK
<1>13. ASSUME TxCommit PROVE TypeOK'
  <2>0. queue # <<>> /\ Front \in Item /\ Front.msg \in Msgs /\ Front.seq \in Nat
        /\ Front.msg.s \in Sessions /\ Front.msg.i \in 0 .. LastIdx
    BY <1>13, FrontIs DEF TxCommit, QueueStep, QueueIs, RawNew, Delivering
  <2>r. Receipt(Front.msg) \in Seq(Item)
    BY <2>0, ItemTypes
  <2>1. [db EXCEPT !.raw = Delete(@, Front.seq)] \in Database
    BY <1>b, <2>0, TableTypes, DatabaseTypes
  <2>D. DbType'
    BY <1>13, <2>1 DEF TxCommit, DbType
  <2>Q. QueueType'
    BY <1>13, <2>0, <2>r, FrontKept DEF TxCommit, QueueType
  <2>z. TransType' /\ RetryType' /\ AppType' /\ HistType' /\ FaultType'
    BY <1>13 DEF TxCommit, TransType, RetryType, AppType, HistType, FaultType
  <2> QED
    BY <2>D, <2>Q, <2>z DEF TypeOK
<1>14. ASSUME TxCommitFails PROVE TypeOK'
  <2>0. queue # <<>> /\ Front \in Item /\ Front.msg \in Msgs /\ Front.seq \in Nat
        /\ Front.msg.s \in Sessions /\ Front.msg.i \in 0 .. LastIdx
    BY <1>14, FrontIs DEF TxCommitFails, QueueStep, QueueIs, RawNew, Delivering
  <2>r. Receipt(Front.msg) \in Seq(Item)
    BY <2>0, ItemTypes
  <2>D. DbType'
    BY <1>14 DEF TxCommitFails, DbType
  <2>F. FaultType'
    BY <1>14 DEF TxCommitFails, DbFails, FaultType
  <2>Q. QueueType'
    BY <1>14, <2>0, <2>r, FrontKept DEF TxCommitFails, QueueType
  <2>z. TransType' /\ RetryType' /\ AppType' /\ HistType'
    BY <1>14 DEF TxCommitFails, TransType, RetryType, AppType, HistType
  <2> QED
    BY <2>D, <2>F, <2>Q, <2>z DEF TypeOK
<1>15. ASSUME Deliver PROVE TypeOK'
  <2>0. queue # <<>> /\ Front \in Item /\ Front.msg \in Msgs /\ Front.seq \in Nat
        /\ Front.msg.s \in Sessions /\ Front.msg.i \in 0 .. LastIdx
    BY <1>15, FrontIs DEF Deliver, QueueStep, QueueIs, RawNew, Delivering
  <2>Q. QueueType'
    BY <1>15 DEF Deliver, QueueType
  <2>A. AppType'
    BY <1>15, <2>0 DEF Deliver, AppType
  <2>H. HistType'
    BY <1>15, <2>0 DEF Deliver, HistType
  <2>z. DbType' /\ TransType' /\ RetryType' /\ FaultType'
    BY <1>15 DEF Deliver, DbType, TransType, RetryType, FaultType
  <2> QED
    BY <2>Q, <2>A, <2>H, <2>z DEF TypeOK
<1>16. ASSUME DeliverFails PROVE TypeOK'
  <2>0. queue # <<>> /\ Front \in Item /\ Front.msg \in Msgs /\ Front.seq \in Nat
        /\ Front.msg.s \in Sessions /\ Front.msg.i \in 0 .. LastIdx
    BY <1>16, FrontIs DEF DeliverFails, QueueStep, QueueIs, RawNew, Delivering
  <2>Q. QueueType'
    BY <1>16, <2>0, PopType DEF DeliverFails
  <2>F. FaultType'
    BY <1>16 DEF DeliverFails, FaultType
  <2>z. DbType' /\ TransType' /\ RetryType' /\ AppType' /\ HistType'
    BY <1>16 DEF DeliverFails, DbType, TransType, RetryType, AppType, HistType
  <2> QED
    BY <2>Q, <2>F, <2>z DEF TypeOK
<1>17. ASSUME Delivered PROVE TypeOK'
  <2>0. queue # <<>> /\ Front \in Item /\ Front.msg \in Msgs /\ Front.seq \in Nat
        /\ Front.msg.s \in Sessions /\ Front.msg.i \in 0 .. LastIdx
    BY <1>17, FrontIs DEF Delivered, QueueStep, QueueIs, RawNew, Delivering
  <2>p. PlainSeq \in Nat
    BY <2>0 DEF PlainSeq, QueueType
  <2>1. [db EXCEPT !.temp = Delete(@, PlainSeq)] \in Database
    BY <1>b, <2>0, <2>p, TableTypes, DatabaseTypes
  <2>D. DbType'
    BY <1>17, <2>1, WriteType DEF Delivered, DbType
  <2>Q. QueueType'
    BY <1>17, <2>0, PopType DEF Delivered
  <2>z. TransType' /\ RetryType' /\ AppType' /\ HistType' /\ FaultType'
    BY <1>17 DEF Delivered, TransType, RetryType, AppType, HistType, FaultType
  <2> QED
    BY <2>D, <2>Q, <2>z DEF TypeOK
<1>18. ASSUME SendReceipt PROVE TypeOK'
  <2>0. queue # <<>> /\ Front \in Item /\ Front.msg \in Msgs /\ Front.seq \in Nat
        /\ Front.msg.s \in Sessions /\ Front.msg.i \in 0 .. LastIdx
    BY <1>18, FrontIs DEF SendReceipt, QueueStep, QueueIs, RawNew, Delivering
  <2>Q. QueueType'
    BY <1>18, <2>0, PopType DEF SendReceipt
  <2>A. AppType'
    BY <1>18, <2>0 DEF SendReceipt, AppType
  <2>z. DbType' /\ TransType' /\ RetryType' /\ HistType' /\ FaultType'
    BY <1>18 DEF SendReceipt, DbType, TransType, RetryType, HistType, FaultType
  <2> QED
    BY <2>Q, <2>A, <2>z DEF TypeOK
<1>19. ASSUME RetryStart PROVE TypeOK'
  <2>R. RetryType'
    BY <1>19 DEF RetryStart, RetryType
  <2>z. DbType' /\ QueueType' /\ TransType' /\ AppType' /\ HistType' /\ FaultType'
    BY <1>19 DEF RetryStart, DbType, QueueType, TransType, AppType, HistType, FaultType
  <2> QED
    BY <2>R, <2>z DEF TypeOK
<1>20. ASSUME RetryTemp PROVE TypeOK'
  <2>1. PICK r \in db.temp.rows : /\ rcursor' = r.seq
                                /\ rlist' = Append(rlist, TempItem(r.seq, r.msg))
    BY <1>20 DEF RetryTemp
  <2>2. r.seq \in Nat /\ r.msg \in Msgs
    BY <1>b DEF Table, Row
  <2>R. RetryType'
    BY <1>20, <2>1, <2>2, ItemTypes DEF RetryTemp, RetryType
  <2>z. DbType' /\ QueueType' /\ TransType' /\ AppType' /\ HistType' /\ FaultType'
    BY <1>20 DEF RetryTemp, DbType, QueueType, TransType, AppType, HistType, FaultType
  <2> QED
    BY <2>R, <2>z DEF TypeOK
<1>21. ASSUME RetryTempEnd PROVE TypeOK'
  <2>R. RetryType'
    BY <1>21 DEF RetryTempEnd, RetryType
  <2>z. DbType' /\ QueueType' /\ TransType' /\ AppType' /\ HistType' /\ FaultType'
    BY <1>21 DEF RetryTempEnd, DbType, QueueType, TransType, AppType, HistType, FaultType
  <2> QED
    BY <2>R, <2>z DEF TypeOK
<1>22. ASSUME RetryRaw PROVE TypeOK'
  <2>1. PICK r \in db.raw.rows : /\ rcursor' = r.seq
                                /\ rlist' = Append(rlist, RawItem(r.seq, r.msg))
    BY <1>22 DEF RetryRaw
  <2>2. r.seq \in Nat /\ r.msg \in Msgs
    BY <1>b DEF Table, Row
  <2>R. RetryType'
    BY <1>22, <2>1, <2>2, ItemTypes DEF RetryRaw, RetryType
  <2>z. DbType' /\ QueueType' /\ TransType' /\ AppType' /\ HistType' /\ FaultType'
    BY <1>22 DEF RetryRaw, DbType, QueueType, TransType, AppType, HistType, FaultType
  <2> QED
    BY <2>R, <2>z DEF TypeOK
<1>23. ASSUME RetryQueue PROVE TypeOK'
  <2>Q. QueueType'
    BY <1>23 DEF RetryQueue, QueueType, RetryType
  <2>R. RetryType'
    BY <1>23 DEF RetryQueue, RetryType
  <2>z. DbType' /\ TransType' /\ AppType' /\ HistType' /\ FaultType'
    BY <1>23 DEF RetryQueue, DbType, TransType, AppType, HistType, FaultType
  <2> QED
    BY <2>Q, <2>R, <2>z DEF TypeOK
<1>24. ASSUME Crash PROVE TypeOK'
  <2>D. DbType'
    BY <1>24 DEF Crash, DbType
  <2>Q. QueueType'
    BY <1>24 DEF Crash, QueueType, EmptyCur, NoConv
  <2>T. TransType'
    BY <1>24, NoMsgType DEF Crash, TransType
  <2>RF. RetryType' /\ FaultType'
    BY <1>24 DEF Crash, RetryType, FaultType
  <2>z. AppType' /\ HistType'
    BY <1>24 DEF Crash, AppType, HistType
  <2> QED
    BY <2>D, <2>Q, <2>T, <2>RF, <2>z DEF TypeOK
<1>25. ASSUME RetryReceipt PROVE TypeOK'
  <2>1. rlist[rcursor + 1] \in Item
    BY <1>25 DEF RetryReceipt, RetryType
  <2>2. rlist[rcursor + 1].msg \in Msgs
    BY <2>1 DEF Item
  <2>Q. QueueType'
    BY <1>25, <2>2, ItemTypes DEF RetryReceipt, QueueType
  <2>R. RetryType'
    BY <1>25 DEF RetryReceipt, RetryType
  <2>z. DbType' /\ TransType' /\ AppType' /\ HistType' /\ FaultType'
    BY <1>25 DEF RetryReceipt, DbType, TransType, AppType, HistType, FaultType
  <2> QED
    BY <2>Q, <2>R, <2>z DEF TypeOK
<1>26. ASSUME RetryReceiptsEnd PROVE TypeOK'
  <2>R. RetryType'
    BY <1>26 DEF RetryReceiptsEnd, RetryType
  <2>z. DbType' /\ QueueType' /\ TransType' /\ AppType' /\ HistType' /\ FaultType'
    BY <1>26 DEF RetryReceiptsEnd, DbType, QueueType, TransType, AppType, HistType, FaultType
  <2> QED
    BY <2>R, <2>z DEF TypeOK
<1>27. CASE UNCHANGED vars
  BY <1>27 DEF vars, TypeOK, DbType, QueueType, TransType, RetryType, AppType,
               HistType, FaultType
<1> QED
  BY <1>1, <1>2, <1>3, <1>4, <1>5, <1>6, <1>7, <1>8, <1>9, <1>10, <1>11, <1>12, <1>13, <1>14, <1>15, <1>16, <1>17, <1>18, <1>19, <1>20, <1>21, <1>22, <1>23, <1>24, <1>25, <1>26, <1>27
     DEF Next, Transport, QueueThread, Retry

\* The type invariant, for any number of sessions, messages and faults.
THEOREM TypeCorrect == Spec => []TypeOK
<1>1. Init => TypeOK
  BY TypeInit
<1>2. TypeOK /\ [Next]_vars => TypeOK'
  BY TypeStep
<1> QED
  BY <1>1, <1>2, PTL DEF Spec

----------------------------------------------------------------------------
(* A key is gone once the hash of its message is stored.                    *)

SameKeys(d, e) == d.hashes = e.hashes /\ d.staged = e.staged /\ d.nr = e.nr

\* Steps of the other threads leave the keys, the work of the queue thread and
\* the front of a queue in use alone.
LEMMA KeyFrame ==
  ASSUME KeyInv, TypeOK', SameKeys(db', db), SameKeys(disk', disk),
         qpc' = qpc, cur' = cur, inTx' = inTx, ~inTx => disk' = db',
         queue # <<>> => queue' # <<>> /\ queue'[1] = queue[1]
  PROVE  KeyInv'
<1>1. TxState'
  BY DEF KeyInv, TxState
<1>2. KeysBehind(db') /\ KeysBehind(disk')
  BY DEF KeyInv, KeysBehind, SameKeys
<1>3. CurAhead'
  BY DEF KeyInv, CurAhead, SameKeys, TxState, Front
<1> QED
  BY <1>1, <1>2, <1>3 DEF KeyInv

\* Between messages nothing is known of the front of the queue.
LEMMA KeyIdle ==
  ASSUME KeyInv, TypeOK', qpc' = "idle" \/ qpc' = "deliver" \/ qpc' = "delivered",
         ~inTx', disk' = db', KeysBehind(db'), qpc' # "idle" => queue' # <<>>
  PROVE  KeyInv'
<1>1. TxState' /\ CurAhead'
  BY DEF TxState, CurAhead
<1> QED
  BY <1>1 DEF KeyInv

LEMMA RawKeepsKeys ==
  ASSUME NEW d \in Database, NEW t
  PROVE  SameKeys([d EXCEPT !.raw = t], d) /\ SameKeys([d EXCEPT !.temp = t], d)
  BY DEF SameKeys, Database

LEMMA KeyStep == KeyInv /\ [Next]_vars => KeyInv'
<1> SUFFICES ASSUME KeyInv, [Next]_vars PROVE KeyInv'
  OBVIOUS
<1>t. TypeOK'
  BY TypeStep DEF KeyInv
<1>a. /\ TypeOK /\ TxState /\ KeysBehind(db) /\ KeysBehind(disk) /\ CurAhead
      /\ db \in Database /\ disk \in Database /\ queue \in Seq(Item)
  BY DEF KeyInv, TypeOK, DbType, QueueType
<1>b. /\ db.nr \in [Sessions -> NoConv .. LastIdx + 1]
      /\ db.hashes \subseteq Msgs /\ db.staged \subseteq Msgs
  BY <1>a, DatabaseTypes
<1>c. SameKeys(db, db) /\ SameKeys(disk, disk)
  BY DEF SameKeys
<1>d. queue # <<>> => /\ Front \in Item /\ Front.msg \in Msgs
                      /\ Front.msg.s \in Sessions /\ Front.msg.i \in 0 .. LastIdx
  BY <1>a, FrontIs DEF TypeOK
<1> USE DEF queueVars, transVars, retryVars, appVars, histVars, faultVars, dbVars
<1>1. ASSUME NEW m \in Msgs, RecvInsert(m) PROVE KeyInv'
  BY <1>1, <1>a, <1>c, <1>t, KeyFrame, RawKeepsKeys DEF RecvInsert, Write, TxState
<1>2. ASSUME NEW m \in Msgs, RecvInsertFails(m) PROVE KeyInv'
  BY <1>2, <1>a, <1>c, <1>t, KeyFrame DEF RecvInsertFails, TxState
<1>3. ASSUME RecvSequence PROVE KeyInv'
  BY <1>3, <1>a, <1>c, <1>t, KeyFrame DEF RecvSequence, TxState
<1>4. ASSUME RecvQueue PROVE KeyInv'
  <2>1. queue # <<>> => queue' # <<>> /\ queue'[1] = queue[1]
    BY <1>4, <1>a, FrontKeptAppend, ItemTypes DEF RecvQueue, TypeOK, TransType
  <2> QED
    BY <1>4, <2>1, <1>a, <1>c, <1>t, KeyFrame DEF RecvQueue, TxState
<1>5. ASSUME RawDuplicate PROVE KeyInv'
  <2>1. SameKeys(db', db) /\ disk' = db' /\ ~inTx' /\ qpc' = "idle"
    BY <1>5, <1>a, RawKeepsKeys
       DEF RawDuplicate, Write, TxState, QueueIs, QueueStep, Pop
  <2>2. KeysBehind(db')
    BY <2>1, <1>a DEF KeysBehind, SameKeys
  <2> QED
    BY <2>1, <2>2, <1>t, KeyIdle
<1>6. ASSUME DecryptSetup PROVE KeyInv'
  <2>1. /\ qpc = "idle" /\ queue # <<>> /\ inTx = FALSE /\ disk' = db'
        /\ db' = [db EXCEPT !.preKeys = @ \ {Front.msg.s}]
        /\ db.nr[Front.msg.s] = NoConv /\ qpc' = "decrypted"
        /\ queue' = queue /\ inTx' = inTx
        /\ cur' = [nr |-> Front.msg.i + 1,
                   staged |-> [s : {Front.msg.s}, i : 0 .. Front.msg.i - 1], seq |-> 0]
    BY <1>6, <1>a DEF DecryptSetup, Write, TxState, RawNew, QueueIs, QueueStep
  <2>2. SameKeys(db', db)
    BY <2>1, <1>a DEF SameKeys, Database
  <2>3. KeysBehind(db') /\ KeysBehind(disk')
    BY <2>1, <2>2, <1>a DEF KeysBehind, SameKeys
  <2>4. TxState'
    BY <2>1 DEF TxState
  <2>5. Front.msg \notin db.staged
    <3>1. Front.msg.i \in 0 .. LastIdx
      BY <2>1, <1>d
    <3>2. Front.msg \in db.staged => Front.msg.i < NoConv
      BY <2>1, <1>a DEF KeysBehind
    <3> QED
      BY <3>1, <3>2 DEF NoConv
  <2>6. CurAhead'
    <3>1. /\ db'.nr = db.nr /\ db'.staged = db.staged /\ Front' = Front
          /\ cur'.nr = Front.msg.i + 1
          /\ cur'.staged = [s : {Front.msg.s}, i : 0 .. Front.msg.i - 1]
      BY <2>1, <2>2 DEF SameKeys, Front
    <3>2. Front.msg.i \in Nat /\ Front.msg \notin cur'.staged
      <4>1. Front.msg.i \in Nat
        BY <2>1, <1>d, ConstantsAssumption
      <4>2. \A x \in cur'.staged : x.i \in 0 .. Front.msg.i - 1
        BY <3>1
      <4> QED
        BY <4>1, <4>2
    <3>3. \A x \in cur'.staged : /\ x.s = Front.msg.s
                                 /\ NoConv <= x.i /\ x.i < cur'.nr
      BY <3>1, <3>2 DEF NoConv
    <3>4. db'.nr[Front.msg.s] = NoConv /\ NoConv <= cur'.nr /\ Front.msg.i < cur'.nr
      BY <2>1, <3>1, <3>2 DEF NoConv
    <3>5. \A x \in cur'.staged : db'.nr[x.s] <= x.i
      BY <3>3, <3>4
    <3>6. Front'.msg \notin db'.staged
      BY <2>5, <3>1
    <3> QED
      BY <3>1, <3>2, <3>3, <3>4, <3>5, <3>6 DEF CurAhead
  <2> QED
    BY <2>3, <2>4, <2>6, <1>t DEF KeyInv
<1>7. ASSUME DecryptStaged PROVE KeyInv'
  <2>1. /\ qpc = "idle" /\ queue # <<>> /\ inTx = FALSE /\ disk' = db'
        /\ db' = [db EXCEPT !.staged = @ \ {Front.msg}]
        /\ Front.msg \in db.staged /\ qpc' = "decrypted"
        /\ queue' = queue /\ inTx' = inTx
        /\ cur' = [nr |-> db.nr[Front.msg.s], staged |-> {}, seq |-> 0]
    BY <1>7, <1>a DEF DecryptStaged, Write, TxState, RawNew, QueueIs, QueueStep
  <2>2. /\ db'.hashes = db.hashes /\ db'.nr = db.nr
        /\ db'.staged = db.staged \ {Front.msg}
    BY <2>1, <1>a DEF Database
  <2>3. KeysBehind(db') /\ KeysBehind(disk')
    BY <2>1, <2>2, <1>a DEF KeysBehind
  <2>4. TxState'
    BY <2>1 DEF TxState
  <2>5. db.nr[Front.msg.s] \in Int /\ Front.msg.i < db.nr[Front.msg.s]
    <3>1. Front.msg.i < db.nr[Front.msg.s]
      BY <2>1, <1>a DEF KeysBehind
    <3>2. Front.msg.s \in Sessions
      BY <2>1, <1>d
    <3> QED
      BY <3>1, <3>2, <1>b DEF NoConv
  <2>6. CurAhead'
    BY <2>1, <2>2, <2>5 DEF CurAhead, Front
  <2> QED
    BY <2>3, <2>4, <2>6, <1>t DEF KeyInv
<1>8. ASSUME DecryptChain PROVE KeyInv'
  <2>1. /\ qpc = "idle" /\ queue # <<>> /\ inTx = FALSE /\ disk' = disk
        /\ db' = db /\ queue' = queue /\ inTx' = inTx
        /\ Front.msg \notin db.staged /\ qpc' = "decrypted"
        /\ db.nr[Front.msg.s] <= Front.msg.i
        /\ cur' = [nr |-> Front.msg.i + 1, seq |-> 0,
                   staged |-> [s : {Front.msg.s}, i : db.nr[Front.msg.s] .. Front.msg.i - 1]]
    BY <1>8, <1>a, <1>d, <1>b DEF DecryptChain, TxState, RawNew, QueueIs, QueueStep, NoConv
  <2>2. TxState' /\ KeysBehind(db') /\ KeysBehind(disk')
    BY <2>1, <1>a DEF TxState, KeysBehind
  <2>3. db.nr[Front.msg.s] \in Int
    BY <2>1, <1>b, <1>d DEF NoConv
  <2>4. CurAhead'
    BY <2>1, <2>3, <1>d DEF CurAhead, Front
  <2> QED
    BY <2>2, <2>4, <1>t DEF KeyInv
<1>9. ASSUME DecryptFails PROVE KeyInv'
  <2>1. SameKeys(db', db) /\ disk' = db' /\ ~inTx' /\ qpc' = "idle"
    BY <1>9, <1>a, RawKeepsKeys
       DEF DecryptFails, RawNew, Write, TxState, QueueIs, QueueStep, Pop
  <2>2. KeysBehind(db')
    BY <2>1, <1>a DEF KeysBehind, SameKeys
  <2> QED
    BY <2>1, <2>2, <1>t, KeyIdle
<1>10. ASSUME TxBegin PROVE KeyInv'
  <2>1. TxState' /\ KeysBehind(db') /\ KeysBehind(disk') /\ CurAhead'
    BY <1>10, <1>a DEF TxBegin, TxState, KeysBehind, CurAhead, QueueStep, Front
  <2> QED
    BY <2>1, <1>t DEF KeyInv
<1>11. ASSUME TxStore PROVE KeyInv'
  <2>1. /\ qpc = "tx" /\ queue # <<>> /\ inTx = TRUE /\ inTx' = TRUE /\ disk' = disk
        /\ queue' = queue /\ qpc' = "stored"
        /\ db'.hashes = db.hashes \cup {Front.msg}
        /\ db'.staged = db.staged \cup cur.staged
        /\ db'.nr = [db.nr EXCEPT ![Front.msg.s] = cur.nr]
    BY <1>11, <1>a DEF TxStore, Write, TxState, QueueStep
  <2>2. /\ db.nr[Front.msg.s] <= cur.nr /\ Front.msg.i < cur.nr
        /\ Front.msg \notin db.staged /\ Front.msg \notin cur.staged
        /\ \A x \in cur.staged : /\ x.s = Front.msg.s
                                 /\ db.nr[x.s] <= x.i /\ x.i < cur.nr
    BY <2>1, <1>a DEF CurAhead
  <2>3. cur.nr \in Int /\ db.nr[Front.msg.s] \in Int /\ cur.staged \subseteq Msgs
    BY <2>1, <1>a, <1>b, <1>d DEF TypeOK, QueueType, NoConv
  <2>4. \A m \in Msgs : /\ m.s \in Sessions /\ m.i \in Int /\ db.nr[m.s] \in Int
                        /\ db.nr[m.s] <= db'.nr[m.s]
    BY <2>1, <2>2, <2>3, <1>b, <1>d, MsgFields DEF NoConv
  <2>5. db'.nr[Front.msg.s] = cur.nr
    BY <2>1, <1>b, <1>d
  <2>6. \A m \in db'.staged : m.i < db'.nr[m.s]
    BY <2>1, <2>2, <2>3, <2>4, <2>5, <1>a, <1>b DEF KeysBehind
  <2>7. \A m \in db'.hashes : m.i < db'.nr[m.s]
    BY <2>1, <2>2, <2>3, <2>4, <2>5, <1>a, <1>b DEF KeysBehind
  <2>8. \A m \in db.hashes : m \notin cur.staged
    BY <2>2, <2>3, <2>4, <1>a, <1>b DEF KeysBehind
  <2>9. \A m \in db'.hashes : m \notin db'.staged
    BY <2>1, <2>2, <2>8, <1>a DEF KeysBehind
  <2>10. TxState' /\ CurAhead'
    BY <2>1 DEF TxState, CurAhead
  <2> QED
    BY <2>1, <2>6, <2>7, <2>9, <2>10, <1>a, <1>t DEF KeyInv, KeysBehind
<1>12. ASSUME TxStoreFails PROVE KeyInv'
  BY <1>12, <1>a, <1>t, KeyIdle DEF TxStoreFails, Pop
<1>13. ASSUME TxCommit PROVE KeyInv'
  <2>1. /\ SameKeys(db', db) /\ disk' = db' /\ ~inTx' /\ qpc' = "deliver"
        /\ queue # <<>> /\ queue' = queue \o Receipt(Front.msg)
    BY <1>13, <1>a, RawKeepsKeys DEF TxCommit, QueueStep
  <2>2. KeysBehind(db') /\ queue' # <<>>
    BY <2>1, <1>a, <1>d, ItemTypes, FrontKept DEF KeysBehind, SameKeys
  <2> QED
    BY <2>1, <2>2, <1>t, KeyIdle
<1>14. ASSUME TxCommitFails PROVE KeyInv'
  <2>1. queue # <<>> /\ queue' = queue \o Receipt(Front.msg)
    BY <1>14 DEF TxCommitFails, QueueStep
  <2>2. queue' # <<>>
    BY <2>1, <1>a, <1>d, ItemTypes, FrontKept
  <2> QED
    BY <2>2, <1>14, <1>a, <1>t, KeyIdle DEF TxCommitFails
<1>15. ASSUME Deliver PROVE KeyInv'
  BY <1>15, <1>a, <1>t, KeyIdle DEF Deliver, Delivering, QueueStep, QueueIs, TxState
<1>16. ASSUME DeliverFails PROVE KeyInv'
  BY <1>16, <1>a, <1>t, KeyIdle DEF DeliverFails, Delivering, QueueStep, QueueIs, TxState, Pop
<1>17. ASSUME Delivered PROVE KeyInv'
  <2>1. SameKeys(db', db) /\ disk' = db' /\ ~inTx' /\ qpc' = "idle"
    BY <1>17, <1>a, RawKeepsKeys DEF Delivered, Write, TxState, QueueStep, Pop
  <2>2. KeysBehind(db')
    BY <2>1, <1>a DEF KeysBehind, SameKeys
  <2> QED
    BY <2>1, <2>2, <1>t, KeyIdle
<1>18. ASSUME SendReceipt PROVE KeyInv'
  BY <1>18, <1>a, <1>t, KeyIdle DEF SendReceipt, QueueIs, QueueStep, TxState, Pop
<1>19. ASSUME RetryStart PROVE KeyInv'
  BY <1>19, <1>a, <1>c, <1>t, KeyFrame DEF RetryStart, TxState
<1>20. ASSUME RetryTemp PROVE KeyInv'
  BY <1>20, <1>a, <1>c, <1>t, KeyFrame DEF RetryTemp, TxState
<1>21. ASSUME RetryTempEnd PROVE KeyInv'
  BY <1>21, <1>a, <1>c, <1>t, KeyFrame DEF RetryTempEnd, TxState
<1>22. ASSUME RetryRaw PROVE KeyInv'
  BY <1>22, <1>a, <1>c, <1>t, KeyFrame DEF RetryRaw, TxState
<1>23. ASSUME RetryQueue PROVE KeyInv'
  <2>1. queue # <<>> => queue' # <<>> /\ queue'[1] = queue[1]
    BY <1>23, <1>a, FrontKept DEF RetryQueue, TypeOK, RetryType
  <2> QED
    BY <1>23, <2>1, <1>a, <1>c, <1>t, KeyFrame DEF RetryQueue, TxState
<1>24. ASSUME Crash PROVE KeyInv'
  BY <1>24, <1>a, <1>t, KeyIdle DEF Crash
<1>25. ASSUME RetryReceipt PROVE KeyInv'
  <2>1. rlist[rcursor + 1] \in Item
    BY <1>25 DEF RetryReceipt, KeyInv, TypeOK, RetryType
  <2>2. rlist[rcursor + 1].msg \in Msgs
    BY <2>1 DEF Item
  <2>3. queue # <<>> => queue' # <<>> /\ queue'[1] = queue[1]
    BY <1>25, <2>2, <1>a, ItemTypes, FrontKept DEF RetryReceipt
  <2> QED
    BY <1>25, <2>3, <1>a, <1>c, <1>t, KeyFrame DEF RetryReceipt, TxState
<1>26. ASSUME RetryReceiptsEnd PROVE KeyInv'
  BY <1>26, <1>a, <1>c, <1>t, KeyFrame DEF RetryReceiptsEnd, TxState
<1>27. CASE UNCHANGED vars
  BY <1>27, <1>a, <1>c, <1>t, KeyFrame DEF vars, TxState
<1> QED
  BY <1>1, <1>2, <1>3, <1>4, <1>5, <1>6, <1>7, <1>8, <1>9, <1>10, <1>11, <1>12, <1>13, <1>14, <1>15, <1>16, <1>17, <1>18, <1>19, <1>20, <1>21, <1>22, <1>23, <1>24, <1>25, <1>26, <1>27
     DEF Next, Transport, QueueThread, Retry

LEMMA KeyInit == Init => KeyInv
<1> SUFFICES ASSUME Init PROVE KeyInv
  OBVIOUS
<1>1. KeysBehind(db) /\ KeysBehind(disk)
  BY DEF Init, KeysBehind
<1>2. TxState /\ CurAhead
  BY DEF Init, TxState, CurAhead
<1> QED
  BY <1>1, <1>2, TypeInit DEF KeyInv

\* Whatever fails and whenever the process ends, a message whose hash is stored
\* has no key left, neither in the open database nor on disk.
THEOREM KeysAreSpent == Spec => []KeyGoneWithHash
<1>1. KeyInv => KeyGoneWithHash
  BY DEF KeyInv, KeysBehind, KeyGoneWithHash
<1> QED
  BY <1>1, KeyInit, KeyStep, PTL DEF Spec

----------------------------------------------------------------------------
(* Nothing a duplicate check or a receipt vouches for is lost.              *)

\* A later state of the database: rows go, new rows get new numbers.
Grows(d, e) == /\ d.temp.last <= e.temp.last /\ d.hashes \subseteq e.hashes
               /\ \A r \in e.temp.rows : r \in d.temp.rows \/ d.temp.last < r.seq

LEMMA NamesRowKept ==
  ASSUME NEW d \in Database, NEW e \in Database, Grows(d, e), NEW seq \in Nat,
         NEW m, NamesRow(d.temp, seq, m)
  PROVE  NamesRow(e.temp, seq, m)
<1>1. d.temp.last \in Nat /\ e.temp.last \in Nat /\ \A r \in e.temp.rows : r.seq \in Nat
  BY DEF Database, Table, Row
<1> QED
  BY <1>1 DEF Grows, NamesRow

LEMMA ItemsKept ==
  ASSUME NEW d \in Database, NEW e \in Database, Grows(d, e),
         NEW list \in Seq(Item), ItemsOK(d, list)
  PROVE  ItemsOK(e, list)
<1> SUFFICES ASSUME NEW k \in 1 .. Len(list) PROVE ItemOK(e, list[k])
  BY DEF ItemsOK
<1>1. list[k] \in Item /\ list[k].seq \in Nat /\ ItemOK(d, list[k])
  <2>1. list[k] \in Item
    OBVIOUS
  <2> QED
    BY <2>1 DEF Item, ItemsOK
<1>2. d.hashes \subseteq e.hashes
  BY DEF Grows
<1> QED
  BY <1>1, <1>2, NamesRowKept DEF ItemOK

LEMMA ItemsSpliced ==
  ASSUME NEW d \in Database, NEW q \in Seq(Item), NEW r \in Seq(Item),
         ItemsOK(d, q), ItemsOK(d, r)
  PROVE  ItemsOK(d, q \o r)
<1> SUFFICES ASSUME NEW k \in 1 .. Len(q \o r) PROVE ItemOK(d, (q \o r)[k])
  BY DEF ItemsOK
<1>1. CASE k <= Len(q)
  <2>1. (q \o r)[k] = q[k] /\ k \in 1 .. Len(q)
    BY <1>1
  <2> QED
    BY <2>1 DEF ItemsOK
<1>2. CASE k > Len(q)
  <2>1. (q \o r)[k] = r[k - Len(q)] /\ k - Len(q) \in 1 .. Len(r)
    BY <1>2
  <2> QED
    BY <2>1 DEF ItemsOK
<1> QED
  BY <1>1, <1>2

LEMMA ItemsAppended ==
  ASSUME NEW d \in Database, NEW q \in Seq(Item), NEW x \in Item,
         ItemsOK(d, q), ItemOK(d, x)
  PROVE  ItemsOK(d, Append(q, x))
  BY DEF ItemsOK

LEMMA ItemsPopped ==
  ASSUME NEW d \in Database, NEW q \in Seq(Item), q # <<>>, ItemsOK(d, q)
  PROVE  ItemsOK(d, Tail(q)) /\ ItemOK(d, q[1])
<1>1. \A k \in 1 .. Len(Tail(q)) : Tail(q)[k] = q[k + 1] /\ k + 1 \in 1 .. Len(q)
  OBVIOUS
<1> QED
  BY <1>1 DEF ItemsOK

LEMMA ItemsEmpty == ASSUME NEW d PROVE ItemsOK(d, <<>>)
  BY DEF ItemsOK

LEMMA ReceiptOK ==
  ASSUME NEW d \in Database, NEW m \in d.hashes
  PROVE  ItemsOK(d, Receipt(m))
  BY DEF ItemsOK, ItemOK, Receipt, SendItem

LEMMA TablesGood ==
  ASSUME NEW t \in Table, NEW m \in Msgs, NEW n \in Nat, GoodTable(t)
  PROVE  GoodTable(Insert(t, m)) /\ GoodTable(Delete(t, n))
<1>1. t.last \in Nat /\ \A r \in t.rows : r.seq \in Nat /\ r.seq <= t.last
  BY DEF Table, Row, GoodTable
<1>2. GoodTable(Insert(t, m))
  BY <1>1 DEF GoodTable, Insert
<1>3. GoodTable(Delete(t, n))
  BY <1>1 DEF GoodTable, Delete, Table
<1> QED
  BY <1>2, <1>3

\* Same TempMsg rows and hashes: what held before still holds.
SameTemp(d, e) == d.temp = e.temp /\ d.hashes = e.hashes

LEMMA SameTempGrows ==
  ASSUME NEW d \in Database, NEW e \in Database, SameTemp(e, d)
  PROVE  Grows(d, e)
<1>1. d.temp.last \in Nat
  BY DEF Database, Table
<1> QED
  BY <1>1 DEF SameTemp, Grows

LEMMA HeldFrame ==
  ASSUME KeyInv, KeyInv', HeldInv, dbErrors' = 0,
         SameTemp(db', db), SameTemp(disk', disk),
         ItemsOK(db, queue'), ItemsOK(db, rlist'),
         qpc' = qpc, cur' = cur, queue # <<>> => queue'[1] = queue[1],
         receipts' = receipts, events' = events
  PROVE  HeldInv'
<1>1. ItemsOK(db', queue') /\ ItemsOK(db', rlist')
  BY ItemsKept, SameTempGrows DEF KeyInv, TypeOK, DbType, QueueType, RetryType
<1>2. qpc # "idle" => Front' = Front
  BY DEF KeyInv, TxState, Front
<1>3. TxContent'
  BY <1>2 DEF HeldInv, TxContent, SameTemp
<1>4. PlainOK'
  BY <1>2 DEF HeldInv, PlainOK, PlainSeq, SameTemp
<1>5. HashedIsHeld'
  BY DEF HeldInv, HashedIsHeld, Held, HasRow, SameTemp
<1>6. GoodTable(db'.temp) /\ GoodTable(disk'.temp) /\ TempHashed(db') /\ TempHashed(disk')
  BY DEF HeldInv, SameTemp, TempHashed
<1>7. receipts' \subseteq disk'.hashes
  BY DEF HeldInv, SameTemp
<1> QED
  BY <1>1, <1>3, <1>4, <1>5, <1>6, <1>7 DEF HeldInv

\* The queue thread is done with a message.
LEMMA HeldPop ==
  ASSUME KeyInv, KeyInv', HeldInv, dbErrors' = 0, qpc' = "idle", queue # <<>>,
         queue' = Tail(queue), rlist' = rlist, ~inTx', Grows(db, db'),
         GoodTable(db'.temp), TempHashed(db'), receipts' \subseteq db'.hashes,
         HashedIsHeld'
  PROVE  HeldInv'
<1>1. disk' = db'
  BY DEF KeyInv, TxState
<1>2. ItemsOK(db', queue')
  BY ItemsPopped, ItemsKept DEF KeyInv, TypeOK, DbType, QueueType, HeldInv
<1>3. ItemsOK(db', rlist')
  BY ItemsKept DEF KeyInv, TypeOK, DbType, RetryType, HeldInv
<1>4. TxContent' /\ PlainOK'
  BY DEF TxContent, PlainOK
<1> QED
  BY <1>1, <1>2, <1>3, <1>4 DEF HeldInv

LEMMA ListStep == ASSUME TypeOK, ListInv, [Next]_vars PROVE ListInv'
<1>1. CASE rlist' = rlist /\ rpc' = rpc
  BY <1>1 DEF ListInv
<1>2. CASE RetryTemp
  <2>1. PICK r \in db.temp.rows : rlist' = Append(rlist, TempItem(r.seq, r.msg))
    BY <1>2 DEF RetryTemp
  <2>2. rlist \in Seq(Item) /\ TempItem(r.seq, r.msg).cmd = "ReceivedTempMsg"
    BY DEF TypeOK, RetryType, TempItem
  <2>3. TempItem(r.seq, r.msg) \in Item
    BY ItemTypes DEF TypeOK, DbType, Database, Table, Row
  <2> QED
    BY <1>2, <2>1, <2>2, <2>3 DEF RetryTemp, ListInv
<1>3. CASE RetryStart \/ RetryTempEnd \/ RetryReceipt
  BY <1>3 DEF RetryStart, RetryTempEnd, RetryReceipt, ListInv
<1>4. CASE RetryReceiptsEnd \/ RetryRaw \/ RetryQueue
  BY <1>4 DEF RetryReceiptsEnd, RetryRaw, RetryQueue, ListInv
<1>5. CASE Crash
  BY <1>5 DEF Crash, ListInv
<1>6. CASE Transport
  BY <1>6, <1>1 DEF Transport, RecvInsert, RecvInsertFails, RecvSequence, RecvQueue, retryVars
<1>7. CASE QueueThread
  BY <1>7, <1>1 DEF QueueThread, RawDuplicate, DecryptSetup, DecryptStaged, DecryptChain,
     DecryptFails, TxBegin, TxStore, TxStoreFails, TxCommit, TxCommitFails, Deliver,
     DeliverFails, Delivered, SendReceipt, retryVars
<1>8. CASE UNCHANGED vars
  BY <1>8, <1>1 DEF vars, retryVars
<1> QED
  BY <1>2, <1>3, <1>4, <1>5, <1>6, <1>7, <1>8 DEF Next, Retry

LEMMA HeldStep ==
  ASSUME dbErrors' = 0, KeyInv, KeyInv', ListInv, HeldInv, [Next]_vars
  PROVE  HeldInv'
<1>a. /\ TypeOK /\ TxState /\ TypeOK' /\ TxState'
      /\ db \in Database /\ disk \in Database /\ db' \in Database
      /\ disk' \in Database /\ queue \in Seq(Item) /\ rlist \in Seq(Item)
      /\ db.temp \in Table /\ disk.temp \in Table
  BY DatabaseTypes DEF KeyInv, TypeOK, DbType, QueueType, RetryType
<1>b. /\ dbErrors = 0 /\ GoodTable(db.temp) /\ GoodTable(disk.temp)
      /\ TempHashed(db) /\ TempHashed(disk) /\ ItemsOK(db, queue) /\ ItemsOK(db, rlist)
      /\ TxContent /\ PlainOK /\ receipts \subseteq disk.hashes /\ HashedIsHeld
  BY DEF HeldInv
<1>c. SameTemp(db, db) /\ SameTemp(disk, disk)
  BY DEF SameTemp
<1>d. queue # <<>> => /\ Front \in Item /\ Front.msg \in Msgs /\ Front.seq \in Nat
                      /\ Front = queue[1] /\ ItemOK(db, Front)
  BY <1>a, <1>b, FrontIs, ItemsPopped DEF TypeOK, Front
<1>e. \A t : /\ SameTemp([db EXCEPT !.raw = t], db)
             /\ SameTemp([db EXCEPT !.preKeys = t], db)
             /\ SameTemp([db EXCEPT !.staged = t], db)
  BY <1>a DEF SameTemp, Database
<1>f. Grows(db, db)
  BY <1>a, <1>c, SameTempGrows
<1> USE DEF queueVars, transVars, retryVars, appVars, histVars, faultVars, dbVars
<1>1. ASSUME NEW m \in Msgs, RecvInsert(m) PROVE HeldInv'
  <2>1. SameTemp(db', db) /\ SameTemp(disk', disk)
    BY <1>1, <1>a, <1>c, <1>e DEF RecvInsert, Write, TxState
  <2> QED
    BY <1>1, <1>b, <2>1, HeldFrame DEF RecvInsert
<1>2. ASSUME NEW m \in Msgs, RecvInsertFails(m) PROVE HeldInv'
  BY <1>2, <1>b DEF RecvInsertFails, DbFails
<1>3. ASSUME RecvSequence PROVE HeldInv'
  BY <1>3, <1>b, <1>c, HeldFrame DEF RecvSequence
<1>4. ASSUME RecvQueue PROVE HeldInv'
  <2>1. RawItem(tseq, tmsg) \in Item
    BY <1>a, ItemTypes DEF TypeOK, TransType
  <2>2. ItemsOK(db, queue')
    BY <1>4, <1>a, <1>b, <2>1, ItemsAppended DEF RecvQueue, ItemOK, RawItem
  <2>3. queue # <<>> => queue'[1] = queue[1]
    BY <1>4, <1>a, <2>1, FrontKeptAppend DEF RecvQueue
  <2> QED
    BY <1>4, <1>b, <1>c, <2>2, <2>3, HeldFrame DEF RecvQueue
<1>5. ASSUME NEW t, db' = [db EXCEPT !.raw = t], disk' = db', ~inTx, ~inTx',
             queue # <<>>, Pop, dbErrors' = dbErrors, rlist' = rlist,
             events' = events, receipts' = receipts
      PROVE  HeldInv'
  <2>1. SameTemp(db', db) /\ SameTemp(disk', disk)
    BY <1>5, <1>a, <1>e DEF TxState
  <2>2. Grows(db, db') /\ GoodTable(db'.temp) /\ TempHashed(db')
    BY <1>a, <1>b, <2>1, SameTempGrows DEF SameTemp, TempHashed
  <2>3. HashedIsHeld' /\ receipts' \subseteq db'.hashes
    BY <1>5, <1>b, <2>1 DEF HashedIsHeld, Held, HasRow, SameTemp
  <2> QED
    BY <1>5, <1>b, <2>2, <2>3, HeldPop DEF Pop
<1>6. ASSUME RawDuplicate PROVE HeldInv'
  BY <1>6, <1>5, <1>a DEF RawDuplicate, QueueIs, QueueStep, Write, TxState
<1>7. ASSUME DecryptFails PROVE HeldInv'
  BY <1>7, <1>5, <1>a DEF DecryptFails, RawNew, QueueIs, QueueStep, Write, TxState
<1>8. ASSUME RawNew, qpc' = "decrypted", queue' = queue, disk' = db', ~inTx,
             SameTemp(db', db), dbErrors' = dbErrors, rlist' = rlist,
             events' = events, receipts' = receipts
      PROVE  HeldInv'
  <2>1. SameTemp(disk', disk) /\ disk = db
    BY <1>8, <1>a DEF SameTemp, TxState
  <2>2. ItemsOK(db', queue') /\ ItemsOK(db', rlist')
    BY <1>8, <1>a, <1>b, ItemsKept, SameTempGrows
  <2>3. TxContent' /\ PlainOK'
    BY <1>8 DEF TxContent, PlainOK, RawNew, QueueIs, Front
  <2>4. /\ GoodTable(db'.temp) /\ GoodTable(disk'.temp) /\ TempHashed(db')
        /\ TempHashed(disk') /\ receipts' \subseteq disk'.hashes
    BY <1>8, <1>b, <2>1 DEF SameTemp, TempHashed
  <2>5. HashedIsHeld'
    BY <1>8, <1>b, <2>1 DEF HashedIsHeld, Held, HasRow, SameTemp
  <2> QED
    BY <1>8, <1>b, <2>2, <2>3, <2>4, <2>5 DEF HeldInv
<1>9. ASSUME DecryptSetup PROVE HeldInv'
  BY <1>9, <1>8, <1>a, <1>e DEF DecryptSetup, Write, TxState, RawNew, QueueIs, QueueStep
<1>10. ASSUME DecryptStaged PROVE HeldInv'
  BY <1>10, <1>8, <1>a, <1>e DEF DecryptStaged, Write, TxState, RawNew, QueueIs, QueueStep
<1>11. ASSUME DecryptChain PROVE HeldInv'
  BY <1>11, <1>8, <1>a, <1>c DEF DecryptChain, TxState, RawNew, QueueIs, QueueStep
<1>12. ASSUME TxBegin PROVE HeldInv'
  <2>1. db' = db /\ disk' = disk /\ disk = db /\ queue' = queue /\ qpc = "decrypted"
    BY <1>12, <1>a DEF TxBegin, QueueStep, TxState
  <2>2. TxContent' /\ PlainOK'
    BY <1>12, <1>b, <2>1 DEF TxBegin, TxContent, PlainOK, Front
  <2>3. HashedIsHeld'
    BY <1>12, <1>b DEF TxBegin, HashedIsHeld, Held
  <2> QED
    BY <1>12, <1>b, <2>2, <2>3 DEF TxBegin, HeldInv
<1>13. ASSUME TxStore PROVE HeldInv'
  <2>1. /\ qpc = "tx" /\ queue # <<>> /\ qpc' = "stored" /\ queue' = queue
        /\ db'.temp = Insert(db.temp, Front.msg)
        /\ db'.hashes = db.hashes \cup {Front.msg}
        /\ cur'.seq = db.temp.last + 1 /\ disk' = disk /\ Front' = Front
        /\ db.temp = disk.temp /\ db.hashes = disk.hashes
    BY <1>13, <1>a, <1>b
       DEF TxStore, Write, QueueStep, TxState, TxContent, TypeOK, QueueType, Front
  <2>2. Front.msg \in Msgs /\ Front.cmd = "ReceivedRawData"
    BY <2>1, <1>b, <1>d DEF PlainOK
  <2>3. db.temp.last \in Nat /\ \A r \in db.temp.rows : r.seq \in Nat
    BY <1>a DEF Table, Row
  <2>4. Grows(db, db')
    BY <2>1, <2>3 DEF Grows, Insert
  <2>5. ItemsOK(db', queue') /\ ItemsOK(db', rlist')
    BY <1>13, <1>a, <1>b, <2>4, ItemsKept DEF TxStore
  <2>6. GoodTable(db'.temp) /\ TempHashed(db')
    BY <2>1, <2>2, <1>a, <1>b, TablesGood DEF TempHashed, Insert
  <2>7. NamesRow(db'.temp, cur'.seq, Front.msg)
    BY <2>1, <2>3, <1>b DEF NamesRow, Insert, GoodTable
  <2>8. TxContent'
    BY <2>1 DEF TxContent
  <2>9. PlainOK'
    BY <2>1, <2>2, <2>7 DEF PlainOK, PlainSeq
  <2>10. HashedIsHeld' /\ GoodTable(disk'.temp) /\ TempHashed(disk')
    BY <1>13, <1>b, <2>1 DEF TxStore, HashedIsHeld, Held
  <2> QED
    BY <1>13, <1>b, <2>5, <2>6, <2>8, <2>9, <2>10, <2>1 DEF TxStore, HeldInv
<1>14. ASSUME TxStoreFails PROVE HeldInv'
  BY <1>14, <1>b DEF TxStoreFails, DbFails
<1>15. ASSUME TxCommit PROVE HeldInv'
  <2>1. /\ qpc = "stored" /\ queue # <<>> /\ qpc' = "deliver" /\ disk' = db'
        /\ queue' = queue \o Receipt(Front.msg) /\ cur' = cur
        /\ db.temp = Insert(disk.temp, Front.msg)
        /\ db.hashes = disk.hashes \cup {Front.msg} /\ SameTemp(db', db)
    BY <1>15, <1>b, <1>e DEF TxCommit, QueueStep, TxContent
  <2>2. /\ Front.msg \in Msgs /\ Receipt(Front.msg) \in Seq(Item)
        /\ Front' = Front /\ Front.cmd = "ReceivedRawData"
    BY <2>1, <1>a, <1>b, <1>d, ItemTypes, FrontKept DEF Front, PlainOK
  <2>r. ItemsOK(db, Receipt(Front.msg))
    BY <2>1, <1>a, ReceiptOK
  <2>3. ItemsOK(db, queue') /\ ItemsOK(db, rlist')
    <3>1. ItemsOK(db, queue \o Receipt(Front.msg))
      BY <2>2, <2>r, <1>a, <1>b, ItemsSpliced
    <3>2. rlist' = rlist /\ ItemsOK(db, rlist)
      BY <1>15, <1>b DEF TxCommit
    <3> QED
      BY <2>1, <3>1, <3>2
  <2>4. queue' \in Seq(Item) /\ rlist' \in Seq(Item)
    BY <1>a DEF TypeOK, QueueType, RetryType
  <2>5. ItemsOK(db', queue') /\ ItemsOK(db', rlist')
    <3>1. Grows(db, db')
      BY <1>a, <2>1, SameTempGrows
    <3> QED
      BY <1>a, <2>3, <2>4, <3>1, ItemsKept
  <2>n. NamesRow(db.temp, PlainSeq, Front.msg) /\ PlainSeq' = PlainSeq
    BY <2>1, <2>2, <1>b DEF PlainOK, PlainSeq
  <2>6. TxContent' /\ PlainOK'
    BY <2>1, <2>2, <2>n DEF TxContent, PlainOK, SameTemp
  <2>7. GoodTable(db'.temp) /\ TempHashed(db')
    BY <2>1, <1>b DEF SameTemp, TempHashed
  <2>8. HasRow(db.temp, Front.msg)
    <3>1. [seq |-> disk.temp.last + 1, msg |-> Front.msg] \in db.temp.rows
      BY <2>1 DEF Insert
    <3> QED
      BY <3>1 DEF HasRow
  <2>9. \A m : HasRow(disk.temp, m) => HasRow(db.temp, m)
    BY <2>1 DEF HasRow, Insert
  <2>10. HashedIsHeld'
    <3> SUFFICES ASSUME NEW m \in disk'.hashes, m \notin events'
                 PROVE  HasRow(disk'.temp, m)
      BY DEF HashedIsHeld, Held
    <3>1. m \in disk.hashes \/ m = Front.msg
      BY <2>1 DEF SameTemp
    <3>2. m \in disk.hashes => HasRow(disk.temp, m)
      BY <1>15, <1>b DEF TxCommit, HashedIsHeld, Held
    <3> QED
      BY <2>1, <2>8, <2>9, <3>1, <3>2 DEF SameTemp
  <2>11. receipts' \subseteq disk'.hashes
    BY <1>15, <2>1, <1>b DEF TxCommit, SameTemp
  <2> QED
    BY <1>15, <1>b, <2>1, <2>5, <2>6, <2>7, <2>10, <2>11 DEF TxCommit, HeldInv
<1>16. ASSUME TxCommitFails PROVE HeldInv'
  BY <1>16, <1>b DEF TxCommitFails, DbFails
<1>17. ASSUME Deliver PROVE HeldInv'
  <2>1. /\ queue # <<>> /\ queue' = queue /\ Front' = Front /\ cur' = cur
        /\ db' = db /\ disk' = disk /\ qpc' = "delivered"
        /\ events' = events \cup {Front.msg}
    BY <1>17 DEF Deliver, Delivering, QueueStep, QueueIs, Front
  <2>2. NamesRow(db.temp, PlainSeq, Front.msg)
    BY <1>17, <1>b, <1>d DEF Deliver, Delivering, QueueStep, QueueIs, PlainOK,
                             PlainSeq, ItemOK
  <2>3. PlainOK' /\ TxContent'
    BY <2>1, <2>2 DEF PlainOK, PlainSeq, TxContent
  <2>4. HashedIsHeld'
    BY <2>1, <1>b DEF HashedIsHeld, Held
  <2> QED
    BY <1>17, <1>b, <2>1, <2>3, <2>4 DEF Deliver, HeldInv
<1>18. ASSUME DeliverFails PROVE HeldInv'
  <2>1. queue # <<>> /\ db' = db /\ disk' = disk /\ ~inTx /\ ~inTx' /\ disk = db
    BY <1>18, <1>a DEF DeliverFails, Delivering, QueueStep, QueueIs, TxState
  <2>2. HashedIsHeld'
    BY <1>18, <1>b, <2>1 DEF DeliverFails, HashedIsHeld, Held
  <2> QED
    BY <1>18, <1>b, <1>f, <2>1, <2>2, HeldPop DEF DeliverFails, Pop
<1>19. ASSUME Delivered PROVE HeldInv'
  <2>1. /\ qpc = "delivered" /\ queue # <<>> /\ ~inTx /\ ~inTx' /\ disk = db /\ disk' = db'
        /\ db'.temp = Delete(db.temp, PlainSeq) /\ db'.hashes = db.hashes
    BY <1>19, <1>a DEF Delivered, QueueStep, TxState, Write, Database
  <2>2. PlainSeq \in Nat
    BY <2>1, <1>a, <1>d DEF PlainSeq, TypeOK, QueueType
  <2>3. /\ db'.temp.last = db.temp.last
        /\ db'.temp.rows = {r \in db.temp.rows : r.seq # PlainSeq}
    BY <2>1, <1>a DEF Delete, Table
  <2>4. Grows(db, db') /\ TempHashed(db')
    BY <2>1, <2>3, <1>a, <1>b DEF Grows, TempHashed, Table
  <2>5. GoodTable(db'.temp)
    BY <2>1, <2>2, <1>a, <1>b, <1>d, TablesGood
  <2>6. NamesRow(db.temp, PlainSeq, Front.msg) /\ Front.msg \in events
    BY <2>1, <1>b DEF PlainOK
  <2>7. HashedIsHeld'
    BY <1>19, <2>1, <2>3, <2>6, <1>b DEF Delivered, HashedIsHeld, Held, HasRow, NamesRow
  <2>8. receipts' \subseteq db'.hashes
    BY <1>19, <2>1, <1>b DEF Delivered
  <2> QED
    BY <1>19, <1>b, <2>1, <2>4, <2>5, <2>7, <2>8, HeldPop DEF Delivered, Pop
<1>20. ASSUME SendReceipt PROVE HeldInv'
  <2>1. /\ queue # <<>> /\ db' = db /\ disk' = disk /\ ~inTx /\ ~inTx' /\ disk = db
        /\ Front.msg \in db.hashes
    BY <1>20, <1>a, <1>d DEF SendReceipt, QueueStep, QueueIs, TxState, ItemOK
  <2>2. HashedIsHeld'
    BY <1>20, <1>b, <2>1 DEF SendReceipt, HashedIsHeld, Held
  <2>3. receipts' \subseteq db'.hashes
    BY <1>20, <1>b, <2>1 DEF SendReceipt
  <2> QED
    BY <1>20, <1>b, <1>f, <2>1, <2>2, <2>3, HeldPop DEF SendReceipt, Pop
<1>21. ASSUME RetryStart PROVE HeldInv'
  BY <1>21, <1>b, <1>c, HeldFrame DEF RetryStart
<1>22. ASSUME RetryTemp PROVE HeldInv'
  <2>1. PICK r \in db.temp.rows : rlist' = Append(rlist, TempItem(r.seq, r.msg))
    BY <1>22 DEF RetryTemp
  <2>2. r.seq \in Nat /\ r.msg \in Msgs /\ r.msg \in db.hashes
    BY <1>a, <1>b DEF Table, Row, TempHashed
  <2>4. NamesRow(db.temp, r.seq, r.msg)
    BY <1>b DEF NamesRow, GoodTable
  <2>5. ItemsOK(db, rlist')
    BY <2>1, <2>2, <2>4, <1>a, <1>b, ItemTypes, ItemsAppended DEF ItemOK, TempItem
  <2> QED
    BY <1>22, <1>b, <1>c, <2>5, HeldFrame DEF RetryTemp
<1>23. ASSUME RetryTempEnd PROVE HeldInv'
  BY <1>23, <1>b, <1>c, HeldFrame DEF RetryTempEnd
<1>24. ASSUME RetryRaw PROVE HeldInv'
  <2>1. PICK r \in db.raw.rows : rlist' = Append(rlist, RawItem(r.seq, r.msg))
    BY <1>24 DEF RetryRaw
  <2>2. r.seq \in Nat /\ r.msg \in Msgs
    BY <1>a, DatabaseTypes DEF Table, Row
  <2>3. ItemsOK(db, rlist')
    BY <2>1, <2>2, <1>a, <1>b, ItemTypes, ItemsAppended DEF ItemOK, RawItem
  <2> QED
    BY <1>24, <1>b, <1>c, <2>3, HeldFrame DEF RetryRaw
<1>25. ASSUME RetryQueue PROVE HeldInv'
  <2>1. ItemsOK(db, queue') /\ (queue # <<>> => queue'[1] = queue[1])
    BY <1>25, <1>a, <1>b, ItemsSpliced, FrontKept DEF RetryQueue
  <2> QED
    BY <1>25, <1>b, <1>c, <2>1, ItemsEmpty, HeldFrame DEF RetryQueue
<1>26. ASSUME Crash PROVE HeldInv'
  <2>1. db' = disk /\ disk' = disk /\ qpc' = "idle" /\ queue' = <<>> /\ rlist' = <<>>
    BY <1>26 DEF Crash
  <2>2. TxContent' /\ PlainOK' /\ ItemsOK(db', queue') /\ ItemsOK(db', rlist')
    BY <2>1, ItemsEmpty DEF TxContent, PlainOK
  <2>3. HashedIsHeld'
    BY <1>26, <1>b DEF Crash, HashedIsHeld, Held
  <2> QED
    BY <1>26, <1>b, <2>1, <2>2, <2>3 DEF Crash, HeldInv
<1>27. ASSUME RetryReceipt PROVE HeldInv'
  <2>1. rcursor + 1 \in 1 .. Len(rlist)
    BY <1>27, <1>a DEF RetryReceipt, TypeOK, RetryType
  <2>2. rlist[rcursor + 1] \in Item /\ rlist[rcursor + 1].cmd = "ReceivedTempMsg"
    BY <1>27, <1>a, <2>1 DEF RetryReceipt, ListInv
  <2>3. rlist[rcursor + 1].msg \in Msgs /\ rlist[rcursor + 1].msg \in db.hashes
    BY <2>1, <2>2, <1>b DEF Item, ItemsOK, ItemOK
  <2>4. ItemsOK(db, queue') /\ (queue # <<>> => queue'[1] = queue[1])
    BY <1>27, <2>3, <1>a, <1>b, ItemTypes, ReceiptOK, ItemsSpliced, FrontKept DEF RetryReceipt
  <2> QED
    BY <1>27, <1>b, <1>c, <2>4, HeldFrame DEF RetryReceipt
<1>28. ASSUME RetryReceiptsEnd PROVE HeldInv'
  BY <1>28, <1>b, <1>c, HeldFrame DEF RetryReceiptsEnd
<1>29. CASE UNCHANGED vars
  BY <1>29, <1>b, <1>c, HeldFrame DEF vars
<1> QED
  BY <1>1, <1>2, <1>3, <1>4, <1>6, <1>7, <1>9, <1>10, <1>11, <1>12, <1>13, <1>14, <1>15,
     <1>16, <1>17, <1>18, <1>19, <1>20, <1>21, <1>22, <1>23, <1>24, <1>25, <1>26, <1>27, <1>28, <1>29
     DEF Next, Transport, QueueThread, Retry

LEMMA HeldInit == Init => HeldInv
<1> SUFFICES ASSUME Init PROVE HeldInv
  OBVIOUS
<1>1. GoodTable(db.temp) /\ GoodTable(disk.temp) /\ TempHashed(db) /\ TempHashed(disk)
  BY DEF Init, EmptyTable, GoodTable, TempHashed
<1>2. ItemsOK(db, queue) /\ ItemsOK(db, rlist)
  BY ItemsEmpty DEF Init
<1>3. TxContent /\ PlainOK /\ HashedIsHeld /\ receipts \subseteq disk.hashes
  BY DEF Init, TxContent, PlainOK, HashedIsHeld
<1>4. dbErrors = 0
  BY DEF Init
<1> QED
  BY <1>1, <1>2, <1>3, <1>4 DEF HeldInv

\* The count of failed statements never goes back.
LEMMA ErrorsStay == TypeOK /\ [Next]_vars /\ dbErrors' = 0 => dbErrors = 0
<1> SUFFICES ASSUME TypeOK, [Next]_vars, dbErrors' = 0 PROVE dbErrors = 0
  OBVIOUS
<1>1. dbErrors \in Nat
  BY DEF TypeOK, FaultType
<1> USE DEF faultVars
<1>2. dbErrors' = dbErrors \/ dbErrors' = dbErrors + 1
  <2>1. CASE Transport
    BY <2>1 DEF Transport, RecvInsert, RecvInsertFails, DbFails, RecvSequence, RecvQueue
  <2>2. CASE QueueThread
    BY <2>2 DEF QueueThread, RawDuplicate, DecryptSetup, DecryptStaged, DecryptChain,
       DecryptFails, TxBegin, TxStore, TxStoreFails, TxCommit, TxCommitFails, DbFails,
       Deliver, DeliverFails, Delivered, SendReceipt
  <2>3. CASE Retry \/ Crash \/ UNCHANGED vars
    BY <2>3 DEF Retry, RetryStart, RetryTemp, RetryTempEnd, RetryReceipt,
       RetryReceiptsEnd, RetryRaw, RetryQueue, Crash, vars
  <2> QED
    BY <2>1, <2>2, <2>3 DEF Next
<1> QED
  BY <1>1, <1>2

LEMMA HeldAlways == Spec => [](KeyInv /\ ListInv /\ (dbErrors = 0 => HeldInv))
<1>1. Init => KeyInv /\ ListInv /\ HeldInv
  BY KeyInit, HeldInit DEF Init, ListInv
<1>2. KeyInv /\ ListInv /\ (dbErrors = 0 => HeldInv) /\ [Next]_vars
        => (KeyInv /\ ListInv /\ (dbErrors = 0 => HeldInv))'
  BY KeyStep, ListStep, HeldStep, ErrorsStay DEF KeyInv
<1> QED
  BY <1>1, <1>2, PTL DEF Spec

\* As long as the database takes what it is given, the duplicate check never
\* drops a message that is neither shown nor on disk, whenever the process ends.
THEOREM DuplicatesAreHeld == Spec => []DuplicateIsHeld
<1>1. (dbErrors = 0 => HeldInv) => DuplicateIsHeld
  BY DEF HeldInv, DuplicateIsHeld
<1> QED
  BY <1>1, HeldAlways, PTL

\* Likewise a delivery receipt is kept over every crash.
THEOREM ReceiptsAreHeld == Spec => []ReceiptIsHeld
<1>1. (dbErrors = 0 => HeldInv) => ReceiptIsHeld
  BY DEF HeldInv, HashedIsHeld, ReceiptIsHeld
<1> QED
  BY <1>1, HeldAlways, PTL
============================================================================
