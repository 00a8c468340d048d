---------------------------- MODULE ZinaReceive ----------------------------
(***************************************************************************)
(* The receive pipeline of libzina: from the envelope the SIP thread hands *)
(* over to the message that lies in the chat database of the app.          *)
(*                                                                         *)
(* Four actors share one SQLite connection and one run queue:              *)
(*   transport  receiveMessage: stores the raw envelope, queues it         *)
(*   queue      commandQueueHandler with processMessageRaw and             *)
(*              processMessagePlain                                        *)
(*   retry      retryReceivedMessages, once in the life of a process       *)
(*   system     ends the process at any point; SQLite then recovers the    *)
(*              last committed state                                       *)
(*                                                                         *)
(* Abstractions.  A message is a record <<s, i>>: session s (one use of a  *)
(* pre-key by a peer's device), position i in the chain of that session.   *)
(* Every message of a session carries the setup data, as a peer sends it   *)
(* until it gets an answer.  The ratchet is cut down to one receiving      *)
(* chain: a counter per session and the staged keys; ZinaRatchet has the   *)
(* whole of it.  Time is left out: nothing gets as old as MK_STORE_TIME.   *)
(***************************************************************************)
EXTENDS Integers, Sequences, FiniteSets

CONSTANTS
    Sessions,      \* sessions peers open with this device
    LastIdx,       \* position of the last message of a session
    Commands,      \* the messages that are commands, not text
    MaxRecv,       \* bound: how often the server hands over one message
    MaxCrashes,    \* bound: how often the process ends
    MaxDbErrors,   \* bound: SQL statements that fail
    MaxCbErrors,   \* bound: receive callbacks that return an error
    MaxFaults      \* bound: all these together, with the messages handed over again

Msgs == [s : Sessions, i : 0 .. LastIdx]

ASSUME ConstantsAssumption ==
    /\ Sessions # {} /\ LastIdx \in Nat
    /\ Commands \subseteq Msgs
    /\ MaxRecv \in Nat /\ MaxCrashes \in Nat
    /\ MaxDbErrors \in Nat /\ MaxCbErrors \in Nat /\ MaxFaults \in Nat

NoMsg == CHOOSE m \in Msgs : TRUE    \* what tmsg holds outside of receiveMessage
NoConv == -1       \* no conversation stored: the root key is empty

VARIABLES
    \* the database: as the connection sees it, as a restart would find it
    db, disk, inTx,
    \* run queue and queue thread; cur holds the result of a decryption
    queue, qpc, cur,
    \* transport thread inside receiveMessage
    tpc, tmsg, tseq,
    \* thread inside retryReceivedMessages: cursor and the list it builds
    rpc, rcursor, rlist,
    \* the chat database of the app and what the peers were told
    events, receipts, rejected,
    \* history: order of acceptance, hand-overs, callbacks that had an effect
    accepted, handed, runs,
    \* faults so far
    crashes, dbErrors, cbErrors

dbVars    == <<db, disk, inTx>>
queueVars == <<queue, qpc, cur>>
transVars == <<tpc, tmsg, tseq>>
retryVars == <<rpc, rcursor, rlist>>
appVars   == <<events, receipts, rejected>>
histVars  == <<accepted, handed, runs>>
faultVars == <<crashes, dbErrors, cbErrors>>
vars == <<dbVars, queueVars, transVars, retryVars, appVars, histVars, faultVars>>

----------------------------------------------------------------------------
Row   == [seq : Nat, msg : Msgs]
Table == [rows : SUBSET Row, last : Nat]
Item  == [cmd : {"ReceivedRawData", "ReceivedTempMsg", "SendMessage"},
          seq : Nat, msg : Msgs]

Database == [raw : Table, temp : Table, hashes : SUBSET Msgs,
             preKeys : SUBSET Sessions,
             nr : [Sessions -> NoConv .. LastIdx + 1], staged : SUBSET Msgs]

\* Both message tables have an AUTOINCREMENT sequence as primary key.
EmptyTable    == [rows |-> {}, last |-> 0]
\* Mutant: an INTEGER PRIMARY KEY without AUTOINCREMENT takes a free rowid again.
InsertReusingRowid(t, m) ==
    LET free == CHOOSE n \in 1 .. Cardinality(t.rows) + 1 :
                  /\ \A r \in t.rows : r.seq # n
                  /\ \A k \in 1 .. n - 1 : \E r \in t.rows : r.seq = k
    IN  [rows |-> t.rows \cup {[seq |-> free, msg |-> m]}, last |-> free]

Insert(t, m)  == [rows |-> t.rows \cup {[seq |-> t.last + 1, msg |-> m]},
                  last |-> t.last + 1]
Delete(t, seq) == [t EXCEPT !.rows = {r \in t.rows : r.seq # seq}]

\* A statement runs in the transaction that is open on the one connection,
\* whoever opened it; without a transaction it commits by itself.
Write(new) == db' = new /\ disk' = IF inTx THEN disk ELSE new

RawItem(seq, m)  == [cmd |-> "ReceivedRawData", seq |-> seq, msg |-> m]
TempItem(seq, m) == [cmd |-> "ReceivedTempMsg", seq |-> seq, msg |-> m]
\* Mutant: a new message marked as having no row.
SendItemNoRow(m) == [cmd |-> "SendMessage", seq |-> -1, msg |-> m]
SendItem(m)      == [cmd |-> "SendMessage", seq |-> 0, msg |-> m]

\* sendDeliveryReceipt queues a message of its own, but not for commands.
Receipt(m) == IF m \in Commands THEN <<>> ELSE <<SendItem(m)>>

EmptyCur == [nr |-> NoConv, staged |-> {}, seq |-> 0]

Init ==
    /\ db = [raw |-> EmptyTable, temp |-> EmptyTable, hashes |-> {},
             preKeys |-> Sessions, nr |-> [s \in Sessions |-> NoConv], staged |-> {}]
    /\ disk = db /\ inTx = FALSE
    /\ queue = <<>> /\ qpc = "idle" /\ cur = EmptyCur
    /\ tpc = "idle" /\ tmsg = NoMsg /\ tseq = 0
    /\ rpc = "idle" /\ rcursor = 0 /\ rlist = <<>>
    /\ events = {} /\ receipts = {} /\ rejected = {}
    /\ accepted = <<>>
    /\ handed = [m \in Msgs |-> 0] /\ runs = [m \in Msgs |-> 0]
    /\ crashes = 0 /\ dbErrors = 0 /\ cbErrors = 0

\* The bound on all faults together.
Repeated == {m \in Msgs : handed[m] > 1}
MayFail  == crashes + dbErrors + cbErrors + Cardinality(Repeated) < MaxFaults

DbFails == /\ dbErrors < MaxDbErrors /\ MayFail
           /\ dbErrors' = dbErrors + 1 /\ UNCHANGED <<crashes, cbErrors>>

----------------------------------------------------------------------------
(* Transport thread: receiveMessage.                                       *)

\* The server hands a message over, maybe again.
HandOver(m) == /\ handed[m] < MaxRecv /\ (handed[m] = 0 \/ MayFail)
               /\ handed' = [handed EXCEPT ![m] = @ + 1]

\* insertReceivedRawData: the INSERT, with the AUTOINCREMENT sequence.
RecvInsert(m) ==
    /\ tpc = "idle" /\ HandOver(m)
    /\ Write([db EXCEPT !.raw = Insert(@, m)])
    /\ tpc' = "inserted" /\ tmsg' = m /\ UNCHANGED tseq
    /\ UNCHANGED <<inTx, queueVars, retryVars, appVars, accepted, runs, faultVars>>

\* The INSERT fails: DATABASE_ERROR goes back to the transport.
RecvInsertFails(m) ==
    /\ tpc = "idle" /\ HandOver(m) /\ DbFails
    /\ UNCHANGED <<dbVars, queueVars, transVars, retryVars, appVars,
                   accepted, runs>>

\* getSequenceNumber: a second statement, which reads sqlite_sequence.
RecvSequence ==
    /\ tpc = "inserted"
    /\ tseq' = db.raw.last /\ tpc' = "sequenced"
    /\ UNCHANGED <<dbVars, queueVars, tmsg, retryVars, appVars, histVars, faultVars>>

\* addMsgInfoToRunQueue, then OK is returned.
RecvQueue ==
    /\ tpc = "sequenced"
    /\ queue' = Append(queue, RawItem(tseq, tmsg))
    /\ accepted' = Append(accepted, tmsg)
    /\ tpc' = "idle" /\ tmsg' = NoMsg /\ tseq' = 0
    /\ UNCHANGED <<dbVars, qpc, cur, retryVars, appVars,
                   handed, runs, faultVars>>

----------------------------------------------------------------------------
(* Queue thread: the front of the queue is processed, then popped.         *)

Front == queue[1]
Pop == queue' = Tail(queue) /\ qpc' = "idle" /\ cur' = EmptyCur

QueueStep(pc) == qpc = pc /\ queue # <<>>
QueueIs(cmd) == QueueStep("idle") /\ Front.cmd = cmd

\* processMessageRaw, a message whose hash is known: drop it.
RawDuplicate ==
    /\ QueueIs("ReceivedRawData") /\ Front.msg \in db.hashes
    /\ Write([db EXCEPT !.raw = Delete(@, Front.seq)])
    /\ Pop
    /\ UNCHANGED <<inTx, transVars, retryVars, appVars, histVars, faultVars>>

\* Mutant: the hash of the message is not looked up.
RawNewUnchecked == QueueIs("ReceivedRawData")
RawNew == QueueIs("ReceivedRawData") /\ Front.msg \notin db.hashes

\* ZinaRatchet::decrypt on the setup message of a new session: the pre-key
\* goes out of the database at once.
DecryptSetup ==
    LET m == Front.msg IN
    /\ RawNew /\ db.nr[m.s] = NoConv /\ m.s \in db.preKeys
    /\ Write([db EXCEPT !.preKeys = @ \ {m.s}])
    /\ cur' = [nr |-> m.i + 1, staged |-> [s : {m.s}, i : 0 .. m.i - 1], seq |-> 0]
    /\ qpc' = "decrypted"
    /\ UNCHANGED <<inTx, queue, transVars, retryVars, appVars, histVars, faultVars>>

\* ... with a staged key, which is deleted at once as well.
DecryptStaged ==
    LET m == Front.msg IN
    /\ RawNew /\ db.nr[m.s] # NoConv /\ m \in db.staged
    /\ Write([db EXCEPT !.staged = @ \ {m}])
    /\ cur' = [nr |-> db.nr[m.s], staged |-> {}, seq |-> 0]
    /\ qpc' = "decrypted"
    /\ UNCHANGED <<inTx, queue, transVars, retryVars, appVars, histVars, faultVars>>

\* ... with the chain, staging the keys of the messages it skips in memory.
DecryptChain ==
    LET m == Front.msg IN
    /\ RawNew /\ db.nr[m.s] # NoConv /\ m \notin db.staged /\ m.i >= db.nr[m.s]
    /\ cur' = [nr |-> m.i + 1, staged |-> [s : {m.s}, i : db.nr[m.s] .. m.i - 1],
               seq |-> 0]
    /\ qpc' = "decrypted"
    /\ UNCHANGED <<dbVars, queue, transVars, retryVars, appVars, histVars, faultVars>>

\* Neither a staged key nor the chain nor a pre-key opens this message.
KeyGone(d, m) == IF d.nr[m.s] = NoConv THEN m.s \notin d.preKeys
                                       ELSE m \notin d.staged /\ m.i < d.nr[m.s]

\* Mutant: nothing is reported.
DecryptFailsSilently ==
    LET m == Front.msg IN
    /\ RawNew /\ KeyGone(db, m)
    /\ Write([db EXCEPT !.raw = Delete(@, Front.seq)])
    /\ Pop
    /\ UNCHANGED <<inTx, transVars, retryVars, appVars, histVars, faultVars>>

\* No pre-key (NO_PRE_KEY_FOUND) or no key (MAC_CHECK_FAILED): errorMessage_
\* deletes the raw data and reports.
DecryptFails ==
    LET m == Front.msg IN
    /\ RawNew /\ KeyGone(db, m)
    /\ Write([db EXCEPT !.raw = Delete(@, Front.seq)])
    /\ rejected' = rejected \cup {m}
    /\ Pop
    /\ UNCHANGED <<inTx, transVars, retryVars, events, receipts, histVars, faultVars>>

TxBegin ==
    /\ QueueStep("decrypted") /\ inTx' = TRUE /\ qpc' = "tx"
    /\ UNCHANGED <<db, disk, queue, cur, transVars, retryVars, appVars, histVars, faultVars>>

\* Mutant: the plain text is not stored.
TxStoreNoTemp ==
    LET m == Front.msg IN
    /\ QueueStep("tx")
    /\ Write([db EXCEPT !.hashes = @ \cup {m}, !.nr = [@ EXCEPT ![m.s] = cur.nr],
                        !.staged = @ \cup cur.staged])
    /\ cur' = cur /\ qpc' = "stored"
    /\ UNCHANGED <<inTx, queue, transVars, retryVars, appVars, histVars, faultVars>>

\* Mutant: the conversation is not stored.
TxStoreNoConv ==
    LET m == Front.msg IN
    /\ QueueStep("tx")
    /\ Write([db EXCEPT !.temp = Insert(@, m), !.hashes = @ \cup {m},
                        !.staged = @ \cup cur.staged])
    /\ cur' = [cur EXCEPT !.seq = db.temp.last + 1]
    /\ qpc' = "stored"
    /\ UNCHANGED <<inTx, queue, transVars, retryVars, appVars, histVars, faultVars>>

\* insertMsgHash, storeStagedMks, storeConversation, insertTempMsg.
TxStore ==
    LET m == Front.msg IN
    /\ QueueStep("tx")
    /\ Write([raw     |-> db.raw,
              temp    |-> Insert(db.temp, m),
              hashes  |-> db.hashes \cup {m},
              preKeys |-> db.preKeys,
              nr      |-> [db.nr EXCEPT ![m.s] = cur.nr],
              staged  |-> db.staged \cup cur.staged])
    /\ cur' = [cur EXCEPT !.seq = db.temp.last + 1]
    /\ qpc' = "stored"
    /\ UNCHANGED <<inTx, queue, transVars, retryVars, appVars, histVars, faultVars>>

\* One of the statements fails: roll back, report, leave the raw data.
TxStoreFails ==
    /\ QueueStep("tx") /\ DbFails
    /\ db' = disk /\ inTx' = FALSE
    /\ Pop
    /\ UNCHANGED <<disk, transVars, retryVars, appVars, histVars>>

\* success_: the raw data goes in the same transaction; then the receipt.
TxCommit ==
    /\ QueueStep("stored")
    /\ db' = [db EXCEPT !.raw = Delete(@, Front.seq)]
    /\ disk' = db' /\ inTx' = FALSE
    /\ queue' = queue \o Receipt(Front.msg) /\ qpc' = "deliver"
    /\ UNCHANGED <<cur, transVars, retryVars, appVars, histVars, faultVars>>

\* The result of COMMIT is not looked at: all is rolled back, the thread goes on.
TxCommitFails ==
    /\ QueueStep("stored") /\ DbFails
    /\ db' = disk /\ inTx' = FALSE
    /\ queue' = queue \o Receipt(Front.msg) /\ qpc' = "deliver"
    /\ UNCHANGED <<disk, cur, transVars, retryVars, appVars, histVars>>

----------------------------------------------------------------------------
(* processMessagePlain: for a message just decrypted, or for a TempMsg row *)
(* that the retry has queued.                                              *)

Delivering == QueueStep("deliver") \/ QueueIs("ReceivedTempMsg")
PlainSeq == IF Front.cmd = "ReceivedTempMsg" THEN Front.seq ELSE cur.seq

\* Mutant: the app stores and shows every message it is given.
KnownToAppNever(m) == FALSE

\* receiveAxoMsg ignores a text message it has stored before.
KnownToApp(m) == m \notin Commands /\ m \in events

Deliver ==
    /\ Delivering
    /\ events' = events \cup {Front.msg}
    /\ runs' = [runs EXCEPT ![Front.msg] = IF KnownToApp(Front.msg) THEN @ ELSE @ + 1]
    /\ qpc' = "delivered"
    /\ UNCHANGED <<dbVars, queue, cur, transVars, retryVars, receipts, rejected,
                   accepted, handed, faultVars>>

\* The callback returns an error: report, leave the TempMsg row.
DeliverFails ==
    /\ Delivering /\ ~KnownToApp(Front.msg) /\ cbErrors < MaxCbErrors /\ MayFail
    /\ cbErrors' = cbErrors + 1
    /\ Pop
    /\ UNCHANGED <<dbVars, transVars, retryVars, appVars, histVars, crashes, dbErrors>>

Delivered ==
    /\ QueueStep("delivered")
    /\ Write([db EXCEPT !.temp = Delete(@, PlainSeq)])
    /\ Pop
    /\ UNCHANGED <<inTx, transVars, retryVars, appVars, histVars, faultVars>>

\* The queue thread sends a receipt it finds in the queue.
SendReceipt ==
    /\ QueueIs("SendMessage")
    /\ receipts' = receipts \cup {Front.msg}
    /\ Pop
    /\ UNCHANGED <<dbVars, transVars, retryVars, events, rejected, histVars, faultVars>>

----------------------------------------------------------------------------
(* retryReceivedMessages: the rows are stepped through in sequence order;  *)
(* the list built from them is spliced into the run queue at the end.      *)

NextRow(rows, r) ==
    /\ r \in rows /\ r.seq > rcursor
    /\ \A q \in rows : q.seq > rcursor => r.seq <= q.seq
NoRow(rows) == \A q \in rows : q.seq <= rcursor

RetryStart ==
    /\ rpc = "idle" /\ rpc' = "temp" /\ rcursor' = 0
    /\ UNCHANGED <<dbVars, queueVars, transVars, rlist, appVars, histVars, faultVars>>

\* Mutant: a row is deleted when it is loaded.
RetryTempDeletes ==
    /\ rpc = "temp"
    /\ \E r \in db.temp.rows :
         /\ NextRow(db.temp.rows, r)
         /\ Write([db EXCEPT !.temp = Delete(@, r.seq)])
         /\ rcursor' = r.seq
         /\ rlist' = Append(rlist, TempItem(r.seq, r.msg))
    /\ UNCHANGED <<inTx, queueVars, transVars, rpc, appVars, histVars, faultVars>>

\* loadTempMsg, one sqlite3_step at a time.
RetryTemp ==
    /\ rpc = "temp"
    /\ \E r \in db.temp.rows :
         /\ NextRow(db.temp.rows, r)
         /\ rcursor' = r.seq
         /\ rlist' = Append(rlist, TempItem(r.seq, r.msg))
    /\ UNCHANGED <<dbVars, queueVars, transVars, rpc, appVars, histVars, faultVars>>

RetryTempEnd ==
    /\ rpc = "temp" /\ NoRow(db.temp.rows)
    /\ rpc' = "receipts" /\ rcursor' = 0
    /\ UNCHANGED <<dbVars, queueVars, transVars, rlist, appVars, histVars, faultVars>>

\* The receipts of the plain messages are queued at once, the messages are not;
\* here the cursor is a position in the list.
RetryReceipt ==
    /\ rpc = "receipts" /\ rcursor < Len(rlist)
    /\ rcursor' = rcursor + 1
    /\ queue' = queue \o Receipt(rlist[rcursor + 1].msg)
    /\ UNCHANGED <<dbVars, qpc, cur, transVars, rpc, rlist, appVars, histVars, faultVars>>

RetryReceiptsEnd ==
    /\ rpc = "receipts" /\ rcursor >= Len(rlist)
    /\ rpc' = "raw" /\ rcursor' = 0
    /\ UNCHANGED <<dbVars, queueVars, transVars, rlist, appVars, histVars, faultVars>>

\* Mutant: raw data goes to the front of the list.
RetryRawFirst ==
    /\ rpc = "raw"
    /\ \E r \in db.raw.rows :
         /\ NextRow(db.raw.rows, r)
         /\ rcursor' = r.seq
         /\ rlist' = <<RawItem(r.seq, r.msg)>> \o rlist
    /\ UNCHANGED <<dbVars, queueVars, transVars, rpc, appVars, histVars, faultVars>>

RetryRaw ==
    /\ rpc = "raw"
    /\ \E r \in db.raw.rows :
         /\ NextRow(db.raw.rows, r)
         /\ rcursor' = r.seq
         /\ rlist' = Append(rlist, RawItem(r.seq, r.msg))
    /\ UNCHANGED <<dbVars, queueVars, transVars, rpc, appVars, histVars, faultVars>>

RetryQueue ==
    /\ rpc = "raw" /\ NoRow(db.raw.rows)
    /\ queue' = queue \o rlist
    /\ rlist' = <<>> /\ rcursor' = 0 /\ rpc' = "done"
    /\ UNCHANGED <<dbVars, qpc, cur, transVars, appVars, histVars, faultVars>>

----------------------------------------------------------------------------
\* The process ends; SQLite rolls an open transaction back when it is opened
\* again, and everything in memory is gone.
Crash ==
    /\ crashes < MaxCrashes /\ MayFail /\ crashes' = crashes + 1
    /\ db' = disk /\ inTx' = FALSE
    /\ queue' = <<>> /\ qpc' = "idle" /\ cur' = EmptyCur
    /\ tpc' = "idle" /\ tmsg' = NoMsg /\ tseq' = 0
    /\ rpc' = "idle" /\ rcursor' = 0 /\ rlist' = <<>>
    /\ UNCHANGED <<disk, appVars, histVars, dbErrors, cbErrors>>

Transport == \/ \E m \in Msgs : RecvInsert(m) \/ RecvInsertFails(m)
             \/ RecvSequence \/ RecvQueue

QueueThread ==
    \/ RawDuplicate \/ DecryptSetup \/ DecryptStaged \/ DecryptChain \/ DecryptFails
    \/ TxBegin \/ TxStore \/ TxStoreFails \/ TxCommit \/ TxCommitFails
    \/ Deliver \/ DeliverFails \/ Delivered \/ SendReceipt

Retry == \/ RetryStart \/ RetryTemp \/ RetryTempEnd
         \/ RetryReceipt \/ RetryReceiptsEnd \/ RetryRaw \/ RetryQueue

Next == Transport \/ QueueThread \/ Retry \/ Crash

\* Threads that can run do; the retry starts once the accounts are online and
\* the app is active, which a phone in use is again and again.  Nothing is
\* assumed of the server (a hand-over need not start) nor of crashes.
Fairness == /\ WF_vars(RecvSequence) /\ WF_vars(RecvQueue)
            /\ WF_vars(QueueThread) /\ WF_vars(Retry)

Spec == Init /\ [][Next]_vars
FairSpec == Spec /\ Fairness
----------------------------------------------------------------------------
(* Properties.                                                             *)

DbType     == db \in Database /\ disk \in Database /\ inTx \in BOOLEAN
QueueType  == /\ queue \in Seq(Item)
              /\ qpc \in {"idle", "decrypted", "tx", "stored", "deliver", "delivered"}
              /\ cur \in [nr : NoConv .. LastIdx + 1, staged : SUBSET Msgs, seq : Nat]
TransType  == /\ tpc \in {"idle", "inserted", "sequenced"}
              /\ tmsg \in Msgs /\ tseq \in Nat
RetryType  == /\ rpc \in {"idle", "temp", "receipts", "raw", "done"} /\ rcursor \in Nat
              /\ rlist \in Seq(Item)
AppType    == /\ events \subseteq Msgs /\ receipts \subseteq Msgs
              /\ rejected \subseteq Msgs
HistType   == /\ accepted \in Seq(Msgs)
              /\ handed \in [Msgs -> Nat] /\ runs \in [Msgs -> Nat]
FaultType  == crashes \in Nat /\ dbErrors \in Nat /\ cbErrors \in Nat

\* The types of the variables, of the database and its tables above all.
TypeOK == /\ DbType /\ QueueType /\ TransType /\ RetryType
          /\ AppType /\ HistType /\ FaultType

HasRow(t, m) == \E r \in t.rows : r.msg = m
Held(m) == m \in events \/ HasRow(disk.temp, m)
Accepted(m) == \E k \in 1 .. Len(accepted) : accepted[k] = m

\* A message whose hash is stored can never be decrypted again, neither now nor
\* after a restart: its key is gone from the staged keys and the chain is past
\* it.  Hash, staged keys and conversation go into one transaction
\* (ReceiveMessage.cpp:330), the key of a late message goes before it.
KeyGoneWithHash ==
    \A d \in {db, disk} : \A m \in d.hashes : m \notin d.staged /\ m.i < d.nr[m.s]

\* A message that processMessageRaw would drop as a duplicate is in the chat
\* database or still has its plain text on disk ...
HashedIsHeld == \A m \in disk.hashes : Held(m)

\* ... as long as no statement fails: the retry sees rows of an open transaction,
\* and when its COMMIT fails their sequence numbers are given again, so that the
\* row of another message goes with the message it has listed.
DuplicateIsHeld == dbErrors = 0 => HashedIsHeld

\* A peer that got a delivery receipt will never see the message lost: it is in
\* the chat database or its plain text survives a restart
\* (sendDeliveryReceipt, after the commit or from the retry).  Not so when the
\* COMMIT fails, which is not looked at.
ReceiptIsHeld == dbErrors = 0 => \A m \in receipts : Held(m)

\* The user sees a text message once, however often it is handed over, queued
\* by the retry or interrupted by a crash (receiveAxoMsg and the hash check).
ShownOnce == \A m \in Msgs \ Commands : runs[m] <= 1

\* A message the transport was told OK for is processed, or still has a row
\* that the retry finds.
StoredIsHeld == \A m \in Msgs : Accepted(m) =>
    m \in events \/ HasRow(db.raw, m) \/ HasRow(db.temp, m)

\* ... as long as the process lives and no statement fails.
AcceptedIsHeld == crashes + dbErrors = 0 => StoredIsHeld

\* No message a peer properly encrypted is given up as undecryptable.
NoneRejected == rejected = {}

\* ... unless the process ended, or a statement failed, while it was processed.
RejectedOnlyByFault == crashes + dbErrors = 0 => NoneRejected

\* The retry lists messages in the order they arrived, plain texts of an
\* earlier process before raw data.  Stated of messages handed over once and,
\* since a new message may overtake the retry of an old one, of one process in
\* which no statement fails.
AcceptedAt(m) == CHOOSE k \in 1 .. Len(accepted) : accepted[k] = m
Ordered(m) == Accepted(m) /\ handed[m] = 1
RetryKeepsOrder ==
    crashes + dbErrors = 0 => \A j, k \in 1 .. Len(rlist) :
        j < k /\ Ordered(rlist[j].msg) /\ Ordered(rlist[k].msg) =>
            AcceptedAt(rlist[j].msg) <= AcceptedAt(rlist[k].msg)

\* The promise of ZinaInbox about what is on the disk: a message that is kept
\* is shown or refused, and goes only then.  With AcceptedIsHeld, DuplicateIsHeld
\* and RejectedOnlyByFault it says that what the transport was told OK for, and
\* what was committed, reaches the chat database.  A message the app refuses
\* waits for the next process.
Kept == {m \in Msgs : HasRow(disk.raw, m) \/ HasRow(disk.temp, m)}
Inbox == INSTANCE ZinaInbox WITH inbox <- Kept, shown <- events, refused <- rejected,
                                 failed <- dbErrors > 0, stuck <- cbErrors > 0
InboxPromise == Inbox!Spec
InboxSafety  == Inbox!SafeSpec

----------------------------------------------------------------------------
(* Inductive invariants, for the proofs.                                   *)

\* A transaction is open between TxBegin and its end, and only then does the
\* connection see more than the disk holds.
TxState == /\ inTx <=> qpc \in {"tx", "stored"}
           /\ ~inTx => disk = db
           /\ qpc # "idle" => queue # <<>>

\* The chain is past every message whose hash or key is stored.
KeysBehind(d) == /\ \A m \in d.hashes : m \notin d.staged /\ m.i < d.nr[m.s]
                 /\ \A m \in d.staged : m.i < d.nr[m.s]

\* A decryption in memory only adds to what the database knows.
CurAhead ==
    qpc \in {"decrypted", "tx"} =>
       /\ db.nr[Front.msg.s] <= cur.nr /\ Front.msg.i < cur.nr
       /\ Front.msg \notin db.staged /\ Front.msg \notin cur.staged
       /\ \A x \in cur.staged : /\ x.s = Front.msg.s
                                /\ db.nr[x.s] <= x.i /\ x.i < cur.nr

KeyInv == TypeOK /\ TxState /\ KeysBehind(db) /\ KeysBehind(disk) /\ CurAhead

\* No two rows of a table share a sequence number and new ones get a new one.
GoodTable(t) == /\ \A r, q \in t.rows : r.seq = q.seq => r = q
                /\ \A r \in t.rows : r.seq <= t.last

\* A sequence number held outside of the database names the row of this
\* message, or none.
NamesRow(t, seq, m) == /\ seq <= t.last
                       /\ \A r \in t.rows : r.seq = seq => r.msg = m

ItemOK(d, x) == /\ x.cmd = "ReceivedTempMsg" => NamesRow(d.temp, x.seq, x.msg)
                /\ x.cmd # "ReceivedRawData" => x.msg \in d.hashes
ItemsOK(d, list) == \A k \in 1 .. Len(list) : ItemOK(d, list[k])

\* What the open transaction adds to the tables of the queue thread.
TxContent ==
    /\ qpc = "tx" => db.temp = disk.temp /\ db.hashes = disk.hashes
    /\ qpc = "stored" => /\ db.temp = Insert(disk.temp, Front.msg)
                         /\ db.hashes = disk.hashes \cup {Front.msg}

PlainOK ==
    /\ qpc \in {"decrypted", "tx", "stored", "deliver"} =>
         Front.cmd = "ReceivedRawData"
    /\ qpc \in {"stored", "deliver", "delivered"} =>
         NamesRow(db.temp, PlainSeq, Front.msg)
    /\ qpc = "delivered" => Front.msg \in events

\* Until the retry turns to the raw data it has listed plain messages only.
ListInv == rpc \in {"idle", "temp", "receipts"} =>
             \A k \in 1 .. Len(rlist) : rlist[k].cmd = "ReceivedTempMsg"

\* The rows of TempMsg belong to messages whose hash is stored.
TempHashed(d) == \A r \in d.temp.rows : r.msg \in d.hashes

HeldInv ==
    /\ dbErrors = 0
    /\ GoodTable(db.temp) /\ GoodTable(disk.temp)
    /\ TempHashed(db) /\ TempHashed(disk)
    /\ ItemsOK(db, queue) /\ ItemsOK(db, rlist)
    /\ TxContent /\ PlainOK
    /\ receipts \subseteq disk.hashes
    /\ HashedIsHeld
============================================================================
