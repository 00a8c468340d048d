# TLA+ models of Silent Phone for iOS

Silent Phone is a messenger and telephone with end-to-end encryption. These
modules model the core of its messaging library, `src/libs/libzina`: how a
received message gets from the network into the chat database, how the double
ratchet opens it, how messages and session commands go through the run queue,
how changes of a group reach its members and how devices agree on its data; and
the key agreement of calls, `src/libs/zrtp`. Each module is checked with TLC on
small instances; for every one of them main invariants are also proved with TLAPS for all
instances, among them the forward secrecy of the ratchet, that no row of `waitForAck` goes
before its change has arrived, and that the pipeline implements an abstract inbox. `PROJECT.json` lists components, runs,
mutants (changed definitions that a property must refute), hazards and theorems,
and the source lines every definition stands for.

To check: `tlc -config MCReceive.cfg MCZinaReceive.tla` (and so on for the
other `.cfg` files, see [Runs](#runs)); to prove: `tlapm ZinaReceive_proofs.tla`.

## 1. The system

    app (Objective-C++, spi3/)        chat database, views, call manager
        |  ^ receive, state and action callbacks
        v  |
    libzina (src/libs/libzina)        run queue thread, ratchet, groups, SQLite
        |  ^ sendAxoMessage / receiveMessage
        v  |
    SIP engine (src/libs/tiviengine)  envelopes in SIP MESSAGEs, calls, media
    provisioning server (HTTPS)       devices and pre-keys of users

### Inventory

| Component | State | Operations | Hard part |
|---|---|---|---|
| Receive pipeline (`interfaceApp/ReceiveMessage.cpp`, `QueueHandling.cpp`, `storage/sqlite/InternalMessageQueues.cpp`, `spi3/DBManager`) | tables `ReceivedRawData`, `TempMsg`, message hashes; the run queue; chat events | `receiveMessage` (SIP thread), `processMessageRaw`, `processMessagePlain`, `sendDeliveryReceipt` (queue thread), `retryReceivedMessages` (a thread of the app), `receiveAxoMsg` (app) | three threads on one SQLite connection; the process ends anywhere; a message handed over twice; a failing statement or callback |
| Double ratchet (`ratchet/ratchet/ZinaRatchet.cpp`, `ratchet/ZinaPreKeyConnector.cpp`, `ratchet/state/ZinaConversation.cpp`) | conversations (primary and secondary contexts), staged message keys, pre-keys | `setupConversationAlice/Bob`, `encrypt`, `decrypt`, `decryptInternal`, `stageSkippedMessageKeys`, `reset` | late, lost and repeated messages; two setups that collide; re-keying while messages are under way |
| Run queue commands (`SendMessage.cpp`, `AppInterfaceImpl.cpp`) | prepared messages, run queue, two flags with one condition variable | `prepareMessageNormal`, `doSendMessages`, `removePreparedMessages`, `rescanUserDevices`, `reKeyDevice` | calls that block until the queue thread has worked; conversations deleted or reset between preparing and encrypting |
| Group data (`GroupUpdateImpl.cpp`, `GroupInterfaceImpl.cpp`, `vectorclock/`) | name, avatar and burn time of a group with a vector clock and an update id each | `prepareChangeSetSend`, `processUpdateName/Avatar/Burn`, `performGroupHello` | concurrent changes on several devices, arriving in any order |
| Group change sets, acknowledgements, members (same files, `storage/sqlite/GroupWaitForAck.cpp`) | current and pending change sets in memory, wait-for-ack rows, member rows, `updateInProgress` | `createChangeSetDevice`, `groupUpdateSendDone`, `processAcks`, `leaveGroup`, … | one flag for all groups, early returns, re-sending |
| ZRTP engine (`src/libs/zrtp`: `zrtp/ZrtpStateClass.cpp`, `zrtp/ZRtp.cpp`, `clients/tivi`) | protocol state of a key agreement, timers, a record of retained secrets for each peer, SRTP on or off in each direction | Hello, Commit, DHPart, Confirm, `processTimeout`, `SASVerified`, `stopStream` | packets lost and repeated, both sides commit, a timer that races a packet, a call that one side stored |
| Identity key commands, ZRTP connector | verification state of a conversation | `checkRemoteIdKey`, `setIdKeyVerified` | |
| SIP engine (`src/libs/tiviengine`), call manager (`spi3/switchboard`) | registrations, call sessions | SIP messages, user actions | callbacks of one thread, user interface in another |
| Attachments (`attachments/`, `spi3/SilentChat/Attachments`) | segments of a file, transfers | encrypt, upload, download | partial transfers |
| Provisioning, name lookup, contacts, passcode, user interface, data retention, repository for Java | | | see `PROJECT.json`, status `not_modelled`, each with the reason |

Components meet at: the run queue (`commandQueue` under `commandQueueLock`, one
thread takes the commands in turn); the one SQLite connection, opened
`FULLMUTEX`, so that statements of all threads fall into whatever transaction is
open; callbacks (`receiveCallback_`, `stateReportCallback_`,
`groupCmdCallback_`) which the queue thread makes into the app; the condition
variable `synchronizeCv`, on which app threads wait for the queue thread.

### What makes each component correct

* **Receive**: what the SIP stack was told `OK` for is not lost; a text is shown
  once; a receipt is not a lie after a crash; what is dropped as a duplicate is
  held; a message whose hash is stored can never be decrypted again.
* **Ratchet**: an unread message stays readable; nothing read stays readable;
  no message key is used twice; staged keys are exactly those of the gaps; the
  context id names the setup of the root key.
* **Commands**: every call returns, and only after its own command; every message
  is sent or reported; a re-scan leaves no listed device without a session; an
  empty conversation is a passing state.
* **Group change sets**: a device that owes no acknowledgement has the name and
  the members of the sender, whatever got lost; a user who was added is a member
  everywhere; an update ends and lets the next one begin.
* **Key agreement**: the two sides agree on roles, secrets and the verdict on the
  SAS; who sends is understood; a verified SAS is bound to a call in which both
  users confirmed it; a call that only one side stored does not cost the common
  secret; both get to the secure state.
* **Group data**: all devices end with one name; a name does not come back after
  its successor; the stored clock is the one of the stored name; equal clocks
  mean equal data.

The hazards behind these (40 of them, each at its line) are listed in
`PROJECT.json`.

## 2. Modules and how they correspond to the code

### ZinaReceive

A message is a session and a position in its chain. `db` is what the SQLite
connection sees, `disk` what a restart would find; they differ while `inTx`.
`Write` is a statement: it commits by itself unless *any* thread has a
transaction open, which is how the one shared connection behaves.

* Transport thread: `RecvInsert`, `RecvSequence` (the row's number is read by a
  second statement from `sqlite_sequence`), `RecvQueue`.
* Queue thread: `qpc` runs through `processMessageRaw`: `RawDuplicate` or one of
  `DecryptSetup`, `DecryptStaged`, `DecryptChain`, `DecryptFails`; `TxBegin`,
  `TxStore`, `TxCommit` with their failures; then `processMessagePlain`:
  `Deliver`, `DeliverFails`, `Delivered`. The pre-key and a staged key are deleted by
  the decryption, before the transaction begins, as in the code.
* Retry: cursor over `TempMsg`, the receipts, cursor over `ReceivedRawData`, then
  one splice onto the queue.
* `Crash` keeps `disk`, the chat events and what peers were told.
* `MaxFaults` bounds crashes, failing statements, failing callbacks and messages
  handed over again together, so that one run meets every combination of three.

The ratchet is cut down to one receiving chain with staged keys; `ZinaRatchet`
has all of it.

### ZinaInbox

What the pipeline promises, as a state machine over three sets: messages with a
row on the disk (`inbox`), in the chat database (`shown`), given up (`refused`).
`ZinaReceive!Inbox` maps the tables of `disk` to it, and `InboxPromise` is its
specification with fairness: a message that is kept is shown or refused some day,
never both, and its row goes only after that. Two variables take back the promise
where the code does: `failed` after an SQL statement failed (the COMMIT's result is not
looked at), `stuck` when the app's callback failed (the message then waits for the
next process). That what was accepted is delivered follows from it: `AcceptedIsHeld`
says that an accepted message is shown or has a row, `DuplicateIsHeld` that a dropped
one has, the promise that a row leads to shown or refused, and
`RejectedOnlyByFault` that it is not refused.

### ZinaRatchet

Two parties, symbolic keys. A root key is the sequence of DH secrets that went
into it, a chain key is a root and a count, a message key is named by its chain
key, so `decryptAndCheck` is an equality. An action is one command of the run
queue (`SetUp`, `ReKey`, `Send`, `SendNotStored`, `Receive`, `Reject`,
`ReceiveNotStored`), since one thread of a device executes them; what happens inside the receive command is in
`ZinaReceive`. Messages are never taken off the net: they may come late, in any
order, again, or not at all. A collision of setups is resolved as in `decrypt`:
the party with the greater key makes a secondary context.

### ZinaCommands

App threads prepare and hand over messages or call `rescanUserDevices` and
`reKeyDevice`; `pc` walks through lock, enqueue and wait. `ActionCallback` is
`sendActionCallback`: it sets the flag of its kind and wakes one waiter, of any
kind. `WakeSpuriously` is there because a condition variable allows it. The
queue thread executes a command in one step, apart from the re-keying, which stores
an empty conversation before it asks the server. The server's answers are choices:
it has the device or not, or it cannot be reached (`MaxFailures`).

### ZinaGroupUpdate

One device that changes a group, and the devices of the members as its peers.
Threads of the app edit the `current` change set and walk through
`prepareChangeSetSend` (`Prepare`, `PrepareNothing`, `PrepareFails`), the list of members (`ListMembers`, `ListOne`),
`createChangeSetDevice` for each of them (`SendToMember`, which files the rows of
`waitForAck` and copies what an older set still owes, `Collapsed`) and
`groupUpdateSendDone` (`SendDone`). The queue thread takes acknowledgements and
requests (`TakeAcks`, `TakeRequest`), leaves for a sibling (`SiblingLeaves`) and says
HELLO (`Hello`). Peers take messages in order or out of it, apply the set and
acknowledge it. Error returns that leave `updateInProgress` set, the self-deadlock
of `createChangeSetDevice` (`SendBlocks`) and the statement of
`hasWaitAckGroupDevice` that never finds its row are modelled as they are.

### ZinaGroupData

The name of a group on every device, with the vector clock and the update id in
another table. `ChangeRead`, `ChangeStore`, `ChangeName` are the statements of
`prepareChangeSetSend` on a thread of the app; `Receive`, `ReceiveName`,
`ReceiveStore` those of `processUpdateName` on the queue thread; `Tell` is
`addMissingMetaData` for a new device or member, which repeats name and clock under a
new update id. `Wins` is `resolveConflict`. Avatar and burn time are treated
alike by code of their own, independent of the name.

### ZrtpEngine

The state engines of the two parties of a call. A packet is its type and what its
reader looks at; the state machine is the one of `ZrtpStateClass`, one action for each
branch in which a state takes a packet or the Timer event (a `Repeat` stands for the
four branches that send the last packet again, `Ignore` for the packets without a
branch). The secret of a call is named by the number of the call, the result of a key
agreement by initiator and retained secret, so that equality of keys means
agreement. `rec` is the cache of retained secrets, `mem` the engine's working copy,
which `prepareCommit` reads, Confirm changes and `saveRecord` stores, unless no secret
matched. A timer request is with the provider (`t`), taken off but not delivered
(`late`), or delivered after its timer was cancelled (`stray`). `FirstMedia` is
`conf2AckSecure`, `Stop` is `stopStream` with `setRs2Valid`. There are two calls in a row,
of parties that know each other from an earlier call or do not.

The modules are not composed into one: they meet at the granularity of
run queue commands, and `ZinaRatchet` relies on `ZinaReceive` for what a receive
command stores (`ReceiveNotStored` is the abstraction of its failures).

## Runs

`MC*.tla` give the constants their values. "Distinct" is the number of states.

| Run | Shows | Bounds | Distinct |
|---|---|---|---|
| `receive` | Types; the key of a hashed message stays gone; a text is shown once; what is a duplicate or was acknowledged is held; without faults nothing accepted is lost or given up and the retry lists in order; the pipeline implements `ZinaInbox`, liveness included | 1 session with 3 messages, the third of them only where no statement fails, no process ends and nothing is handed over again (`MCFewFaults`); up to 3 of: the process ends (1), a statement fails (1), a callback fails (1), a message is handed over again | 1.2 million |
| `receive_crash_rejects` (violation) | A crash between the removal of the pre-key and the transaction leaves raw data nobody can decrypt | 1 crash | |
| `receive_shared_transaction` (violation) | A rollback of the queue thread undoes the insertion of the SIP thread | 1 failing statement | |
| `ratchet` | Unread messages stay readable in every order of arrival; no key used or accepted twice, nothing read can be read again, staged keys are owed, the context id names the root | 4 messages each with one setup, 3 each with two setups and a re-keying, 2 each with a context that was not stored; 1 fault (`MCFewMessages`) | 207 thousand |
| `ratchet_collision` (violation) | Two setups collide, the loser's messages come in another order: one is lost | 2 messages each | |
| `commands` | Calls return after their own command, messages are sent or reported, a re-scan connects, calls that do not overlap return (liveness) | 2 devices, one caller of each kind, 2 calls, 1 message, 1 change | 346 thousand |
| `commands_hang` (violation) | Two waiters of different kinds: `notify_one` wakes the wrong one, and the other call never returns | 1 device, 2 calls | |
| `group_updates` | A device without open acknowledgements has name and members of the sender; updates end (liveness) | 2 members, 1 group, 1 name, 2 other changes, 2 messages, 1 fault (lost or overtaken message, failed statement, left group, end of the process) | 1.0 million |
| `group_readd` (violation) | A user removed and added again before the removal is acknowledged is in both lists of the collapsed set, and the other members remove who was just added | 2 members, 2 changes, 2 messages | |
| `group_data` | Clock and name stay together, no name comes back, all devices converge but for ties decided by a repeated change set | 3 devices, 3 changes, 1 repetition | 2.3 million (with symmetry) |
| `group_data_clash` (violation) | Two names with one clock | 3 devices, 6 changes | |
| `zrtp` | The engines agree on roles, keys and verdict; what is sent can be read; a verified SAS goes back to both users; one-sided calls keep the common secret; both get secure (liveness) | 2 parties, 2 calls, 2 resends, 1 fault (lost packet, early timer, end of a process) | 840 thousand |

Why these bounds are enough to see the interesting cases: the faults of the
receive pipeline are about one message that is in two places (raw and plain
row, queue and list of the retry) or about two messages whose keys depend on each
other, so two messages in one session, one of them handed over again, meet all
of them; the order of the retry is about three, one of them already listed. Sessions share no row. One crash suffices because the retry of the next
process starts from `disk` alone; the proofs remove the bound for the
safety properties. In the ratchet, four messages of each side reach two turns with gaps
in the old and in the new chain; two pre-keys on each side reach a collision
and a re-keying after it. In the commands, one caller of each kind is all the code
tells apart, since a second one of a kind stays outside of the lock. In the group
updates, two messages are the fewest for which one change set collapses into the next,
and two members are needed for a change about one to be told to the other. In the group
data, three devices are the fewest for which a conflict can be decided
differently by a third party. In the key agreement, the second call is the first that
finds what the call before stored, on one side or on both; what calls before those
left behind is in `Init`. One lost packet is a loss at every step of the protocol, and
two resends leave one for it (the code has 10 and 20). The safety properties were also checked
once with two faults (5.5 million states).

Deadlock is not checked in any run: every system may come to rest, with all messages
handed over or the bounds used up. That nothing hangs is asked by the liveness
properties instead.

### Fairness

Weak fairness of the threads of the code that can go on: the queue thread, the SIP
thread once it is inside `receiveMessage`, the retry, a caller that is not
waiting; in `ZrtpEngine`, what a party does without its user, receiving, timing out and
starting, for each party. The operating system runs threads that can run, and no step of theirs
waits for a peer. Nothing is assumed of the network, the server, the user, spurious
wake-ups or crashes. That the retry takes place in every process is an
assumption about the app (`DBManager` starts it once the accounts are online); a
phone that is never online again delivers nothing.

In `ZrtpEngine` a timer runs out while packets are under way, or before a timer of the
peer that was started earlier, only as a fault: the intervals of the code (50 and 150 ms,
doubled on each resend) are meant to be longer than the way there and back.

### What the passing runs exclude

* Properties with the guard `dbErrors = 0` say nothing once an SQL statement has
  failed, those with `crashes + dbErrors = 0` also not after a crash. The two
  violation runs of the receive pipeline show why. `DuplicateIsHeld` needs the guard
  because the retry reads the rows of a transaction another thread has open: when
  the COMMIT of that transaction fails, their sequence numbers are given out again, and
  the entry in the list of the retry deletes the row of another message.
* `KeyUsedOnce` leaves out messages whose context was not stored (`unsaved`): nothing
  prevents the next message from using their key, as `storeConversation` is not checked
  (`SendMessage.cpp:546`). The other properties hold with them.
* `AckedIsApplied` and `MembersAgree` leave out groups in which the sending of a set was
  cut short, by a failure, the end of the process or the `groupUpdateSendDone` of another
  thread, or was done while the update of another group was in progress, whose update id it then
  has (`torn`): clock, name and members are stored before anything is sent, and nothing repairs it.
* `MembersAgree` also asks for messages in order and leaves aside users who left (`quit`), users
  that `createChangeSetDevice` copied from an older set against the table of members
  (`stale`, see `group_readd`), and devices that sets went to while they were out of the group
  (`outside`; `sendGroupCommandToMember` asks for no membership). A user who is removed never gets the
  message that says so, as the members are listed after the removal.
  That removed users must be left aside, too, came out when the inductive invariant was
  sought, by a behaviour longer than those of the run. A set that adds `u` is not acknowledged, so it is
  copied into the next one, which removes `u`. The copied list has no update id there, so the
  member's acknowledgement deletes the row of the removal but not that of the addition. The set after that
  adds `u` again, and the member has a user who was removed while it owes nothing. The
  comment in `GroupUpdateImpl.cpp:861` says that the copy checks the remove data; the
  function it calls (line 233) does not.
* `UpdateEnds` holds unless a thread has blocked itself (`GroupUpdateImpl.cpp:825`), a
  statement failed (lines 719 to 742) or the group was left (line 956): `updateInProgress`
  then stays set, and changes of every group answer `GROUP_UPDATE_RUNNING`. The run has
  one thread; a second one that cancels the change set has the same effect.
* `GetsSecure` holds unless a party hangs up or its process ends, a timer was cancelled
  when it was about to call the engine (`stray`), or as many packets are lost as there are
  resends. A stray Timer event ends the negotiation in the four states that "have no
  timer"; without resends left, both sides may rest in states that wait.
* `KeepsSecret` does not hold if a process ends in a call, since `stopStream` then does not
  make the old secret valid again.
* The secret of `VerifiedIsContinuous` may be one that nobody chose. `stopStream` marks the
  second secret of a record as valid even if none was stored there (`CtZrtpStream.cpp:122`), so
  that two calls stopped early leave both sides the zeros of a fresh entry. Two parties who each
  verified a SAS in calls that only they stored may then match on these zeros, and a
  verified SAS is reported. It takes five calls; `zrtp` has two, and there a secret in common is
  always one of a call. The theorem `Continuous` therefore says that there is a secret in
  common, and not which.
* `SilentOnlyIfRemoved` has one exception, a message to a device whose conversation a
  command deletes before the message is encrypted: `sendMessageExisting` returns the
  error code of the missing conversation, which is `SUCCESS`.
* `UnreadIsReadable` asks for order after a second setup and leaves re-keyed contexts
  of both parties aside; `ratchet_collision` shows why.
* `EmptyIsTemporary` leaves out devices the server refused: a re-keying that could
  not reach the server leaves an empty conversation that no re-scan repairs.
* `group_data` lets operations not overlap on a device (`MaxOpen = 1`). With
  overlap, the app thread may write its clock between the queue thread's reading of the
  clock and its writing of the name, and `NameMatchesClock` fails: the two tables
  are written by two threads without a common lock or transaction. This is listed as a hazard.
* `Converged` allows different names in two cases. A repeated change set has another
  update id, and the update id decides ties, so the devices it reached may
  decide otherwise than the rest. And two changes may have one clock
  (`group_data_clash`): a device that loses a conflict stores the winner's clock as it
  is, forgetting its own count, so that `{d}` overtaken by `{e}` and
  counted on gives `{d, e}`, which a device that went the other way reaches too.
* `RetryKeepsOrder` holds for a process that is not restarted and in which no statement
  fails. After a restart new messages are processed before the retry lists the old raw data;
  a number that is given out again stands for a message that came later.

## 3. Proofs

`ZinaReceive_proofs` proves, for any number of sessions, messages, hand-overs,
crashes, SQL and callback errors:

* `TypeCorrect`: `Spec => []TypeOK`, by a case for each action (`TypeStep`).
* `KeysAreSpent`: `Spec => []KeyGoneWithHash`.
  `KeyGoneWithHash` is not inductive: a commit makes the result of a decryption in
  memory durable, so `KeyInv` adds that a transaction is open exactly between
  `TxBegin` and its end, that database and disk agree outside of it (`TxState`), that
  chains are past staged keys (`KeysBehind`), and that the decryption in memory only
  goes ahead of the database (`CurAhead`).
* `DuplicatesAreHeld`, `ReceiptsAreHeld`: until a statement fails, a hashed message, and
  one that was acknowledged, is in the chat database or its plain text is on disk. They
  need that rows are named by sequence numbers that are never given out twice
  (`GoodTable`, `NamesRow`), so that a queue item or an item in the list of the
  retry that outlived its row deletes nothing else (`ItemsOK`), and what the open
  transaction contains (`TxContent`). The invariant has `dbErrors = 0` as a conjunct; since
  errors are never forgotten (`ErrorsStay`), it holds up to the first one (`HeldAlways`).

`ZinaInbox_proofs` proves, from the invariants of that module:

* `InboxImplemented`: `Spec => Inbox!SafeSpec`, the refinement. Every step of the
  pipeline keeps, shows, refuses or clears messages of the abstract inbox or leaves it alone,
  or a statement has failed. Needed beside `HeldInv`: which rows belong to messages
  already shown or refused (`RowsInv`), what may still become of a message in the queue
  (`FateInv`), and that an item that is new has not been seen (`FreshInv`); `InboxInv`
  has them all.
* `OnlyFaultsReject`, `AcceptedAreHeld`: as long as no statement fails and no process ends,
  nothing is given up as undecryptable, and what was accepted is shown or has a row.
* `ShownAreShownOnce`: `Spec => []ShownOnce`, for all faults.
* `RetryIsOrdered`: `Spec => []RetryKeepsOrder`. `OrderInv` puts the messages in a line, in the
  order their raw data was stored, with a place for those that came once (`LineInv`). The
  numbers held outside of the table name the one row of such a message (`OwnInv`); the items of
  the queue, which the transport and the retry both write, stand in line (`TurnInv`), so that
  the hashed messages are always the first of it (`HashInv`), and with them the rows of
  `TempMsg`, which get their numbers when the queue thread is done (`RetryInv`). That none
  is refused on the way is `FreshInv`, of the theorem before.

`ZinaRatchet_proofs` proves, for any number of setups, re-keyings, messages and faults:

* `TypeCorrect`: `Spec => []TypeOK`.
* `KeysUsedOnce`: `Spec => []KeyUsedOnce`. A key comes again if a chain key does not
  advance, if two parties send in one chain, or if a chain starts again.
  `ChainOK` has the first two: what was sent in the chain of a party is behind its chain
  key, unless the context was not stored, and the peer does not send in that chain. A turn
  of the ratchet starts a chain nobody had, since its key pair is new
  (`FreshRoot`, with `Born` the key pairs there are and the roots in contexts and messages
  made of them). The setup of the peer with the pre-key has nothing new of its own; that its
  chain starts once needs that `removePreKey` comes with it (`Spent`, `SetupIsNew`).

* `Forgotten`: `Spec => []ReadIsForgotten`, forward secrecy. A key comes again if it is
  staged, if the receiving chain or a root it derives from is taken back, or if its setup
  can be done again. `ForgetInv` says that the contexts of a party are of different setups
  whose pre-keys are gone, with a receiving chain that is not ahead of the root
  (`SetupsOK`), and that every context has passed every key that was read or is staged
  (`Behind`, `ReadOK`, `StagedOK`). A decryption takes a context past the key of the message and
  past what it stages (`StepsOnWell`, `TurnsToWell`, `AnswersWell`, collected in `WellRead`),
  and what a context has passed it never comes back to.
* That a secondary context is not given a message of the primary one, and so no junk is stored
  with it, needs the peer as well: a message that is no setup message is of a setup this
  party has used for a message of its own (`SaidOK`, `SpeaksOK`), and it never writes with a
  secondary context (`OneReader`).
* `NeverTwice`: `Spec => []ReadOnce`. A message that was read finds its staged key gone and
  all contexts past it, and its pre-key cannot be used again (`NotRead`).
* `NamesRoot`: `Spec => []ContextNamesRoot`. In general a context id and the setup of a root
  key are those of some setup (`NamesInv`); that it is the same one is stated, and true, only
  after one setup (see `ratchet_collision`).
* `StagedOwed`: `Spec => []StagedIsOwed`. A key is staged because a later message came first, so
  what is to be shown is that the gap was sent. `OweInv` has it in three parts. The two chains
  of a context are those of its root key and of the root key before, and their counters are
  positions: the sending counter has behind it messages that were sent, one for one
  (`Linked`). Nobody else sends in the chain a party sends in (`Alone`). And the two counts a
  message carries, of the chain it is in and of the chain before, were sent (`Sequel`); so the reader stages
  no more than there is. That none of them was read is part of `Forgotten` (`ReadOK`).

`ZinaRatchetRead_proofs` proves, for any number of setups, re-keyings and messages:

* `UnreadReadable`: `Spec => []UnreadIsReadable`. Its invariant `ReadInv` is about runs
  without faults, and has the bound the others lack: what a reader has still to read is
  staged, ahead in the chain it receives, or in the next chain it will come to (`Expects`). That this stays
  so while either side writes, and turns its ratchet, needs that the two contexts of a session are
  never more than a turn apart (`Joined`: one follows the other, or has turned and the other does
  not know), and that no message is ahead of the context that wrote it (`WritesOK`,
  `NoneAhead`). Reading stages what it passes (`Takes`, `ExpectsOn`).
* Which session a message is in is a matter of the setups. They have no key in common
  (`ApartOK`). If one party made them all (`OneSide`), the peer has read nothing of the
  newest one, and then its messages open it with the pre-key that is left (`Calling`,
  `Opening`), or is in it (`Connected`). Since messages of an older setup that come late take the
  peer back to that one, this is claimed as long as all came in order or there is one setup.
* If both made one (`Collided`), either both still wait for an answer, the winner with a
  secondary context that follows the call of the loser (`BothCall`), or the loser has come over to
  the session of the winner (`CameOver`); the messages of its own call stay with the secondary
  context as long as the winner knows that it called, or are all read (`Aside`). The last clause
  of `CameOver` is where order is used, and what `ratchet_collision` shows to be false without it.
* `ReadInv` rests on the invariants of the theorems above: `ForgetInv` (a reader is not past
  what is unread), `NamesInv` and `OweInv` (positions of contexts and messages are counts).

`ZinaGroupUpdate_proofs` proves, for any number of groups, members, threads, changes and
faults:

* `TypeCorrect`: `Spec => []TypeOK`.
* `AcknowledgedIsApplied`: `Spec => []AckedIsApplied`. `AckInv` says that a member who does
  not have the present name is still to be sent it (`Sending`) or has a row of `waitForAck` with an
  update id that stands for this name and no other (`RowKept`, `Fresh`); that ids in use are never given
  again (`IdsUsed`), so that an acknowledgement of an older set deletes no row of a newer one;
  and that names under way, and those the peers show, are this device's or older
  (`NamesKnown`), so that a late set does not bring an old one back. The
  assumption `NoneAssumption` says only that the value for "no set" is not a set.
* `MembersFollow`: `Spec => []MembersAgree`. `AgreeInv` says of each member `p` and user `u`
  of a group (`Follows`) that one of three holds. `p` has `u` right, and so have all sets on their way
  to `p`, so that it does not matter which of them are lost (`Applied`); or the update in
  progress will tell it, and has not gone to `p` yet (`ToTell`); or a row of `waitForAck`
  holds the change (`RowHeld`). Such a row stands for `u` (`StandsFor`): the set with its id says
  `u` right, and so does every later one, and who acknowledged it has applied it. And the sets of this
  device with the id keep `u` (`Keeps`), so that whoever deletes the row to replace it takes `u`
  along. The row is deleted by an acknowledgement, which leads to `Applied`, or by a copy into the
  set that goes out, which has a row of its own. Beside that: the set in progress is right and its
  id is in no older one (`UpdateRight`), no id is used that was not given out (`IdsOld`), who
  never was in the group knows nothing of it (`Untouched`).

`ZinaGroupData_proofs` proves, for any group and any number of changes:

* `TypeCorrect`, however the threads of a device overlap.
* `ClocksMatchNames`: `Spec => []NameMatchesClock` under the assumption
  `MaxOpen <= 1`, that is, if operations do not overlap; the assumption is needed,
  since TLC refutes the property for two. The inductive invariant `DataInv` adds that
  what threads hold and what is on the way has the clock of its change
  (`MadeInv`), that one thread of a device works at a time (`Alone`), and how clock
  and name differ between the two statements that write them (`TableInv`).
* `NewestStays`: `Spec => []NewestIsShown`, and `Converge`: `Spec => []Converged`, under the same
  assumption. Both are about the sum of a clock: a change has a greater one than those its
  author knew of (`RankInv`), and what a device has seen has none greater than the clock the
  device has (`SeenInv`), whether a change set came after, concurrently or not at
  all (`Decided`). A name that comes back would have a smaller one. As every change is seen by or on
  its way to every device (`ComingInv`), devices at rest have clocks of one sum, and of
  these the greatest update id (`TieInv`, as long as ids are those of the changes,
  `IdsInv`), which only one change has. The model writes the sum as the number of
  pairs a clock has counted (`Counted`), so that `SumGrows` follows from the theorem
  about the cardinality of subsets: a sum by recursion would need an induction over the devices.

`ZinaCommands_proofs` proves, for any number of devices, threads, messages and calls, with
the server failing as often as it likes:

* `TypeCorrect`: `Spec => []TypeOK`.
* `CallsReturnAfterRun`: `Spec => []ReturnMeansRun`. The flag of a kind is shared by all its
  calls. The argument is that a lock has one holder (`LocksOK`), that a command that
  carries a call is the only one in the queue, its caller waits and its flag is not set
  (`CallsOK`), so that only this command can set the flag for this caller (`FlagsOK`). That a
  ping may take over the call from its re-scan, and wake-ups without notification, are part of it.
* `MessagesAreAnswered`: `Spec => []SilentOnlyIfRemoved`. Needed beside it: a message for a
  known device has a conversation, unless it was deleted (`ForKnownOK`).
* `EmptyGetsSession`: `Spec => []EmptyIsTemporary`. It needs that the command of a re-keying
  stays the first while it runs (`CommandsOK`).
* `RescansConnect`: `Spec => RescanConnects`, about the step that ends a re-scan. In front of
  the ping that carries the call there is one for each device of the list without a conversation
  (`ScansOK`), and no other re-scan is under way, since its caller would hold the same
  lock (`OneScan`).

A list in the order of a set (`Orders`) is a sequence with all its elements only if the set is
finite, hence `IsFiniteSet(Devices)` in the assumption.

`ZrtpEngine_proofs` proves, for any number of calls, resends and faults:

* `TypeCorrect`: `Spec => []TypeOK`. To be inductive it needs that an engine never has more
  than two requests with the timeout provider (`Requests`).
* `Agreement`: `Spec => []SecureAgrees`, and `Readable`: `Spec => []MediaReadable`. Both
  follow from `AgreeInv`: what an engine is by itself in each state, with secrets in the
  order of the calls (`Alone`), how far its peer has come when it is initiator and
  when it is responder (`Ahead`), that two keys are one key (`Agree`), and what the
  packets under way say of their sender (`Sent`). That both sides find the same retained secret
  (`MatchingIsMutual`) needs the order of the secrets: each looks for its newer one first,
  and if the two records crossed, each would find another one.
* `Continuous`: `Spec => []VerifiedIsContinuous`. A record, a working copy or a Confirm says
  "verified" only if its user has confirmed a SAS, and a verified record has a secret (`Holds`); the
  flag outlives the making of the key only with a secret in common, and Confirm leaves it only if
  both sides have it (`Bound`).
* `SecretIsKept`: `Spec => []KeepsSecret`. `KeepInv(s)` follows the secret `s` that both had when the
  call began: it is in every DH part under way, so both find one and may store (`Carries`); what a
  party has not stored it still has, and what it has stored keeps `s` in the second place, valid
  again when the call ends unless ten packets were read, which only a peer that has stored sends
  (`Keeps`). That of two parties of which one stored, neither loses `s`, needs that the call
  before was stored by both or none, hence the counter `half`.

Only model-checked: the liveness properties, as fairness and ENABLED are beyond the prover. Every
safety property of a run that passes is stated by a theorem.

## 4. Not modelled

Cryptography is symbolic; formats, logging and error texts are left out. Data
retention is compiled out of the app. Provisioning, transport and the app's user
interface appear as choices of the environment. Of ZRTP the multi-stream mode, the
negotiation of versions and algorithms, Error, Ping, SASrelay and GoClear packets,
enrolment and SDES are left out; that the timeout provider drops a request with the same
deadline as the last of its list (`TiviTimeoutProvider.h:210`) is a hazard without a
property, as times are left out. Of the group changes: burning of messages, several
authors of member changes; the run has one thread of the app, and what overlapping threads do to
names is in the proof only. The SIP engine, calls, attachments and passcode
are not modelled; most of the repository by size is vendored (SQLite, protobuf, codecs,
several copies of each library) and is not the program's own logic. `PROJECT.json` has the
reason for each part.

## 5. Plan

Done, in this order: `ZinaReceive`, its proofs, `ZinaRatchet`, `ZinaCommands`,
`ZinaGroupData`, its proofs, `ZinaGroupUpdate`, sending with a context that was not stored,
`ZinaInbox` with the refinement and its proof, `ZrtpEngine`, its proofs, the proofs of
`ZinaCommands` and of `ZinaRatchet`, those of `ZinaGroupUpdate`, the forward secrecy of the
ratchet, the retained secrets of calls, the order of the retry, the convergence of
group data, that staged keys are owed, the members of groups, and that unread messages
can be read. To come, the most important first:

1. An abstract channel of keys that `ZinaRatchet` implements.
2. The verification state in `checkRemoteIdKey`, calls and passcode, attachments.
