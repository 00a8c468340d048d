---------------------------- MODULE ZinaCommands ----------------------------
(***************************************************************************)
(* The run queue of libzina seen from the app: sending a message to the    *)
(* devices of a user, the re-scan of the user's devices and the re-keying  *)
(* of a device.                                                            *)
(*                                                                         *)
(* Threads of the app prepare messages and hand them to the run queue, or  *)
(* call rescanUserDevices and reKeyDevice, which queue a command and block *)
(* until it is done.  One thread executes the commands in turn and alone   *)
(* writes the conversations, so a command is a step here, but for the      *)
(* re-keying, which leaves an empty conversation while it asks the server. *)
(* Both kinds of calls wait on one condition variable.                     *)
(*                                                                         *)
(* There is one peer with several devices, and the provisioning server     *)
(* that knows them.  A conversation is missing, empty (reset by a          *)
(* re-keying) or a session; its keys are the matter of ZinaRatchet.  Left  *)
(* out: sibling devices, group messages, data retention, database errors   *)
(* and the end of the process, which empties queue and prepared messages.  *)
(***************************************************************************)
EXTENDS Integers, Sequences, FiniteSets

CONSTANTS
    Devices,      \* the devices of the peer
    Scanners,     \* threads of the app that call rescanUserDevices
    Keyers,       \* threads of the app that call reKeyDevice
    None,         \* no call, no message of the app, no device
    MaxSends,     \* bound: messages of the app
    MaxCalls,     \* bound: re-scans and re-keyings
    MaxChanges,   \* bound: devices added and removed, messages received
    MaxFailures   \* bound: requests to the server that fail

Callers == Scanners \cup Keyers
Kinds   == {"scan", "key"}

ASSUME ConstantsAssumption ==
    /\ IsFiniteSet(Devices) /\ None \notin Devices /\ None \notin Nat \X Devices
    /\ None \notin Kinds \X Nat \X (Devices \cup {None})
    /\ MaxSends \in Nat /\ MaxCalls \in Nat
    /\ MaxChanges \in Nat /\ MaxFailures \in Nat

VARIABLES
    server,    \* devices the provisioning server has for the peer
    conv,      \* device -> conversation in the database
    prepared,  \* prepared messages
    queue,     \* the run queue
    qpc,       \* "idle", or "reset" in the middle of a re-keying
    pc,        \* caller -> where it is
    call,      \* caller -> its call <<kind, number, device>>
    done,      \* kind -> reScanDone, reKeyDone
    \* history: messages handed to the queue, on the wire, reported as failed
    handed, sent, reported,
    \* history: devices whose conversation was deleted, whose last setup failed,
    \* which the running re-scan has seen and neither of this happened to
    removed, refused, listed,
    \* history: calls whose command has come to its end, calls that returned
    finished, returned,
    sends, calls, changes, failures

callVars == <<pc, call, done, finished, returned>>
msgVars  == <<handed, sent, reported>>
devVars  == <<removed, refused, listed>>
vars == <<server, conv, prepared, queue, qpc, callVars, msgVars, devVars,
          sends, calls, changes, failures>>

----------------------------------------------------------------------------
Known == {d \in Devices : conv[d] # "none"}

\* The orders in which a list can hold the elements of S.
Orders(S) == {s \in [1 .. Cardinality(S) -> S] : \A i, j \in DOMAIN s : s[i] = s[j] => i = j}

Message(id, d, new) ==
    [cmd |-> "SendMessage", id |-> id, dev |-> d, new |-> new, call |-> None]
Ping(d, c) ==
    [cmd |-> "SendMessage", id |-> None, dev |-> d, new |-> TRUE, call |-> c]

Init ==
    /\ server \in SUBSET Devices
    /\ \E S \in SUBSET server : conv = [d \in Devices |-> IF d \in S THEN "session" ELSE "none"]
    /\ prepared = {} /\ queue = <<>> /\ qpc = "idle"
    /\ pc = [c \in Callers |-> "idle"]
    /\ call = [c \in Callers |-> None]
    /\ done = [k \in Kinds |-> FALSE]
    /\ handed = {} /\ sent = {} /\ reported = {}
    /\ removed = {} /\ refused = {} /\ listed = {}
    /\ finished = {} /\ returned = {}
    /\ sends = 0 /\ calls = 0 /\ changes = 0 /\ failures = 0

----------------------------------------------------------------------------
(* The sending threads of the app.                                         *)

\* prepareMessageNormal: to the known devices, or to those of a new user.
Prepare ==
    LET to == IF Known # {} THEN Known ELSE server
    IN  /\ sends < MaxSends /\ to # {}
        /\ prepared' = prepared \cup {Message(<<sends + 1, d>>, d, Known = {}) : d \in to}
        /\ sends' = sends + 1
        /\ UNCHANGED <<server, conv, queue, qpc, callVars, msgVars, devVars, calls,
                       changes, failures>>

PreparedBy(n) == {m \in prepared : m.id[1] = n}

\* doSendMessages with what one prepareMessageNormal returned.
DoSend(n) ==
    /\ PreparedBy(n) # {}
    /\ \E s \in Orders(PreparedBy(n)) : queue' = queue \o s
    /\ prepared' = prepared \ PreparedBy(n)
    /\ handed' = handed \cup PreparedBy(n)
    /\ UNCHANGED <<server, conv, qpc, callVars, sent, reported, devVars, sends, calls,
                   changes, failures>>

\* removePreparedMessages
RemovePrepared(n) ==
    /\ PreparedBy(n) # {}
    /\ prepared' = prepared \ PreparedBy(n)
    /\ UNCHANGED <<server, conv, queue, qpc, callVars, msgVars, devVars, sends, calls,
                   changes, failures>>

----------------------------------------------------------------------------
(* rescanUserDevices and reKeyDevice.                                      *)

Holds(c, k) == pc[c] \in {"locked", "waiting", "awake"} /\ call[c][1] = k

Call(c, k, d) ==
    /\ pc[c] = "idle" /\ calls < MaxCalls
    /\ calls' = calls + 1
    /\ call' = [call EXCEPT ![c] = <<k, calls + 1, d>>]
    /\ pc' = [pc EXCEPT ![c] = "entering"]
    /\ UNCHANGED <<server, conv, prepared, queue, qpc, done, finished, returned,
                   msgVars, devVars, sends, changes, failures>>

\* reScanLock, reKeyLock; the flag is cleared outside of synchronizeLock.
\* Mutant: without the lock.
LockShared(c) ==
    /\ pc[c] = "entering"
    /\ pc' = [pc EXCEPT ![c] = "locked"]
    /\ done' = [done EXCEPT ![call[c][1]] = FALSE]
    /\ UNCHANGED <<server, conv, prepared, queue, qpc, call, finished, returned,
                   msgVars, devVars, sends, calls, changes, failures>>
Lock(c) ==
    /\ pc[c] = "entering"
    /\ \A x \in Callers : ~Holds(x, call[c][1])
    /\ pc' = [pc EXCEPT ![c] = "locked"]
    /\ done' = [done EXCEPT ![call[c][1]] = FALSE]
    /\ UNCHANGED <<server, conv, prepared, queue, qpc, call, finished, returned,
                   msgVars, devVars, sends, calls, changes, failures>>

CommandOf(cl) ==
    [cmd |-> IF cl[1] = "scan" THEN "ReScanUserDevices" ELSE "ReKeyDevice",
     id |-> None, dev |-> cl[3], new |-> FALSE, call |-> cl]

\* Under synchronizeLock: the command is queued, then the flag is looked at.
Enqueue(c) ==
    /\ pc[c] = "locked"
    /\ queue' = Append(queue, CommandOf(call[c]))
    /\ IF done[call[c][1]]
       THEN pc' = [pc EXCEPT ![c] = "idle"] /\ returned' = returned \cup {call[c]}
       ELSE pc' = [pc EXCEPT ![c] = "waiting"] /\ UNCHANGED returned
    /\ UNCHANGED <<server, conv, prepared, qpc, call, done, finished, msgVars, devVars,
                   sends, calls, changes, failures>>

\* The wait is over: return or wait again.
Wake(c) ==
    /\ pc[c] = "awake"
    /\ IF done[call[c][1]]
       THEN pc' = [pc EXCEPT ![c] = "idle"] /\ returned' = returned \cup {call[c]}
       ELSE pc' = [pc EXCEPT ![c] = "waiting"] /\ UNCHANGED returned
    /\ UNCHANGED <<server, conv, prepared, queue, qpc, call, done, finished, msgVars,
                   devVars, sends, calls, changes, failures>>

\* A wait may end without a notification.
WakeSpuriously(c) ==
    /\ pc[c] = "waiting"
    /\ pc' = [pc EXCEPT ![c] = "awake"]
    /\ UNCHANGED <<server, conv, prepared, queue, qpc, call, done, finished, returned,
                   msgVars, devVars, sends, calls, changes, failures>>

\* sendActionCallback at the end of the command of call cl: notify_one.
ActionCallback(cl) ==
    IF cl = None THEN UNCHANGED callVars
    ELSE /\ done' = [done EXCEPT ![cl[1]] = TRUE]
         /\ finished' = finished \cup {cl}
         /\ IF \E c \in Callers : pc[c] = "waiting"
            THEN \E c \in Callers : pc[c] = "waiting" /\ pc' = [pc EXCEPT ![c] = "awake"]
            ELSE UNCHANGED pc
         /\ UNCHANGED <<call, returned>>

----------------------------------------------------------------------------
(* The thread of the run queue.                                            *)

First == Head(queue)
Turn(cmd) == qpc = "idle" /\ queue # <<>> /\ First.cmd = cmd

AppOnly(id) == {id} \ {None}

\* encrypt and send: SESSION_NOT_INITED without a root key.  Mutant: the error is
\* not reported.
EncryptUnreported(d, id) ==
    /\ sent' = IF conv[d] = "session" THEN sent \cup AppOnly(id) ELSE sent
    /\ UNCHANGED reported
Encrypt(d, id) ==
    /\ sent' = IF conv[d] = "session" THEN sent \cup AppOnly(id) ELSE sent
    /\ reported' = IF conv[d] = "empty" THEN reported \cup AppOnly(id) ELSE reported

\* sendMessageExisting.  A conversation that is not there is no error: its error
\* code is SUCCESS.
SendExisting ==
    /\ Turn("SendMessage") /\ (~First.new \/ conv[First.dev] = "session")
    /\ Encrypt(First.dev, First.id)
    /\ ActionCallback(First.call)
    /\ queue' = Tail(queue)
    /\ UNCHANGED <<server, conv, prepared, qpc, handed, devVars, sends, calls, changes,
                   failures>>

SendNew == Turn("SendMessage") /\ First.new /\ conv[First.dev] # "session"

\* sendMessageNewUser with a pre-key bundle: setupConversationAlice.
SendNewUser ==
    /\ SendNew /\ First.dev \in server
    /\ conv' = [conv EXCEPT ![First.dev] = "session"]
    /\ refused' = refused \ {First.dev}
    /\ sent' = sent \cup AppOnly(First.id)
    /\ ActionCallback(First.call)
    /\ queue' = Tail(queue)
    /\ UNCHANGED <<server, prepared, qpc, handed, reported, removed, listed, sends,
                   calls, changes, failures>>

Fail(inTime) == /\ inTime => failures < MaxFailures
                /\ failures' = IF inTime THEN failures + 1 ELSE failures

\* sendMessageNewUser without: the server refuses or cannot be reached.
SendNoBundle ==
    /\ SendNew /\ Fail(First.dev \in server)
    /\ refused' = refused \cup {First.dev}
    /\ listed' = listed \ {First.dev}
    /\ reported' = reported \cup AppOnly(First.id)
    /\ ActionCallback(First.call)
    /\ queue' = Tail(queue)
    /\ UNCHANGED <<server, conv, prepared, qpc, handed, sent, removed, sends, calls, changes>>

\* Mutant: the rows are gone instead of the conversations in them.
DeleteRow(S) ==
    /\ conv' = [d \in Devices \ S |-> conv[d]]
    /\ removed' = removed \cup (S \cap Known)
Delete(S) ==
    /\ conv' = [d \in Devices |-> IF d \in S THEN "none" ELSE conv[d]]
    /\ removed' = removed \cup (S \cap Known)

\* Devices of the list without a conversation.
NewOnes    == {d \in server : conv[d] = "none"}
Pings(new) == [i \in 1 .. Len(new) |-> Ping(new[i], None)]

\* rescanUserDevicesCommand.  The second ping to the last device of the list,
\* which need not be a new one, carries the call.  Mutants: the call ends before
\* the pings; it does not end when there is no new device.
RescanAtOnce ==
    /\ Turn("ReScanUserDevices")
    /\ Delete(Known \ server)
    /\ \E new \in Orders(NewOnes), last \in server :
         /\ last \in NewOnes => last = new[Len(new)]
         /\ queue' = Tail(queue) \o Pings(new) /\ ActionCallback(First.call)
    /\ listed' = server
    /\ UNCHANGED <<server, prepared, qpc, msgVars, refused, sends, calls, changes, failures>>
RescanForgets ==
    /\ Turn("ReScanUserDevices")
    /\ Delete(Known \ server)
    /\ \E new \in Orders(NewOnes), last \in server :
         /\ last \in NewOnes => last = new[Len(new)]
         /\ queue' = IF new = <<>> THEN Tail(queue)
                     ELSE Tail(queue) \o Append(Pings(new), Ping(last, First.call))
    /\ listed' = server
    /\ UNCHANGED <<server, prepared, qpc, callVars, msgVars, refused, sends, calls,
                   changes, failures>>
Rescan ==
    /\ Turn("ReScanUserDevices")
    /\ Delete(Known \ server)
    /\ \E new \in Orders(NewOnes), last \in server :
         /\ last \in NewOnes => last = new[Len(new)]
         /\ IF new = <<>>
            THEN queue' = Tail(queue) /\ ActionCallback(First.call)
            ELSE /\ queue' = Tail(queue) \o Append(Pings(new), Ping(last, First.call))
                 /\ UNCHANGED callVars
    /\ listed' = server
    /\ UNCHANGED <<server, prepared, qpc, msgVars, refused, sends, calls, changes, failures>>

\* The list is empty or cannot be had.
RescanFails ==
    /\ Turn("ReScanUserDevices") /\ Fail(server # {})
    /\ queue' = Tail(queue) /\ ActionCallback(First.call)
    /\ listed' = {}
    /\ UNCHANGED <<server, conv, prepared, qpc, msgVars, removed, refused, sends, calls,
                   changes>>

\* reKeyDeviceCommand: the conversation is reset and stored.
ReKeyReset ==
    /\ Turn("ReKeyDevice") /\ First.dev \in Known
    /\ conv' = [conv EXCEPT ![First.dev] = "empty"]
    /\ qpc' = "reset"
    /\ UNCHANGED <<server, prepared, queue, callVars, msgVars, devVars, sends, calls,
                   changes, failures>>

ReKeyUnknown ==
    /\ Turn("ReKeyDevice") /\ First.dev \notin Known
    /\ queue' = Tail(queue) /\ ActionCallback(First.call)
    /\ UNCHANGED <<server, conv, prepared, qpc, msgVars, devVars, sends, calls, changes,
                   failures>>

\* The server still has the device.  Mutant: the ping is forgotten.
ReKeyNoPing ==
    /\ qpc = "reset" /\ First.dev \in server
    /\ queue' = Tail(queue) /\ qpc' = "idle" /\ ActionCallback(First.call)
    /\ UNCHANGED <<server, conv, prepared, msgVars, devVars, sends, calls, changes, failures>>
ReKeyPing ==
    /\ qpc = "reset" /\ First.dev \in server
    /\ queue' = Append(Tail(queue), Ping(First.dev, First.call)) /\ qpc' = "idle"
    /\ UNCHANGED <<server, conv, prepared, callVars, msgVars, devVars, sends, calls,
                   changes, failures>>

\* It has not: the conversation is deleted, without any list those of all devices.
ReKeyDelete ==
    /\ qpc = "reset"
    /\ \/ First.dev \notin server /\ server # {} /\ Delete({First.dev}) /\ UNCHANGED failures
       \/ Fail(server # {}) /\ Delete(Devices)
    /\ listed' = listed \ removed'
    /\ queue' = Tail(queue) /\ qpc' = "idle" /\ ActionCallback(First.call)
    /\ UNCHANGED <<server, prepared, msgVars, refused, sends, calls, changes>>

\* processMessageRaw of a setup message of the peer (setupConversationBob).
RunReceive ==
    /\ Turn("ReceivedRawData")
    /\ conv' = [conv EXCEPT ![First.dev] = "session"]
    /\ refused' = refused \ {First.dev}
    /\ queue' = Tail(queue)
    /\ UNCHANGED <<server, prepared, qpc, callVars, msgVars, removed, listed, sends,
                   calls, changes, failures>>

QueueStep ==
    \/ SendExisting \/ SendNewUser \/ SendNoBundle \/ Rescan \/ RescanFails
    \/ ReKeyReset \/ ReKeyUnknown \/ ReKeyPing \/ ReKeyDelete \/ RunReceive

----------------------------------------------------------------------------
(* The world.                                                              *)

Change == changes < MaxChanges /\ changes' = changes + 1

\* The peer adds or removes a device.
DevicesChange(d) ==
    /\ Change
    /\ server' = IF d \in server THEN server \ {d} ELSE server \cup {d}
    /\ UNCHANGED <<conv, prepared, queue, qpc, callVars, msgVars, devVars, sends, calls, failures>>

\* A setup message of the peer is queued by the transport.
Arrive(d) ==
    /\ Change
    /\ queue' = Append(queue, [cmd |-> "ReceivedRawData", id |-> None, dev |-> d,
                               new |-> FALSE, call |-> None])
    /\ UNCHANGED <<server, conv, prepared, qpc, callVars, msgVars, devVars, sends, calls, failures>>

CallerStep(c) == Lock(c) \/ Enqueue(c) \/ Wake(c)

Next ==
    \/ Prepare
    \/ \E n \in 1 .. sends : DoSend(n) \/ RemovePrepared(n)
    \/ \E c \in Scanners : Call(c, "scan", None)
    \/ \E c \in Keyers, d \in Devices : Call(c, "key", d)
    \/ \E c \in Callers : CallerStep(c) \/ WakeSpuriously(c)
    \/ QueueStep
    \/ \E d \in Devices : DevicesChange(d) \/ Arrive(d)

Spec == Init /\ [][Next]_vars

\* The operating system runs every thread that can run.
Fairness == WF_vars(QueueStep) /\ \A c \in Callers : WF_vars(CallerStep(c))
FairSpec == Spec /\ Fairness
----------------------------------------------------------------------------
(* Properties.                                                             *)

CallIds   == Kinds \X Nat \X (Devices \cup {None})
MessageId == Nat \X Devices
Command ==
    [cmd : {"SendMessage", "ReScanUserDevices", "ReKeyDevice", "ReceivedRawData"},
     id : MessageId \cup {None}, dev : Devices \cup {None}, new : BOOLEAN, call : CallIds \cup {None}]

\* The types of queue, conversations, callers and history.
TypeOK ==
    /\ server \subseteq Devices /\ conv \in [Devices -> {"none", "empty", "session"}]
    /\ prepared \subseteq Command /\ queue \in Seq(Command) /\ qpc \in {"idle", "reset"}
    /\ pc \in [Callers -> {"idle", "entering", "locked", "waiting", "awake"}]
    /\ call \in [Callers -> CallIds \cup {None}] /\ done \in [Kinds -> BOOLEAN]
    /\ handed \subseteq Command /\ sent \subseteq MessageId /\ reported \subseteq MessageId
    /\ removed \subseteq Devices /\ refused \subseteq Devices /\ listed \subseteq Devices
    /\ finished \subseteq CallIds /\ returned \subseteq CallIds
    /\ sends \in Nat /\ calls \in Nat /\ changes \in Nat /\ failures \in Nat

\* A call returns after its own command and the ping that ends it, never because
\* of a flag that another call left or set (reScanDone, reKeyDone and their locks).
ReturnMeansRun == returned \subseteq finished

Queued == {queue[i] : i \in DOMAIN queue}
Answered(m) == m \in Queued \/ m.id \in sent \cup reported

\* Every message handed to the run queue is sent or reported as failed
\* (stateReportCallback_).  The one exception: a command has deleted the
\* conversation of the device before the message is encrypted.
SilentOnlyIfRemoved == \A m \in handed : Answered(m) \/ m.dev \in removed

\* When a re-scan ends, the devices it found on the server have a conversation,
\* those left aside whose setup failed or that were deleted again: all the pings
\* are handled before the one that ends the call (rescanUserDevicesCommand).
RescanConnects ==
    [][\A cl \in finished' \ finished :
         cl[1] = "scan" => \A d \in listed' : conv'[d] # "none"]_vars

\* A re-keying does not leave a device without a session: a ping that makes one
\* is on its way, or the server refused (reKeyDeviceCommand).
EmptyIsTemporary ==
    \A d \in Devices : conv[d] = "empty" =>
        \/ \E m \in Queued : m.dev = d /\ m.new
        \/ qpc = "reset" /\ First.dev = d
        \/ d \in refused

\* Every call returns.
CallsReturn == \A c \in Callers : pc[c] # "idle" ~> pc[c] = "idle"

\* Every call returns if a re-scan and a re-keying never wait at the same time.
Waiting(c) == pc[c] \in {"waiting", "awake"}
AloneReturns ==
    [](\A c, x \in Callers : Waiting(c) /\ Waiting(x) => c = x) => CallsReturn

----------------------------------------------------------------------------
(* Inductive invariants, for the proofs.                                   *)

\* Commands are made for a device; prepared messages are of the app and new to no
\* caller; the command of a re-keying is the first one while it runs.
CommandsOK ==
    /\ \A m \in Queued : /\ m.cmd \in {"SendMessage", "ReceivedRawData"} => m.dev \in Devices
                         /\ m.new => m.cmd = "SendMessage"
    /\ IsFiniteSet(prepared)
    /\ \A m \in prepared \cup handed :
         m.cmd = "SendMessage" /\ m.id # None /\ m.dev \in Devices /\ m.call = None
    /\ qpc = "reset" => queue # <<>> /\ First.cmd = "ReKeyDevice"

\* A lock has one holder; who runs has a call of its kind.
Inside(c) == pc[c] \in {"locked", "waiting", "awake"}
LocksOK ==
    /\ \A c \in Callers : pc[c] # "idle" => call[c] \in CallIds
    /\ \A c, x \in Callers : Inside(c) /\ Inside(x) /\ call[c][1] = call[x][1] => c = x

\* The flag of a kind is set by the command of the one that holds its lock.
FlagsOK ==
    /\ \A c \in Callers : pc[c] = "locked" => ~done[call[c][1]]
    /\ \A c \in Callers : Inside(c) /\ done[call[c][1]] => call[c] \in finished

\* A command that carries a call is the only one, and its caller waits for it.
Unique(q) == \A i, j \in DOMAIN q : q[i].call # None /\ q[j].call = q[i].call => i = j
Awaited(cl) == ~done[cl[1]] /\ \E c \in Callers : Waiting(c) /\ call[c] = cl
CallsOK == Unique(queue) /\ \A m \in Queued : m.call # None => Awaited(m.call)

\* A message for a known device has a conversation, unless it was deleted.
ForKnownOK ==
    \A m \in prepared \cup Queued :
        m.cmd = "SendMessage" /\ ~m.new => conv[m.dev] # "none" \/ m.dev \in removed

CommandsInv ==
    /\ TypeOK /\ CommandsOK /\ LocksOK /\ FlagsOK /\ CallsOK
    /\ ReturnMeansRun /\ ForKnownOK /\ SilentOnlyIfRemoved /\ EmptyIsTemporary

\* For RescanConnects: a call goes with its own kind of command, or with a ping.  The
\* ping that ends a re-scan comes after those that connect the devices of the list.
EndsScan(m) == m.cmd = "SendMessage" /\ m.call # None /\ m.call[1] = "scan"
Connects(q, n, d) == \E i \in DOMAIN q : i <= n /\ q[i].new /\ q[i].dev = d
CarriesOK(m) ==
    /\ m.cmd = "ReScanUserDevices" => m.call # None
    /\ m.call # None => \/ m.cmd = "ReScanUserDevices" /\ m.call[1] = "scan"
                        \/ m.cmd = "ReKeyDevice" /\ m.call[1] = "key"
                        \/ m.cmd = "SendMessage" /\ m.new
ScansOK ==
    /\ \A m \in Queued : CarriesOK(m)
    /\ \A n \in DOMAIN queue : EndsScan(queue[n]) =>
         \A d \in listed : conv[d] # "none" \/ Connects(queue, n, d)
=============================================================================
