----------------------------- MODULE ZrtpEngine -----------------------------
(***************************************************************************)
(* The key agreement of a call: the ZRTP state engines of the two parties, *)
(* their timers, and the retained secrets they keep from call to call.     *)
(*                                                                         *)
(* Each party has a thread that receives packets (processIncomingRtp), the *)
(* thread of the timeout provider (handleTimeout) and a user, who starts   *)
(* and stops calls and compares the SAS.  The engine handles one event at  *)
(* a time under its lock.  The provider takes a request off its list,      *)
(* gives up its own lock and only then calls the engine, so that a packet  *)
(* may be handled in between.                                              *)
(*                                                                         *)
(* Abstractions.  A packet is its type and what its reader looks at: the   *)
(* ids of the retained secrets, the key it is authenticated with, the flag *)
(* of the verified SAS.  What a call agrees on is named by the initiator   *)
(* and the retained secret that went in; the new secret of a call by the   *)
(* number of the call.  Both sides offer one version and one set of        *)
(* algorithms, sending does not fail and nothing is forged, so that there  *)
(* are no Error packets.  A resend joins a copy that is still under way.   *)
(* Both timers give up after the same number of resends.  Call 1 stands    *)
(* for the calls before: the parties know each other from it, or not.      *)
(***************************************************************************)
EXTENDS Integers, FiniteSets

CONSTANTS
    Parties,       \* the two devices
    MaxResend,     \* resends of a packet before the engine gives up
    MaxCalls,      \* bound: number of the last call, the first one being 2
    MaxFaults      \* bound: packets lost, timers that expire early, and
                   \* processes that end in a call, together

ASSUME ConstantsAssumption ==
    /\ IsFiniteSet(Parties) /\ Cardinality(Parties) = 2
    /\ MaxResend \in Nat /\ MaxCalls \in Nat \ {0, 1} /\ MaxFaults \in Nat

Peer(p) == CHOOSE q \in Parties : q # p

VARIABLES
    eng,       \* the engine of each party, with its stream
    rec,       \* what each party has stored about the other (ZIDRecordDb)
    net,       \* packets under way
    call, hi,  \* number of the call; the party with the greater hash (hvi)
    \* history: calls that one party stored since the last both did, 2 for
    \* more; users who have confirmed the SAS
    half, pressed,
    \* faults so far
    faults, kills

histVars  == <<half, pressed>>
faultVars == <<faults, kills>>
vars == <<eng, rec, net, call, hi, histVars, faultVars>>

----------------------------------------------------------------------------
States == {"Off", "Initial", "Detect", "AckSent", "AckDetected", "WaitCommit",
           "CommitSent", "WaitDHPart2", "WaitConfirm1", "WaitConfirm2",
           "WaitConfAck", "SecureState", "Stopped"}
Types  == {"Hello", "HelloAck", "Commit", "DHPart1", "DHPart2",
           "Confirm1", "Confirm2", "Conf2Ack"}

Secrets  == 0 .. MaxCalls       \* 0: the zeros of a record nothing was stored in
NoSecret == -1
Keys     == [ini : Parties, s1 : Secrets \cup {NoSecret}]
NoKey    == [s1 |-> NoSecret]

\* Two retained secrets with their valid bits; the SAS has been verified.
Record == [rs1 : Secrets, rs2 : Secrets, v1 : BOOLEAN, v2 : BOOLEAN, ver : BOOLEAN]
EmptyRecord == [rs1 |-> 0, rs2 |-> 0, v1 |-> FALSE, v2 |-> FALSE, ver |-> FALSE]
KnownRecord == [rs1 |-> 1, rs2 |-> 0, v1 |-> TRUE, v2 |-> FALSE, ver |-> TRUE]

\* t requests are with the timeout provider, late: one has been taken off, and
\* stray: it had been when the timer was cancelled; n: resends.  mem is the
\* working copy of the record, which prepareCommit reads, and save whether it may
\* be stored; recv and send: SRTP is on, told: the verdict the app was told,
\* heard: at least ten SRTP packets have come.
Engine == [st : States, t : 0 .. 2, late : BOOLEAN, stray : BOOLEAN, n : 0 .. MaxResend,
           mem : Record, read : BOOLEAN, save : BOOLEAN, key : Keys \cup {NoKey},
           recv : BOOLEAN, send : BOOLEAN, heard : BOOLEAN, told : BOOLEAN]
NewEngine == [st |-> "Off", t |-> 0, late |-> FALSE, stray |-> FALSE, n |-> 0,
              mem |-> EmptyRecord, read |-> FALSE, save |-> TRUE, key |-> NoKey,
              recv |-> FALSE, send |-> FALSE, heard |-> FALSE, told |-> FALSE]

Packet == [from : Parties, type : Types, ids : SUBSET Secrets,
           key : Keys \cup {NoKey}, ver : BOOLEAN]

Ids(r) == {s \in Secrets : (r.v1 /\ s = r.rs1) \/ (r.v2 /\ s = r.rs2)}

Plain(p, type) == [from |-> p, type |-> type, ids |-> {}, key |-> NoKey, ver |-> FALSE]
DHPart(p, type, e)  == [Plain(p, type) EXCEPT !.ids = Ids(e.mem)]
Confirm(p, type, e) == [Plain(p, type) EXCEPT !.key = e.key, !.ver = e.mem.ver]

\* sentPacket: the packet a state repeats.
SentPacket(p, e) ==
    CASE e.st \in {"Detect", "AckSent"} -> Plain(p, "Hello")
      [] e.st = "WaitCommit"   -> Plain(p, "HelloAck")
      [] e.st = "CommitSent"   -> Plain(p, "Commit")
      [] e.st = "WaitDHPart2"  -> DHPart(p, "DHPart1", e)
      [] e.st = "WaitConfirm1" -> DHPart(p, "DHPart2", e)
      [] e.st = "WaitConfirm2" -> Confirm(p, "Confirm1", e)
      [] e.st = "WaitConfAck"  -> Confirm(p, "Confirm2", e)
      [] e.st = "SecureState"  -> Plain(p, "Conf2Ack")

Init ==
    /\ eng = [p \in Parties |-> NewEngine]
    /\ \/ rec = [p \in Parties |-> EmptyRecord] /\ half = 2 /\ pressed = {}
       \/ rec = [p \in Parties |-> KnownRecord] /\ half = 0 /\ pressed = Parties
    /\ net = {} /\ call = 2 /\ hi = CHOOSE p \in Parties : TRUE
    /\ faults = 0 /\ kills = 0

----------------------------------------------------------------------------
(* Timers and events.                                                      *)

\* Mutant: the timer is left running.
cancelTimerNot(e) == e

\* cancelRequest takes what is on the list, not what has been taken off.
cancelTimer(e) == [e EXCEPT !.t = 0, !.stray = @ \/ e.late]
startTimer(e)  == [e EXCEPT !.t = @ + 1, !.n = 0]
nextState(e, st) == [e EXCEPT !.st = st]

\* p handles packet m: the engine becomes e and sends the packets of out.
Handle(p, m, e, out) ==
    /\ m \in net /\ m.from # p
    /\ eng' = [eng EXCEPT ![p] = e]
    /\ net' = (net \ {m}) \cup out
    /\ UNCHANGED <<call, hi, histVars, faultVars>>

Fault == faults < MaxFaults /\ faults' = faults + 1

In(p, st, m, type) == eng[p].st = st /\ m.type = type

\* startZrtpEngine, evInitial: send Hello.
Start(p) ==
    LET e == nextState(startTimer(eng[p]), "Detect") IN
    /\ eng[p].st = "Off"
    /\ eng' = [eng EXCEPT ![p] = e] /\ net' = net \cup {SentPacket(p, e)}
    /\ UNCHANGED <<rec, call, hi, histVars, faultVars>>

----------------------------------------------------------------------------
(* Discovery: Hello and HelloAck.                                          *)

\* prepareCommit reads the record of the peer.
prepareCommit(p, e) == [e EXCEPT !.mem = rec[p], !.read = TRUE]

DetectHelloAck(p, m) ==
    /\ In(p, "Detect", m, "HelloAck")
    /\ Handle(p, m, nextState(cancelTimer(eng[p]), "AckDetected"), {})
    /\ UNCHANGED rec

DetectHello(p, m) ==
    LET e == prepareCommit(p, startTimer(cancelTimer(eng[p]))) IN
    /\ In(p, "Detect", m, "Hello")
    /\ Handle(p, m, nextState(e, "AckSent"), {Plain(p, "HelloAck")})
    /\ UNCHANGED rec

\* The timer sends our own Hello again.
AckSentHello(p, m) ==
    /\ In(p, "AckSent", m, "Hello")
    /\ Handle(p, m, eng[p], {Plain(p, "HelloAck")})
    /\ UNCHANGED rec

AckDetectedHello(p, m) ==
    LET e == nextState(prepareCommit(p, eng[p]), "WaitCommit") IN
    /\ In(p, "AckDetected", m, "Hello")
    /\ Handle(p, m, e, {SentPacket(p, e)})
    /\ UNCHANGED rec

----------------------------------------------------------------------------
(* Commit: who is the initiator.                                           *)

\* We have seen the peer's Hello, it has seen ours: try to be the initiator.
AckSentHelloAck(p, m) ==
    LET e == nextState(startTimer(cancelTimer(eng[p])), "CommitSent") IN
    /\ In(p, "AckSent", m, "HelloAck")
    /\ Handle(p, m, e, {SentPacket(p, e)})
    /\ UNCHANGED rec

\* prepareDHPart1: we are the responder and have no timer.
BecomeResponder(p, m) ==
    LET e == nextState(cancelTimer(eng[p]), "WaitDHPart2") IN
    /\ \/ In(p, "AckSent", m, "Commit")
       \/ In(p, "WaitCommit", m, "Commit")
       \/ In(p, "CommitSent", m, "Commit") /\ hi # p
    /\ Handle(p, m, e, {SentPacket(p, e)})
    /\ UNCHANGED rec

\* Commit clash, and our hash is the greater one: give the peer more time.
CommitClash(p, m) ==
    /\ In(p, "CommitSent", m, "Commit") /\ hi = p
    /\ Handle(p, m, startTimer(cancelTimer(eng[p])), {})
    /\ UNCHANGED rec

----------------------------------------------------------------------------
(* Diffie-Hellman parts and retained secrets.                              *)

\* Mutant: our first secret goes in, whether the peer has it or not.
OwnFirstSecret(r, ids) == IF r.v1 THEN r.rs1 ELSE NoSecret

\* The secret that goes in: our first one, if the peer has it, or the second.
MatchingSecret(r, ids) ==
    IF r.v1 /\ r.rs1 \in ids THEN r.rs1
    ELSE IF r.v2 /\ r.rs2 \in ids THEN r.rs2 ELSE NoSecret

\* Mutant: a missing match is reported, no more.
generateKeysTrusting(e, ini, ids) ==
    [e EXCEPT !.key = [ini |-> ini, s1 |-> MatchingSecret(e.mem, ids)]]

\* generateKeysInitiator, generateKeysResponder: with secrets of our own, but
\* none in common, the record is not stored before the user verifies the SAS.
generateKeys(e, ini, ids) ==
    LET s1 == MatchingSecret(e.mem, ids)
        stranger == s1 = NoSecret /\ Ids(e.mem) # {}
    IN  [e EXCEPT !.key = [ini |-> ini, s1 |-> s1],
                  !.mem.ver = @ /\ ~stranger, !.save = @ /\ ~stranger]

CommitSentDHPart1(p, m) ==
    LET e == nextState(startTimer(cancelTimer(generateKeys(eng[p], p, m.ids))),
                       "WaitConfirm1") IN
    /\ In(p, "CommitSent", m, "DHPart1")
    /\ Handle(p, m, e, {SentPacket(p, e)})
    /\ UNCHANGED rec

WaitDHPart2DHPart2(p, m) ==
    LET e == nextState(generateKeys(eng[p], Peer(p), m.ids), "WaitConfirm2") IN
    /\ In(p, "WaitDHPart2", m, "DHPart2")
    /\ Handle(p, m, e, {SentPacket(p, e)})
    /\ UNCHANGED rec

----------------------------------------------------------------------------
(* Confirmation: the new secret is stored, SRTP goes on.                   *)

\* setNewRs1: the old secret moves to the second place, without its valid bit.
setNewRs1(r) == [r EXCEPT !.rs1 = call, !.rs2 = r.rs1, !.v1 = TRUE, !.v2 = FALSE]

\* The SAS counts as verified only if it does on both sides.
takeConfirm(e, m) == LET r == [e.mem EXCEPT !.ver = @ /\ m.ver]
                     IN  [e EXCEPT !.mem = setNewRs1(r)]

saveRecord(p, e) == rec' = IF e.save THEN [rec EXCEPT ![p] = e.mem] ELSE rec

\* srtpSecretsReady(ForSender), srtpSecretsOn: the app is told the verdict.
senderOn(e) == [e EXCEPT !.send = TRUE, !.told = e.mem.ver]

\* Mutant: the initiator sends before it knows that the responder can receive.
WaitConfirm1Sends(p, m) ==
    LET e == [nextState(startTimer(cancelTimer(takeConfirm(eng[p], m))), "WaitConfAck")
                EXCEPT !.recv = TRUE] IN
    /\ In(p, "WaitConfirm1", m, "Confirm1") /\ m.key = eng[p].key
    /\ Handle(p, m, senderOn(e), {SentPacket(p, e)})
    /\ saveRecord(p, e)

\* A Confirm with another key would be an error, which does not come up
\* (SecureAgrees).
WaitConfirm1Confirm1(p, m) ==
    LET e == [nextState(startTimer(cancelTimer(takeConfirm(eng[p], m))), "WaitConfAck")
                EXCEPT !.recv = TRUE] IN
    /\ In(p, "WaitConfirm1", m, "Confirm1") /\ m.key = eng[p].key
    /\ Handle(p, m, e, {SentPacket(p, e)})
    /\ saveRecord(p, e)

WaitConfirm2Confirm2(p, m) ==
    LET e == nextState(senderOn([takeConfirm(eng[p], m) EXCEPT !.recv = TRUE]),
                       "SecureState") IN
    /\ In(p, "WaitConfirm2", m, "Confirm2") /\ m.key = eng[p].key
    /\ Handle(p, m, e, {SentPacket(p, e)})
    /\ saveRecord(p, e)

WaitConfAckConf2Ack(p, m) ==
    /\ In(p, "WaitConfAck", m, "Conf2Ack")
    /\ Handle(p, m, nextState(senderOn(cancelTimer(eng[p])), "SecureState"), {})
    /\ UNCHANGED rec

\* The peer did not get our packet and repeats its own: so do we.
Repeat(p, m) ==
    /\ \/ In(p, "WaitCommit", m, "Hello")
       \/ In(p, "WaitDHPart2", m, "Commit")
       \/ In(p, "WaitConfirm2", m, "DHPart2")
       \/ In(p, "SecureState", m, "Confirm2")
    /\ Handle(p, m, eng[p], {SentPacket(p, eng[p])})
    /\ UNCHANGED rec

Handled == {<<"Detect", "HelloAck">>, <<"Detect", "Hello">>, <<"AckSent", "Hello">>,
            <<"AckDetected", "Hello">>, <<"AckSent", "HelloAck">>, <<"AckSent", "Commit">>,
            <<"WaitCommit", "Commit">>, <<"CommitSent", "Commit">>,
            <<"CommitSent", "DHPart1">>, <<"WaitDHPart2", "DHPart2">>,
            <<"WaitConfirm1", "Confirm1">>, <<"WaitConfirm2", "Confirm2">>,
            <<"WaitConfAck", "Conf2Ack">>, <<"WaitCommit", "Hello">>,
            <<"WaitDHPart2", "Commit">>, <<"WaitConfirm2", "DHPart2">>,
            <<"SecureState", "Confirm2">>}

\* Every other packet is ignored in a state, and all when nothing has started.
Ignore(p, m) ==
    /\ <<eng[p].st, m.type>> \notin Handled
    /\ Handle(p, m, eng[p], {})
    /\ UNCHANGED rec

Receive(p, m) ==
    \/ DetectHelloAck(p, m) \/ DetectHello(p, m) \/ AckSentHello(p, m)
    \/ AckDetectedHello(p, m) \/ AckSentHelloAck(p, m)
    \/ BecomeResponder(p, m) \/ CommitClash(p, m)
    \/ CommitSentDHPart1(p, m) \/ WaitDHPart2DHPart2(p, m)
    \/ WaitConfirm1Confirm1(p, m) \/ WaitConfirm2Confirm2(p, m)
    \/ WaitConfAckConf2Ack(p, m) \/ Repeat(p, m) \/ Ignore(p, m)

----------------------------------------------------------------------------
(* SRTP packets.                                                           *)

CanRead(p) == /\ eng[p].recv /\ eng[Peer(p)].send
              /\ eng[p].key = eng[Peer(p)].key

\* A packet that can be read stands for a Conf2Ack.
FirstMedia(p) ==
    /\ CanRead(p) /\ eng[p].st = "WaitConfAck"
    /\ eng' = [eng EXCEPT ![p] = nextState(senderOn(cancelTimer(eng[p])), "SecureState")]
    /\ UNCHANGED <<rec, net, call, hi, histVars, faultVars>>

\* Ten of them have been read.
Listen(p) ==
    /\ CanRead(p) /\ eng[p].st = "SecureState" /\ ~eng[p].heard
    /\ eng' = [eng EXCEPT ![p].heard = TRUE]
    /\ UNCHANGED <<rec, net, call, hi, histVars, faultVars>>

----------------------------------------------------------------------------
(* Timeouts.                                                               *)

\* A timer is longer than the way there and back, and than one of the peer that
\* runs at a lower count: nextTimer doubles the time.
InTime(p) == net = {} /\ (eng[Peer(p)].t > 0 => eng[p].n <= eng[Peer(p)].n)

\* The provider takes an expired request off its list.
Expire(p) ==
    /\ eng[p].t > 0 /\ ~eng[p].late
    /\ \/ InTime(p) /\ UNCHANGED faults
       \/ ~InTime(p) /\ Fault
    /\ eng' = [eng EXCEPT ![p].t = @ - 1, ![p].late = TRUE]
    /\ UNCHANGED <<rec, net, call, hi, histVars, kills>>

\* The engine gets the Timer event.
OnTimer(p, e, out) ==
    /\ eng[p].late
    /\ eng' = [eng EXCEPT ![p] = [e EXCEPT !.late = FALSE]]
    /\ net' = net \cup out
    /\ UNCHANGED <<rec, call, hi, histVars, faultVars>>

Resending == {"Detect", "AckSent", "CommitSent", "WaitConfirm1", "WaitConfAck"}

\* Mutant: the timer is not started again.
ResendOnce(p) ==
    /\ eng[p].st \in Resending /\ eng[p].n < MaxResend
    /\ OnTimer(p, [eng[p] EXCEPT !.n = @ + 1], {SentPacket(p, eng[p])})

\* nextTimer: there are resends left.
Resend(p) ==
    /\ eng[p].st \in Resending /\ eng[p].n < MaxResend
    /\ OnTimer(p, [eng[p] EXCEPT !.n = @ + 1, !.t = @ + 1], {SentPacket(p, eng[p])})

\* The last Hello was in vain: wait for the peer's, without a timer.
HelloUnanswered(p) ==
    /\ eng[p].st \in {"Detect", "AckSent"} /\ eng[p].n = MaxResend
    /\ OnTimer(p, nextState(eng[p], "Detect"), {SentPacket(p, eng[p])})

\* timerFailed(SevereTooMuchRetries)
TooMuchRetries(p) ==
    /\ eng[p].st \in {"CommitSent", "WaitConfirm1", "WaitConfAck"}
    /\ eng[p].n = MaxResend
    /\ OnTimer(p, [nextState(eng[p], "Initial") EXCEPT !.recv = FALSE],
               {SentPacket(p, eng[p])})

\* A Timer event is an error in the states without a timer.
UnexpectedTimer(p) ==
    /\ eng[p].st \in {"AckDetected", "WaitCommit", "WaitDHPart2", "WaitConfirm2"}
    /\ OnTimer(p, nextState(eng[p], "Initial"), {})

\* Nothing to do, or nothing to do any more.
StrayTimer(p) ==
    /\ eng[p].st \in {"Initial", "SecureState"}
    /\ OnTimer(p, eng[p], {})

Timeout(p) == \/ Resend(p) \/ HelloUnanswered(p) \/ TooMuchRetries(p)
              \/ UnexpectedTimer(p) \/ StrayTimer(p)

----------------------------------------------------------------------------
(* The user, the end of a call and the next one.                           *)

\* SASVerified: the record is stored from now on.
Verify(p) ==
    LET e == [eng[p] EXCEPT !.mem.ver = TRUE, !.save = TRUE] IN
    /\ eng[p].st = "SecureState" /\ ~eng[p].mem.ver
    /\ eng' = [eng EXCEPT ![p] = e] /\ saveRecord(p, e)
    /\ pressed' = pressed \cup {p}
    /\ UNCHANGED <<net, call, hi, half, faultVars>>

\* Mutant: the record is left as it is.
StopOnly(p) ==
    /\ eng[p].st \notin {"Off", "Stopped"}
    /\ eng' = [eng EXCEPT ![p] = nextState(NewEngine, "Stopped")]
    /\ UNCHANGED <<rec, net, call, hi, histVars, faultVars>>

\* stopStream: after less than ten packets the peer may not have the new
\* secret, so the old one stays valid.
Stop(p) ==
    LET e == eng[p] IN
    /\ e.st \notin {"Off", "Stopped"}
    /\ rec' = IF e.read /\ ~e.heard /\ e.save
              THEN [rec EXCEPT ![p] = [e.mem EXCEPT !.v2 = TRUE]] ELSE rec
    /\ eng' = [eng EXCEPT ![p] = nextState(NewEngine, "Stopped")]
    /\ UNCHANGED <<net, call, hi, histVars, faultVars>>

\* The process ends in a call.
Kill(p) ==
    /\ eng[p].st \notin {"Off", "Stopped"} /\ Fault
    /\ eng' = [eng EXCEPT ![p] = nextState(NewEngine, "Stopped")]
    /\ kills' = kills + 1
    /\ UNCHANGED <<rec, net, call, hi, histVars>>

Stored(p) == rec[p].rs1 = call

\* The next call of the two.
NextCall ==
    /\ \A p \in Parties : eng[p].st = "Stopped"
    /\ call < MaxCalls /\ call' = call + 1
    /\ hi' \in Parties
    /\ eng' = [p \in Parties |-> NewEngine] /\ net' = {}
    /\ half' = CASE \A p \in Parties : Stored(p) -> 0
                 [] \A p \in Parties : ~Stored(p) -> half
                 [] OTHER -> IF half = 0 THEN 1 ELSE 2
    /\ UNCHANGED <<rec, pressed, faultVars>>

Lose(m) ==
    /\ m \in net /\ Fault
    /\ net' = net \ {m}
    /\ UNCHANGED <<eng, rec, call, hi, histVars, kills>>

Next ==
    \/ \E p \in Parties :
        \/ Start(p) \/ FirstMedia(p) \/ Listen(p) \/ Expire(p) \/ Timeout(p)
        \/ Verify(p) \/ Stop(p) \/ Kill(p)
    \/ \E p \in Parties, m \in net : Receive(p, m)
    \/ NextCall
    \/ \E m \in net : Lose(m)

\* What the threads of a device do by themselves.
Progress(p) == \/ Start(p) \/ FirstMedia(p) \/ Expire(p) \/ Timeout(p)
               \/ \E m \in net : Receive(p, m)

Spec == Init /\ [][Next]_vars /\ \A p \in Parties : WF_vars(Progress(p))

----------------------------------------------------------------------------
(* Properties.                                                             *)

\* Types, with the bound on the requests of one engine at the timeout provider.
TypeOK ==
    /\ eng \in [Parties -> Engine] /\ rec \in [Parties -> Record]
    /\ net \subseteq Packet /\ call \in 2 .. MaxCalls /\ hi \in Parties
    /\ half \in 0 .. 2 /\ pressed \subseteq Parties
    /\ faults \in 0 .. MaxFaults /\ kills \in 0 .. faults

\* The parties agree on who is the initiator and on the retained secret that
\* went in, whatever they know of each other and whichever Commit clashed, and
\* the apps show the same verdict on the SAS (generateKeysInitiator,
\* generateKeysResponder, srtpSecretsOn).
SecureAgrees ==
    \A p, q \in Parties :
        /\ eng[p].key # NoKey /\ eng[q].key # NoKey => eng[p].key = eng[q].key
        /\ eng[p].send /\ eng[q].send => eng[p].told = eng[q].told

\* Who sends encrypted media is understood, unless the peer has given up or
\* hung up (the order of srtpSecretsReady on the two sides).
MediaReadable ==
    \A p \in Parties :
        eng[p].send => CanRead(Peer(p)) \/ eng[Peer(p)].st \in {"Initial", "Stopped"}

\* The app reports a verified SAS only for a call that is bound to an earlier
\* one by a secret the two have in common, and only if both users have confirmed
\* the SAS before (takeConfirm, generateKeys).  The zeros of a record in which
\* nothing was stored count as such a secret once setRs2Valid has marked them.
VerifiedIsContinuous ==
    \A p \in Parties :
        eng[p].send /\ eng[p].told => eng[p].key.s1 # NoSecret /\ pressed = Parties

\* A call that only one party stored does not cost the two their common secret:
\* at the start of the next call they still have one, unless a process ended
\* (CtZrtpStream.cpp:122, setNewRs1).
CommonSecrets == {s \in Secrets : \A p \in Parties : s \in Ids(rec[p])}
KeepsSecret ==
    (\A p \in Parties : eng[p].st = "Off") /\ half <= 1 /\ kills = 0
        => CommonSecrets # {}

\* Two parties that are in a call get to the secure state, over lost packets and
\* timers that expire early, Commit clashes included.  Not so if one hangs up,
\* if a timer was cancelled when it was about to call the engine, or if as many
\* packets are lost as there are resends.
Secure  == \A p \in Parties : eng[p].st = "SecureState"
Excused == \/ \E p \in Parties : eng[p].st = "Stopped" \/ eng[p].stray
           \/ faults >= MaxResend
GetsSecure ==
    (\A p \in Parties : eng[p].st # "Off") ~> (Secure \/ Excused)

----------------------------------------------------------------------------
(* Inductive invariant, for the proofs.                                    *)

\* Before there is anything of the key agreement, before there is a key, and
\* before the new secret is in the working copy.
Young   == {"Off", "Detect", "AckSent", "AckDetected", "WaitCommit", "CommitSent"}
Unkeyed == Young \cup {"WaitDHPart2", "Stopped"}
Unsaved == Young \cup {"WaitDHPart2", "WaitConfirm1", "WaitConfirm2"}
Dead    == {"Initial", "Stopped"}

\* An engine never has more than two requests with the provider, counting the
\* one that was taken off.
Requests(e) == /\ e.t + (IF e.late THEN 1 ELSE 0) <= 2
               /\ e.st = "Off" => e.t = 0 /\ ~e.late

\* Secrets are stored in the order of the calls.
InOrder(r) == r.rs2 < r.rs1 \/ (r.rs1 = 0 /\ r.rs2 = 0)

\* The engine e of p alone, with its stored record r, in call c.
Alone(p, e, r, c) ==
    /\ e.st \in Unkeyed => e.key = NoKey
    /\ e.st \in {"WaitConfirm1", "WaitConfAck"} => e.key # NoKey /\ e.key.ini = p
    /\ e.st = "WaitConfirm2" => e.key # NoKey /\ e.key.ini # p
    /\ e.st = "SecureState" => e.key # NoKey
    /\ e.send <=> e.st = "SecureState"
    /\ e.recv <=> e.st \in {"WaitConfAck", "SecureState"}
    /\ InOrder(e.mem) /\ e.mem.rs1 <= c /\ InOrder(r) /\ r.rs1 <= c
    /\ e.st \in Unsaved => e.mem.rs1 < c /\ r.rs1 < c

\* The engine e of p beside the engine f of its peer: how far f has come when
\* e is the initiator, and when it is the responder.
Ahead(p, e, f) ==
    /\ e.key # NoKey /\ e.key.ini = p =>
         f.st \in {"WaitDHPart2", "WaitConfirm2", "SecureState"} \cup Dead
    /\ e.key # NoKey /\ e.key.ini # p =>
         f.st \in {"WaitConfirm1", "WaitConfAck", "SecureState"} \cup Dead
    /\ e.st = "WaitConfirm1" /\ f.st = "WaitDHPart2" =>
         e.key.s1 = MatchingSecret(f.mem, Ids(e.mem))
    /\ e.st = "WaitConfAck" => f.st # "WaitDHPart2"
    /\ e.st = "WaitConfAck" /\ f.st = "WaitConfirm2" => (e.mem.ver => f.mem.ver)
    /\ e.st = "SecureState" /\ e.key.ini = p => f.st \in {"SecureState", "Stopped"}
    /\ e.st = "SecureState" /\ e.key.ini # p =>
         f.st \in {"WaitConfAck", "SecureState"} \cup Dead
    /\ e.st = "SecureState" /\ f.st = "WaitConfAck" => e.told = f.mem.ver

\* The two engines.
Agree(e, f) ==
    /\ e.key # NoKey /\ f.key # NoKey => e.key = f.key
    /\ e.st = "SecureState" /\ f.st = "SecureState" => e.told = f.told

\* A packet under way, with the engine e of its sender and f of its reader.
Sent(m, e, f) ==
    /\ m.type = "DHPart1" =>
         /\ e.st \in {"WaitDHPart2", "WaitConfirm2", "SecureState"} \cup Dead
         /\ e.st = "WaitDHPart2" => m.ids = Ids(e.mem)
    /\ m.type = "DHPart2" =>
         /\ e.st \in {"WaitConfirm1", "WaitConfAck", "SecureState"} \cup Dead
         /\ e.key # NoKey => e.key.ini = m.from
         /\ e.key # NoKey /\ f.st = "WaitDHPart2" =>
              e.key.s1 = MatchingSecret(f.mem, m.ids)
    /\ m.type = "Confirm1" =>
         /\ e.st \in {"WaitConfirm2", "SecureState"} \cup Dead
         /\ m.key # NoKey /\ m.key.ini # m.from
         /\ e.key # NoKey => m.key = e.key
         /\ e.st = "WaitConfirm2" => m.ver = e.mem.ver
    /\ m.type = "Confirm2" =>
         /\ e.st \in {"WaitConfAck", "SecureState"} \cup Dead
         /\ m.key # NoKey /\ m.key.ini = m.from
         /\ e.key # NoKey => m.key = e.key
         /\ e.st = "WaitConfAck" => m.ver = e.mem.ver
    /\ m.type = "Conf2Ack" => e.st \in {"SecureState", "Stopped"}

Typed == TypeOK /\ \A p \in Parties : Requests(eng[p])

AgreeInv ==
    /\ \A p \in Parties : /\ Alone(p, eng[p], rec[p], call)
                          /\ Ahead(p, eng[p], eng[Peer(p)])
                          /\ Agree(eng[p], eng[Peer(p)])
    /\ \A m \in net : Sent(m, eng[m.from], eng[Peer(m.from)])

\* Two records with the same secrets.
SameSecrets(r, s) ==
    r.rs1 = s.rs1 /\ r.rs2 = s.rs2 /\ r.v1 = s.v1 /\ r.v2 = s.v2

\* What a record of p holds: a verified SAS only with a secret, and only if the
\* user of p, one of the users P, has confirmed it.
Holds(p, r, P) == /\ r.rs1 > 0 => r.v1
                  /\ r.ver => r.v1 /\ p \in P

\* The engine e of p, when the users P have confirmed a SAS.
Bound(p, e, P) ==
    /\ Holds(p, e.mem, P)
    /\ e.st \in {"WaitConfirm1", "WaitConfirm2", "WaitConfAck"} /\ e.mem.ver =>
         e.key.s1 # NoSecret
    /\ e.st = "WaitConfAck" /\ e.mem.ver => Peer(p) \in P
    /\ e.st \in {"WaitConfAck", "SecureState"} => e.mem.v1
    /\ e.send /\ e.told => e.key.s1 # NoSecret /\ P = Parties

\* The states before and after the record is in the working copy.
Unread == {"Off", "Detect", "AckDetected", "Initial", "Stopped"}

\* s was in both records when the call c began.  The engine e has the record r,
\* its peer the record x; h is the number of half calls (half).
Keeps(s, e, r, x, c, h) ==
    /\ e.save /\ (e.read => SameSecrets(e.mem, r))
    /\ e.st \notin Unread => e.read
    /\ e.st = "Initial" /\ r.rs1 = c => e.read
    /\ e.st \in {"WaitConfAck", "SecureState"} => r.rs1 = c
    /\ e.heard => x.rs1 = c
    /\ r.rs1 # c => s \in Ids(r) /\ (h = 0 => s = r.rs1)
    /\ r.rs1 = c /\ h = 0 => r.rs2 = s /\ (e.st = "Stopped" => r.v2 \/ x.rs1 = c)

Carries(s, m) == m.type \in {"DHPart1", "DHPart2"} => s \in m.ids

KeepInv(s) ==
    /\ \A p \in Parties : Keeps(s, eng[p], rec[p], rec[Peer(p)], call, half)
    /\ \A m \in net : Carries(s, m)

SecretInv ==
    /\ \A p \in Parties : Bound(p, eng[p], pressed) /\ Holds(p, rec[p], pressed)
    /\ \A m \in net : m.ver => m.from \in pressed
    /\ half <= 1 /\ kills = 0 => \E s \in Secrets : KeepInv(s)
=============================================================================
