------------------------- MODULE ZrtpEngine_proofs -------------------------
(* Theorems about ZrtpEngine, for any number of calls, resends and faults. *)
EXTENDS ZrtpEngine, FiniteSetTheorems, TLAPS

USE ConstantsAssumption

\* There are two parties, and each is the peer of the other.
LEMMA PeerFacts ==
  ASSUME NEW p \in Parties
  PROVE  /\ Peer(p) \in Parties /\ Peer(p) # p /\ Peer(Peer(p)) = p
         /\ \A q \in Parties : q = p \/ q = Peer(p)
<1>1. IsFiniteSet(Parties \ {p}) /\ Cardinality(Parties \ {p}) = 1
  BY FS_RemoveElement
<1>2. PICK q : Parties \ {p} = {q}
  BY <1>1, FS_Singleton
<1>3. q \in Parties /\ q # p /\ Parties = {p, q}
  BY <1>2
<1>4. Peer(p) = q
  <2>1. \E x \in Parties : x # p
    BY <1>3
  <2>2. Peer(p) \in Parties /\ Peer(p) # p
    BY <2>1 DEF Peer
  <2> QED
    BY <2>2, <1>3
<1>5. Peer(q) = p
  <2>1. \E x \in Parties : x # q
    BY <1>3
  <2>2. Peer(q) \in Parties /\ Peer(q) # q
    BY <2>1 DEF Peer
  <2> QED
    BY <2>2, <1>3
<1> QED
  BY <1>3, <1>4, <1>5

----------------------------------------------------------------------------
(* Types of the helpers.                                                   *)

LEMMA KeyFacts == NoKey \notin Keys
  BY DEF NoKey, Keys

LEMMA RecordTypes ==
  /\ EmptyRecord \in Record /\ KnownRecord \in Record
  /\ NewEngine \in Engine
  BY DEF EmptyRecord, KnownRecord, NewEngine, Record, Engine, Secrets, States

\* A record of an engine, changed in one field.
LEMMA Updates ==
  ASSUME NEW e \in Engine
  PROVE  /\ \A x \in States : [e EXCEPT !.st = x] \in Engine
         /\ \A x \in 0 .. 2 : [e EXCEPT !.t = x] \in Engine
         /\ \A x \in 0 .. MaxResend : [e EXCEPT !.n = x] \in Engine
         /\ \A x \in Record : [e EXCEPT !.mem = x] \in Engine
         /\ \A x \in Keys \cup {NoKey} : [e EXCEPT !.key = x] \in Engine
         /\ \A x \in BOOLEAN : /\ [e EXCEPT !.late = x] \in Engine
                              /\ [e EXCEPT !.stray = x] \in Engine
                              /\ [e EXCEPT !.read = x] \in Engine
                              /\ [e EXCEPT !.save = x] \in Engine
                              /\ [e EXCEPT !.recv = x] \in Engine
                              /\ [e EXCEPT !.send = x] \in Engine
                              /\ [e EXCEPT !.heard = x] \in Engine
                              /\ [e EXCEPT !.told = x] \in Engine
<1>1. /\ \A x \in States : [e EXCEPT !.st = x] \in Engine
      /\ \A x \in 0 .. 2 : [e EXCEPT !.t = x] \in Engine
      /\ \A x \in 0 .. MaxResend : [e EXCEPT !.n = x] \in Engine
  BY DEF Engine
<1>2. /\ \A x \in Record : [e EXCEPT !.mem = x] \in Engine
      /\ \A x \in Keys \cup {NoKey} : [e EXCEPT !.key = x] \in Engine
  BY DEF Engine
<1>3. ASSUME NEW x \in BOOLEAN
      PROVE  /\ [e EXCEPT !.late = x] \in Engine
             /\ [e EXCEPT !.stray = x] \in Engine
             /\ [e EXCEPT !.read = x] \in Engine
             /\ [e EXCEPT !.save = x] \in Engine
             /\ [e EXCEPT !.recv = x] \in Engine
             /\ [e EXCEPT !.send = x] \in Engine
             /\ [e EXCEPT !.heard = x] \in Engine
             /\ [e EXCEPT !.told = x] \in Engine
  BY DEF Engine
<1> QED
  BY <1>1, <1>2, <1>3

\* What the key agreement looks at, the state apart, is the same in e and f.
Kept(e, f) ==
  /\ f.key = e.key /\ f.mem = e.mem
  /\ f.send = e.send /\ f.recv = e.recv /\ f.told = e.told

LEMMA NextStateIs ==
  ASSUME NEW e \in Engine, NEW st \in States
  PROVE  LET f == nextState(e, st) IN
         f \in Engine /\ f.st = st /\ f.t = e.t /\ f.late = e.late /\ Kept(e, f)
<1>1. nextState(e, st) \in Engine
  BY Updates DEF nextState
<1> QED
  BY <1>1 DEF nextState, Engine, Kept

LEMMA CancelIs ==
  ASSUME NEW e \in Engine
  PROVE  LET f == cancelTimer(e) IN
         f \in Engine /\ f.st = e.st /\ f.t = 0 /\ f.late = e.late /\ Kept(e, f)
<1> DEFINE x == e.stray \/ e.late
           f == [e EXCEPT !.t = 0]
           g == [f EXCEPT !.stray = x]
<1>1. f \in Engine /\ f.t = 0 /\ f.st = e.st /\ f.late = e.late /\ Kept(e, f)
  <2>1. 0 \in 0 .. 2
    OBVIOUS
  <2>2. f \in Engine
    BY <2>1, Updates
  <2> QED
    BY <2>2 DEF Engine, Kept
<1>2. g = cancelTimer(e)
  BY DEF cancelTimer
<1>3. x \in BOOLEAN
  OBVIOUS
<1> HIDE DEF x, f
<1>4. g \in Engine
  BY <1>1, <1>3, Updates
<1>5. g.t = 0 /\ g.st = f.st /\ g.late = f.late /\ Kept(f, g)
  BY <1>1 DEF Engine, Kept
<1> QED
  BY <1>1, <1>2, <1>4, <1>5 DEF Kept

LEMMA StartIs ==
  ASSUME NEW e \in Engine, e.t < 2
  PROVE  LET f == startTimer(e) IN
         f \in Engine /\ f.st = e.st /\ f.t = e.t + 1 /\ f.late = e.late /\ Kept(e, f)
<1> DEFINE f == [e EXCEPT !.t = e.t + 1]
           g == [f EXCEPT !.n = 0]
<1>1. f \in Engine /\ f.t = e.t + 1 /\ f.st = e.st /\ f.late = e.late /\ Kept(e, f)
  <2>1. e.t + 1 \in 0 .. 2
    BY DEF Engine
  <2>2. f \in Engine
    BY <2>1, Updates
  <2> QED
    BY <2>1, <2>2 DEF Engine, Kept
<1>2. g = startTimer(e)
  BY DEF startTimer
<1> HIDE DEF f
<1>3. 0 \in 0 .. MaxResend
  OBVIOUS
<1>4. g \in Engine
  BY <1>1, <1>3, Updates
<1>5. g.t = f.t /\ g.st = f.st /\ g.late = f.late /\ Kept(f, g)
  BY <1>1 DEF Engine, Kept
<1> QED
  BY <1>1, <1>2, <1>4, <1>5 DEF Kept

LEMMA IdsType ==
  ASSUME NEW r \in Record
  PROVE  Ids(r) \in SUBSET Secrets
  BY DEF Ids

LEMMA PacketTypes ==
  ASSUME NEW p \in Parties, NEW e \in Engine, NEW type \in Types
  PROVE  /\ Plain(p, type) \in Packet
         /\ DHPart(p, type, e) \in Packet
         /\ Confirm(p, type, e) \in Packet
<1>1. Ids(e.mem) \in SUBSET Secrets
  BY IdsType DEF Engine
<1> QED
  BY <1>1 DEF Plain, DHPart, Confirm, Packet, Engine, Record

LEMMA SentPacketIs ==
  ASSUME NEW p \in Parties, NEW e \in Engine
  PROVE  /\ e.st \in {"Detect", "AckSent"} => SentPacket(p, e) = Plain(p, "Hello")
         /\ e.st = "WaitCommit"   => SentPacket(p, e) = Plain(p, "HelloAck")
         /\ e.st = "CommitSent"   => SentPacket(p, e) = Plain(p, "Commit")
         /\ e.st = "WaitDHPart2"  => SentPacket(p, e) = DHPart(p, "DHPart1", e)
         /\ e.st = "WaitConfirm1" => SentPacket(p, e) = DHPart(p, "DHPart2", e)
         /\ e.st = "WaitConfirm2" => SentPacket(p, e) = Confirm(p, "Confirm1", e)
         /\ e.st = "WaitConfAck"  => SentPacket(p, e) = Confirm(p, "Confirm2", e)
         /\ e.st = "SecureState"  => SentPacket(p, e) = Plain(p, "Conf2Ack")
  BY DEF SentPacket

\* A state that sends has a packet to send.
Sending == {"Detect", "AckSent", "WaitCommit", "CommitSent", "WaitDHPart2",
            "WaitConfirm1", "WaitConfirm2", "WaitConfAck", "SecureState"}

LEMMA SentPacketType ==
  ASSUME NEW p \in Parties, NEW e \in Engine, e.st \in Sending
  PROVE  SentPacket(p, e) \in Packet
  BY PacketTypes, SentPacketIs DEF Sending, Types

LEMMA SecretTypes ==
  ASSUME NEW r \in Record, NEW ids \in SUBSET Secrets
  PROVE  MatchingSecret(r, ids) \in Secrets \cup {NoSecret}
  BY DEF MatchingSecret, Record

LEMMA GenerateIs ==
  ASSUME NEW e \in Engine, NEW ini \in Parties, NEW ids \in SUBSET Secrets
  PROVE  LET f == generateKeys(e, ini, ids) IN
         /\ f \in Engine /\ f.st = e.st /\ f.t = e.t /\ f.late = e.late
         /\ f.send = e.send /\ f.recv = e.recv /\ f.told = e.told
         /\ f.key = [ini |-> ini, s1 |-> MatchingSecret(e.mem, ids)]
         /\ f.key \in Keys /\ SameSecrets(e.mem, f.mem)
<1> DEFINE s1 == MatchingSecret(e.mem, ids)
           stranger == s1 = NoSecret /\ Ids(e.mem) # {}
           k == [ini |-> ini, s1 |-> s1]
           x == e.mem.ver /\ ~stranger
           y == e.save /\ ~stranger
           r == [e.mem EXCEPT !.ver = x]
           f1 == [e EXCEPT !.key = k]
           f2 == [f1 EXCEPT !.mem = r]
           f3 == [f2 EXCEPT !.save = y]
<1>1. s1 \in Secrets \cup {NoSecret}
  BY SecretTypes DEF Engine
<1>2. k \in Keys
  BY <1>1 DEF Keys
<1>3. x \in BOOLEAN /\ y \in BOOLEAN
  OBVIOUS
<1>4. f3 = generateKeys(e, ini, ids)
  <2>1. f1.mem = e.mem /\ f2.save = e.save
    BY DEF Engine
  <2> QED
    BY <2>1 DEF generateKeys
<1> HIDE DEF s1, stranger, x, y
<1>5. r \in Record /\ SameSecrets(e.mem, r)
  BY <1>3 DEF Engine, Record, SameSecrets
<1> HIDE DEF k, r
<1>6. f1 \in Engine /\ f1.key = k /\ f1.st = e.st /\ f1.t = e.t /\ f1.late = e.late
      /\ f1.send = e.send /\ f1.recv = e.recv /\ f1.told = e.told
  <2>1. f1 \in Engine
    BY <1>2, Updates
  <2> QED
    BY <2>1 DEF Engine
<1> HIDE DEF f1
<1>7. f2 \in Engine /\ f2.mem = r /\ f2.st = f1.st /\ f2.t = f1.t /\ f2.late = f1.late
      /\ f2.send = f1.send /\ f2.recv = f1.recv /\ f2.told = f1.told /\ f2.key = f1.key
  <2>1. f2 \in Engine
    BY <1>5, <1>6, Updates
  <2> QED
    BY <2>1, <1>6 DEF Engine
<1> HIDE DEF f2
<1>8. f3 \in Engine /\ f3.st = f2.st /\ f3.t = f2.t /\ f3.late = f2.late /\ Kept(f2, f3)
  <2>1. f3 \in Engine
    BY <1>3, <1>7, Updates
  <2> QED
    BY <2>1, <1>7 DEF Engine, Kept
<1> HIDE DEF f3
<1>9. f3.key = [ini |-> ini, s1 |-> MatchingSecret(e.mem, ids)]
  BY <1>6, <1>7, <1>8 DEF Kept, k, s1
<1> QED
  BY <1>2, <1>4, <1>5, <1>6, <1>7, <1>8, <1>9 DEF Kept

LEMMA TakeConfirmIs ==
  ASSUME NEW e \in Engine, NEW m \in Packet, call \in Secrets
  PROVE  LET f == takeConfirm(e, m) IN
         /\ f \in Engine /\ f.st = e.st /\ f.t = e.t /\ f.late = e.late
         /\ f.send = e.send /\ f.recv = e.recv /\ f.told = e.told /\ f.key = e.key
         /\ f.mem.rs1 = call /\ f.mem.rs2 = e.mem.rs1
         /\ f.mem.ver <=> (e.mem.ver /\ m.ver)
<1> DEFINE x == e.mem.ver /\ m.ver
           r == [e.mem EXCEPT !.ver = x]
           s == setNewRs1(r)
           f == [e EXCEPT !.mem = s]
<1>1. x \in BOOLEAN
  OBVIOUS
<1>2. f = takeConfirm(e, m)
  BY DEF takeConfirm
<1>3. (x = TRUE) <=> (e.mem.ver /\ m.ver)
  OBVIOUS
<1> HIDE DEF x
<1>4. r \in Record /\ r.ver = x /\ r.rs1 = e.mem.rs1
  BY <1>1 DEF Engine, Record
<1> HIDE DEF r
<1>5. s \in Record /\ s.ver = x /\ s.rs1 = call /\ s.rs2 = r.rs1
  BY <1>4 DEF setNewRs1, Record
<1> HIDE DEF s
<1>6. f \in Engine /\ f.st = e.st /\ f.t = e.t /\ f.late = e.late
      /\ f.send = e.send /\ f.recv = e.recv /\ f.told = e.told /\ f.key = e.key
      /\ f.mem = s
  <2>1. f \in Engine
    BY <1>5, Updates
  <2> QED
    BY <2>1 DEF Engine
<1> QED
  BY <1>1, <1>2, <1>3, <1>4, <1>5, <1>6

LEMMA SenderOnIs ==
  ASSUME NEW e \in Engine
  PROVE  LET f == senderOn(e) IN
         /\ f \in Engine /\ f.st = e.st /\ f.t = e.t /\ f.late = e.late
         /\ f.send = TRUE /\ f.told = e.mem.ver
         /\ f.recv = e.recv /\ f.key = e.key /\ f.mem = e.mem
<1> DEFINE f1 == [e EXCEPT !.send = TRUE]
           f2 == [f1 EXCEPT !.told = e.mem.ver]
<1>1. e.mem.ver \in BOOLEAN
  BY DEF Engine, Record
<1>2. f2 = senderOn(e)
  BY DEF senderOn
<1>3. /\ f1 \in Engine /\ f1.st = e.st /\ f1.t = e.t /\ f1.late = e.late
      /\ f1.send = TRUE /\ f1.recv = e.recv /\ f1.key = e.key /\ f1.mem = e.mem
  <2>1. f1 \in Engine
    BY Updates
  <2> QED
    BY <2>1 DEF Engine
<1> HIDE DEF f1
<1>4. /\ f2 \in Engine /\ f2.st = f1.st /\ f2.t = f1.t /\ f2.late = f1.late
      /\ f2.send = f1.send /\ f2.told = e.mem.ver
      /\ f2.recv = f1.recv /\ f2.key = f1.key /\ f2.mem = f1.mem
  <2>1. f2 \in Engine
    BY <1>1, <1>3, Updates
  <2> QED
    BY <2>1, <1>3 DEF Engine
<1> QED
  BY <1>2, <1>3, <1>4

LEMMA PrepareIs ==
  ASSUME NEW p \in Parties, NEW e \in Engine, rec[p] \in Record
  PROVE  LET f == prepareCommit(p, e) IN
         /\ f \in Engine /\ f.st = e.st /\ f.t = e.t /\ f.late = e.late
         /\ f.mem = rec[p] /\ f.key = e.key
         /\ f.send = e.send /\ f.recv = e.recv
<1> DEFINE f1 == [e EXCEPT !.mem = rec[p]]
           f2 == [f1 EXCEPT !.read = TRUE]
<1>1. f2 = prepareCommit(p, e)
  BY DEF prepareCommit
<1>2. /\ f1 \in Engine /\ f1.st = e.st /\ f1.t = e.t /\ f1.late = e.late
      /\ f1.mem = rec[p] /\ f1.key = e.key
      /\ f1.send = e.send /\ f1.recv = e.recv
  <2>1. f1 \in Engine
    BY Updates
  <2> QED
    BY <2>1 DEF Engine
<1> HIDE DEF f1
<1>3. f2 \in Engine /\ f2.st = f1.st /\ f2.t = f1.t /\ f2.late = f1.late /\ Kept(f1, f2)
  <2>1. TRUE \in BOOLEAN
    OBVIOUS
  <2>2. f2 \in Engine
    BY <1>2, <2>1, Updates
  <2> QED
    BY <2>2, <1>2 DEF Engine, Kept
<1> QED
  BY <1>1, <1>2, <1>3 DEF Kept

LEMMA RecvIs ==
  ASSUME NEW e \in Engine, NEW x \in BOOLEAN
  PROVE  LET f == [e EXCEPT !.recv = x] IN
         /\ f \in Engine /\ f.st = e.st /\ f.t = e.t /\ f.late = e.late
         /\ f.recv = x /\ f.key = e.key /\ f.mem = e.mem
         /\ f.send = e.send /\ f.told = e.told
<1>1. [e EXCEPT !.recv = x] \in Engine
  BY Updates
<1> QED
  BY <1>1 DEF Engine

\* OnTimer takes the request that was under way, and a resend starts another.
LEMMA LateIs ==
  ASSUME NEW e \in Engine, NEW x \in BOOLEAN
  PROVE  LET f == [e EXCEPT !.late = x] IN
         f \in Engine /\ f.st = e.st /\ f.t = e.t /\ f.late = x /\ Kept(e, f)
<1>1. [e EXCEPT !.late = x] \in Engine
  BY Updates
<1> QED
  BY <1>1 DEF Engine, Kept

LEMMA RequestIs ==
  ASSUME NEW e \in Engine, NEW t \in 0 .. 2
  PROVE  LET f == [e EXCEPT !.t = t] IN
         f \in Engine /\ f.st = e.st /\ f.t = t /\ f.late = e.late /\ Kept(e, f)
<1>1. [e EXCEPT !.t = t] \in Engine
  BY Updates
<1> QED
  BY <1>1 DEF Engine, Kept

LEMMA CountIs ==
  ASSUME NEW e \in Engine, NEW n \in 0 .. MaxResend
  PROVE  LET f == [e EXCEPT !.n = n] IN
         f \in Engine /\ f.st = e.st /\ f.t = e.t /\ f.late = e.late /\ Kept(e, f)
<1>1. [e EXCEPT !.n = n] \in Engine
  BY Updates
<1> QED
  BY <1>1 DEF Engine, Kept

----------------------------------------------------------------------------
(* Secrets.                                                                *)

LEMMA SameIds ==
  ASSUME NEW r \in Record, NEW s \in Record, SameSecrets(r, s)
  PROVE  Ids(r) = Ids(s) /\ \A ids : MatchingSecret(r, ids) = MatchingSecret(s, ids)
  BY DEF SameSecrets, Ids, MatchingSecret

\* The two parties find the same secret in common, as each keeps its secrets in
\* the order of the calls (computeSharedSecretSet, generateKeysInitiator).
LEMMA MatchingIsMutual ==
  ASSUME NEW r \in Record, NEW s \in Record, InOrder(r), InOrder(s)
  PROVE  MatchingSecret(r, Ids(s)) = MatchingSecret(s, Ids(r))
<1>1. /\ r.rs1 \in Int /\ r.rs2 \in Int /\ s.rs1 \in Int /\ s.rs2 \in Int
      /\ r.rs1 \in Secrets /\ r.rs2 \in Secrets /\ s.rs1 \in Secrets /\ s.rs2 \in Secrets
  BY DEF Record, Secrets
<1> DEFINE In1(x, y) == (y.v1 /\ x = y.rs1) \/ (y.v2 /\ x = y.rs2)
<1>2. \A x \in Secrets : /\ x \in Ids(s) <=> In1(x, s)
                         /\ x \in Ids(r) <=> In1(x, r)
  BY DEF Ids
<1> QED
  BY <1>1, <1>2 DEF MatchingSecret, InOrder

----------------------------------------------------------------------------
(* Steps of one engine.                                                    *)

IInv == Typed /\ AgreeInv

\* The engine e of p, with its record, and the engine f of its peer.
Joint(p, e, f, r, c) == /\ Alone(p, e, r, c) /\ Ahead(p, e, f)
                        /\ Ahead(Peer(p), f, e) /\ Agree(e, f)

LEMMA Facts ==
  ASSUME IInv, NEW p \in Parties
  PROVE  /\ eng[p] \in Engine /\ eng[Peer(p)] \in Engine /\ Requests(eng[p])
         /\ rec[p] \in Record /\ Joint(p, eng[p], eng[Peer(p)], rec[p], call)
         /\ Alone(Peer(p), eng[Peer(p)], rec[Peer(p)], call)
         /\ call \in Secrets /\ call \in Nat /\ net \subseteq Packet
         /\ \A m \in net : /\ m.from = p => Sent(m, eng[p], eng[Peer(p)])
                           /\ m.from # p => m.from = Peer(p) /\ Sent(m, eng[Peer(p)], eng[p])
<1>1. Peer(p) \in Parties /\ Peer(p) # p /\ Peer(Peer(p)) = p
  BY PeerFacts
<1>2. /\ eng[p] \in Engine /\ eng[Peer(p)] \in Engine /\ Requests(eng[p])
      /\ rec[p] \in Record /\ call \in Secrets /\ call \in Nat /\ net \subseteq Packet
  BY <1>1 DEF IInv, Typed, TypeOK, Secrets
<1>3. Joint(p, eng[p], eng[Peer(p)], rec[p], call)
      /\ Alone(Peer(p), eng[Peer(p)], rec[Peer(p)], call)
  BY <1>1 DEF IInv, AgreeInv, Joint
<1>4. ASSUME NEW m \in net
      PROVE  /\ m.from = p => Sent(m, eng[p], eng[Peer(p)])
             /\ m.from # p => m.from = Peer(p) /\ Sent(m, eng[Peer(p)], eng[p])
  <2>1. m.from \in Parties
    BY <1>2 DEF Packet
  <2>2. Sent(m, eng[m.from], eng[Peer(m.from)])
    BY DEF IInv, AgreeInv
  <2> QED
    BY <1>1, <2>1, <2>2, PeerFacts
<1> QED
  BY <1>2, <1>3, <1>4

\* A step of p that changes its engine to e and sends the packets of out.
Turn(p, e, out) ==
  /\ eng' = [eng EXCEPT ![p] = e] /\ net' \subseteq net \cup out
  /\ UNCHANGED <<call, hi, half>> /\ pressed' \subseteq Parties
  /\ faults' \in 0 .. MaxFaults /\ kills' \in 0 .. faults'

\* What has to be shown of it.
LEMMA Step ==
  ASSUME IInv, NEW p \in Parties, NEW e \in Engine, Requests(e), NEW out \in SUBSET Packet,
         Turn(p, e, out),
         rec' \in [Parties -> Record], rec'[Peer(p)] = rec[Peer(p)],
         Joint(p, e, eng[Peer(p)], rec'[p], call),
         \A m \in net \cup out : m.from = p => Sent(m, e, eng[Peer(p)]),
         \A m \in net : m.from # p => Sent(m, eng[Peer(p)], e),
         \A m \in out : m.from = p
  PROVE  IInv'
<1> DEFINE q == Peer(p)
<1>1. q \in Parties /\ q # p /\ Peer(q) = p /\ \A x \in Parties : x = p \/ x = q
  BY PeerFacts
<1>2. eng \in [Parties -> Engine] /\ net \subseteq Packet
  BY DEF IInv, Typed, TypeOK
<1>3. eng' \in [Parties -> Engine] /\ eng'[p] = e /\ eng'[q] = eng[q]
  BY <1>1, <1>2 DEF Turn
<1>4. TypeOK'
  BY <1>2, <1>3 DEF IInv, Typed, TypeOK, Turn
<1>5. Requests(eng'[p]) /\ Requests(eng'[q])
  BY <1>1, <1>3 DEF IInv, Typed
<1>6. Typed'
  BY <1>1, <1>4, <1>5 DEF Typed
<1>7. ASSUME NEW x \in Parties
      PROVE  /\ Alone(x, eng'[x], rec'[x], call')
             /\ Ahead(x, eng'[x], eng'[Peer(x)])
             /\ Agree(eng'[x], eng'[Peer(x)])
  <2>1. CASE x = p
    BY <1>3, <2>1 DEF Joint, Turn
  <2>2. CASE x = q
    <3>1. Alone(q, eng'[q], rec'[q], call')
      BY <1>1, <1>3 DEF IInv, AgreeInv, Turn
    <3>2. Ahead(q, eng'[q], eng'[p]) /\ Agree(eng'[q], eng'[p])
      BY <1>3 DEF Joint, Agree
    <3> QED
      BY <1>1, <2>2, <3>1, <3>2
  <2> QED
    BY <1>1, <2>1, <2>2
<1>8. ASSUME NEW m \in net'
      PROVE  Sent(m, eng'[m.from], eng'[Peer(m.from)])
  <2>1. m \in Packet /\ m \in net \cup out
    BY <1>2 DEF Turn
  <2>2. m.from \in Parties
    BY <2>1 DEF Packet
  <2>3. CASE m.from = p
    BY <1>1, <1>3, <2>1, <2>3
  <2>4. CASE m.from = q
    BY <1>1, <1>3, <2>1, <2>4
  <2> QED
    BY <1>1, <2>2, <2>3, <2>4
<1> QED
  BY <1>6, <1>7, <1>8 DEF IInv, AgreeInv

\* The packet that a state repeats is right.
LEMMA SentIs ==
  ASSUME NEW p \in Parties, NEW e \in Engine, NEW f \in Engine, e.st \in Sending,
         NEW r, NEW c, Joint(p, e, f, r, c)
  PROVE  LET m == SentPacket(p, e) IN m \in Packet /\ m.from = p /\ Sent(m, e, f)
<1> DEFINE m == SentPacket(p, e)
<1>1. m \in Packet
  BY SentPacketType
<1>2. CASE e.st \in {"Detect", "AckSent", "WaitCommit", "CommitSent"}
  <2>1. \E type \in {"Hello", "HelloAck", "Commit"} : m = Plain(p, type)
    BY <1>2, SentPacketIs
  <2>2. m.from = p /\ m.type \in {"Hello", "HelloAck", "Commit"}
    BY <2>1 DEF Plain
  <2> QED
    BY <1>1, <2>2 DEF Sent
<1>3. CASE e.st = "WaitDHPart2"
  <2>1. m = DHPart(p, "DHPart1", e)
    BY <1>3, SentPacketIs
  <2>2. m.from = p /\ m.type = "DHPart1" /\ m.ids = Ids(e.mem)
    BY <2>1 DEF DHPart, Plain
  <2> QED
    BY <1>1, <1>3, <2>2 DEF Sent
<1>4. CASE e.st = "WaitConfirm1"
  <2>1. m = DHPart(p, "DHPart2", e)
    BY <1>4, SentPacketIs
  <2>2. m.from = p /\ m.type = "DHPart2" /\ m.ids = Ids(e.mem)
    BY <2>1 DEF DHPart, Plain
  <2> QED
    BY <1>1, <1>4, <2>2 DEF Sent, Joint, Alone, Ahead
<1>5. CASE e.st = "WaitConfirm2"
  <2>1. m = Confirm(p, "Confirm1", e)
    BY <1>5, SentPacketIs
  <2>2. m.from = p /\ m.type = "Confirm1" /\ m.key = e.key /\ m.ver = e.mem.ver
    BY <2>1 DEF Confirm, Plain
  <2> QED
    BY <1>1, <1>5, <2>2 DEF Sent, Joint, Alone
<1>6. CASE e.st = "WaitConfAck"
  <2>1. m = Confirm(p, "Confirm2", e)
    BY <1>6, SentPacketIs
  <2>2. m.from = p /\ m.type = "Confirm2" /\ m.key = e.key /\ m.ver = e.mem.ver
    BY <2>1 DEF Confirm, Plain
  <2> QED
    BY <1>1, <1>6, <2>2 DEF Sent, Joint, Alone
<1>7. CASE e.st = "SecureState"
  <2>1. m = Plain(p, "Conf2Ack")
    BY <1>7, SentPacketIs
  <2>2. m.from = p /\ m.type = "Conf2Ack"
    BY <2>1 DEF Plain
  <2> QED
    BY <1>1, <1>7, <2>2 DEF Sent
<1> QED
  BY <1>2, <1>3, <1>4, <1>5, <1>6, <1>7 DEF Sending

\* A step that leaves the key agreement where it is.
LEMMA Quiet ==
  ASSUME NEW p \in Parties, NEW e \in Engine, NEW f \in Engine, NEW g \in Engine,
         NEW r, NEW c, Joint(p, e, f, r, c), Kept(e, g), g.st = e.st
  PROVE  /\ Joint(p, g, f, r, c)
         /\ \A m : Sent(m, e, f) => Sent(m, g, f)
         /\ \A m : Sent(m, f, e) => Sent(m, f, g)
<1>1. Alone(p, g, r, c)
  BY DEF Joint, Kept, Alone
<1>2. Ahead(p, g, f)
  BY DEF Joint, Kept, Ahead
<1>3. Ahead(Peer(p), f, g)
  BY DEF Joint, Kept, Ahead
<1>4. Agree(g, f)
  BY DEF Joint, Kept, Agree
<1>5. \A m : Sent(m, e, f) => Sent(m, g, f)
  BY DEF Kept, Sent
<1>6. \A m : Sent(m, f, e) => Sent(m, f, g)
  BY DEF Kept, Sent
<1> QED
  BY <1>1, <1>2, <1>3, <1>4, <1>5, <1>6 DEF Joint

\* A step before there is anything of the key agreement: the peer has no key.
LEMMA Early ==
  ASSUME NEW p \in Parties, NEW e \in Engine, NEW f \in Engine, NEW g \in Engine,
         NEW r \in Record, NEW c \in Nat, Joint(p, e, f, r, c),
         e.st \in Young, g.st \in Young,
         g.key = e.key, g.send = e.send, g.recv = e.recv, g.mem \in {e.mem, r}
  PROVE  /\ Joint(p, g, f, r, c)
         /\ \A m : Sent(m, e, f) => Sent(m, g, f)
         /\ \A m : Sent(m, f, e) => Sent(m, f, g)
<1>1. e.key = NoKey /\ f.key = NoKey
  BY DEF Joint, Alone, Ahead, Young, Unkeyed, Dead
<1>2. Alone(p, g, r, c)
  BY <1>1 DEF Joint, Alone, Young, Unkeyed, Unsaved
<1>3. Ahead(p, g, f)
  BY <1>1 DEF Ahead, Young
<1>4. Ahead(Peer(p), f, g)
  <2>1. f.st # "SecureState"
    BY DEF Joint, Ahead, Young, Dead
  <2> QED
    BY <1>1, <2>1 DEF Ahead, Young
<1>5. Agree(g, f)
  BY <1>1 DEF Agree, Young
<1>6. \A m : Sent(m, e, f) => Sent(m, g, f)
  BY <1>1 DEF Sent, Young, Dead
<1>7. \A m : Sent(m, f, e) => Sent(m, f, g)
  BY <1>1 DEF Sent, Young, Dead
<1> QED
  BY <1>2, <1>3, <1>4, <1>5, <1>6, <1>7 DEF Joint

LEMMA QuietStep ==
  ASSUME IInv, NEW p \in Parties, NEW e \in Engine, Requests(e), NEW out \in SUBSET Packet,
         Turn(p, e, out), UNCHANGED rec,
         Kept(eng[p], e), e.st = eng[p].st,
         \A m \in out : m.from = p /\ Sent(m, eng[p], eng[Peer(p)])
  PROVE  IInv'
<1>1. rec' \in [Parties -> Record] /\ rec'[p] = rec[p] /\ rec'[Peer(p)] = rec[Peer(p)]
  BY DEF IInv, Typed, TypeOK
<1>2. /\ Joint(p, e, eng[Peer(p)], rec[p], call)
      /\ \A m : Sent(m, eng[p], eng[Peer(p)]) => Sent(m, e, eng[Peer(p)])
      /\ \A m : Sent(m, eng[Peer(p)], eng[p]) => Sent(m, eng[Peer(p)], e)
  BY Facts, Quiet
<1>3. /\ \A m \in net \cup out : m.from = p => Sent(m, e, eng[Peer(p)])
      /\ \A m \in net : m.from # p => Sent(m, eng[Peer(p)], e)
  BY <1>2, Facts
<1> QED
  BY <1>1, <1>2, <1>3, Step

LEMMA EarlyStep ==
  ASSUME IInv, NEW p \in Parties, NEW e \in Engine, Requests(e), NEW out \in SUBSET Packet,
         Turn(p, e, out), UNCHANGED rec,
         eng[p].st \in Young, e.st \in Young, e.key = eng[p].key,
         e.send = eng[p].send, e.recv = eng[p].recv, e.mem \in {eng[p].mem, rec[p]},
         \A m \in out : m.from = p /\ m.type \in {"Hello", "HelloAck", "Commit"}
  PROVE  IInv'
<1>1. rec' \in [Parties -> Record] /\ rec'[p] = rec[p] /\ rec'[Peer(p)] = rec[Peer(p)]
  BY DEF IInv, Typed, TypeOK
<1>2. /\ Joint(p, e, eng[Peer(p)], rec[p], call)
      /\ \A m : Sent(m, eng[p], eng[Peer(p)]) => Sent(m, e, eng[Peer(p)])
      /\ \A m : Sent(m, eng[Peer(p)], eng[p]) => Sent(m, eng[Peer(p)], e)
  BY Facts, Early
<1>3. \A m \in out : Sent(m, e, eng[Peer(p)])
  BY DEF Sent
<1>4. /\ \A m \in net \cup out : m.from = p => Sent(m, e, eng[Peer(p)])
      /\ \A m \in net : m.from # p => Sent(m, eng[Peer(p)], e)
  BY <1>2, <1>3, Facts
<1> QED
  BY <1>1, <1>2, <1>3, <1>4, Step

\* The engine of p fails or ends.
LEMMA DeadStep ==
  ASSUME IInv, NEW p \in Parties, NEW e \in Engine, Requests(e), NEW out \in SUBSET Packet,
         Turn(p, e, out),
         rec' \in [Parties -> Record], rec'[Peer(p)] = rec[Peer(p)],
         InOrder(rec'[p]), rec'[p].rs1 <= call, InOrder(e.mem), e.mem.rs1 <= call,
         ~e.send, ~e.recv,
         \/ e.st = "Initial" /\ e.key = eng[p].key /\ eng[p].st \notin {"SecureState", "Stopped"}
         \/ e.st = "Stopped" /\ e.key = NoKey,
         \A m \in out : m.from = p /\ Sent(m, eng[p], eng[Peer(p)])
  PROVE  IInv'
<1> DEFINE f == eng[Peer(p)]
<1>1. Joint(p, eng[p], f, rec[p], call)
  BY Facts
<1> HIDE DEF f
<1>2. Alone(p, e, rec'[p], call)
  BY DEF Alone, Unkeyed, Unsaved, Young
<1>3. Ahead(p, e, f)
  BY <1>1 DEF Joint, Ahead
<1>4. Ahead(Peer(p), f, e)
  BY <1>1 DEF Joint, Ahead, Dead
<1>5. Agree(e, f)
  BY <1>1 DEF Joint, Agree
<1>6. /\ \A m : Sent(m, eng[p], f) => Sent(m, e, f)
      /\ \A m : Sent(m, f, eng[p]) => Sent(m, f, e)
  BY DEF Sent, Dead
<1>7. /\ \A m \in net \cup out : m.from = p => Sent(m, e, f)
      /\ \A m \in net : m.from # p => Sent(m, f, e)
  BY <1>6, Facts DEF f
<1> QED
  BY <1>2, <1>3, <1>4, <1>5, <1>7, Step DEF Joint, f

----------------------------------------------------------------------------
(* The actions.                                                            *)

LEMMA HandleTurn ==
  ASSUME IInv, NEW p, NEW m, NEW e, NEW out, Handle(p, m, e, out)
  PROVE  Turn(p, e, out)
  BY DEF Handle, Turn, histVars, faultVars, IInv, Typed, TypeOK

LEMMA PlainIs ==
  ASSUME NEW p \in Parties, NEW type \in Types
  PROVE  Plain(p, type) \in Packet /\ Plain(p, type).from = p /\ Plain(p, type).type = type
<1>1. NewEngine \in Engine
  BY RecordTypes
<1>2. Plain(p, type) \in Packet
  BY <1>1, PacketTypes
<1> QED
  BY <1>2 DEF Plain

\* Packets of the discovery and Commits change nothing that has been agreed.
LEMMA DiscoveryInv ==
  ASSUME IInv, NEW p \in Parties, NEW m \in net,
         \/ DetectHelloAck(p, m) \/ DetectHello(p, m) \/ AckSentHello(p, m)
         \/ AckDetectedHello(p, m) \/ AckSentHelloAck(p, m) \/ CommitClash(p, m)
  PROVE  IInv'
<1> DEFINE e0 == eng[p]
           e1 == cancelTimer(e0)
           e2 == startTimer(e1)
           e3 == prepareCommit(p, e2)
           e4 == prepareCommit(p, e0)
<1>1. e0 \in Engine /\ Requests(e0) /\ rec[p] \in Record
  BY Facts
<1>2. e1 \in Engine /\ e1.st = e0.st /\ e1.t = 0 /\ e1.late = e0.late /\ Kept(e0, e1)
  BY <1>1, CancelIs
<1>3. e2 \in Engine /\ e2.st = e0.st /\ e2.t = 1 /\ e2.late = e0.late /\ Kept(e0, e2)
  BY <1>2, StartIs DEF Kept
<1>4. /\ e3 \in Engine /\ e3.st = e0.st /\ e3.t = 1 /\ e3.late = e0.late
      /\ e3.mem = rec[p] /\ e3.key = e0.key /\ e3.send = e0.send /\ e3.recv = e0.recv
  BY <1>1, <1>3, PrepareIs DEF Kept
<1>5. /\ e4 \in Engine /\ e4.st = e0.st /\ e4.t = e0.t /\ e4.late = e0.late
      /\ e4.mem = rec[p] /\ e4.key = e0.key /\ e4.send = e0.send /\ e4.recv = e0.recv
  BY <1>1, PrepareIs
<1> HIDE DEF e0, e1, e2, e3, e4
<1>6. CASE DetectHelloAck(p, m)
  <2> DEFINE e == nextState(e1, "AckDetected")
  <2>1. /\ e \in Engine /\ e.st = "AckDetected" /\ e.t = 0 /\ e.late = e0.late /\ Kept(e1, e)
    BY <1>2, NextStateIs DEF States
  <2>2. e0.st = "Detect" /\ Turn(p, e, {}) /\ UNCHANGED rec
    BY <1>6, HandleTurn DEF DetectHelloAck, In, e0, e1
  <2> HIDE DEF e
  <2>3. Requests(e)
    BY <2>1, <1>1 DEF Requests, Engine
  <2> QED
    BY <1>2, <2>1, <2>2, <2>3, EarlyStep DEF e0, Kept, Young
<1>7. CASE DetectHello(p, m)
  <2> DEFINE e == nextState(e3, "AckSent")
  <2>1. /\ e \in Engine /\ e.st = "AckSent" /\ e.t = 1 /\ e.late = e0.late /\ Kept(e3, e)
    BY <1>4, NextStateIs DEF States
  <2>2. e0.st = "Detect" /\ Turn(p, e, {Plain(p, "HelloAck")}) /\ UNCHANGED rec
    BY <1>7, HandleTurn DEF DetectHello, In, e0, e1, e2, e3
  <2> HIDE DEF e
  <2>3. Requests(e)
    BY <2>1, <1>1 DEF Requests, Engine
  <2>4. Plain(p, "HelloAck") \in Packet /\ Plain(p, "HelloAck").from = p
        /\ Plain(p, "HelloAck").type = "HelloAck"
    BY PlainIs DEF Types
  <2> QED
    BY <1>4, <2>1, <2>2, <2>3, <2>4, EarlyStep DEF e0, Kept, Young
<1>8. CASE AckSentHello(p, m)
  <2>1. e0.st = "AckSent" /\ Turn(p, e0, {Plain(p, "HelloAck")}) /\ UNCHANGED rec
    BY <1>8, HandleTurn DEF AckSentHello, In, e0
  <2>2. Plain(p, "HelloAck") \in Packet /\ Plain(p, "HelloAck").from = p
        /\ Plain(p, "HelloAck").type = "HelloAck"
    BY PlainIs DEF Types
  <2> QED
    BY <1>1, <2>1, <2>2, EarlyStep DEF e0, Young
<1>9. CASE AckDetectedHello(p, m)
  <2> DEFINE e == nextState(e4, "WaitCommit")
  <2>1. /\ e \in Engine /\ e.st = "WaitCommit" /\ e.t = e0.t /\ e.late = e0.late /\ Kept(e4, e)
    BY <1>5, NextStateIs DEF States
  <2>2. e0.st = "AckDetected" /\ Turn(p, e, {SentPacket(p, e)}) /\ UNCHANGED rec
    BY <1>9, HandleTurn DEF AckDetectedHello, In, e0, e4
  <2> HIDE DEF e
  <2>3. Requests(e)
    BY <2>1, <1>1 DEF Requests, Engine
  <2>4. SentPacket(p, e) \in Packet /\ SentPacket(p, e).from = p
        /\ SentPacket(p, e).type = "HelloAck"
    BY <2>1, SentPacketIs, PlainIs DEF Types
  <2> QED
    BY <1>5, <2>1, <2>2, <2>3, <2>4, EarlyStep DEF e0, Kept, Young
<1>10. CASE AckSentHelloAck(p, m)
  <2> DEFINE e == nextState(e2, "CommitSent")
  <2>1. /\ e \in Engine /\ e.st = "CommitSent" /\ e.t = 1 /\ e.late = e0.late /\ Kept(e2, e)
    BY <1>3, NextStateIs DEF States
  <2>2. e0.st = "AckSent" /\ Turn(p, e, {SentPacket(p, e)}) /\ UNCHANGED rec
    BY <1>10, HandleTurn DEF AckSentHelloAck, In, e0, e1, e2
  <2> HIDE DEF e
  <2>3. Requests(e)
    BY <2>1, <1>1 DEF Requests, Engine
  <2>4. SentPacket(p, e) \in Packet /\ SentPacket(p, e).from = p
        /\ SentPacket(p, e).type = "Commit"
    BY <2>1, SentPacketIs, PlainIs DEF Types
  <2> QED
    BY <1>3, <2>1, <2>2, <2>3, <2>4, EarlyStep DEF e0, Kept, Young
<1>11. CASE CommitClash(p, m)
  <2>1. e0.st = "CommitSent" /\ Turn(p, e2, {}) /\ UNCHANGED rec
    BY <1>11, HandleTurn DEF CommitClash, In, e0, e1, e2
  <2>2. Requests(e2)
    BY <1>3, <1>1, <2>1 DEF Requests, Engine
  <2> QED
    BY <1>3, <2>1, <2>2, QuietStep DEF e0
<1> QED
  BY <1>6, <1>7, <1>8, <1>9, <1>10, <1>11

LEMMA BecomeResponderInv ==
  ASSUME IInv, NEW p \in Parties, NEW m \in net, BecomeResponder(p, m)
  PROVE  IInv'
<1> DEFINE e0 == eng[p]
           f == eng[Peer(p)]
           e1 == cancelTimer(e0)
           e == nextState(e1, "WaitDHPart2")
<1>1. /\ e0 \in Engine /\ f \in Engine /\ Requests(e0) /\ Joint(p, e0, f, rec[p], call)
      /\ Alone(Peer(p), f, rec[Peer(p)], call)
  BY Facts
<1>2. e1 \in Engine /\ e1.st = e0.st /\ e1.t = 0 /\ e1.late = e0.late /\ Kept(e0, e1)
  BY <1>1, CancelIs
<1>3. e \in Engine /\ e.st = "WaitDHPart2" /\ e.t = 0 /\ e.late = e0.late /\ Kept(e0, e)
  BY <1>2, NextStateIs DEF States, Kept
<1>4. e0.st \in {"AckSent", "WaitCommit", "CommitSent"}
      /\ Turn(p, e, {SentPacket(p, e)}) /\ UNCHANGED rec
  BY HandleTurn DEF BecomeResponder, In
<1>5. rec' \in [Parties -> Record] /\ rec'[p] = rec[p] /\ rec'[Peer(p)] = rec[Peer(p)]
  BY <1>4 DEF IInv, Typed, TypeOK
<1> HIDE DEF e, e1
<1>6. Requests(e)
  BY <1>1, <1>3 DEF Requests, Engine
<1>7. e0.key = NoKey /\ f.key = NoKey /\ f.st \notin {"WaitConfirm1", "WaitConfAck", "SecureState"}
  BY <1>1, <1>4 DEF Joint, Alone, Ahead, Unkeyed, Young, Dead
<1>8. Joint(p, e, f, rec[p], call)
  <2>1. Alone(p, e, rec[p], call)
    BY <1>1, <1>3, <1>4, <1>7 DEF Joint, Alone, Kept, Unkeyed, Unsaved, Young
  <2>2. Ahead(p, e, f) /\ Agree(e, f)
    BY <1>3, <1>7 DEF Ahead, Agree, Kept
  <2>3. Ahead(Peer(p), f, e)
    BY <1>3, <1>7 DEF Ahead
  <2> QED
    BY <2>1, <2>2, <2>3 DEF Joint
<1>9. SentPacket(p, e) \in Packet /\ SentPacket(p, e).from = p /\ Sent(SentPacket(p, e), e, f)
  BY <1>1, <1>3, <1>8, SentIs DEF Sending
<1>10. /\ \A x : Sent(x, e0, f) => Sent(x, e, f)
       /\ \A x : Sent(x, f, e0) => Sent(x, f, e)
  BY <1>3, <1>4, <1>7 DEF Sent, Kept, Dead
<1>11. /\ \A x \in net \cup {SentPacket(p, e)} : x.from = p => Sent(x, e, f)
       /\ \A x \in net : x.from # p => Sent(x, f, e)
  BY <1>9, <1>10, Facts
<1> QED
  BY <1>3, <1>4, <1>5, <1>6, <1>8, <1>9, <1>11, Step

LEMMA PacketIs ==
  ASSUME IInv, NEW p \in Parties, NEW m \in net
  PROVE  m \in Packet /\ m.ids \in SUBSET Secrets
         /\ (m.from # p => m.from = Peer(p) /\ Sent(m, eng[Peer(p)], eng[p]))
  BY Facts DEF Packet

\* The initiator has a key: the responder has none yet, and will find the same
\* secret.
LEMMA CommitSentDHPart1Inv ==
  ASSUME IInv, NEW p \in Parties, NEW m \in net, CommitSentDHPart1(p, m)
  PROVE  IInv'
<1> DEFINE e0 == eng[p]
           f == eng[Peer(p)]
           e1 == generateKeys(e0, p, m.ids)
           e2 == cancelTimer(e1)
           e3 == startTimer(e2)
           e == nextState(e3, "WaitConfirm1")
<1>1. /\ e0 \in Engine /\ f \in Engine /\ Requests(e0) /\ Joint(p, e0, f, rec[p], call)
      /\ Alone(Peer(p), f, rec[Peer(p)], call)
  BY Facts
<1>2. /\ e0.st = "CommitSent" /\ m.type = "DHPart1" /\ m.from # p
      /\ Turn(p, e, {SentPacket(p, e)}) /\ UNCHANGED rec
  BY HandleTurn DEF CommitSentDHPart1, In, Handle
<1>3. m \in Packet /\ m.ids \in SUBSET Secrets /\ Sent(m, f, e0)
  BY <1>2, PacketIs
<1>4. /\ e1 \in Engine /\ e1.st = e0.st /\ e1.late = e0.late
      /\ e1.send = e0.send /\ e1.recv = e0.recv
      /\ e1.key = [ini |-> p, s1 |-> MatchingSecret(e0.mem, m.ids)]
      /\ e1.key \in Keys /\ SameSecrets(e0.mem, e1.mem)
  BY <1>1, <1>3, GenerateIs
<1> HIDE DEF e1
<1>5. e2 \in Engine /\ e2.t = 0 /\ e2.late = e0.late /\ Kept(e1, e2)
  BY <1>4, CancelIs
<1> HIDE DEF e2
<1>6. e3 \in Engine /\ e3.t = 1 /\ e3.late = e0.late /\ Kept(e1, e3)
  BY <1>5, StartIs DEF Kept
<1> HIDE DEF e3
<1>7. e \in Engine /\ e.st = "WaitConfirm1" /\ e.t = 1 /\ e.late = e0.late /\ Kept(e1, e)
  BY <1>6, NextStateIs DEF States, Kept
<1> HIDE DEF e
<1>8. rec' \in [Parties -> Record] /\ rec'[p] = rec[p] /\ rec'[Peer(p)] = rec[Peer(p)]
  BY <1>2 DEF IInv, Typed, TypeOK
<1>9. Requests(e)
  BY <1>1, <1>2, <1>7 DEF Requests, Engine
<1>10. /\ e.key = [ini |-> p, s1 |-> MatchingSecret(e0.mem, m.ids)] /\ e.key \in Keys
       /\ e.key # NoKey /\ e.key.ini = p /\ e.key.s1 = MatchingSecret(e0.mem, m.ids)
       /\ SameSecrets(e0.mem, e.mem) /\ e.send = e0.send /\ e.recv = e0.recv
  BY <1>4, <1>7, KeyFacts DEF Kept
<1>11. f.key = NoKey /\ f.st \in {"WaitDHPart2", "Initial", "Stopped"}
  <2>1. f.key = NoKey /\ f.st # "SecureState"
    BY <1>1, <1>2 DEF Joint, Ahead, Dead
  <2> QED
    BY <1>1, <1>2, <1>3, <2>1 DEF Alone, Sent, Dead
<1>12. f.st = "WaitDHPart2" => e.key.s1 = MatchingSecret(f.mem, Ids(e.mem))
  <2>1. SUFFICES ASSUME f.st = "WaitDHPart2"
                 PROVE  e.key.s1 = MatchingSecret(f.mem, Ids(e.mem))
    OBVIOUS
  <2>2. e0.mem \in Record /\ e.mem \in Record /\ f.mem \in Record
    BY <1>1, <1>7 DEF Engine
  <2>3. m.ids = Ids(f.mem)
    BY <1>2, <1>3, <2>1 DEF Sent
  <2>4. Ids(e0.mem) = Ids(e.mem)
    BY <1>10, <2>2, SameIds
  <2>5. MatchingSecret(e0.mem, Ids(f.mem)) = MatchingSecret(f.mem, Ids(e0.mem))
    BY <1>1, <2>2, MatchingIsMutual DEF Joint, Alone
  <2> QED
    BY <1>10, <2>3, <2>4, <2>5
<1>13. Joint(p, e, f, rec[p], call)
  <2>1. Alone(p, e, rec[p], call)
    BY <1>1, <1>2, <1>7, <1>10
       DEF Joint, Alone, Unkeyed, Unsaved, Young, SameSecrets, InOrder
  <2>2. Ahead(p, e, f)
    BY <1>7, <1>10, <1>11, <1>12 DEF Ahead, Dead
  <2>3. Ahead(Peer(p), f, e)
    BY <1>7, <1>11 DEF Ahead
  <2>4. Agree(e, f)
    BY <1>11 DEF Agree
  <2> QED
    BY <2>1, <2>2, <2>3, <2>4 DEF Joint
<1>14. SentPacket(p, e) \in Packet /\ SentPacket(p, e).from = p /\ Sent(SentPacket(p, e), e, f)
  BY <1>1, <1>7, <1>13, SentIs DEF Sending
<1>15. /\ \A x : Sent(x, e0, f) => Sent(x, e, f)
       /\ \A x : Sent(x, f, e0) => Sent(x, f, e)
  BY <1>2, <1>7, <1>11 DEF Sent, Dead
<1>16. /\ \A x \in net \cup {SentPacket(p, e)} : x.from = p => Sent(x, e, f)
       /\ \A x \in net : x.from # p => Sent(x, f, e)
  BY <1>14, <1>15, Facts
<1> QED
  BY <1>2, <1>7, <1>8, <1>9, <1>13, <1>14, <1>16, Step

\* The responder has a key: it is the one of the initiator.
LEMMA WaitDHPart2DHPart2Inv ==
  ASSUME IInv, NEW p \in Parties, NEW m \in net, WaitDHPart2DHPart2(p, m)
  PROVE  IInv'
<1> DEFINE q == Peer(p)
           e0 == eng[p]
           f == eng[q]
           e1 == generateKeys(e0, q, m.ids)
           e == nextState(e1, "WaitConfirm2")
<1>0. q \in Parties /\ q # p /\ Peer(q) = p
  BY PeerFacts
<1>1. /\ e0 \in Engine /\ f \in Engine /\ Requests(e0) /\ Joint(p, e0, f, rec[p], call)
      /\ Alone(q, f, rec[q], call)
  BY Facts
<1>2. /\ e0.st = "WaitDHPart2" /\ m.type = "DHPart2" /\ m.from # p
      /\ Turn(p, e, {SentPacket(p, e)}) /\ UNCHANGED rec
  BY HandleTurn DEF WaitDHPart2DHPart2, In, Handle
<1>3. m \in Packet /\ m.ids \in SUBSET Secrets /\ m.from = q /\ Sent(m, f, e0)
  BY <1>2, PacketIs
<1>4. /\ e1 \in Engine /\ e1.t = e0.t /\ e1.late = e0.late
      /\ e1.send = e0.send /\ e1.recv = e0.recv
      /\ e1.key = [ini |-> q, s1 |-> MatchingSecret(e0.mem, m.ids)]
      /\ e1.key \in Keys /\ SameSecrets(e0.mem, e1.mem)
  BY <1>0, <1>1, <1>3, GenerateIs
<1> HIDE DEF e1
<1>5. e \in Engine /\ e.st = "WaitConfirm2" /\ e.t = e0.t /\ e.late = e0.late /\ Kept(e1, e)
  BY <1>4, NextStateIs DEF States
<1> HIDE DEF e
<1>6. rec' \in [Parties -> Record] /\ rec'[p] = rec[p] /\ rec'[q] = rec[q]
  BY <1>0, <1>2 DEF IInv, Typed, TypeOK
<1>7. Requests(e)
  BY <1>1, <1>2, <1>5 DEF Requests, Engine
<1>8. /\ e.key = [ini |-> q, s1 |-> MatchingSecret(e0.mem, m.ids)] /\ e.key \in Keys
      /\ e.key # NoKey /\ e.key.ini = q
      /\ SameSecrets(e0.mem, e.mem) /\ e.send = e0.send /\ e.recv = e0.recv
  BY <1>4, <1>5, KeyFacts DEF Kept
<1>9. f.key # NoKey => f.key.ini = q /\ f.key.s1 = MatchingSecret(e0.mem, m.ids)
  BY <1>2, <1>3 DEF Sent
<1>10. f.key # NoKey => f.key = e.key
  <2>1. f.key # NoKey => f.key \in Keys
    BY <1>1 DEF Engine
  <2> QED
    BY <1>8, <1>9, <2>1 DEF Keys
<1>11. f.st \in {"WaitConfirm1", "Initial", "Stopped"}
  <2>1. f.st # "WaitConfAck"
    BY <1>1, <1>2 DEF Joint, Ahead
  <2>2. f.st # "SecureState"
    BY <1>0, <1>1, <1>2, <1>9 DEF Joint, Ahead, Alone
  <2> QED
    BY <1>2, <1>3, <2>1, <2>2 DEF Sent, Dead
<1>12. Joint(p, e, f, rec[p], call)
  <2>1. Alone(p, e, rec[p], call)
    BY <1>0, <1>1, <1>2, <1>5, <1>8
       DEF Joint, Alone, Unkeyed, Unsaved, Young, SameSecrets, InOrder
  <2>2. Ahead(p, e, f)
    BY <1>0, <1>5, <1>8, <1>11 DEF Ahead, Dead
  <2>3. Ahead(q, f, e)
    BY <1>5, <1>9, <1>11 DEF Ahead
  <2>4. Agree(e, f)
    BY <1>5, <1>10 DEF Agree
  <2> QED
    BY <2>1, <2>2, <2>3, <2>4 DEF Joint
<1>13. SentPacket(p, e) \in Packet /\ SentPacket(p, e).from = p /\ Sent(SentPacket(p, e), e, f)
  BY <1>1, <1>5, <1>12, SentIs DEF Sending
<1>14. /\ \A x : Sent(x, e0, f) => Sent(x, e, f)
       /\ \A x : Sent(x, f, e0) => Sent(x, f, e)
  BY <1>2, <1>5 DEF Sent, Dead
<1>15. /\ \A x \in net \cup {SentPacket(p, e)} : x.from = p => Sent(x, e, f)
       /\ \A x \in net : x.from # p => Sent(x, f, e)
  BY <1>13, <1>14, Facts
<1> QED
  BY <1>2, <1>5, <1>6, <1>7, <1>12, <1>13, <1>15, Step

LEMMA SaveTypes ==
  ASSUME IInv, NEW p \in Parties, NEW e \in Engine, saveRecord(p, e)
  PROVE  /\ rec' \in [Parties -> Record] /\ rec'[p] \in {rec[p], e.mem}
         /\ rec'[Peer(p)] = rec[Peer(p)]
<1>1. rec \in [Parties -> Record] /\ e.mem \in Record
  BY DEF IInv, Typed, TypeOK, Engine
<1>2. Peer(p) # p /\ Peer(p) \in Parties
  BY PeerFacts
<1> QED
  BY <1>1, <1>2 DEF saveRecord

\* The initiator stores the new secret; the responder has not.
LEMMA WaitConfirm1Confirm1Inv ==
  ASSUME IInv, NEW p \in Parties, NEW m \in net, WaitConfirm1Confirm1(p, m)
  PROVE  IInv'
<1> DEFINE q == Peer(p)
           e0 == eng[p]
           f == eng[q]
           e1 == takeConfirm(e0, m)
           e2 == cancelTimer(e1)
           e3 == startTimer(e2)
           e4 == nextState(e3, "WaitConfAck")
           e == [e4 EXCEPT !.recv = TRUE]
<1>0. q \in Parties /\ q # p /\ Peer(q) = p
  BY PeerFacts
<1>1. /\ e0 \in Engine /\ f \in Engine /\ Requests(e0) /\ Joint(p, e0, f, rec[p], call)
      /\ Alone(q, f, rec[q], call) /\ call \in Secrets /\ call \in Nat
  BY Facts
<1>2. /\ e0.st = "WaitConfirm1" /\ m.type = "Confirm1" /\ m.from # p /\ m.key = e0.key
      /\ Turn(p, e, {SentPacket(p, e)}) /\ saveRecord(p, e)
  BY HandleTurn DEF WaitConfirm1Confirm1, In, Handle
<1>3. m \in Packet /\ m.from = q /\ Sent(m, f, e0)
  BY <1>2, PacketIs
<1>4. /\ e1 \in Engine /\ e1.late = e0.late
      /\ e1.send = e0.send /\ e1.key = e0.key
      /\ e1.mem.rs1 = call /\ e1.mem.rs2 = e0.mem.rs1
      /\ e1.mem.ver <=> (e0.mem.ver /\ m.ver)
  BY <1>1, <1>3, TakeConfirmIs
<1> HIDE DEF e1
<1>5. e2 \in Engine /\ e2.t = 0 /\ e2.late = e0.late /\ Kept(e1, e2)
  BY <1>4, CancelIs
<1> HIDE DEF e2
<1>6. e3 \in Engine /\ e3.t = 1 /\ e3.late = e0.late /\ Kept(e1, e3)
  BY <1>5, StartIs DEF Kept
<1> HIDE DEF e3
<1>7. e4 \in Engine /\ e4.st = "WaitConfAck" /\ e4.t = 1 /\ e4.late = e0.late /\ Kept(e1, e4)
  BY <1>6, NextStateIs DEF States, Kept
<1> HIDE DEF e4
<1>8. /\ e \in Engine /\ e.st = "WaitConfAck" /\ e.t = 1 /\ e.late = e0.late
      /\ e.recv = TRUE /\ e.key = e0.key /\ e.mem = e1.mem /\ e.send = e0.send
  BY <1>4, <1>7, RecvIs DEF Kept
<1> HIDE DEF e
<1>9. /\ rec' \in [Parties -> Record] /\ rec'[p] \in {rec[p], e.mem} /\ rec'[q] = rec[q]
  BY <1>2, <1>8, SaveTypes
<1>10. Requests(e)
  BY <1>1, <1>2, <1>8 DEF Requests, Engine
<1>11. e.key # NoKey /\ e.key.ini = p /\ (f.key # NoKey => f.key = e.key)
  BY <1>1, <1>2, <1>8 DEF Joint, Alone, Agree
<1>12. f.st \in {"WaitConfirm2", "Initial", "Stopped"}
  <2>1. f.st # "SecureState"
    BY <1>0, <1>1, <1>2, <1>11 DEF Joint, Ahead, Alone, Dead
  <2> QED
    BY <1>2, <1>3, <2>1 DEF Sent, Dead
<1>13. Joint(p, e, f, rec'[p], call)
  <2>1. InOrder(e.mem) /\ e.mem.rs1 <= call
    <3>1. e0.mem.rs1 < call
      BY <1>1, <1>2 DEF Joint, Alone, Unsaved
    <3> QED
      BY <1>1, <1>4, <1>8, <3>1 DEF InOrder
  <2>2. InOrder(rec'[p]) /\ rec'[p].rs1 <= call
    BY <1>1, <1>9, <2>1 DEF Joint, Alone
  <2>3. ~e.send
    BY <1>1, <1>2, <1>8 DEF Joint, Alone
  <2>4. Alone(p, e, rec'[p], call)
    BY <1>8, <1>11, <2>1, <2>2, <2>3 DEF Alone, Unkeyed, Unsaved, Young
  <2>5. Ahead(p, e, f)
    <3>1. f.st = "WaitConfirm2" => (m.ver <=> f.mem.ver)
      BY <1>2, <1>3 DEF Sent
    <3>2. f.st = "WaitConfirm2" => (e.mem.ver => f.mem.ver)
      BY <1>4, <1>8, <3>1
    <3> QED
      BY <1>8, <1>11, <1>12, <3>2 DEF Ahead, Dead
  <2>6. Ahead(q, f, e)
    BY <1>0, <1>8, <1>11, <1>12 DEF Ahead
  <2>7. Agree(e, f)
    BY <1>8, <1>11 DEF Agree
  <2> QED
    BY <2>4, <2>5, <2>6, <2>7 DEF Joint
<1>14. SentPacket(p, e) \in Packet /\ SentPacket(p, e).from = p /\ Sent(SentPacket(p, e), e, f)
  BY <1>1, <1>8, <1>13, SentIs DEF Sending
<1>15. /\ \A x : Sent(x, e0, f) => Sent(x, e, f)
       /\ \A x : Sent(x, f, e0) => Sent(x, f, e)
  BY <1>2, <1>8 DEF Sent, Dead
<1>16. /\ \A x \in net \cup {SentPacket(p, e)} : x.from = p => Sent(x, e, f)
       /\ \A x \in net : x.from # p => Sent(x, f, e)
  BY <1>14, <1>15, Facts
<1> QED
  BY <1>2, <1>8, <1>9, <1>10, <1>13, <1>14, <1>16, Step

\* The responder stores the new secret and sends; the initiator can read it.
LEMMA WaitConfirm2Confirm2Inv ==
  ASSUME IInv, NEW p \in Parties, NEW m \in net, WaitConfirm2Confirm2(p, m)
  PROVE  IInv'
<1> DEFINE q == Peer(p)
           e0 == eng[p]
           f == eng[q]
           e1 == takeConfirm(e0, m)
           e2 == [e1 EXCEPT !.recv = TRUE]
           e3 == senderOn(e2)
           e == nextState(e3, "SecureState")
<1>0. q \in Parties /\ q # p /\ Peer(q) = p /\ \A x \in Parties : x = p \/ x = q
  BY PeerFacts
<1>1. /\ e0 \in Engine /\ f \in Engine /\ Requests(e0) /\ Joint(p, e0, f, rec[p], call)
      /\ Alone(q, f, rec[q], call) /\ call \in Secrets /\ call \in Nat
  BY Facts
<1>2. /\ e0.st = "WaitConfirm2" /\ m.type = "Confirm2" /\ m.from # p /\ m.key = e0.key
      /\ Turn(p, e, {SentPacket(p, e)}) /\ saveRecord(p, e)
  BY HandleTurn DEF WaitConfirm2Confirm2, In, Handle
<1>3. m \in Packet /\ m.from = q /\ Sent(m, f, e0)
  BY <1>2, PacketIs
<1>4. /\ e1 \in Engine /\ e1.t = e0.t /\ e1.late = e0.late /\ e1.key = e0.key
      /\ e1.mem.rs1 = call /\ e1.mem.rs2 = e0.mem.rs1
      /\ e1.mem.ver <=> (e0.mem.ver /\ m.ver)
  BY <1>1, <1>3, TakeConfirmIs
<1> HIDE DEF e1
<1>5. /\ e2 \in Engine /\ e2.t = e0.t /\ e2.late = e0.late
      /\ e2.recv = TRUE /\ e2.key = e0.key /\ e2.mem = e1.mem
  BY <1>4, RecvIs
<1> HIDE DEF e2
<1>6. /\ e3 \in Engine /\ e3.t = e0.t /\ e3.late = e0.late /\ e3.recv = TRUE
      /\ e3.send = TRUE /\ e3.told = e1.mem.ver /\ e3.key = e0.key /\ e3.mem = e1.mem
  BY <1>5, SenderOnIs
<1> HIDE DEF e3
<1>7. /\ e \in Engine /\ e.st = "SecureState" /\ e.t = e0.t /\ e.late = e0.late
      /\ e.recv = TRUE /\ e.send = TRUE /\ e.told = e1.mem.ver
      /\ e.key = e0.key /\ e.mem = e1.mem
  BY <1>6, NextStateIs DEF States, Kept
<1> HIDE DEF e
<1>9. /\ rec' \in [Parties -> Record] /\ rec'[p] \in {rec[p], e.mem} /\ rec'[q] = rec[q]
  BY <1>2, <1>7, SaveTypes
<1>10. Requests(e)
  BY <1>1, <1>2, <1>7 DEF Requests, Engine
<1>11. e.key # NoKey /\ e.key.ini = q /\ (f.key # NoKey => f.key = e.key)
  <2>1. e.key # NoKey /\ e.key.ini # p /\ (f.key # NoKey => f.key = e.key)
    BY <1>1, <1>2, <1>7 DEF Joint, Alone, Agree
  <2>2. e.key \in Keys
    BY <1>7, <2>1 DEF Engine
  <2> QED
    BY <1>0, <2>1, <2>2 DEF Keys
<1>12. f.st \in {"WaitConfAck", "Initial", "Stopped"}
  <2>1. f.st # "SecureState"
    BY <1>1, <1>2, <1>11 DEF Joint, Ahead, Alone
  <2> QED
    BY <1>2, <1>3, <2>1 DEF Sent, Dead
<1>13. Joint(p, e, f, rec'[p], call)
  <2>1. InOrder(e.mem) /\ e.mem.rs1 <= call
    <3>1. e0.mem.rs1 < call
      BY <1>1, <1>2 DEF Joint, Alone, Unsaved
    <3> QED
      BY <1>1, <1>4, <1>7, <3>1 DEF InOrder
  <2>2. InOrder(rec'[p]) /\ rec'[p].rs1 <= call
    BY <1>1, <1>9, <2>1 DEF Joint, Alone
  <2>3. Alone(p, e, rec'[p], call)
    BY <1>7, <1>11, <2>1, <2>2 DEF Alone, Unkeyed, Unsaved, Young
  <2>4. f.st = "WaitConfAck" => e.told = f.mem.ver
    <3>1. SUFFICES ASSUME f.st = "WaitConfAck" PROVE e.told = f.mem.ver
      OBVIOUS
    <3>2. (m.ver <=> f.mem.ver) /\ (f.mem.ver => e0.mem.ver)
      BY <1>1, <1>2, <1>3, <3>1 DEF Sent, Joint, Ahead
    <3>3. e1.mem.ver <=> f.mem.ver
      BY <1>4, <3>2
    <3>4. e1.mem.ver \in BOOLEAN /\ f.mem.ver \in BOOLEAN
      BY <1>1, <1>4 DEF Engine, Record
    <3> QED
      BY <1>7, <3>3, <3>4
  <2>5. Ahead(p, e, f)
    BY <1>0, <1>7, <1>11, <1>12, <2>4 DEF Ahead, Dead
  <2>6. Ahead(q, f, e)
    BY <1>7, <1>11, <1>12 DEF Ahead
  <2>7. Agree(e, f)
    BY <1>11, <1>12 DEF Agree
  <2> QED
    BY <2>3, <2>5, <2>6, <2>7 DEF Joint
<1>14. SentPacket(p, e) \in Packet /\ SentPacket(p, e).from = p /\ Sent(SentPacket(p, e), e, f)
  BY <1>1, <1>7, <1>13, SentIs DEF Sending
<1>15. /\ \A x : Sent(x, e0, f) => Sent(x, e, f)
       /\ \A x : Sent(x, f, e0) => Sent(x, f, e)
  BY <1>2, <1>7 DEF Sent, Dead
<1>16. /\ \A x \in net \cup {SentPacket(p, e)} : x.from = p => Sent(x, e, f)
       /\ \A x \in net : x.from # p => Sent(x, f, e)
  BY <1>14, <1>15, Facts
<1> QED
  BY <1>2, <1>7, <1>9, <1>10, <1>13, <1>14, <1>16, Step

\* The initiator sends: the responder already does, with the same verdict.
LEMMA Finish ==
  ASSUME IInv, NEW p \in Parties, eng[p].st = "WaitConfAck",
         eng[Peer(p)].st \in {"SecureState", "Stopped"},
         Turn(p, nextState(senderOn(cancelTimer(eng[p])), "SecureState"), {}), UNCHANGED rec
  PROVE  IInv'
<1> DEFINE q == Peer(p)
           e0 == eng[p]
           f == eng[q]
           e1 == cancelTimer(e0)
           e2 == senderOn(e1)
           e == nextState(e2, "SecureState")
<1>0. q \in Parties /\ q # p /\ Peer(q) = p
  BY PeerFacts
<1>1. /\ e0 \in Engine /\ f \in Engine /\ Requests(e0) /\ Joint(p, e0, f, rec[p], call)
      /\ Alone(q, f, rec[q], call)
  BY Facts
<1>2. Turn(p, e, {}) /\ e0.st = "WaitConfAck" /\ f.st \in {"SecureState", "Stopped"}
  OBVIOUS
<1>3. e1 \in Engine /\ e1.t = 0 /\ e1.late = e0.late /\ Kept(e0, e1)
  BY <1>1, CancelIs
<1> HIDE DEF e1
<1>4. /\ e2 \in Engine /\ e2.t = 0 /\ e2.late = e0.late /\ e2.send = TRUE
      /\ e2.told = e0.mem.ver /\ e2.recv = e0.recv /\ e2.key = e0.key /\ e2.mem = e0.mem
  BY <1>3, SenderOnIs DEF Kept
<1> HIDE DEF e2
<1>5. /\ e \in Engine /\ e.st = "SecureState" /\ e.t = 0 /\ e.late = e0.late /\ e.send = TRUE
      /\ e.told = e0.mem.ver /\ e.recv = e0.recv /\ e.key = e0.key /\ e.mem = e0.mem
  BY <1>4, NextStateIs DEF States, Kept
<1> HIDE DEF e
<1>6. rec' \in [Parties -> Record] /\ rec'[p] = rec[p] /\ rec'[q] = rec[q]
  BY <1>0 DEF IInv, Typed, TypeOK
<1>7. Requests(e)
  BY <1>1, <1>2, <1>5 DEF Requests, Engine
<1>8. e.key # NoKey /\ e.key.ini = p /\ (f.key # NoKey => f.key = e.key)
  BY <1>1, <1>2, <1>5 DEF Joint, Alone, Agree
<1>9. Joint(p, e, f, rec[p], call)
  <2>1. Alone(p, e, rec[p], call)
    BY <1>1, <1>2, <1>5, <1>8 DEF Joint, Alone, Unkeyed, Unsaved, Young
  <2>2. Ahead(p, e, f)
    BY <1>2, <1>5, <1>8 DEF Ahead, Dead
  <2>3. Ahead(q, f, e)
    BY <1>1, <1>2, <1>5, <1>8 DEF Ahead, Alone
  <2>4. Agree(e, f)
    BY <1>0, <1>1, <1>2, <1>5, <1>8 DEF Joint, Ahead, Agree
  <2> QED
    BY <2>1, <2>2, <2>3, <2>4 DEF Joint
<1>10. /\ \A x : Sent(x, e0, f) => Sent(x, e, f)
       /\ \A x : Sent(x, f, e0) => Sent(x, f, e)
  BY <1>2, <1>5 DEF Sent, Dead
<1>11. /\ \A x \in net \cup {} : x.from = p => Sent(x, e, f)
       /\ \A x \in net : x.from # p => Sent(x, f, e)
  BY <1>10, Facts
<1> QED
  BY <1>2, <1>5, <1>6, <1>7, <1>9, <1>11, Step

LEMMA FinishInv ==
  ASSUME IInv, NEW p \in Parties,
         FirstMedia(p) \/ \E m \in net : WaitConfAckConf2Ack(p, m)
  PROVE  IInv'
<1> DEFINE q == Peer(p)
           e == nextState(senderOn(cancelTimer(eng[p])), "SecureState")
<1>1. Alone(q, eng[q], rec[q], call)
  BY Facts
<1>2. CASE FirstMedia(p)
  <2>1. /\ eng[p].st = "WaitConfAck" /\ eng[q].send
        /\ eng' = [eng EXCEPT ![p] = e] /\ UNCHANGED <<rec, net, call, hi, histVars, faultVars>>
    BY <1>2 DEF FirstMedia, CanRead
  <2>2. eng[q].st = "SecureState"
    BY <1>1, <2>1 DEF Alone
  <2> HIDE DEF e
  <2>3. Turn(p, e, {})
    BY <2>1 DEF Turn, histVars, faultVars, IInv, Typed, TypeOK
  <2> QED
    BY <2>1, <2>2, <2>3, Finish DEF e
<1>3. ASSUME NEW m \in net, WaitConfAckConf2Ack(p, m)
      PROVE  IInv'
  <2>1. /\ eng[p].st = "WaitConfAck" /\ m.type = "Conf2Ack" /\ m.from # p
        /\ Turn(p, e, {}) /\ UNCHANGED rec
    BY <1>3, HandleTurn DEF WaitConfAckConf2Ack, In, Handle
  <2>2. Sent(m, eng[q], eng[p])
    BY <2>1, PacketIs
  <2>3. eng[q].st \in {"SecureState", "Stopped"}
    BY <2>1, <2>2 DEF Sent
  <2> QED
    BY <2>1, <2>3, Finish
<1> QED
  BY <1>2, <1>3

LEMMA RepeatInv ==
  ASSUME IInv, NEW p \in Parties, NEW m \in net, Repeat(p, m) \/ Ignore(p, m)
  PROVE  IInv'
<1> DEFINE e == eng[p]
           s == SentPacket(p, e)
<1>1. /\ e \in Engine /\ eng[Peer(p)] \in Engine /\ Requests(e)
      /\ Joint(p, e, eng[Peer(p)], rec[p], call)
  BY Facts
<1>2. CASE Repeat(p, m)
  <2>1. e.st \in Sending /\ Turn(p, e, {s}) /\ UNCHANGED rec
    BY <1>2, HandleTurn DEF Repeat, In, Sending
  <2>2. s \in Packet /\ s.from = p /\ Sent(s, e, eng[Peer(p)])
    BY <1>1, <2>1, SentIs
  <2> HIDE DEF s
  <2> QED
    BY <1>1, <2>1, <2>2, QuietStep DEF Kept
<1>3. CASE Ignore(p, m)
  <2>1. Turn(p, e, {}) /\ UNCHANGED rec
    BY <1>3, HandleTurn DEF Ignore
  <2> QED
    BY <1>1, <2>1, QuietStep DEF Kept
<1> QED
  BY <1>2, <1>3

LEMMA ReceiveInv ==
  ASSUME IInv, NEW p \in Parties, NEW m \in net, Receive(p, m)
  PROVE  IInv'
  BY DiscoveryInv, BecomeResponderInv, CommitSentDHPart1Inv, WaitDHPart2DHPart2Inv,
     WaitConfirm1Confirm1Inv, WaitConfirm2Confirm2Inv, FinishInv, RepeatInv DEF Receive

LEMMA StartInv ==
  ASSUME IInv, NEW p \in Parties, Start(p)
  PROVE  IInv'
<1> DEFINE e0 == eng[p]
           e1 == startTimer(e0)
           e == nextState(e1, "Detect")
           s == SentPacket(p, e)
<1>1. e0 \in Engine /\ Requests(e0) /\ e0.st = "Off"
  BY Facts DEF Start
<1>2. e1 \in Engine /\ e1.t = 1 /\ e1.late = e0.late /\ Kept(e0, e1)
  BY <1>1, StartIs DEF Requests
<1>3. /\ eng' = [eng EXCEPT ![p] = e] /\ net' = net \cup {s}
      /\ UNCHANGED <<rec, call, hi, histVars, faultVars>>
  BY DEF Start
<1> HIDE DEF e1
<1>4. e \in Engine /\ e.st = "Detect" /\ e.t = 1 /\ e.late = e0.late /\ Kept(e0, e)
  BY <1>2, NextStateIs DEF States, Kept
<1> HIDE DEF e
<1>5. s \in Packet /\ s.from = p /\ s.type = "Hello"
  BY <1>4, SentPacketIs, PlainIs DEF Types
<1> HIDE DEF s
<1>6. Turn(p, e, {s})
  BY <1>3 DEF Turn, histVars, faultVars, IInv, Typed, TypeOK
<1>7. Requests(e)
  BY <1>1, <1>4 DEF Requests, Engine
<1> QED
  BY <1>1, <1>3, <1>4, <1>5, <1>6, <1>7, EarlyStep DEF Kept, Young

LEMMA ListenInv ==
  ASSUME IInv, NEW p \in Parties, Listen(p)
  PROVE  IInv'
<1> DEFINE e0 == eng[p]
           e == [e0 EXCEPT !.heard = TRUE]
<1>1. e0 \in Engine /\ Requests(e0) /\ eng \in [Parties -> Engine]
  BY Facts DEF IInv, Typed, TypeOK
<1>2. e \in Engine /\ e.st = e0.st /\ e.t = e0.t /\ e.late = e0.late /\ Kept(e0, e)
  <2>1. TRUE \in BOOLEAN
    OBVIOUS
  <2>2. e \in Engine
    BY <1>1, <2>1, Updates
  <2> QED
    BY <1>1, <2>2 DEF Engine, Kept
<1>3. eng' = [eng EXCEPT ![p] = e] /\ UNCHANGED <<rec, net, call, hi, histVars, faultVars>>
  BY <1>1 DEF Listen
<1> HIDE DEF e
<1>4. Turn(p, e, {})
  BY <1>3 DEF Turn, histVars, faultVars, IInv, Typed, TypeOK
<1>5. Requests(e)
  BY <1>1, <1>2 DEF Requests
<1> QED
  BY <1>2, <1>3, <1>4, <1>5, QuietStep

\* A fault is within its bound.
LEMMA FaultTypes ==
  ASSUME IInv, Fault
  PROVE  faults' \in 0 .. MaxFaults /\ kills \in 0 .. faults' /\ kills + 1 \in 0 .. faults'
  BY DEF Fault, IInv, Typed, TypeOK

LEMMA ExpireInv ==
  ASSUME IInv, NEW p \in Parties, Expire(p)
  PROVE  IInv'
<1> DEFINE e0 == eng[p]
           t == e0.t - 1
           e1 == [e0 EXCEPT !.t = t]
           e == [e1 EXCEPT !.late = TRUE]
<1>1. /\ e0 \in Engine /\ Requests(e0) /\ eng \in [Parties -> Engine]
      /\ e0.t > 0 /\ ~e0.late
  BY Facts DEF IInv, Typed, TypeOK, Expire
<1>2. t \in 0 .. 2
  BY <1>1 DEF Engine
<1>3. /\ eng' = [eng EXCEPT ![p] = e] /\ UNCHANGED <<rec, net, call, hi, histVars, kills>>
  BY <1>1 DEF Expire
<1> HIDE DEF t
<1>4. e1 \in Engine /\ e1.st = e0.st /\ e1.t = t /\ Kept(e0, e1)
  BY <1>1, <1>2, RequestIs
<1> HIDE DEF e1
<1>5. e \in Engine /\ e.st = e0.st /\ e.t = t /\ e.late = TRUE /\ Kept(e0, e)
  BY <1>4, LateIs DEF Kept
<1> HIDE DEF e
<1>6. faults' \in 0 .. MaxFaults /\ kills \in 0 .. faults'
  BY FaultTypes DEF Expire, IInv, Typed, TypeOK
<1>7. Turn(p, e, {})
  BY <1>3, <1>6 DEF Turn, histVars, IInv, Typed, TypeOK
<1>8. Requests(e)
  BY <1>1, <1>2, <1>5 DEF Requests, Engine, t
<1> QED
  BY <1>3, <1>5, <1>7, <1>8, QuietStep

LEMMA TimerTurn ==
  ASSUME IInv, NEW p, NEW e, NEW out, OnTimer(p, e, out)
  PROVE  Turn(p, [e EXCEPT !.late = FALSE], out) /\ UNCHANGED rec /\ eng[p].late
  BY DEF OnTimer, Turn, histVars, faultVars, IInv, Typed, TypeOK

LEMMA ResendInv ==
  ASSUME IInv, NEW p \in Parties, Resend(p)
  PROVE  IInv'
<1> DEFINE e0 == eng[p]
           n == e0.n + 1
           t == e0.t + 1
           e1 == [e0 EXCEPT !.n = n]
           e2 == [e1 EXCEPT !.t = t]
           e == [e2 EXCEPT !.late = FALSE]
           s == SentPacket(p, e0)
<1>1. /\ e0 \in Engine /\ eng[Peer(p)] \in Engine /\ Requests(e0)
      /\ Joint(p, e0, eng[Peer(p)], rec[p], call)
  BY Facts
<1>2. e0.st \in Resending /\ e0.n < MaxResend /\ OnTimer(p, e2, {s})
  <2>1. e1.t = e0.t
    BY <1>1 DEF Engine
  <2> QED
    BY <2>1 DEF Resend
<1>3. Turn(p, e, {s}) /\ UNCHANGED rec /\ e0.late
  BY <1>2, TimerTurn
<1>4. n \in 0 .. MaxResend /\ t \in 0 .. 2
  BY <1>1, <1>2, <1>3 DEF Engine, Requests
<1> HIDE DEF n
<1>5. e1 \in Engine /\ e1.st = e0.st /\ Kept(e0, e1)
  BY <1>1, <1>4, CountIs
<1> HIDE DEF e1, t
<1>6. e2 \in Engine /\ e2.st = e0.st /\ e2.t = t /\ Kept(e0, e2)
  BY <1>4, <1>5, RequestIs DEF Kept
<1> HIDE DEF e2
<1>7. e \in Engine /\ e.st = e0.st /\ e.t = t /\ e.late = FALSE /\ Kept(e0, e)
  BY <1>6, LateIs DEF Kept
<1> HIDE DEF e
<1>8. Requests(e)
  BY <1>1, <1>2, <1>4, <1>7 DEF Requests, Engine, Resending
<1>9. s \in Packet /\ s.from = p /\ Sent(s, e0, eng[Peer(p)])
  BY <1>1, <1>2, SentIs DEF Resending, Sending
<1> HIDE DEF s
<1> QED
  BY <1>3, <1>7, <1>8, <1>9, QuietStep

\* The other timeouts end the resending, or the negotiation.
LEMMA TimeoutInv ==
  ASSUME IInv, NEW p \in Parties, Timeout(p)
  PROVE  IInv'
<1> DEFINE e0 == eng[p]
           s == SentPacket(p, e0)
           f == eng[Peer(p)]
<1>1. /\ e0 \in Engine /\ f \in Engine /\ Requests(e0)
      /\ Joint(p, e0, f, rec[p], call) /\ call \in Nat
  BY Facts
<1>2. e0.st \in Sending => s \in Packet /\ s.from = p /\ Sent(s, e0, f)
  BY <1>1, SentIs
<1>3. CASE HelloUnanswered(p)
  <2> DEFINE e1 == nextState(e0, "Detect")
             e == [e1 EXCEPT !.late = FALSE]
  <2>1. e0.st \in {"Detect", "AckSent"} /\ Turn(p, e, {s}) /\ UNCHANGED rec
    BY <1>3, TimerTurn DEF HelloUnanswered
  <2>2. e1 \in Engine /\ e1.st = "Detect" /\ e1.t = e0.t /\ Kept(e0, e1)
    BY <1>1, NextStateIs DEF States
  <2> HIDE DEF e1
  <2>3. e \in Engine /\ e.st = "Detect" /\ e.t = e0.t /\ e.late = FALSE /\ Kept(e0, e)
    BY <2>2, LateIs DEF Kept
  <2> HIDE DEF e
  <2>4. Requests(e)
    BY <1>1, <2>3 DEF Requests, Engine
  <2>5. s \in Packet /\ s.from = p /\ s.type = "Hello"
    BY <1>1, <2>1, SentPacketIs, PlainIs DEF Types
  <2> HIDE DEF s
  <2> QED
    BY <2>1, <2>3, <2>4, <2>5, EarlyStep DEF Young, Kept
<1>4. CASE TooMuchRetries(p)
  <2> DEFINE e1 == nextState(e0, "Initial")
             e2 == [e1 EXCEPT !.recv = FALSE]
             e == [e2 EXCEPT !.late = FALSE]
  <2>1. /\ e0.st \in {"CommitSent", "WaitConfirm1", "WaitConfAck"}
        /\ Turn(p, e, {s}) /\ UNCHANGED rec
    BY <1>4, TimerTurn DEF TooMuchRetries
  <2>2. e1 \in Engine /\ e1.st = "Initial" /\ e1.t = e0.t /\ Kept(e0, e1)
    BY <1>1, NextStateIs DEF States
  <2> HIDE DEF e1
  <2>3. /\ e2 \in Engine /\ e2.st = "Initial" /\ e2.t = e0.t /\ e2.recv = FALSE
        /\ e2.key = e0.key /\ e2.mem = e0.mem /\ e2.send = e0.send
    BY <2>2, RecvIs DEF Kept
  <2> HIDE DEF e2
  <2>4. /\ e \in Engine /\ e.st = "Initial" /\ e.t = e0.t /\ e.late = FALSE
        /\ e.recv = FALSE /\ e.key = e0.key /\ e.mem = e0.mem /\ e.send = e0.send
    BY <2>3, LateIs DEF Kept
  <2> HIDE DEF e
  <2>5. Requests(e)
    BY <1>1, <2>4 DEF Requests, Engine
  <2>6. s \in Packet /\ s.from = p /\ Sent(s, e0, f)
    BY <1>2, <2>1 DEF Sending
  <2>7. /\ InOrder(e.mem) /\ e.mem.rs1 <= call /\ InOrder(rec'[p]) /\ rec'[p].rs1 <= call
        /\ ~e.send /\ ~e.recv
    BY <1>1, <2>1, <2>4 DEF Joint, Alone
  <2>8. rec' \in [Parties -> Record] /\ rec'[Peer(p)] = rec[Peer(p)]
    BY <2>1 DEF IInv, Typed, TypeOK
  <2> HIDE DEF s
  <2> QED
    BY <2>1, <2>4, <2>5, <2>6, <2>7, <2>8, DeadStep
<1>5. CASE UnexpectedTimer(p)
  <2> DEFINE e1 == nextState(e0, "Initial")
             e == [e1 EXCEPT !.late = FALSE]
  <2>1. /\ e0.st \in {"AckDetected", "WaitCommit", "WaitDHPart2", "WaitConfirm2"}
        /\ Turn(p, e, {}) /\ UNCHANGED rec
    BY <1>5, TimerTurn DEF UnexpectedTimer
  <2>2. e1 \in Engine /\ e1.st = "Initial" /\ e1.t = e0.t /\ Kept(e0, e1)
    BY <1>1, NextStateIs DEF States
  <2> HIDE DEF e1
  <2>3. e \in Engine /\ e.st = "Initial" /\ e.t = e0.t /\ e.late = FALSE /\ Kept(e0, e)
    BY <2>2, LateIs DEF Kept
  <2> HIDE DEF e
  <2>4. Requests(e)
    BY <1>1, <2>3 DEF Requests, Engine
  <2>5. /\ InOrder(e.mem) /\ e.mem.rs1 <= call /\ InOrder(rec'[p]) /\ rec'[p].rs1 <= call
        /\ ~e.send /\ ~e.recv /\ e.key = e0.key
    BY <1>1, <2>1, <2>3 DEF Joint, Alone, Kept
  <2>6. rec' \in [Parties -> Record] /\ rec'[Peer(p)] = rec[Peer(p)]
    BY <2>1 DEF IInv, Typed, TypeOK
  <2> QED
    BY <2>1, <2>3, <2>4, <2>5, <2>6, DeadStep
<1>6. CASE StrayTimer(p)
  <2> DEFINE e == [e0 EXCEPT !.late = FALSE]
  <2>1. e0.st \in {"Initial", "SecureState"} /\ Turn(p, e, {}) /\ UNCHANGED rec
    BY <1>6, TimerTurn DEF StrayTimer
  <2>2. e \in Engine /\ e.st = e0.st /\ e.t = e0.t /\ e.late = FALSE /\ Kept(e0, e)
    BY <1>1, LateIs
  <2> HIDE DEF e
  <2>3. Requests(e)
    BY <1>1, <2>1, <2>2 DEF Requests, Engine
  <2> QED
    BY <2>1, <2>2, <2>3, QuietStep
<1> QED
  BY <1>3, <1>4, <1>5, <1>6, ResendInv DEF Timeout

LEMMA VerifyInv ==
  ASSUME IInv, NEW p \in Parties, Verify(p)
  PROVE  IInv'
<1> DEFINE q == Peer(p)
           e0 == eng[p]
           f == eng[q]
           r == [e0.mem EXCEPT !.ver = TRUE]
           e1 == [e0 EXCEPT !.mem = r]
           e == [e1 EXCEPT !.save = TRUE]
<1>1. /\ e0 \in Engine /\ f \in Engine /\ Requests(e0) /\ Joint(p, e0, f, rec[p], call)
  BY Facts
<1>2. /\ e0.st = "SecureState" /\ eng' = [eng EXCEPT ![p] = e] /\ saveRecord(p, e)
      /\ pressed' = pressed \cup {p} /\ UNCHANGED <<net, call, hi, half, faultVars>>
  BY DEF Verify
<1>3. r \in Record /\ r.rs1 = e0.mem.rs1 /\ r.rs2 = e0.mem.rs2
  BY <1>1 DEF Engine, Record
<1> HIDE DEF r
<1>4. /\ e1 \in Engine /\ e1.st = e0.st /\ e1.t = e0.t /\ e1.late = e0.late /\ e1.mem = r
      /\ e1.key = e0.key /\ e1.send = e0.send /\ e1.recv = e0.recv /\ e1.told = e0.told
  <2>1. e1 \in Engine
    BY <1>1, <1>3, Updates
  <2> QED
    BY <1>1, <2>1 DEF Engine
<1> HIDE DEF e1
<1>5. /\ e \in Engine /\ e.st = e0.st /\ e.t = e0.t /\ e.late = e0.late /\ e.mem = r
      /\ e.key = e0.key /\ e.send = e0.send /\ e.recv = e0.recv /\ e.told = e0.told
  <2>1. TRUE \in BOOLEAN
    OBVIOUS
  <2>2. e \in Engine
    BY <1>4, <2>1, Updates
  <2> QED
    BY <1>4, <2>2 DEF Engine
<1> HIDE DEF e
<1>6. /\ rec' \in [Parties -> Record] /\ rec'[p] \in {rec[p], e.mem} /\ rec'[q] = rec[q]
  BY <1>2, <1>5, SaveTypes
<1>7. Turn(p, e, {})
  BY <1>2 DEF Turn, faultVars, IInv, Typed, TypeOK
<1>8. Requests(e)
  BY <1>1, <1>5 DEF Requests
<1>9. Joint(p, e, f, rec'[p], call)
  <2>1. InOrder(e.mem) /\ e.mem.rs1 <= call
    BY <1>1, <1>3, <1>5 DEF Joint, Alone, InOrder
  <2>2. InOrder(rec'[p]) /\ rec'[p].rs1 <= call
    BY <1>1, <1>6, <2>1 DEF Joint, Alone
  <2>3. Alone(p, e, rec'[p], call)
    BY <1>1, <1>2, <1>5, <2>1, <2>2 DEF Joint, Alone, Unkeyed, Unsaved, Young
  <2>4. Ahead(p, e, f)
    BY <1>1, <1>2, <1>5 DEF Joint, Ahead
  <2>5. Ahead(q, f, e)
    BY <1>1, <1>2, <1>5 DEF Joint, Ahead
  <2>6. Agree(e, f)
    BY <1>1, <1>5 DEF Joint, Agree
  <2> QED
    BY <2>3, <2>4, <2>5, <2>6 DEF Joint
<1>10. /\ \A x : Sent(x, e0, f) => Sent(x, e, f)
       /\ \A x : Sent(x, f, e0) => Sent(x, f, e)
  BY <1>2, <1>5 DEF Sent
<1>11. /\ \A x \in net \cup {} : x.from = p => Sent(x, e, f)
       /\ \A x \in net : x.from # p => Sent(x, f, e)
  BY <1>10, Facts
<1> QED
  BY <1>5, <1>6, <1>7, <1>8, <1>9, <1>11, Step

LEMMA NewEngineIs ==
  /\ NewEngine \in Engine /\ NewEngine.st = "Off" /\ NewEngine.t = 0 /\ NewEngine.late = FALSE
  /\ NewEngine.mem = EmptyRecord /\ NewEngine.key = NoKey
  /\ NewEngine.send = FALSE /\ NewEngine.recv = FALSE
  BY RecordTypes DEF NewEngine

LEMMA EndInv ==
  ASSUME IInv, NEW p \in Parties, Stop(p) \/ Kill(p)
  PROVE  IInv'
<1> DEFINE e0 == eng[p]
           e == nextState(NewEngine, "Stopped")
           r == [e0.mem EXCEPT !.v2 = TRUE]
<1>1. /\ e0 \in Engine /\ Joint(p, e0, eng[Peer(p)], rec[p], call) /\ call \in Nat
      /\ rec \in [Parties -> Record] /\ Peer(p) # p /\ Peer(p) \in Parties
  BY Facts, PeerFacts DEF IInv, Typed, TypeOK
<1>2. /\ e \in Engine /\ e.st = "Stopped" /\ e.t = 0 /\ e.late = FALSE /\ Kept(NewEngine, e)
  BY NewEngineIs, NextStateIs DEF States
<1>3. eng' = [eng EXCEPT ![p] = e] /\ UNCHANGED <<net, call, hi, histVars>>
  BY DEF Stop, Kill, histVars
<1> HIDE DEF e
<1>4. r \in Record /\ r.rs1 = e0.mem.rs1 /\ r.rs2 = e0.mem.rs2
  BY <1>1 DEF Engine, Record
<1>5. rec' = rec \/ rec' = [rec EXCEPT ![p] = r]
  BY DEF Stop, Kill
<1> HIDE DEF r
<1>6. rec' \in [Parties -> Record] /\ rec'[Peer(p)] = rec[Peer(p)] /\ rec'[p] \in {rec[p], r}
  BY <1>1, <1>4, <1>5
<1>7. InOrder(rec'[p]) /\ rec'[p].rs1 <= call
  BY <1>1, <1>4, <1>6 DEF Joint, Alone, InOrder
<1>8. InOrder(e.mem) /\ e.mem.rs1 <= call
  BY <1>1, <1>2, NewEngineIs DEF Kept, EmptyRecord, InOrder
<1>9. faults' \in 0 .. MaxFaults /\ kills' \in 0 .. faults'
  <2>1. CASE Stop(p)
    BY <2>1 DEF Stop, faultVars, IInv, Typed, TypeOK
  <2>2. CASE Kill(p)
    BY <2>2, FaultTypes DEF Kill
  <2> QED
    BY <2>1, <2>2
<1>10. Turn(p, e, {})
  BY <1>3, <1>9 DEF Turn, histVars, IInv, Typed, TypeOK
<1>11. Requests(e) /\ e.key = NoKey /\ ~e.send /\ ~e.recv
  BY <1>2, NewEngineIs DEF Requests, Kept
<1> QED
  BY <1>2, <1>6, <1>7, <1>8, <1>10, <1>11, DeadStep

\* Two new engines agree, with records of calls before the one that begins.
LEMMA NewCall ==
  ASSUME NEW c \in Nat, NEW r \in [Parties -> Record],
         \A p \in Parties : InOrder(r[p]) /\ r[p].rs1 < c, c > 0
  PROVE  \A p, q \in Parties : /\ Alone(p, NewEngine, r[p], c)
                               /\ Ahead(p, NewEngine, NewEngine)
                               /\ Agree(NewEngine, NewEngine)
                               /\ Requests(NewEngine)
<1>1. InOrder(EmptyRecord) /\ EmptyRecord.rs1 = 0
  BY DEF InOrder, EmptyRecord
<1>2. \A p \in Parties : r[p].rs1 \in Int
  BY DEF Record, Secrets
<1>3. \A p \in Parties : Alone(p, NewEngine, r[p], c)
  BY <1>1, <1>2, NewEngineIs DEF Alone, Unkeyed, Unsaved, Young
<1>4. \A p \in Parties : Ahead(p, NewEngine, NewEngine) /\ Agree(NewEngine, NewEngine)
  BY NewEngineIs DEF Ahead, Agree
<1>5. Requests(NewEngine)
  BY NewEngineIs DEF Requests
<1> QED
  BY <1>3, <1>4, <1>5

LEMMA InitInv == Init => IInv
<1> SUFFICES ASSUME Init PROVE IInv
  OBVIOUS
<1>1. /\ rec \in [Parties -> Record] /\ half \in 0 .. 2 /\ pressed \subseteq Parties
      /\ \A p \in Parties : InOrder(rec[p]) /\ rec[p].rs1 < 2
  <2>1. CASE rec = [p \in Parties |-> EmptyRecord] /\ half = 2 /\ pressed = {}
    <3>1. InOrder(EmptyRecord) /\ EmptyRecord.rs1 < 2
      BY DEF InOrder, EmptyRecord
    <3> QED
      BY <2>1, <3>1, RecordTypes
  <2>2. CASE rec = [p \in Parties |-> KnownRecord] /\ half = 0 /\ pressed = Parties
    <3>1. InOrder(KnownRecord) /\ KnownRecord.rs1 < 2
      BY DEF InOrder, KnownRecord
    <3> QED
      BY <2>2, <3>1, RecordTypes
  <2> QED
    BY <2>1, <2>2 DEF Init
<1>2. /\ eng = [p \in Parties |-> NewEngine] /\ net = {} /\ call = 2
      /\ hi = (CHOOSE p \in Parties : TRUE) /\ faults = 0 /\ kills = 0
  BY DEF Init
<1>3. hi \in Parties
  <2>1. Parties # {}
    BY FS_EmptySet
  <2>2. \E p \in Parties : TRUE
    BY <2>1
  <2>3. (CHOOSE p \in Parties : TRUE) \in Parties
    BY <2>2
  <2> QED
    BY <1>2, <2>3
<1>4. TypeOK
  <2>1. eng \in [Parties -> Engine] /\ net \subseteq Packet /\ call \in 2 .. MaxCalls
    BY <1>2, NewEngineIs
  <2>2. faults \in 0 .. MaxFaults /\ kills \in 0 .. faults
    BY <1>2
  <2> QED
    BY <1>1, <1>3, <2>1, <2>2 DEF TypeOK
<1>5. \A p, q \in Parties : /\ Alone(p, NewEngine, rec[p], 2)
                            /\ Ahead(p, NewEngine, NewEngine)
                            /\ Agree(NewEngine, NewEngine)
                            /\ Requests(NewEngine)
  BY <1>1, NewCall
<1>6. \A p \in Parties : Peer(p) \in Parties
  BY PeerFacts
<1> QED
  BY <1>2, <1>4, <1>5, <1>6 DEF IInv, Typed, AgreeInv

LEMMA NextCallInv ==
  ASSUME IInv, NextCall
  PROVE  IInv'
<1>1. /\ eng' = [p \in Parties |-> NewEngine] /\ net' = {} /\ call' = call + 1
      /\ call < MaxCalls /\ hi' \in Parties
      /\ UNCHANGED <<rec, pressed, faultVars>>
  BY DEF NextCall
<1>2. half' \in 0 .. 2
  BY DEF NextCall, IInv, Typed, TypeOK
<1>3. TypeOK'
  BY <1>1, <1>2, NewEngineIs DEF TypeOK, IInv, Typed, faultVars
<1>4. /\ call + 1 \in Nat /\ call + 1 > 0 /\ rec \in [Parties -> Record]
  BY DEF IInv, Typed, TypeOK
<1>5. \A p \in Parties : InOrder(rec[p]) /\ rec[p].rs1 < call + 1
  <2> TAKE p \in Parties
  <2>1. InOrder(rec[p]) /\ rec[p].rs1 <= call /\ call \in Nat /\ rec[p] \in Record
    BY Facts DEF Joint, Alone
  <2>2. rec[p].rs1 \in Int
    BY <2>1 DEF Record, Secrets
  <2> QED
    BY <2>1, <2>2
<1>6. \A p, q \in Parties : /\ Alone(p, NewEngine, rec[p], call + 1)
                            /\ Ahead(p, NewEngine, NewEngine)
                            /\ Agree(NewEngine, NewEngine)
                            /\ Requests(NewEngine)
  BY <1>4, <1>5, NewCall
<1>7. \A p \in Parties : Peer(p) \in Parties
  BY PeerFacts
<1> QED
  BY <1>1, <1>3, <1>6, <1>7 DEF IInv, Typed, AgreeInv

LEMMA LoseInv ==
  ASSUME IInv, NEW m \in net, Lose(m)
  PROVE  IInv'
<1>1. net' \subseteq net /\ UNCHANGED <<eng, rec, call, hi, histVars, kills>>
  BY DEF Lose
<1>2. faults' \in 0 .. MaxFaults /\ kills \in 0 .. faults'
  BY FaultTypes DEF Lose
<1>3. TypeOK'
  BY <1>1, <1>2 DEF IInv, Typed, TypeOK, histVars
<1> QED
  BY <1>1, <1>3 DEF IInv, Typed, AgreeInv

LEMMA NextInv == IInv /\ [Next]_vars => IInv'
<1> SUFFICES ASSUME IInv, [Next]_vars PROVE IInv'
  OBVIOUS
<1>1. CASE UNCHANGED vars
  BY <1>1 DEF vars, histVars, faultVars, IInv, Typed, TypeOK, AgreeInv
<1>2. ASSUME NEW p \in Parties,
             \/ Start(p) \/ FirstMedia(p) \/ Listen(p) \/ Expire(p) \/ Timeout(p)
             \/ Verify(p) \/ Stop(p) \/ Kill(p)
      PROVE  IInv'
  BY <1>2, StartInv, FinishInv, ListenInv, ExpireInv, TimeoutInv, VerifyInv, EndInv
<1>3. ASSUME NEW p \in Parties, NEW m \in net, Receive(p, m)
      PROVE  IInv'
  BY <1>3, ReceiveInv
<1>4. CASE NextCall
  BY <1>4, NextCallInv
<1>5. ASSUME NEW m \in net, Lose(m)
      PROVE  IInv'
  BY <1>5, LoseInv
<1> QED
  BY <1>1, <1>2, <1>3, <1>4, <1>5 DEF Next

LEMMA Inductive == Spec => []IInv
<1> QED
  BY InitInv, NextInv, PTL DEF Spec

----------------------------------------------------------------------------
(* Verdicts and retained secrets.                                          *)

\* What the secrets and the verdict depend on, the state apart, is the same.
Alike(e, f) ==
  /\ f.key = e.key /\ f.mem = e.mem /\ f.send = e.send /\ f.told = e.told
  /\ f.save = e.save /\ f.read = e.read /\ f.heard = e.heard

Stays(e, f) == f.save = e.save /\ f.read = e.read /\ f.heard = e.heard

LEMMA AlikeFacts ==
  ASSUME NEW e \in Engine
  PROVE  /\ \A st \in States : Alike(e, nextState(e, st))
         /\ Alike(e, cancelTimer(e)) /\ Alike(e, startTimer(e))
         /\ \A x : Alike(e, [e EXCEPT !.late = x])
         /\ \A x : Alike(e, [e EXCEPT !.recv = x])
         /\ \A x : Alike(e, [e EXCEPT !.t = x])
         /\ \A x : Alike(e, [e EXCEPT !.n = x])
<1>1. \A st \in States : Alike(e, nextState(e, st))
  BY DEF Alike, nextState, Engine
<1>2. Alike(e, cancelTimer(e))
  BY DEF Alike, cancelTimer, Engine
<1>3. Alike(e, startTimer(e))
  BY DEF Alike, startTimer, Engine
<1>4. /\ \A x : Alike(e, [e EXCEPT !.late = x])
      /\ \A x : Alike(e, [e EXCEPT !.recv = x])
      /\ \A x : Alike(e, [e EXCEPT !.t = x])
      /\ \A x : Alike(e, [e EXCEPT !.n = x])
  BY DEF Alike, Engine
<1> QED
  BY <1>1, <1>2, <1>3, <1>4

LEMMA SenderOnStays ==
  ASSUME NEW e \in Engine
  PROVE  Stays(e, senderOn(e))
  BY DEF Stays, senderOn, Engine

LEMMA PrepareStays ==
  ASSUME NEW p \in Parties, NEW e \in Engine
  PROVE  LET f == prepareCommit(p, e) IN
         f.read = TRUE /\ f.save = e.save /\ f.heard = e.heard
  BY DEF prepareCommit, Engine

LEMMA TakeStays ==
  ASSUME NEW e \in Engine, NEW m \in Packet
  PROVE  LET f == takeConfirm(e, m) IN Stays(e, f) /\ f.mem.v1 = TRUE
<1>1. Stays(e, takeConfirm(e, m))
  BY DEF Stays, takeConfirm, Engine
<1>2. takeConfirm(e, m).mem = setNewRs1([e.mem EXCEPT !.ver = @ /\ m.ver])
  BY DEF takeConfirm, Engine
<1>3. \A r \in Record : setNewRs1(r).v1 = TRUE
  BY DEF setNewRs1, Record
<1>4. [e.mem EXCEPT !.ver = @ /\ m.ver] \in Record
  BY DEF Engine, Record
<1> QED
  BY <1>1, <1>2, <1>3, <1>4

\* A secret that both have is found.
LEMMA MatchFound ==
  ASSUME NEW r \in Record, NEW ids, NEW s \in Ids(r), s \in ids
  PROVE  MatchingSecret(r, ids) # NoSecret
<1>1. r.rs1 # NoSecret /\ r.rs2 # NoSecret
  BY DEF Record, Secrets, NoSecret
<1> QED
  BY <1>1 DEF MatchingSecret, Ids

\* No secret in common, with secrets of one's own.
Stranger(r, ids) == MatchingSecret(r, ids) = NoSecret /\ Ids(r) # {}

LEMMA GenerateStays ==
  ASSUME NEW e \in Engine, NEW ini \in Parties, NEW ids \in SUBSET Secrets,
         NEW g, g = generateKeys(e, ini, ids)
  PROVE  /\ g.read = e.read /\ g.heard = e.heard
         /\ g.save <=> (e.save /\ ~Stranger(e.mem, ids))
         /\ g.mem.ver <=> (e.mem.ver /\ ~Stranger(e.mem, ids))
<1> DEFINE s1 == MatchingSecret(e.mem, ids)
           x == Stranger(e.mem, ids)
<1>1. g = [e EXCEPT !.key = [ini |-> ini, s1 |-> s1],
                    !.mem.ver = @ /\ ~x, !.save = @ /\ ~x]
  BY DEF generateKeys, Stranger
<1>2. e.mem \in Record /\ x \in BOOLEAN
  BY DEF Engine, Stranger
<1> HIDE DEF s1, x
<1>3. g.read = e.read /\ g.heard = e.heard /\ g.save = (e.save /\ ~x)
  BY <1>1 DEF Engine
<1>4. g.mem.ver = (e.mem.ver /\ ~x)
  BY <1>1, <1>2 DEF Engine, Record
<1> QED
  BY <1>2, <1>3, <1>4 DEF x

LEMMA SecretsOrdered ==
  ASSUME IInv, NEW p \in Parties
  PROVE  /\ rec[p] \in Record /\ rec[p].rs1 \in Nat /\ call \in Nat /\ call > 0
         /\ (eng[p].st \in Unsaved => rec[p].rs1 # call)
<1>1. rec[p] \in Record /\ call \in 2 .. MaxCalls /\ Alone(p, eng[p], rec[p], call)
  BY Facts DEF IInv, Typed, TypeOK, Joint
<1>2. rec[p].rs1 \in Nat
  BY <1>1 DEF Record, Secrets
<1>3. eng[p].st \in Unsaved => rec[p].rs1 < call
  BY <1>1 DEF Alone
<1> QED
  BY <1>1, <1>2, <1>3

\* What a state repeats carries the secret, and a verdict of its user.
LEMMA SentCarries ==
  ASSUME NEW p \in Parties, NEW e \in Engine, e.st \in Sending, NEW P, Bound(p, e, P)
  PROVE  /\ SentPacket(p, e).ver => p \in P
         /\ \A s \in Secrets : \A r \in Record : \A x, c, h :
              Keeps(s, e, r, x, c, h) /\ (e.st \in Unsaved => r.rs1 # c)
                => Carries(s, SentPacket(p, e))
<1> DEFINE m == SentPacket(p, e)
<1>1. e.mem \in Record
  BY DEF Engine
<1>2. CASE e.st \in {"WaitDHPart2", "WaitConfirm1"}
  <2>1. /\ m.ids = Ids(e.mem) /\ m.ver = FALSE
    <3>1. m = DHPart(p, "DHPart1", e) \/ m = DHPart(p, "DHPart2", e)
      BY <1>2, SentPacketIs
    <3> QED
      BY <3>1 DEF DHPart, Plain
  <2>2. ASSUME NEW s \in Secrets, NEW r \in Record, NEW x, NEW c, NEW h,
               Keeps(s, e, r, x, c, h), e.st \in Unsaved => r.rs1 # c
        PROVE  s \in Ids(e.mem)
    <3>1. SameSecrets(e.mem, r)
      BY <1>2, <2>2 DEF Keeps, Unread
    <3>2. Ids(e.mem) = Ids(r)
      BY <1>1, <2>2, <3>1, SameIds
    <3>3. s \in Ids(r)
      BY <1>2, <2>2 DEF Keeps, Unsaved
    <3> QED
      BY <3>2, <3>3
  <2> QED
    BY <2>1, <2>2 DEF Carries
<1>3. CASE e.st \in {"WaitConfirm2", "WaitConfAck"}
  <2>1. m.type \in {"Confirm1", "Confirm2"} /\ m.ver = e.mem.ver
    <3>1. m = Confirm(p, "Confirm1", e) \/ m = Confirm(p, "Confirm2", e)
      BY <1>3, SentPacketIs
    <3> QED
      BY <3>1 DEF Confirm, Plain
  <2> QED
    BY <2>1 DEF Bound, Holds, Carries
<1>4. CASE e.st \notin {"WaitDHPart2", "WaitConfirm1", "WaitConfirm2", "WaitConfAck"}
  <2>1. \E type \in {"Hello", "HelloAck", "Commit", "Conf2Ack"} : m = Plain(p, type)
    BY <1>4, SentPacketIs DEF Sending
  <2>2. m.type \in {"Hello", "HelloAck", "Commit", "Conf2Ack"} /\ m.ver = FALSE
    BY <2>1 DEF Plain
  <2> QED
    BY <2>2 DEF Carries
<1> QED
  BY <1>2, <1>3, <1>4

\* The packets of a step of p that leads to the engine e.
Packets(p, e, out) ==
  \A m \in out :
    /\ m \in Packet /\ m.from = p
    /\ \/ m.ver = FALSE /\ m.type \notin {"DHPart1", "DHPart2"}
       \/ e.st \in Sending /\ m = SentPacket(p, e)
       \/ eng[p].st \in Sending /\ m = SentPacket(p, eng[p])

\* What has to be shown of a step.
LEMMA SecretStep ==
  ASSUME IInv, IInv', SecretInv, NEW p \in Parties, NEW e, NEW out,
         Turn(p, e, out), Packets(p, e, out),
         rec'[Peer(p)] = rec[Peer(p)], pressed \subseteq pressed',
         kills' = 0 => kills = 0,
         Bound(p, e, pressed'), Holds(p, rec'[p], pressed'),
         \A s \in Secrets :
            half <= 1 /\ kills' = 0 /\ KeepInv(s) =>
              /\ Keeps(s, e, rec'[p], rec[Peer(p)], call, half)
              /\ rec[p].rs1 = call => rec'[p].rs1 = call
  PROVE  SecretInv'
<1> DEFINE q == Peer(p)
<1>1. q \in Parties /\ q # p /\ Peer(q) = p /\ \A x \in Parties : x = p \/ x = q
  BY PeerFacts
<1>2. /\ eng \in [Parties -> Engine] /\ eng' \in [Parties -> Engine]
      /\ rec' \in [Parties -> Record] /\ pressed \subseteq Parties /\ pressed' \subseteq Parties
      /\ half' = half /\ call' = call /\ net' \subseteq net \cup out
  BY DEF IInv, Typed, TypeOK, Turn
<1>3. eng'[p] = e /\ eng'[q] = eng[q] /\ e \in Engine
  BY <1>1, <1>2 DEF Turn
<1>4. Bound(q, eng[q], pressed') /\ Holds(q, rec'[q], pressed')
  <2>1. Bound(q, eng[q], pressed) /\ Holds(q, rec[q], pressed)
    BY <1>1 DEF SecretInv
  <2>2. pressed = Parties => pressed' = Parties
    BY <1>2
  <2> QED
    BY <1>1, <2>1, <2>2 DEF Bound, Holds
<1>5. \A x \in Parties : Bound(x, eng'[x], pressed') /\ Holds(x, rec'[x], pressed')
  BY <1>1, <1>3, <1>4
<1>6. ASSUME NEW m \in net'
      PROVE  m.ver => m.from \in pressed'
  <2>1. CASE m \in net
    BY <2>1 DEF SecretInv
  <2>2. CASE m \in out
    <3>1. CASE m.ver = FALSE
      BY <3>1
    <3>2. CASE e.st \in Sending /\ m = SentPacket(p, e)
      BY <1>3, <2>2, <3>2, SentCarries DEF Packets
    <3>3. CASE eng[p].st \in Sending /\ m = SentPacket(p, eng[p])
      BY <1>2, <2>2, <3>3, SentCarries DEF Packets, SecretInv
    <3> QED
      BY <2>2, <3>1, <3>2, <3>3 DEF Packets
  <2> QED
    BY <1>2, <2>1, <2>2
<1>7. ASSUME half' <= 1, kills' = 0
      PROVE  \E s \in Secrets : KeepInv(s)'
  <2>1. PICK s \in Secrets : KeepInv(s)
    BY <1>2, <1>7 DEF SecretInv
  <2>2. /\ Keeps(s, e, rec'[p], rec[q], call, half)
        /\ rec[p].rs1 = call => rec'[p].rs1 = call
    BY <1>2, <1>7, <2>1
  <2>3. Keeps(s, eng'[p], rec'[p], rec'[q], call', half')
    BY <1>2, <1>3, <2>2
  <2>4. Keeps(s, eng'[q], rec'[q], rec'[p], call', half')
    <3>1. Keeps(s, eng[q], rec[q], rec[p], call, half)
      BY <1>1, <2>1 DEF KeepInv
    <3> QED
      BY <1>2, <1>3, <2>2, <3>1 DEF Keeps
  <2>5. ASSUME NEW m \in net'
        PROVE  Carries(s, m)
    <3>1. CASE m \in net
      BY <2>1, <3>1 DEF KeepInv
    <3>2. CASE m \in out /\ e.st \in Sending /\ m = SentPacket(p, e)
      <4>1. e.st \in Unsaved => rec'[p].rs1 # call
        <5>1. Alone(p, e, rec'[p], call) /\ call \in 2 .. MaxCalls /\ rec'[p] \in Record
          BY <1>2, <1>3 DEF IInv, AgreeInv, Typed, TypeOK
        <5>2. rec'[p].rs1 \in Nat
          BY <5>1 DEF Record, Secrets
        <5> QED
          BY <5>1, <5>2 DEF Alone
      <4>2. rec'[p] \in Record
        BY <1>2
      <4> QED
        BY <1>3, <2>2, <3>2, <4>1, <4>2, SentCarries
    <3>3. CASE m \in out /\ eng[p].st \in Sending /\ m = SentPacket(p, eng[p])
      <4>1. Keeps(s, eng[p], rec[p], rec[q], call, half) /\ eng[p] \in Engine
        BY <1>2, <2>1 DEF KeepInv
      <4>2. rec[p] \in Record /\ (eng[p].st \in Unsaved => rec[p].rs1 # call)
        BY SecretsOrdered
      <4>3. Bound(p, eng[p], pressed)
        BY DEF SecretInv
      <4> QED
        BY <3>3, <4>1, <4>2, <4>3, SentCarries
    <3>4. CASE m.type \notin {"DHPart1", "DHPart2"}
      BY <3>4 DEF Carries
    <3> QED
      BY <1>2, <3>1, <3>2, <3>3, <3>4 DEF Packets
  <2>6. KeepInv(s)'
    BY <1>1, <2>3, <2>4, <2>5 DEF KeepInv
  <2> QED
    BY <2>6
<1> QED
  BY <1>5, <1>6, <1>7 DEF SecretInv

\* A step that leaves the secrets and the verdict as they are.
LEMMA AlikeStep ==
  ASSUME IInv, IInv', SecretInv, NEW p \in Parties, NEW e \in Engine, NEW out,
         Turn(p, e, out), Packets(p, e, out), UNCHANGED <<rec, pressed>>,
         kills' = 0 => kills = 0, Alike(eng[p], e),
         e.st \in {"WaitConfirm1", "WaitConfirm2", "WaitConfAck", "SecureState", "Stopped"} =>
           eng[p].st = e.st,
         e.st \notin Unread => eng[p].st \notin Unread,
         e.st = "Initial" => eng[p].st \notin {"Off", "Detect", "Stopped"}
  PROVE  SecretInv'
<1> DEFINE f == eng[p]
<1>1. Peer(p) \in Parties /\ rec'[Peer(p)] = rec[Peer(p)] /\ rec'[p] = rec[p]
      /\ pressed' = pressed
  BY PeerFacts DEF IInv, Typed, TypeOK
<1>2. Bound(p, f, pressed) /\ Holds(p, rec[p], pressed)
  BY DEF SecretInv
<1>3. Bound(p, e, pressed)
  BY <1>2 DEF Bound, Alike
<1>4. ASSUME NEW s \in Secrets, KeepInv(s)
      PROVE  Keeps(s, e, rec[p], rec[Peer(p)], call, half)
  <2>1. Keeps(s, f, rec[p], rec[Peer(p)], call, half)
    BY <1>4 DEF KeepInv
  <2>2. f.st \in Unsaved => rec[p].rs1 # call
    BY SecretsOrdered
  <2>3. e.st = "Initial" /\ rec[p].rs1 = call => e.read
    BY <2>1, <2>2 DEF Keeps, Alike, Unread, Unsaved, Young
  <2> QED
    BY <2>1, <2>3 DEF Keeps, Alike
<1> HIDE DEF f
<1> QED
  BY <1>1, <1>2, <1>3, <1>4, SecretStep

\* The record is read.
LEMMA PrepareStep ==
  ASSUME IInv, IInv', SecretInv, NEW p \in Parties, NEW e \in Engine, NEW out,
         Turn(p, e, out), Packets(p, e, out), UNCHANGED <<rec, pressed, kills>>,
         e.st \in {"AckSent", "WaitCommit"}, e.mem = rec[p], e.read,
         e.save = eng[p].save, e.heard = eng[p].heard
  PROVE  SecretInv'
<1>1. Peer(p) \in Parties /\ rec'[Peer(p)] = rec[Peer(p)] /\ rec'[p] = rec[p]
      /\ pressed' = pressed /\ kills' = kills /\ eng'[p] = e
  BY PeerFacts DEF IInv, Typed, TypeOK, Turn
<1>2. Bound(p, eng[p], pressed) /\ Holds(p, rec[p], pressed)
  BY DEF SecretInv
<1>3. ~e.send
  <2>1. Alone(p, eng'[p], rec'[p], call')
    BY DEF IInv, AgreeInv
  <2> QED
    BY <1>1, <2>1 DEF Alone
<1>4. Bound(p, e, pressed)
  BY <1>2, <1>3 DEF Bound
<1>5. ASSUME NEW s \in Secrets, KeepInv(s)
      PROVE  Keeps(s, e, rec[p], rec[Peer(p)], call, half)
  <2>1. Keeps(s, eng[p], rec[p], rec[Peer(p)], call, half)
    BY <1>5 DEF KeepInv
  <2> QED
    BY <2>1 DEF Keeps, SameSecrets
<1> QED
  BY <1>1, <1>2, <1>4, <1>5, SecretStep

LEMMA PlainPackets ==
  ASSUME NEW p \in Parties, NEW e, NEW type \in Types \ {"DHPart1", "DHPart2"}
  PROVE  Packets(p, e, {Plain(p, type)})
<1>1. Plain(p, type) \in Packet /\ Plain(p, type).from = p /\ Plain(p, type).type = type
  BY PlainIs
<1>2. Plain(p, type).ver = FALSE
  BY DEF Plain
<1> QED
  BY <1>1, <1>2 DEF Packets

LEMMA StatePackets ==
  ASSUME NEW p \in Parties, NEW e \in Engine
  PROVE  /\ Packets(p, e, {})
         /\ e.st \in Sending => Packets(p, e, {SentPacket(p, e)})
         /\ eng[p] \in Engine /\ eng[p].st \in Sending => Packets(p, e, {SentPacket(p, eng[p])})
<1>1. Packets(p, e, {})
  BY DEF Packets
<1>2. ASSUME NEW f \in Engine, f.st \in Sending
      PROVE  SentPacket(p, f) \in Packet /\ SentPacket(p, f).from = p
  <2>1. SentPacket(p, f) \in Packet
    BY <1>2, SentPacketType
  <2>2. \A x : Plain(p, x).from = p
    BY DEF Plain
  <2>3. \A x : DHPart(p, x, f).from = p /\ Confirm(p, x, f).from = p
    BY DEF Plain, DHPart, Confirm
  <2>4. \/ \E x : SentPacket(p, f) = Plain(p, x)
        \/ \E x : SentPacket(p, f) = DHPart(p, x, f) \/ SentPacket(p, f) = Confirm(p, x, f)
    BY <1>2, SentPacketIs DEF Sending
  <2> QED
    BY <2>1, <2>2, <2>3, <2>4
<1> QED
  BY <1>1, <1>2 DEF Packets

LEMMA HandleKeeps ==
  ASSUME IInv, NEW p \in Parties, NEW m, NEW e, NEW out, Handle(p, m, e, out)
  PROVE  Turn(p, e, out) /\ UNCHANGED <<pressed, kills>>
  BY HandleTurn DEF Handle, histVars, faultVars

LEMMA DiscoverySecret ==
  ASSUME IInv, IInv', SecretInv, NEW p \in Parties, NEW m \in net,
         \/ DetectHelloAck(p, m) \/ DetectHello(p, m) \/ AckSentHello(p, m)
         \/ AckDetectedHello(p, m) \/ AckSentHelloAck(p, m) \/ CommitClash(p, m)
  PROVE  SecretInv'
<1> DEFINE e0 == eng[p]
           e1 == cancelTimer(e0)
           e2 == startTimer(e1)
           e3 == prepareCommit(p, e2)
           e4 == prepareCommit(p, e0)
<1>1. e0 \in Engine /\ Requests(e0) /\ rec[p] \in Record
  BY Facts
<1>2. e1 \in Engine /\ e1.st = e0.st /\ e1.t = 0 /\ Alike(e0, e1)
  BY <1>1, CancelIs, AlikeFacts
<1>3. e2 \in Engine /\ e2.st = e0.st /\ Alike(e0, e2)
  BY <1>2, StartIs, AlikeFacts DEF Alike
<1>4. /\ e3 \in Engine /\ e3.st = e0.st /\ e3.mem = rec[p] /\ e3.read
      /\ e3.save = e0.save /\ e3.heard = e0.heard
  BY <1>1, <1>3, PrepareIs, PrepareStays DEF Alike
<1>5. /\ e4 \in Engine /\ e4.st = e0.st /\ e4.mem = rec[p] /\ e4.read
      /\ e4.save = e0.save /\ e4.heard = e0.heard
  BY <1>1, PrepareIs, PrepareStays
<1> HIDE DEF e0, e1, e2, e3, e4
<1>6. CASE DetectHelloAck(p, m)
  <2> DEFINE e == nextState(e1, "AckDetected")
  <2>1. e \in Engine /\ e.st = "AckDetected" /\ Alike(e0, e)
    BY <1>2, NextStateIs, AlikeFacts DEF States, Alike
  <2>2. e0.st = "Detect" /\ Turn(p, e, {}) /\ UNCHANGED <<rec, pressed, kills>>
    BY <1>6, HandleKeeps DEF DetectHelloAck, In, e0, e1
  <2> HIDE DEF e
  <2>3. Packets(p, e, {})
    BY <2>1, StatePackets
  <2> QED
    BY <2>1, <2>2, <2>3, AlikeStep DEF e0, Unread
<1>7. CASE DetectHello(p, m)
  <2> DEFINE e == nextState(e3, "AckSent")
  <2>1. e \in Engine /\ e.st = "AckSent" /\ Alike(e3, e)
    BY <1>4, NextStateIs, AlikeFacts DEF States
  <2>2. Turn(p, e, {Plain(p, "HelloAck")}) /\ UNCHANGED <<rec, pressed, kills>>
    BY <1>7, HandleKeeps DEF DetectHello, e0, e1, e2, e3
  <2> HIDE DEF e
  <2>3. Packets(p, e, {Plain(p, "HelloAck")})
    BY PlainPackets DEF Types
  <2> QED
    BY <1>4, <2>1, <2>2, <2>3, PrepareStep DEF e0, Alike
<1>8. CASE AckSentHello(p, m)
  <2>1. Turn(p, e0, {Plain(p, "HelloAck")}) /\ UNCHANGED <<rec, pressed, kills>>
        /\ e0.st = "AckSent"
    BY <1>8, HandleKeeps DEF AckSentHello, In, e0
  <2>2. Packets(p, e0, {Plain(p, "HelloAck")})
    BY PlainPackets DEF Types
  <2> QED
    BY <1>1, <2>1, <2>2, AlikeStep DEF e0, Alike
<1>9. CASE AckDetectedHello(p, m)
  <2> DEFINE e == nextState(e4, "WaitCommit")
  <2>1. e \in Engine /\ e.st = "WaitCommit" /\ Alike(e4, e)
    BY <1>5, NextStateIs, AlikeFacts DEF States
  <2>2. Turn(p, e, {SentPacket(p, e)}) /\ UNCHANGED <<rec, pressed, kills>>
    BY <1>9, HandleKeeps DEF AckDetectedHello, e0, e4
  <2> HIDE DEF e
  <2>3. Packets(p, e, {SentPacket(p, e)})
    BY <2>1, StatePackets DEF Sending
  <2> QED
    BY <1>5, <2>1, <2>2, <2>3, PrepareStep DEF e0, Alike
<1>10. CASE AckSentHelloAck(p, m)
  <2> DEFINE e == nextState(e2, "CommitSent")
  <2>1. e \in Engine /\ e.st = "CommitSent" /\ Alike(e0, e)
    BY <1>3, NextStateIs, AlikeFacts DEF States, Alike
  <2>2. e0.st = "AckSent" /\ Turn(p, e, {SentPacket(p, e)}) /\ UNCHANGED <<rec, pressed, kills>>
    BY <1>10, HandleKeeps DEF AckSentHelloAck, In, e0, e1, e2
  <2> HIDE DEF e
  <2>3. Packets(p, e, {SentPacket(p, e)})
    BY <2>1, StatePackets DEF Sending
  <2> QED
    BY <2>1, <2>2, <2>3, AlikeStep DEF e0, Unread
<1>11. CASE CommitClash(p, m)
  <2>1. e0.st = "CommitSent" /\ Turn(p, e2, {}) /\ UNCHANGED <<rec, pressed, kills>>
    BY <1>11, HandleKeeps DEF CommitClash, In, e0, e1, e2
  <2>2. Packets(p, e2, {})
    BY <1>3, StatePackets
  <2> QED
    BY <1>3, <2>1, <2>2, AlikeStep DEF e0
<1> QED
  BY <1>6, <1>7, <1>8, <1>9, <1>10, <1>11

LEMMA BecomeResponderSecret ==
  ASSUME IInv, IInv', SecretInv, NEW p \in Parties, NEW m \in net, BecomeResponder(p, m)
  PROVE  SecretInv'
<1> DEFINE e0 == eng[p]
           e1 == cancelTimer(e0)
           e == nextState(e1, "WaitDHPart2")
<1>1. e0 \in Engine
  BY Facts
<1>2. e1 \in Engine /\ Alike(e0, e1)
  BY <1>1, CancelIs, AlikeFacts
<1>3. e \in Engine /\ e.st = "WaitDHPart2" /\ Alike(e0, e)
  BY <1>2, NextStateIs, AlikeFacts DEF States, Alike
<1>4. e0.st \in {"AckSent", "WaitCommit", "CommitSent"}
      /\ Turn(p, e, {SentPacket(p, e)}) /\ UNCHANGED <<rec, pressed, kills>>
  BY HandleKeeps DEF BecomeResponder, In
<1> HIDE DEF e, e1
<1>5. Packets(p, e, {SentPacket(p, e)})
  BY <1>3, StatePackets DEF Sending
<1> QED
  BY <1>3, <1>4, <1>5, AlikeStep DEF Unread

\* A key is made of the secret in common, and a verdict without one is reset.
LEMMA GenerateStep ==
  ASSUME IInv, IInv', SecretInv, NEW p \in Parties, NEW e \in Engine, NEW m \in net,
         NEW ini \in Parties, NEW g \in Engine, g = generateKeys(eng[p], ini, m.ids),
         m \in Packet, m.type \in {"DHPart1", "DHPart2"},
         Alike(g, e), eng[p].st \in {"CommitSent", "WaitDHPart2"},
         e.st \in {"WaitConfirm1", "WaitConfirm2"},
         Turn(p, e, {SentPacket(p, e)}), UNCHANGED <<rec, pressed, kills>>
  PROVE  SecretInv'
<1> DEFINE e0 == eng[p]
           s1 == MatchingSecret(e0.mem, m.ids)
           stranger == Stranger(e0.mem, m.ids)
<1>1. /\ e0 \in Engine /\ e0.mem \in Record /\ g.mem \in Record /\ rec[p] \in Record
      /\ m.ids \in SUBSET Secrets
  BY Facts DEF Engine, Packet
<1>2. Peer(p) \in Parties /\ rec'[Peer(p)] = rec[Peer(p)] /\ rec'[p] = rec[p]
      /\ pressed' = pressed /\ kills' = kills
  BY PeerFacts DEF IInv, Typed, TypeOK
<1>3. /\ e.key.s1 = s1 /\ SameSecrets(e0.mem, e.mem) /\ e.send = e0.send
      /\ e.read = e0.read /\ e.heard = e0.heard
      /\ e.save <=> (e0.save /\ ~stranger)
      /\ e.mem.ver <=> (e0.mem.ver /\ ~stranger)
  <2>1. /\ g.send = e0.send /\ g.key = [ini |-> ini, s1 |-> s1]
        /\ SameSecrets(e0.mem, g.mem)
    BY <1>1, GenerateIs
  <2>2. /\ g.read = e0.read /\ g.heard = e0.heard
        /\ g.save <=> (e0.save /\ ~stranger)
        /\ g.mem.ver <=> (e0.mem.ver /\ ~stranger)
    BY <1>1, GenerateStays
  <2> HIDE DEF stranger, s1, e0
  <2> QED
    BY <2>1, <2>2 DEF Alike
<1> HIDE DEF stranger, s1
<1>4. Bound(p, e0, pressed) /\ Holds(p, rec[p], pressed)
  BY DEF SecretInv
<1>5. ~e0.send
  BY Facts DEF Joint, Alone
<1>6. e.mem.ver => s1 # NoSecret
  <2>1. SUFFICES ASSUME e.mem.ver, s1 = NoSecret PROVE FALSE
    OBVIOUS
  <2>2. Ids(e0.mem) = {}
    BY <1>3, <2>1 DEF stranger, s1, Stranger
  <2>3. e0.mem.v1
    BY <1>3, <1>4, <2>1 DEF Bound, Holds
  <2>4. e0.mem.rs1 \in Ids(e0.mem)
    BY <1>1, <2>3 DEF Ids, Record
  <2> QED
    BY <2>2, <2>4
<1>7. Bound(p, e, pressed)
  <2>1. Holds(p, e.mem, pressed)
    BY <1>3, <1>4 DEF Bound, Holds, SameSecrets
  <2> QED
    BY <1>3, <1>5, <1>6, <2>1 DEF Bound
<1>8. ASSUME NEW s \in Secrets, KeepInv(s)
      PROVE  Keeps(s, e, rec[p], rec[Peer(p)], call, half)
  <2>1. Keeps(s, e0, rec[p], rec[Peer(p)], call, half) /\ s \in m.ids
    BY <1>8 DEF KeepInv, Carries
  <2>2. rec[p].rs1 # call
    BY SecretsOrdered DEF Unsaved, Young
  <2>3. e0.read /\ SameSecrets(e0.mem, rec[p])
    BY <2>1 DEF Keeps, Unread
  <2>4. s \in Ids(e0.mem)
    <3>1. s \in Ids(rec[p])
      BY <2>1, <2>2 DEF Keeps
    <3> QED
      BY <1>1, <2>3, <3>1, SameIds
  <2>5. ~stranger
    BY <1>1, <2>1, <2>4, MatchFound DEF stranger, s1, Stranger
  <2>6. SameSecrets(e.mem, rec[p])
    BY <1>3, <2>3 DEF SameSecrets
  <2> QED
    BY <1>3, <2>1, <2>2, <2>3, <2>5, <2>6 DEF Keeps
<1>9. Packets(p, e, {SentPacket(p, e)})
  BY StatePackets DEF Sending
<1> QED
  BY <1>2, <1>4, <1>7, <1>8, <1>9, SecretStep

LEMMA GenerateSecret ==
  ASSUME IInv, IInv', SecretInv, NEW p \in Parties, NEW m \in net,
         CommitSentDHPart1(p, m) \/ WaitDHPart2DHPart2(p, m)
  PROVE  SecretInv'
<1>1. eng[p] \in Engine /\ m \in Packet /\ m.ids \in SUBSET Secrets /\ Peer(p) \in Parties
  BY Facts, PacketIs, PeerFacts
<1>2. CASE CommitSentDHPart1(p, m)
  <2> DEFINE g == generateKeys(eng[p], p, m.ids)
             e2 == cancelTimer(g)
             e3 == startTimer(e2)
             e == nextState(e3, "WaitConfirm1")
  <2>1. g \in Engine
    BY <1>1, GenerateIs
  <2>2. /\ eng[p].st = "CommitSent" /\ m.type = "DHPart1" /\ Turn(p, e, {SentPacket(p, e)})
        /\ UNCHANGED <<rec, pressed, kills>>
    BY <1>2, HandleKeeps DEF CommitSentDHPart1, In
  <2>3. g = generateKeys(eng[p], p, m.ids)
    OBVIOUS
  <2> HIDE DEF g
  <2>4. e2 \in Engine /\ e2.t = 0 /\ Alike(g, e2)
    BY <2>1, CancelIs, AlikeFacts
  <2> HIDE DEF e2
  <2>5. e3 \in Engine /\ Alike(g, e3)
    BY <2>4, StartIs, AlikeFacts DEF Alike
  <2> HIDE DEF e3
  <2>6. e \in Engine /\ e.st = "WaitConfirm1" /\ Alike(g, e)
    BY <2>5, NextStateIs, AlikeFacts DEF States, Alike
  <2> HIDE DEF e
  <2> QED
    BY <1>1, <2>1, <2>2, <2>3, <2>6, GenerateStep
<1>3. CASE WaitDHPart2DHPart2(p, m)
  <2> DEFINE g == generateKeys(eng[p], Peer(p), m.ids)
             e == nextState(g, "WaitConfirm2")
  <2>1. g \in Engine
    BY <1>1, GenerateIs
  <2>2. /\ eng[p].st = "WaitDHPart2" /\ m.type = "DHPart2" /\ Turn(p, e, {SentPacket(p, e)})
        /\ UNCHANGED <<rec, pressed, kills>>
    BY <1>3, HandleKeeps DEF WaitDHPart2DHPart2, In
  <2>3. g = generateKeys(eng[p], Peer(p), m.ids)
    OBVIOUS
  <2> HIDE DEF g
  <2>4. e \in Engine /\ e.st = "WaitConfirm2" /\ Alike(g, e)
    BY <2>1, NextStateIs, AlikeFacts DEF States
  <2> HIDE DEF e
  <2> QED
    BY <1>1, <2>1, <2>2, <2>3, <2>4, GenerateStep
<1> QED
  BY <1>2, <1>3

\* The new secret is taken and stored, and the old one kept behind it.
LEMMA TakeStep ==
  ASSUME IInv, IInv', SecretInv, NEW p \in Parties, NEW e \in Engine, NEW m \in net,
         NEW g \in Engine, g = takeConfirm(eng[p], m), m \in Packet, m.from # p,
         e.key = g.key, e.mem = g.mem, Stays(g, e),
         \/ eng[p].st = "WaitConfirm1" /\ e.st = "WaitConfAck"
         \/ eng[p].st = "WaitConfirm2" /\ e.st = "SecureState",
         e.send /\ e.told => e.mem.ver,
         Turn(p, e, {SentPacket(p, e)}), UNCHANGED <<pressed, kills>>, saveRecord(p, e)
  PROVE  SecretInv'
<1> DEFINE e0 == eng[p]
           q == Peer(p)
<1>1. /\ e0 \in Engine /\ e0.mem \in Record /\ e.mem \in Record /\ rec[p] \in Record
      /\ call \in Secrets /\ rec \in [Parties -> Record]
  BY Facts DEF Engine, IInv, Typed, TypeOK
<1>2. q \in Parties /\ q # p /\ m.from = q /\ pressed' = pressed /\ kills' = kills
      /\ pressed \subseteq Parties /\ \A x \in Parties : x = p \/ x = q
  BY PeerFacts, PacketIs DEF IInv, Typed, TypeOK
<1>3. /\ e.key = e0.key /\ e.mem.rs1 = call /\ e.mem.rs2 = e0.mem.rs1 /\ e.mem.v1 = TRUE
      /\ e.mem.ver <=> (e0.mem.ver /\ m.ver)
      /\ e.save = e0.save /\ e.read = e0.read /\ e.heard = e0.heard
  <2>1. /\ g.key = e0.key /\ g.mem.rs1 = call /\ g.mem.rs2 = e0.mem.rs1
        /\ g.mem.ver <=> (e0.mem.ver /\ m.ver)
    BY <1>1, TakeConfirmIs
  <2>2. Stays(e0, g) /\ g.mem.v1 = TRUE
    BY <1>1, TakeStays
  <2> QED
    BY <2>1, <2>2 DEF Stays
<1>4. rec' = (IF e.save THEN [rec EXCEPT ![p] = e.mem] ELSE rec)
  BY DEF saveRecord
<1>5. rec'[q] = rec[q] /\ (e.save => rec'[p] = e.mem) /\ rec'[p] \in {rec[p], e.mem}
  BY <1>1, <1>2, <1>4
<1>6. Bound(p, e0, pressed) /\ Holds(p, rec[p], pressed) /\ (m.ver => q \in pressed)
  BY <1>2 DEF SecretInv
<1>7. Holds(p, e.mem, pressed)
  BY <1>3, <1>6 DEF Bound, Holds
<1>8. e.mem.ver => e.key.s1 # NoSecret /\ p \in pressed /\ q \in pressed
  BY <1>3, <1>6 DEF Bound, Holds
<1>9. Bound(p, e, pressed)
  <2>1. e.mem.ver => pressed = Parties
    BY <1>2, <1>8
  <2> QED
    BY <1>3, <1>7, <1>8, <2>1 DEF Bound
<1>10. Holds(p, rec'[p], pressed)
  BY <1>5, <1>6, <1>7
<1>11. ASSUME NEW s \in Secrets, KeepInv(s)
       PROVE  /\ Keeps(s, e, rec'[p], rec[q], call, half)
              /\ rec[p].rs1 = call => rec'[p].rs1 = call
  <2>1. Keeps(s, e0, rec[p], rec[q], call, half)
    BY <1>11 DEF KeepInv
  <2>2. rec[p].rs1 # call
    BY SecretsOrdered DEF Unsaved, Young
  <2>3. e.save /\ e0.read /\ SameSecrets(e0.mem, rec[p])
    BY <1>3, <2>1 DEF Keeps, Unread
  <2>4. rec'[p] = e.mem /\ rec'[p].rs1 = call
    BY <1>3, <1>5, <2>3
  <2>5. half = 0 => e.mem.rs2 = s
    BY <1>3, <2>1, <2>2, <2>3 DEF Keeps, SameSecrets
  <2>6. Keeps(s, e, e.mem, rec[q], call, half)
    BY <1>3, <2>1, <2>3, <2>5 DEF Keeps, SameSecrets
  <2> QED
    BY <2>4, <2>6
<1>12. Packets(p, e, {SentPacket(p, e)})
  BY StatePackets DEF Sending
<1> QED
  BY <1>2, <1>5, <1>9, <1>10, <1>11, <1>12, SecretStep

LEMMA ConfirmSecret ==
  ASSUME IInv, IInv', SecretInv, NEW p \in Parties, NEW m \in net,
         WaitConfirm1Confirm1(p, m) \/ WaitConfirm2Confirm2(p, m)
  PROVE  SecretInv'
<1> DEFINE g == takeConfirm(eng[p], m)
<1>1. eng[p] \in Engine /\ m \in Packet /\ call \in Secrets /\ ~eng[p].send
  <2>1. Alone(p, eng[p], rec[p], call)
    BY Facts DEF Joint
  <2>2. eng[p].st # "SecureState"
    BY DEF WaitConfirm1Confirm1, WaitConfirm2Confirm2, In
  <2> QED
    BY <2>1, <2>2, Facts, PacketIs DEF Alone
<1>2. g \in Engine /\ g.send = eng[p].send
  BY <1>1, TakeConfirmIs
<1>3. g = takeConfirm(eng[p], m)
  OBVIOUS
<1>4. CASE WaitConfirm1Confirm1(p, m)
  <2> DEFINE e2 == cancelTimer(g)
             e3 == startTimer(e2)
             e4 == nextState(e3, "WaitConfAck")
             e == [e4 EXCEPT !.recv = TRUE]
  <2>1. /\ eng[p].st = "WaitConfirm1" /\ m.from # p /\ Turn(p, e, {SentPacket(p, e)})
        /\ UNCHANGED <<pressed, kills>> /\ saveRecord(p, e)
    BY <1>4, HandleKeeps DEF WaitConfirm1Confirm1, In, Handle
  <2> HIDE DEF g
  <2>2. e2 \in Engine /\ e2.t = 0 /\ Alike(g, e2)
    BY <1>2, CancelIs, AlikeFacts
  <2> HIDE DEF e2
  <2>3. e3 \in Engine /\ Alike(g, e3)
    BY <2>2, StartIs, AlikeFacts DEF Alike
  <2> HIDE DEF e3
  <2>4. e4 \in Engine /\ e4.st = "WaitConfAck" /\ Alike(g, e4)
    BY <2>3, NextStateIs, AlikeFacts DEF States, Alike
  <2> HIDE DEF e4
  <2>5. e \in Engine /\ e.st = "WaitConfAck" /\ Alike(e4, e)
    <3>1. e \in Engine /\ e.st = "WaitConfAck"
      BY <2>4, RecvIs
    <3>2. Alike(e4, e)
      BY <2>4, AlikeFacts
    <3> QED
      BY <3>1, <3>2
  <2> HIDE DEF e
  <2>6. e.key = g.key /\ e.mem = g.mem /\ Stays(g, e) /\ ~e.send
    BY <1>1, <1>2, <2>4, <2>5 DEF Alike, Stays
  <2> QED
    BY <1>1, <1>2, <1>3, <2>1, <2>5, <2>6, TakeStep
<1>5. CASE WaitConfirm2Confirm2(p, m)
  <2> DEFINE e2 == [g EXCEPT !.recv = TRUE]
             e3 == senderOn(e2)
             e == nextState(e3, "SecureState")
  <2>1. /\ eng[p].st = "WaitConfirm2" /\ m.from # p /\ Turn(p, e, {SentPacket(p, e)})
        /\ UNCHANGED <<pressed, kills>> /\ saveRecord(p, e)
    BY <1>5, HandleKeeps DEF WaitConfirm2Confirm2, In, Handle
  <2> HIDE DEF g
  <2>2. e2 \in Engine /\ Alike(g, e2)
    BY <1>2, RecvIs, AlikeFacts
  <2> HIDE DEF e2
  <2>3. /\ e3 \in Engine /\ e3.told = e2.mem.ver /\ e3.key = e2.key /\ e3.mem = e2.mem
        /\ Stays(e2, e3)
    BY <2>2, SenderOnIs, SenderOnStays
  <2> HIDE DEF e3
  <2>4. e \in Engine /\ e.st = "SecureState" /\ Alike(e3, e)
    BY <2>3, NextStateIs, AlikeFacts DEF States
  <2> HIDE DEF e
  <2>5. e.key = g.key /\ e.mem = g.mem /\ Stays(g, e) /\ (e.told => e.mem.ver)
    BY <2>2, <2>3, <2>4 DEF Alike, Stays
  <2> QED
    BY <1>1, <1>2, <1>3, <2>1, <2>4, <2>5, TakeStep
<1> QED
  BY <1>4, <1>5

\* The initiator sends, and tells the verdict.
LEMMA FinishSecret ==
  ASSUME IInv, IInv', SecretInv, NEW p \in Parties,
         FirstMedia(p) \/ \E m \in net : WaitConfAckConf2Ack(p, m)
  PROVE  SecretInv'
<1> DEFINE e0 == eng[p]
           e1 == cancelTimer(e0)
           e2 == senderOn(e1)
           e == nextState(e2, "SecureState")
<1>1. e0 \in Engine
  BY Facts
<1>2. Peer(p) \in Parties /\ (\A x \in Parties : x = p \/ x = Peer(p)) /\ pressed \subseteq Parties
  BY PeerFacts DEF IInv, Typed, TypeOK
<1>3. e0.st = "WaitConfAck" /\ Turn(p, e, {}) /\ UNCHANGED <<rec, pressed, kills>>
  <2>1. CASE FirstMedia(p)
    <3>1. /\ e0.st = "WaitConfAck" /\ eng' = [eng EXCEPT ![p] = e]
          /\ UNCHANGED <<rec, net, call, hi, histVars, faultVars>>
      BY <2>1 DEF FirstMedia
    <3> HIDE DEF e
    <3> QED
      BY <3>1 DEF Turn, histVars, faultVars, IInv, Typed, TypeOK
  <2>2. ASSUME NEW m \in net, WaitConfAckConf2Ack(p, m)
        PROVE  e0.st = "WaitConfAck" /\ Turn(p, e, {}) /\ UNCHANGED <<rec, pressed, kills>>
    BY <2>2, HandleKeeps DEF WaitConfAckConf2Ack, In
  <2> QED
    BY <2>1, <2>2
<1>4. e1 \in Engine /\ Alike(e0, e1)
  BY <1>1, CancelIs, AlikeFacts
<1> HIDE DEF e1
<1>5. /\ e2 \in Engine /\ e2.told = e1.mem.ver /\ e2.key = e1.key /\ e2.mem = e1.mem
      /\ Stays(e1, e2)
  BY <1>4, SenderOnIs, SenderOnStays
<1> HIDE DEF e2
<1>6. e \in Engine /\ e.st = "SecureState" /\ Alike(e2, e)
  BY <1>5, NextStateIs, AlikeFacts DEF States
<1> HIDE DEF e
<1>7. e.key = e0.key /\ e.mem = e0.mem /\ Stays(e0, e) /\ e.told = e0.mem.ver
  BY <1>4, <1>5, <1>6 DEF Alike, Stays
<1>8. Bound(p, e0, pressed) /\ Holds(p, rec[p], pressed)
  BY DEF SecretInv
<1>9. Bound(p, e, pressed)
  <2>1. e0.mem.ver => e0.key.s1 # NoSecret /\ p \in pressed /\ Peer(p) \in pressed
    BY <1>3, <1>8 DEF Bound, Holds
  <2>2. e0.mem.ver => pressed = Parties
    BY <1>2, <2>1
  <2> QED
    BY <1>3, <1>6, <1>7, <1>8, <2>1, <2>2 DEF Bound
<1>10. ASSUME NEW s \in Secrets, KeepInv(s)
       PROVE  Keeps(s, e, rec[p], rec[Peer(p)], call, half)
  <2>1. Keeps(s, e0, rec[p], rec[Peer(p)], call, half)
    BY <1>10 DEF KeepInv
  <2> QED
    BY <1>3, <1>6, <1>7, <2>1 DEF Keeps, Stays, Unread
<1>11. Packets(p, e, {})
  BY <1>6, StatePackets
<1>12. rec' = rec /\ pressed' = pressed /\ kills' = kills
  BY <1>3
<1> QED
  BY <1>3, <1>8, <1>9, <1>10, <1>11, <1>12, SecretStep

LEMMA RepeatSecret ==
  ASSUME IInv, IInv', SecretInv, NEW p \in Parties, NEW m \in net, Repeat(p, m) \/ Ignore(p, m)
  PROVE  SecretInv'
<1> DEFINE e == eng[p]
<1>1. e \in Engine
  BY Facts
<1>2. CASE Repeat(p, m)
  <2>1. /\ e.st \in {"WaitCommit", "WaitDHPart2", "WaitConfirm2", "SecureState"}
        /\ Turn(p, e, {SentPacket(p, e)}) /\ UNCHANGED <<rec, pressed, kills>>
    BY <1>2, HandleKeeps DEF Repeat, In
  <2>2. Packets(p, e, {SentPacket(p, e)})
    BY <1>1, <2>1, StatePackets DEF Sending
  <2> QED
    BY <1>1, <2>1, <2>2, AlikeStep DEF Alike
<1>3. CASE Ignore(p, m)
  <2>1. Turn(p, e, {}) /\ UNCHANGED <<rec, pressed, kills>>
    BY <1>3, HandleKeeps DEF Ignore
  <2>2. Packets(p, e, {})
    BY <1>1, StatePackets
  <2>3. e.st = "Initial" => e.st \notin {"Off", "Detect", "Stopped"}
    OBVIOUS
  <2> QED
    BY <1>1, <2>1, <2>2, <2>3, AlikeStep DEF Alike
<1> QED
  BY <1>2, <1>3

LEMMA ReceiveSecret ==
  ASSUME IInv, IInv', SecretInv, NEW p \in Parties, NEW m \in net, Receive(p, m)
  PROVE  SecretInv'
  BY DiscoverySecret, BecomeResponderSecret, GenerateSecret, ConfirmSecret, FinishSecret,
     RepeatSecret DEF Receive

LEMMA StartSecret ==
  ASSUME IInv, IInv', SecretInv, NEW p \in Parties, Start(p)
  PROVE  SecretInv'
<1> DEFINE e0 == eng[p]
           e1 == startTimer(e0)
           e == nextState(e1, "Detect")
<1>1. e0 \in Engine /\ Requests(e0) /\ e0.st = "Off"
  BY Facts DEF Start
<1>2. e1 \in Engine /\ Alike(e0, e1)
  BY <1>1, StartIs, AlikeFacts DEF Requests
<1>3. /\ eng' = [eng EXCEPT ![p] = e] /\ net' = net \cup {SentPacket(p, e)}
      /\ UNCHANGED <<rec, call, hi, histVars, faultVars>>
  BY DEF Start
<1> HIDE DEF e1
<1>4. e \in Engine /\ e.st = "Detect" /\ Alike(e0, e)
  BY <1>2, NextStateIs, AlikeFacts DEF States, Alike
<1> HIDE DEF e
<1>5. Turn(p, e, {SentPacket(p, e)}) /\ UNCHANGED <<rec, pressed, kills>>
  BY <1>3 DEF Turn, histVars, faultVars, IInv, Typed, TypeOK
<1>6. Packets(p, e, {SentPacket(p, e)})
  BY <1>4, StatePackets DEF Sending
<1> QED
  BY <1>4, <1>5, <1>6, AlikeStep DEF Unread

\* Ten packets were read: the peer has stored the new secret.
LEMMA ListenSecret ==
  ASSUME IInv, IInv', SecretInv, NEW p \in Parties, Listen(p)
  PROVE  SecretInv'
<1> DEFINE e0 == eng[p]
           q == Peer(p)
           e == [e0 EXCEPT !.heard = TRUE]
<1>1. e0 \in Engine /\ eng \in [Parties -> Engine] /\ q \in Parties
  BY Facts, PeerFacts DEF IInv, Typed, TypeOK
<1>2. /\ e \in Engine /\ e.st = e0.st /\ e.mem = e0.mem /\ e.key = e0.key
      /\ e.send = e0.send /\ e.told = e0.told /\ e.save = e0.save /\ e.read = e0.read
  <2>1. TRUE \in BOOLEAN
    OBVIOUS
  <2>2. e \in Engine
    BY <1>1, <2>1, Updates
  <2> QED
    BY <1>1, <2>2 DEF Engine
<1>3. /\ eng' = [eng EXCEPT ![p] = e] /\ UNCHANGED <<rec, net, call, hi, histVars, faultVars>>
      /\ eng[q].send /\ e0.st = "SecureState"
  BY <1>1 DEF Listen, CanRead
<1> HIDE DEF e
<1>4. Turn(p, e, {}) /\ rec' = rec /\ pressed' = pressed /\ kills' = kills
  BY <1>3 DEF Turn, histVars, faultVars, IInv, Typed, TypeOK
<1>5. Bound(p, e0, pressed) /\ Holds(p, rec[p], pressed)
  BY DEF SecretInv
<1>6. Bound(p, e, pressed)
  BY <1>2, <1>5 DEF Bound
<1>7. eng[q].st = "SecureState"
  BY <1>3, Facts DEF Alone
<1>8. ASSUME NEW s \in Secrets, KeepInv(s)
      PROVE  Keeps(s, e, rec[p], rec[q], call, half)
  <2>1. Keeps(s, e0, rec[p], rec[q], call, half)
    BY <1>8 DEF KeepInv
  <2>2. rec[q].rs1 = call
    BY <1>1, <1>7, <1>8 DEF KeepInv, Keeps
  <2> QED
    BY <1>2, <2>1, <2>2 DEF Keeps
<1>9. Packets(p, e, {})
  BY DEF Packets
<1> QED
  BY <1>4, <1>5, <1>6, <1>8, <1>9, SecretStep

LEMMA ExpireSecret ==
  ASSUME IInv, IInv', SecretInv, NEW p \in Parties, Expire(p)
  PROVE  SecretInv'
<1> DEFINE e0 == eng[p]
           t == e0.t - 1
           e1 == [e0 EXCEPT !.t = t]
           e == [e1 EXCEPT !.late = TRUE]
<1>1. e0 \in Engine /\ eng \in [Parties -> Engine] /\ e0.t > 0
  BY Facts DEF IInv, Typed, TypeOK, Expire
<1>2. t \in 0 .. 2
  BY <1>1 DEF Engine
<1>3. /\ eng' = [eng EXCEPT ![p] = e] /\ UNCHANGED <<rec, net, call, hi, histVars, kills>>
  BY <1>1 DEF Expire
<1> HIDE DEF t
<1>4. e1 \in Engine /\ e1.st = e0.st /\ Alike(e0, e1)
  BY <1>1, <1>2, RequestIs, AlikeFacts
<1> HIDE DEF e1
<1>5. e \in Engine /\ e.st = e0.st /\ Alike(e1, e)
  BY <1>4, LateIs, AlikeFacts
<1> HIDE DEF e
<1>6. faults' \in 0 .. MaxFaults /\ kills \in 0 .. faults'
  BY FaultTypes DEF Expire, IInv, Typed, TypeOK
<1>7. Turn(p, e, {}) /\ UNCHANGED <<rec, pressed, kills>>
  BY <1>3, <1>6 DEF Turn, histVars, IInv, Typed, TypeOK
<1>8. Packets(p, e, {}) /\ Alike(e0, e)
  BY <1>4, <1>5, StatePackets DEF Alike
<1>9. e.st = "Initial" => e0.st \notin {"Off", "Detect", "Stopped"}
  BY <1>4, <1>5
<1> QED
  BY <1>4, <1>5, <1>7, <1>8, <1>9, AlikeStep

LEMMA TimeoutSecret ==
  ASSUME IInv, IInv', SecretInv, NEW p \in Parties, Timeout(p)
  PROVE  SecretInv'
<1> DEFINE e0 == eng[p]
           s == SentPacket(p, e0)
<1>1. e0 \in Engine
  BY Facts
<1>2. /\ UNCHANGED <<rec, pressed, kills>>
      /\ \A e, out : OnTimer(p, e, out) => Turn(p, [e EXCEPT !.late = FALSE], out)
  <2>1. \A e, out : OnTimer(p, e, out) =>
          /\ Turn(p, [e EXCEPT !.late = FALSE], out) /\ UNCHANGED <<rec, pressed, kills>>
    BY TimerTurn DEF OnTimer, histVars, faultVars
  <2> QED
    BY <2>1 DEF Timeout, Resend, HelloUnanswered, TooMuchRetries, UnexpectedTimer, StrayTimer
<1>3. \A e : /\ e \in Engine => Packets(p, e, {})
             /\ e \in Engine /\ e0.st \in Sending => Packets(p, e, {s})
  BY <1>1, StatePackets
<1>4. CASE Resend(p)
  <2> DEFINE n == e0.n + 1
             t == e0.t + 1
             e1 == [e0 EXCEPT !.n = n]
             e2 == [e1 EXCEPT !.t = t]
             e == [e2 EXCEPT !.late = FALSE]
  <2>1. e0.st \in Resending /\ e0.n < MaxResend /\ Turn(p, e, {s}) /\ e0.late
    <3>1. e1.t = e0.t
      BY <1>1 DEF Engine
    <3> QED
      BY <1>2, <1>4, <3>1 DEF Resend, OnTimer
  <2>2. n \in 0 .. MaxResend /\ t \in 0 .. 2
    BY <1>1, <2>1, Facts DEF Engine, Requests
  <2> HIDE DEF n
  <2>3. e1 \in Engine /\ e1.st = e0.st /\ Alike(e0, e1)
    BY <1>1, <2>2, CountIs, AlikeFacts
  <2> HIDE DEF e1, t
  <2>4. e2 \in Engine /\ e2.st = e0.st /\ Alike(e1, e2)
    BY <2>2, <2>3, RequestIs, AlikeFacts
  <2> HIDE DEF e2
  <2>5. e \in Engine /\ e.st = e0.st /\ Alike(e2, e)
    BY <2>4, LateIs, AlikeFacts
  <2> HIDE DEF e
  <2>6. Packets(p, e, {s})
    BY <1>3, <2>1, <2>5 DEF Resending, Sending
  <2>7. Alike(e0, e)
    BY <2>3, <2>4, <2>5 DEF Alike
  <2> QED
    BY <1>2, <2>1, <2>5, <2>6, <2>7, AlikeStep DEF Resending
<1>5. CASE HelloUnanswered(p)
  <2> DEFINE e1 == nextState(e0, "Detect")
             e == [e1 EXCEPT !.late = FALSE]
  <2>1. e0.st \in {"Detect", "AckSent"} /\ Turn(p, e, {s})
    BY <1>2, <1>5 DEF HelloUnanswered
  <2>2. e1 \in Engine /\ e1.st = "Detect" /\ Alike(e0, e1)
    BY <1>1, NextStateIs, AlikeFacts DEF States
  <2> HIDE DEF e1
  <2>3. e \in Engine /\ e.st = "Detect" /\ Alike(e1, e)
    BY <2>2, LateIs, AlikeFacts
  <2> HIDE DEF e
  <2>4. Packets(p, e, {s}) /\ Alike(e0, e)
    BY <1>3, <2>1, <2>2, <2>3 DEF Sending, Alike
  <2> QED
    BY <1>2, <2>1, <2>3, <2>4, AlikeStep DEF Unread
<1>6. CASE TooMuchRetries(p)
  <2> DEFINE e1 == nextState(e0, "Initial")
             e2 == [e1 EXCEPT !.recv = FALSE]
             e == [e2 EXCEPT !.late = FALSE]
  <2>1. e0.st \in {"CommitSent", "WaitConfirm1", "WaitConfAck"} /\ Turn(p, e, {s})
    BY <1>2, <1>6 DEF TooMuchRetries
  <2>2. e1 \in Engine /\ e1.st = "Initial" /\ Alike(e0, e1)
    BY <1>1, NextStateIs, AlikeFacts DEF States
  <2> HIDE DEF e1
  <2>3. e2 \in Engine /\ e2.st = "Initial" /\ Alike(e1, e2)
    BY <2>2, RecvIs, AlikeFacts
  <2> HIDE DEF e2
  <2>4. e \in Engine /\ e.st = "Initial" /\ Alike(e2, e)
    BY <2>3, LateIs, AlikeFacts
  <2> HIDE DEF e
  <2>5. Packets(p, e, {s}) /\ Alike(e0, e)
    BY <1>3, <2>1, <2>2, <2>3, <2>4 DEF Sending, Alike
  <2> QED
    BY <1>2, <2>1, <2>4, <2>5, AlikeStep DEF Unread
<1>7. CASE UnexpectedTimer(p)
  <2> DEFINE e1 == nextState(e0, "Initial")
             e == [e1 EXCEPT !.late = FALSE]
  <2>1. /\ e0.st \in {"AckDetected", "WaitCommit", "WaitDHPart2", "WaitConfirm2"}
        /\ Turn(p, e, {})
    BY <1>2, <1>7 DEF UnexpectedTimer
  <2>2. e1 \in Engine /\ e1.st = "Initial" /\ Alike(e0, e1)
    BY <1>1, NextStateIs, AlikeFacts DEF States
  <2> HIDE DEF e1
  <2>3. e \in Engine /\ e.st = "Initial" /\ Alike(e1, e)
    BY <2>2, LateIs, AlikeFacts
  <2> HIDE DEF e
  <2>4. Packets(p, e, {}) /\ Alike(e0, e)
    BY <1>3, <2>2, <2>3 DEF Alike
  <2> QED
    BY <1>2, <2>1, <2>3, <2>4, AlikeStep DEF Unread
<1>8. CASE StrayTimer(p)
  <2> DEFINE e == [e0 EXCEPT !.late = FALSE]
  <2>1. e0.st \in {"Initial", "SecureState"} /\ Turn(p, e, {})
    BY <1>2, <1>8 DEF StrayTimer
  <2>2. e \in Engine /\ e.st = e0.st /\ Alike(e0, e)
    BY <1>1, LateIs, AlikeFacts
  <2> HIDE DEF e
  <2>3. Packets(p, e, {})
    BY <1>3, <2>2
  <2> QED
    BY <1>2, <2>1, <2>2, <2>3, AlikeStep
<1> QED
  BY <1>4, <1>5, <1>6, <1>7, <1>8 DEF Timeout

\* The user confirms the SAS: of a record with a secret, which is stored.
LEMMA VerifySecret ==
  ASSUME IInv, IInv', SecretInv, NEW p \in Parties, Verify(p)
  PROVE  SecretInv'
<1> DEFINE e0 == eng[p]
           q == Peer(p)
           r == [e0.mem EXCEPT !.ver = TRUE]
           e1 == [e0 EXCEPT !.mem = r]
           e == [e1 EXCEPT !.save = TRUE]
<1>1. /\ e0 \in Engine /\ e0.mem \in Record /\ rec \in [Parties -> Record]
      /\ eng \in [Parties -> Engine] /\ pressed \subseteq Parties /\ q \in Parties /\ q # p
  BY Facts, PeerFacts DEF Engine, IInv, Typed, TypeOK
<1>2. /\ e0.st = "SecureState" /\ eng' = [eng EXCEPT ![p] = e] /\ saveRecord(p, e)
      /\ pressed' = pressed \cup {p} /\ UNCHANGED <<net, call, hi, half, faultVars>>
  BY DEF Verify
<1>3. r \in Record /\ SameSecrets(r, e0.mem) /\ r.ver = TRUE
  BY <1>1 DEF Record, SameSecrets
<1> HIDE DEF r
<1>4. /\ e1 \in Engine /\ e1.st = e0.st /\ e1.mem = r /\ e1.key = e0.key /\ e1.send = e0.send
      /\ e1.told = e0.told /\ e1.read = e0.read /\ e1.heard = e0.heard
  <2>1. e1 \in Engine
    BY <1>1, <1>3, Updates
  <2> QED
    BY <1>1, <2>1 DEF Engine
<1> HIDE DEF e1
<1>5. /\ e \in Engine /\ e.st = e0.st /\ e.mem = r /\ e.key = e0.key /\ e.send = e0.send
      /\ e.told = e0.told /\ e.read = e0.read /\ e.heard = e0.heard /\ e.save = TRUE
  <2>1. TRUE \in BOOLEAN
    OBVIOUS
  <2>2. e \in Engine
    BY <1>4, <2>1, Updates
  <2> QED
    BY <1>4, <2>2 DEF Engine
<1> HIDE DEF e
<1>6. rec'[p] = r /\ rec'[q] = rec[q]
  BY <1>1, <1>2, <1>5 DEF saveRecord
<1>7. Turn(p, e, {}) /\ kills' = kills
  BY <1>2 DEF Turn, faultVars, IInv, Typed, TypeOK
<1>8. Bound(p, e0, pressed)
  BY DEF SecretInv
<1>9. Holds(p, r, pressed')
  BY <1>2, <1>3, <1>8 DEF Bound, Holds, SameSecrets
<1>10. Bound(p, e, pressed')
  <2>1. pressed = Parties => pressed' = Parties
    BY <1>2
  <2> QED
    BY <1>2, <1>3, <1>5, <1>8, <1>9, <2>1 DEF Bound, SameSecrets
<1>11. ASSUME NEW s \in Secrets, KeepInv(s)
       PROVE  Keeps(s, e, r, rec[q], call, half) /\ (rec[p].rs1 = call => r.rs1 = call)
  <2>1. Keeps(s, e0, rec[p], rec[q], call, half)
    BY <1>11 DEF KeepInv
  <2>2. rec[p].rs1 = call /\ SameSecrets(e0.mem, rec[p])
    BY <1>2, <2>1 DEF Keeps, Unread
  <2>3. r.rs1 = call /\ r.rs2 = rec[p].rs2
    BY <1>3, <2>2 DEF SameSecrets
  <2> QED
    BY <1>2, <1>5, <2>1, <2>2, <2>3 DEF Keeps, SameSecrets
<1>12. Packets(p, e, {})
  BY DEF Packets
<1> QED
  BY <1>2, <1>6, <1>7, <1>9, <1>10, <1>11, <1>12, SecretStep

LEMMA NewEngineSecret ==
  /\ NewEngine.save = TRUE /\ NewEngine.read = FALSE /\ NewEngine.heard = FALSE
  /\ \A p, P : Holds(p, EmptyRecord, P) /\ Bound(p, NewEngine, P)
<1>1. \A p, P : Holds(p, EmptyRecord, P)
  BY DEF Holds, EmptyRecord
<1>2. /\ NewEngine.save = TRUE /\ NewEngine.read = FALSE /\ NewEngine.heard = FALSE
      /\ NewEngine.mem = EmptyRecord /\ NewEngine.send = FALSE /\ NewEngine.st = "Off"
  BY DEF NewEngine
<1> QED
  BY <1>1, <1>2 DEF Bound

\* The call ends: the old secret is valid again, unless the peer has the new one.
LEMMA EndSecret ==
  ASSUME IInv, IInv', SecretInv, NEW p \in Parties, Stop(p) \/ Kill(p)
  PROVE  SecretInv'
<1> DEFINE e0 == eng[p]
           q == Peer(p)
           e == nextState(NewEngine, "Stopped")
           r == [e0.mem EXCEPT !.v2 = TRUE]
<1>1. /\ e0 \in Engine /\ e0.mem \in Record /\ rec \in [Parties -> Record] /\ q \in Parties
      /\ q # p /\ rec[p] \in Record /\ kills \in Nat
  BY Facts, PeerFacts DEF Engine, IInv, Typed, TypeOK
<1>2. /\ e \in Engine /\ e.st = "Stopped" /\ Alike(NewEngine, e)
  BY NewEngineIs, NextStateIs, AlikeFacts DEF States
<1>3. eng' = [eng EXCEPT ![p] = e] /\ UNCHANGED <<net, call, hi, histVars>>
  BY DEF Stop, Kill, histVars
<1> HIDE DEF e
<1>4. /\ r \in Record /\ r.rs1 = e0.mem.rs1 /\ r.rs2 = e0.mem.rs2 /\ r.v1 = e0.mem.v1
      /\ r.v2 = TRUE /\ r.ver = e0.mem.ver
  BY <1>1 DEF Record
<1>5. \/ rec' = rec
      \/ rec' = [rec EXCEPT ![p] = r]
  BY DEF Stop, Kill
<1>6. kills' = 0 => /\ kills = 0 /\ e0.st \notin {"Off", "Stopped"}
                    /\ e0.read /\ ~e0.heard /\ e0.save => rec' = [rec EXCEPT ![p] = r]
  BY <1>1 DEF Stop, Kill, faultVars
<1> HIDE DEF r
<1>7. rec'[q] = rec[q] /\ rec'[p] \in {rec[p], r}
  BY <1>1, <1>5
<1>8. Turn(p, e, {}) /\ pressed' = pressed
  <2>1. faults' \in 0 .. MaxFaults /\ kills' \in 0 .. faults'
    BY DEF IInv, Typed, TypeOK
  <2> QED
    BY <1>3, <2>1 DEF Turn, histVars, IInv, Typed, TypeOK
<1>9. Bound(p, e0, pressed) /\ Holds(p, rec[p], pressed)
  BY DEF SecretInv
<1>10. Holds(p, rec'[p], pressed)
  BY <1>4, <1>7, <1>9 DEF Bound, Holds
<1>11. Bound(p, e, pressed)
  BY <1>2, NewEngineIs, NewEngineSecret DEF Bound, Alike
<1>12. ASSUME NEW s \in Secrets, KeepInv(s), kills' = 0, half <= 1
       PROVE  /\ Keeps(s, e, rec'[p], rec[q], call, half)
              /\ rec[p].rs1 = call => rec'[p].rs1 = call
  <2>1. Keeps(s, e0, rec[p], rec[q], call, half)
    BY <1>12 DEF KeepInv
  <2>2. /\ e.save /\ ~e.read /\ ~e.heard
    BY <1>2, NewEngineSecret DEF Alike
  <2>3. rec[p].rs1 = call => e0.read
    <3>1. e0.st \in {"Detect", "AckDetected"} => rec[p].rs1 # call
      BY SecretsOrdered DEF Unsaved, Young
    <3> QED
      BY <1>6, <1>12, <2>1, <3>1 DEF Keeps, Unread
  <2>4. CASE rec'[p] = rec[p] /\ ~(e0.read /\ ~e0.heard /\ e0.save)
    <3>1. rec[p].rs1 = call => rec[q].rs1 = call
      BY <2>1, <2>3, <2>4 DEF Keeps
    <3> QED
      BY <1>2, <2>1, <2>2, <2>4, <3>1 DEF Keeps, Unread
  <2>5. CASE rec'[p] = r /\ e0.read /\ e0.save
    <3>1. SameSecrets(e0.mem, rec[p])
      BY <2>1, <2>5 DEF Keeps
    <3>2. r.rs1 = rec[p].rs1 /\ r.rs2 = rec[p].rs2 /\ r.v1 = rec[p].v1 /\ r.v2
      BY <1>4, <3>1 DEF SameSecrets
    <3>3. s \in Ids(rec[p]) => s \in Ids(r)
      BY <3>2 DEF Ids
    <3> QED
      BY <1>2, <2>1, <2>2, <2>5, <3>2, <3>3 DEF Keeps, Unread
  <2>6. \/ rec'[p] = rec[p] /\ ~(e0.read /\ ~e0.heard /\ e0.save)
        \/ rec'[p] = r /\ e0.read /\ e0.save
    <3>1. CASE e0.read /\ ~e0.heard /\ e0.save
      BY <1>1, <1>6, <1>12, <3>1
    <3>2. CASE ~(e0.read /\ ~e0.heard /\ e0.save)
      <4>1. rec' = rec
        BY <1>1, <1>12, <3>2 DEF Stop, Kill
      <4> QED
        BY <3>2, <4>1
    <3> QED
      BY <3>1, <3>2
  <2> QED
    BY <2>4, <2>5, <2>6
<1>13. Packets(p, e, {})
  BY DEF Packets
<1> QED
  BY <1>6, <1>7, <1>8, <1>10, <1>11, <1>12, <1>13, SecretStep

LEMMA InitSecret == Init => SecretInv
<1> SUFFICES ASSUME Init PROVE SecretInv
  OBVIOUS
<1>1. eng = [p \in Parties |-> NewEngine] /\ net = {} /\ call = 2
  BY DEF Init
<1>2. \A p \in Parties : Peer(p) \in Parties
  BY PeerFacts
<1>3. \A p \in Parties : eng[p] = NewEngine /\ Bound(p, eng[p], pressed)
  BY <1>1, NewEngineSecret
<1>4. CASE rec = [p \in Parties |-> EmptyRecord] /\ half = 2 /\ pressed = {}
  <2>1. \A p \in Parties : Holds(p, rec[p], pressed)
    BY <1>4, NewEngineSecret
  <2> QED
    BY <1>1, <1>3, <1>4, <2>1 DEF SecretInv
<1>5. CASE rec = [p \in Parties |-> KnownRecord] /\ half = 0 /\ pressed = Parties
  <2>1. KnownRecord.rs1 = 1 /\ KnownRecord.v1
    BY DEF KnownRecord
  <2>2. \A p \in Parties : Holds(p, rec[p], pressed)
    BY <1>5, <2>1 DEF Holds
  <2>3. 1 \in Secrets /\ 1 \in Ids(KnownRecord)
    BY <2>1 DEF Secrets, Ids
  <2>4. Keeps(1, NewEngine, KnownRecord, KnownRecord, 2, 0)
    BY <2>1, <2>3, NewEngineIs, NewEngineSecret DEF Keeps, Unread
  <2>5. KeepInv(1)
    BY <1>1, <1>2, <1>3, <1>5, <2>4 DEF KeepInv
  <2> QED
    BY <1>1, <1>3, <2>2, <2>3, <2>5 DEF SecretInv
<1> QED
  BY <1>4, <1>5 DEF Init

\* The next call: the secret the two have in common is the one of this call, if
\* both stored it, or the one they had.
LEMMA NextCallSecret ==
  ASSUME IInv, IInv', SecretInv, NextCall
  PROVE  SecretInv'
<1>1. /\ eng' = [p \in Parties |-> NewEngine] /\ net' = {} /\ call' = call + 1
      /\ rec' = rec /\ pressed' = pressed /\ kills' = kills
      /\ \A p \in Parties : eng[p].st = "Stopped"
  BY DEF NextCall, faultVars
<1>2. \A p \in Parties : Peer(p) \in Parties /\ Peer(p) # p /\ Peer(Peer(p)) = p
  BY PeerFacts
<1>3. \A p \in Parties : eng'[p] = NewEngine /\ Bound(p, eng'[p], pressed)
  BY <1>1, NewEngineSecret
<1>4. \A p \in Parties : Holds(p, rec[p], pressed)
  BY DEF SecretInv
<1>5. \A p \in Parties : /\ rec[p] \in Record /\ rec[p].rs1 \in Nat /\ call \in Nat
                         /\ call > 0 /\ rec[p].rs1 # call + 1 /\ call \in Secrets
  <2> TAKE p \in Parties
  <2>1. rec[p] \in Record /\ rec[p].rs1 \in Nat /\ call \in Nat /\ call > 0 /\ call \in Secrets
    BY SecretsOrdered, Facts
  <2>2. rec[p].rs1 <= call
    BY Facts DEF Joint, Alone
  <2> QED
    BY <2>1, <2>2
<1>6. ASSUME half' <= 1, kills = 0
      PROVE  \E s \in Secrets : \A p \in Parties :
               s \in Ids(rec[p]) /\ (half' = 0 => s = rec[p].rs1)
  <2>1. CASE \A p \in Parties : Stored(p)
    <3>1. \A p \in Parties : call \in Ids(rec[p]) /\ call = rec[p].rs1
      BY <1>4, <1>5, <2>1 DEF Stored, Holds, Ids
    <3>2. call \in Secrets
      BY <1>5, FS_EmptySet
    <3> QED
      BY <3>1, <3>2
  <2>2. CASE \A p \in Parties : ~Stored(p)
    <3>1. half' = half
      <4>1. \E p \in Parties : TRUE
        BY FS_EmptySet
      <4> QED
        BY <2>2, <4>1 DEF NextCall
    <3>2. PICK s \in Secrets : KeepInv(s)
      BY <1>6, <3>1 DEF SecretInv
    <3>3. \A p \in Parties : s \in Ids(rec[p]) /\ (half = 0 => s = rec[p].rs1)
      BY <2>2, <3>2 DEF KeepInv, Keeps, Stored
    <3> QED
      BY <3>1, <3>3
  <2>3. ASSUME NEW x \in Parties, NEW y \in Parties, Stored(x), ~Stored(y)
        PROVE  \E s \in Secrets : \A p \in Parties :
                 s \in Ids(rec[p]) /\ (half' = 0 => s = rec[p].rs1)
    <3>1. half' = IF half = 0 THEN 1 ELSE 2
      BY <2>3 DEF NextCall
    <3>2. half = 0 /\ half' = 1
      BY <1>6, <3>1
    <3>3. PICK s \in Secrets : KeepInv(s)
      BY <1>6, <3>2 DEF SecretInv
    <3>4. y = Peer(x) /\ \A p \in Parties : p = x \/ p = y
      BY <2>3, PeerFacts
    <3>5. s \in Ids(rec[y])
      BY <2>3, <3>2, <3>3 DEF KeepInv, Keeps, Stored
    <3>6. rec[x].rs2 = s /\ rec[x].v2
      BY <1>1, <2>3, <3>2, <3>3, <3>4 DEF KeepInv, Keeps, Stored
    <3>7. s \in Ids(rec[x])
      BY <3>6 DEF Ids
    <3> QED
      BY <3>2, <3>4, <3>5, <3>7
  <2> QED
    BY <2>1, <2>2, <2>3
<1>7. ASSUME half' <= 1, kills' = 0
      PROVE  \E s \in Secrets : KeepInv(s)'
  <2>1. PICK s \in Secrets : \A p \in Parties :
               s \in Ids(rec[p]) /\ (half' = 0 => s = rec[p].rs1)
    BY <1>1, <1>6, <1>7
  <2>2. ASSUME NEW p \in Parties
        PROVE  Keeps(s, NewEngine, rec[p], rec[Peer(p)], call + 1, half')
    <3>1. /\ s \in Ids(rec[p]) /\ (half' = 0 => s = rec[p].rs1) /\ rec[p].rs1 # call + 1
      BY <1>5, <2>1
    <3> QED
      BY <3>1, NewEngineIs, NewEngineSecret DEF Keeps, Unread
  <2>3. KeepInv(s)'
    BY <1>1, <1>2, <1>3, <2>2 DEF KeepInv
  <2> QED
    BY <2>3
<1> QED
  BY <1>1, <1>3, <1>4, <1>7 DEF SecretInv

LEMMA LoseSecret ==
  ASSUME IInv, IInv', SecretInv, NEW m \in net, Lose(m)
  PROVE  SecretInv'
<1>1. /\ net' \subseteq net /\ eng' = eng /\ rec' = rec /\ call' = call /\ half' = half
      /\ pressed' = pressed /\ kills' = kills
  BY DEF Lose, histVars
<1>2. \A s : KeepInv(s) => KeepInv(s)'
  BY <1>1 DEF KeepInv
<1> QED
  BY <1>1, <1>2 DEF SecretInv

LEMMA NextSecret == IInv /\ SecretInv /\ [Next]_vars => SecretInv'
<1> SUFFICES ASSUME IInv, SecretInv, [Next]_vars PROVE SecretInv'
  OBVIOUS
<1>0. IInv'
  BY NextInv
<1>1. CASE UNCHANGED vars
  <2>1. /\ net' = net /\ eng' = eng /\ rec' = rec /\ call' = call /\ half' = half
        /\ pressed' = pressed /\ kills' = kills
    BY <1>1 DEF vars, histVars, faultVars
  <2>2. \A s : KeepInv(s) => KeepInv(s)'
    BY <2>1 DEF KeepInv
  <2> QED
    BY <2>1, <2>2 DEF SecretInv
<1>2. ASSUME NEW p \in Parties,
             \/ Start(p) \/ FirstMedia(p) \/ Listen(p) \/ Expire(p) \/ Timeout(p)
             \/ Verify(p) \/ Stop(p) \/ Kill(p)
      PROVE  SecretInv'
  BY <1>0, <1>2, StartSecret, FinishSecret, ListenSecret, ExpireSecret, TimeoutSecret,
     VerifySecret, EndSecret
<1>3. ASSUME NEW p \in Parties, NEW m \in net, Receive(p, m)
      PROVE  SecretInv'
  BY <1>0, <1>3, ReceiveSecret
<1>4. CASE NextCall
  BY <1>0, <1>4, NextCallSecret
<1>5. ASSUME NEW m \in net, Lose(m)
      PROVE  SecretInv'
  BY <1>0, <1>5, LoseSecret
<1> QED
  BY <1>1, <1>2, <1>3, <1>4, <1>5 DEF Next

LEMMA SecretInductive == Spec => []SecretInv
<1> QED
  BY Inductive, InitSecret, NextSecret, PTL DEF Spec
----------------------------------------------------------------------------
(* Theorems.                                                               *)

\* Types are kept, with the bound on the requests of an engine at the timeout
\* provider: however often timers are started and cancelled, there are at most
\* two (startTimer, cancelTimer and nextTimer in ZrtpStateClass).
THEOREM TypeCorrect == Spec => []TypeOK
<1>1. IInv => TypeOK
  BY DEF IInv, Typed
<1> QED
  BY <1>1, Inductive, PTL

\* Two parties that have a key have the same one, with the same initiator and
\* the same retained secret in it, and two that send have told their apps the same
\* verdict, in every call of any number of calls, with any number of faults.
THEOREM Agreement == Spec => []SecureAgrees
<1>1. IInv => SecureAgrees
  <2> SUFFICES ASSUME IInv, NEW p \in Parties, NEW q \in Parties
               PROVE  /\ eng[p].key # NoKey /\ eng[q].key # NoKey => eng[p].key = eng[q].key
                      /\ eng[p].send /\ eng[q].send => eng[p].told = eng[q].told
    BY DEF SecureAgrees
  <2>1. CASE p = q
    BY <2>1
  <2>2. CASE q = Peer(p)
    <3>1. Joint(p, eng[p], eng[q], rec[p], call) /\ Alone(q, eng[q], rec[q], call)
      BY <2>2, Facts
    <3> QED
      BY <3>1 DEF Joint, Alone, Agree
  <2> QED
    BY <2>1, <2>2, PeerFacts
<1> QED
  BY <1>1, Inductive, PTL

\* Who sends is understood by a peer that has not given up or hung up, in every
\* call, with any number of faults.
THEOREM Readable == Spec => []MediaReadable
<1>1. IInv => MediaReadable
  <2> SUFFICES ASSUME IInv, NEW p \in Parties, eng[p].send
               PROVE  CanRead(Peer(p)) \/ eng[Peer(p)].st \in {"Initial", "Stopped"}
    BY DEF MediaReadable
  <2> DEFINE q == Peer(p)
  <2>1. q \in Parties /\ Peer(q) = p
    BY PeerFacts
  <2>2. Joint(p, eng[p], eng[q], rec[p], call) /\ Alone(q, eng[q], rec[q], call)
    BY Facts
  <2>3. eng[p].st = "SecureState" /\ eng[p].key # NoKey
    BY <2>2 DEF Joint, Alone
  <2>4. eng[q].st \in {"WaitConfAck", "SecureState"} \cup Dead
    BY <2>2, <2>3 DEF Joint, Ahead, Dead
  <2>5. CASE eng[q].st \in {"WaitConfAck", "SecureState"}
    <3>1. eng[q].recv /\ eng[q].key # NoKey
      BY <2>2, <2>5 DEF Alone
    <3>2. eng[q].key = eng[p].key
      BY <2>2, <2>3, <3>1 DEF Joint, Agree
    <3> QED
      BY <2>1, <3>1, <3>2 DEF CanRead
  <2> QED
    BY <2>4, <2>5 DEF Dead
<1> QED
  BY <1>1, Inductive, PTL

\* A verdict the app was told rests on a secret of the two and on the word of
\* both users, in every call of any number of calls, with any number of faults.
THEOREM Continuous == Spec => []VerifiedIsContinuous
<1>1. SecretInv => VerifiedIsContinuous
  BY DEF SecretInv, Bound, VerifiedIsContinuous
<1> QED
  BY <1>1, SecretInductive, PTL

\* One call that only one party stored leaves the two a secret in common for the
\* next, as long as no process ended in a call: the old one, which setRs2Valid
\* makes valid again, or one they did not replace.
THEOREM SecretIsKept == Spec => []KeepsSecret
<1>1. IInv /\ SecretInv => KeepsSecret
  <2> SUFFICES ASSUME IInv, SecretInv, \A p \in Parties : eng[p].st = "Off",
                      half <= 1, kills = 0
               PROVE  CommonSecrets # {}
    BY DEF KeepsSecret
  <2>1. PICK s \in Secrets : KeepInv(s)
    BY DEF SecretInv
  <2>2. ASSUME NEW p \in Parties
        PROVE  s \in Ids(rec[p])
    <3>1. rec[p].rs1 # call
      BY SecretsOrdered DEF Unsaved, Young
    <3> QED
      BY <2>1, <3>1 DEF KeepInv, Keeps
  <2>3. s \in CommonSecrets
    BY <2>2 DEF CommonSecrets
  <2> QED
    BY <2>3
<1> QED
  BY <1>1, Inductive, SecretInductive, PTL
=============================================================================
