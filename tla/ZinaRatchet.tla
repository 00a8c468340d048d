---------------------------- MODULE ZinaRatchet ----------------------------
(***************************************************************************)
(* The double ratchet of libzina between two devices: session setup with a *)
(* pre-key, encryption, decryption of messages that are late, lost, sent   *)
(* again or out of order, the collision of two setups and re-keying.       *)
(*                                                                         *)
(* Cryptography is symbolic.  A key pair is <<party, number>>, a DH secret *)
(* the set of the two keys, a root key the sequence of the secrets that    *)
(* went into it.  A chain key is the root it was derived with and how      *)
(* often it was hashed; a message key is named by the chain key it comes   *)
(* from, and decryptAndCheck succeeds with the key of encryption only.     *)
(*                                                                         *)
(* A party keeps contexts (ZinaConversation objects in the database): the  *)
(* primary one and, after a collision, secondary ones named by the pre-key *)
(* the peer used.  Commands of a party run one after the other in its run  *)
(* queue, so an encryption or a decryption with what it stores is a step;  *)
(* ZinaReceive takes the steps inside of it apart.                         *)
(*                                                                         *)
(* Left out: checks that cannot fail between honest parties with lasting   *)
(* identity keys (pre-key hash, identity hashes, versions), the deletion   *)
(* of old staged keys, and the duplicate check by message hash, which      *)
(* comes before the ratchet and would only hide its behaviour.             *)
(***************************************************************************)
EXTENDS Integers, Sequences, FiniteSets

CONSTANTS
    Parties,      \* the two devices
    Greater,      \* the one with the greater identity key: it wins a collision
    Setters,      \* the parties that write first or re-key
    NoKey,        \* no key; also the name of the primary context
    MaxSend,      \* bound: messages of a party
    MaxSetups,    \* bound: pre-keys of a party that are handed out
    MaxReKeys,    \* bound: re-keyings
    MaxFaults     \* bound: messages read or sent whose state is not stored

Keys == Parties \X Nat

ASSUME ConstantsAssumption ==
    /\ IsFiniteSet(Parties) /\ Cardinality(Parties) = 2 /\ Greater \in Parties
    /\ Setters \subseteq Parties
    /\ NoKey \notin Keys
    /\ MaxSend \in Nat /\ MaxSetups \in Nat
    /\ MaxReKeys \in Nat /\ MaxFaults \in Nat

VARIABLES
    conv,      \* party -> context -> ZinaConversation in the database
    staged,    \* party -> context -> the table of staged message keys
    preKeys,   \* party -> own pre-keys in the database
    handedOut, \* party -> how many of its pre-keys the server has handed out
    lastKey,   \* party -> number of its last generated key pair
    setups,    \* the setups so far: context id -> its DH secret
    sent,      \* messages on the way, which may arrive late, twice or never
    got,       \* party -> messages it decrypted
    \* history: messages decrypted more than once; all came in order so far;
    \* messages sent without the context being stored
    twice, ordered, unsaved,
    reKeys, faults

vars == <<conv, staged, preKeys, handedOut, lastKey, setups, sent, got, twice,
          ordered, unsaved, reKeys, faults>>

----------------------------------------------------------------------------
Peer(p) == CHOOSE q \in Parties : q # p
Primary == NoKey
PreKeyOf(p, n) == <<p, n>>                 \* pre-keys are 1 .. MaxSetups
Contexts(p) == {Primary} \cup {PreKeyOf(p, n) : n \in 1 .. MaxSetups}

\* deriveRkCk: the new root; the chain that comes with it starts there.
Derive(rk, a, b) == Append(rk, {a, b})
ChainOf(root)    == [root |-> root, n |-> 0]
NoChain          == ChainOf(<<>>)

\* Hashed k more times; the keys on the way (stageSkippedMessageKeys).  Mutant:
\* the key of the message itself is staged too.
Ahead(ck, k)   == [ck EXCEPT !.n = @ + IF k > 0 THEN k ELSE 0]
SkippedAndThis(ck, k) == {Ahead(ck, i) : i \in 0 .. k}
Skipped(ck, k) == {Ahead(ck, i) : i \in 0 .. k - 1}

EmptyConv ==
    [rk |-> <<>>, dhs |-> NoKey, dhr |-> NoKey, a0 |-> NoKey, preKey |-> NoKey,
     cks |-> NoChain, ckr |-> NoChain, ns |-> 0, nr |-> 0, pns |-> 0,
     flag |-> FALSE, ctx |-> 0, known |-> FALSE]

\* reset: the context id and the identity key of the peer stay.
Reset(c) == [EmptyConv EXCEPT !.ctx = c.ctx, !.known = c.known]

Init ==
    /\ conv = [p \in Parties |-> [c \in Contexts(p) |-> EmptyConv]]
    /\ staged = [p \in Parties |-> [c \in Contexts(p) |-> {}]]
    /\ preKeys = [p \in Parties |-> {PreKeyOf(p, n) : n \in 1 .. MaxSetups}]
    /\ handedOut = [p \in Parties |-> 0]
    /\ lastKey = [p \in Parties |-> MaxSetups]
    /\ setups = <<>>
    /\ sent = {} /\ got = [p \in Parties |-> {}] /\ twice = {} /\ ordered = TRUE
    /\ unsaved = {}
    /\ reKeys = 0 /\ faults = 0

----------------------------------------------------------------------------
(* setupConversationAlice, with a pre-key bundle of the peer.  Stored      *)
(* before the first message is encrypted.                                  *)
SetUp(p) ==
    LET c   == conv[p][Primary]
        q   == Peer(p)
        b0  == PreKeyOf(q, handedOut[q] + 1)
        a0  == <<p, lastKey[p] + 1>>
        rk  == Derive(<<>>, a0, b0)
    IN
    /\ p \in Setters /\ handedOut[q] < MaxSetups
    /\ c.rk = <<>>
    /\ conv' = [conv EXCEPT ![p][Primary] =
                  [Reset(c) EXCEPT !.rk = rk, !.dhr = b0, !.a0 = a0, !.preKey = b0,
                                   !.ckr = ChainOf(rk), !.flag = TRUE,
                                   !.ctx = Len(setups) + 1, !.known = TRUE]]
    /\ setups' = Append(setups, {a0, b0})
    /\ handedOut' = [handedOut EXCEPT ![q] = @ + 1]
    /\ lastKey' = [lastKey EXCEPT ![p] = @ + 1]
    /\ UNCHANGED <<staged, preKeys, sent, got, twice, ordered, unsaved, reKeys, faults>>

(* reKeyDeviceCommand: the context is stored nearly empty; the ping it     *)
(* queues sets up a new one.                                               *)
ReKey(p) ==
    /\ p \in Setters /\ reKeys < MaxReKeys /\ conv[p][Primary].known
    /\ conv' = [conv EXCEPT ![p][Primary] = Reset(conv[p][Primary])]
    /\ reKeys' = reKeys + 1
    /\ UNCHANGED <<staged, preKeys, handedOut, lastKey, setups, sent, got, twice,
                   ordered, unsaved, faults>>

----------------------------------------------------------------------------
(* encrypt, storeConversation, sendAxoMessage.                             *)

\* A new ratchet key, if the last message received came with one.
Turn(c, new) ==
    IF ~c.flag THEN c
    ELSE LET root == Derive(c.rk, new, c.dhr)
         IN  [c EXCEPT !.dhs = new, !.rk = root, !.cks = ChainOf(root),
                       !.pns = c.ns, !.ns = 0, !.flag = FALSE]

SentBy(p) == {m \in sent : m.from = p}

\* As long as A0 is there the message is a setup message (type 2).
Wire(p, c) ==
    [from |-> p, id |-> Cardinality(SentBy(p)) + 1, mk |-> c.cks, dhs |-> c.dhs,
     np |-> c.ns, pnp |-> c.pns, ctx |-> c.ctx, a0 |-> c.a0,
     preKey |-> IF c.a0 = NoKey THEN NoKey ELSE c.preKey]

\* Mutant: the chain key stays.
UsedUnhashed(c) == [c EXCEPT !.ns = @ + 1]
Used(c) == [c EXCEPT !.ns = @ + 1, !.cks = Ahead(c.cks, 1)]

Send(p) ==
    LET c == conv[p][Primary]
        t == Turn(c, <<p, lastKey[p] + 1>>)
    IN
    /\ c.rk # <<>> /\ Cardinality(SentBy(p)) < MaxSend
    /\ conv' = [conv EXCEPT ![p][Primary] = Used(t)]
    /\ lastKey' = IF c.flag THEN [lastKey EXCEPT ![p] = @ + 1] ELSE lastKey
    /\ sent' = sent \cup {Wire(p, t)}
    /\ UNCHANGED <<staged, preKeys, handedOut, setups, got, twice, ordered, unsaved, reKeys, faults>>

\* The result of storeConversation is not looked at: the message goes, the
\* database keeps the context of before.
SendNotStored(p) ==
    LET c == conv[p][Primary]
        t == Turn(c, <<p, lastKey[p] + 1>>)
    IN
    /\ c.rk # <<>> /\ Cardinality(SentBy(p)) < MaxSend
    /\ faults < MaxFaults /\ faults' = faults + 1
    /\ lastKey' = IF c.flag THEN [lastKey EXCEPT ![p] = @ + 1] ELSE lastKey
    /\ sent' = sent \cup {Wire(p, t)} /\ unsaved' = unsaved \cup {Wire(p, t)}
    /\ UNCHANGED <<conv, staged, preKeys, handedOut, setups, got, twice, ordered, reKeys>>

----------------------------------------------------------------------------
(* decryptInternal with one context: the outcome as a record with the      *)
(* context it leaves, the keys staged in memory, the staged keys and       *)
(* pre-keys it took out of the database.                                   *)

IsSetup(m) == m.a0 # NoKey
HasPreKey(p, m) == IsSetup(m) /\ m.preKey \in preKeys[p]

\* setupConversationBob; without the pre-key only the context id is taken over.
\* Mutant: the context keeps its old id.
BobConvOldId(c, m) ==
    LET rk == Derive(<<>>, m.a0, m.preKey)
    IN  [Reset(c) EXCEPT !.rk = rk, !.dhs = m.preKey, !.cks = ChainOf(rk), !.known = TRUE]
BobConv(c, m) ==
    LET rk == Derive(<<>>, m.a0, m.preKey)
    IN  [Reset(c) EXCEPT !.rk = rk, !.dhs = m.preKey, !.cks = ChainOf(rk),
                         !.ctx = m.ctx, !.known = TRUE]

SetupConv(p, c, m) == IF HasPreKey(p, m) THEN BobConv(c, m)
                      ELSE IF IsSetup(m) THEN [c EXCEPT !.ctx = m.ctx] ELSE c

\* NO_PRE_KEY_FOUND, SESSION_NOT_INITED, CONTEXT_ID_MISMATCH
Refused(p, c, m) ==
    LET s == SetupConv(p, c, m)
    IN  \/ IsSetup(m) /\ ~HasPreKey(p, m) /\ c.rk = <<>>
        \/ ~s.known
        \/ s.ctx # 0 /\ s.ctx # m.ctx

\* After a message decrypted with the chain key ck.  Mutant: the position of the
\* message before it is kept.
AdvanceBehind(c, ck, m) == [c EXCEPT !.ckr = Ahead(ck, 1), !.nr = m.np - 1, !.a0 = NoKey]
Advance(c, ck, m) == [c EXCEPT !.ckr = Ahead(ck, 1), !.nr = m.np + 1, !.a0 = NoKey]

Outcome(ok, c, new, out) == [ok |-> ok, conv |-> c, new |-> new, out |-> out]

OldRatchet(c, m) ==
    LET ck == Ahead(c.ckr, m.np - c.nr)
    IN  Outcome(ck = m.mk, Advance(c, ck, m), Skipped(c.ckr, m.np - c.nr), {})

NewRatchet(c, m) ==
    LET root  == Derive(c.rk, c.dhs, m.dhs)
        ck    == Ahead(ChainOf(root), m.np)
        old   == Skipped(c.ckr, m.pnp - c.nr)
        known == c.dhs # NoKey /\ c.rk # <<>>
    IN  IF ~known THEN Outcome(FALSE, c, old, {})
        ELSE Outcome(ck = m.mk,
                     [Advance(c, ck, m) EXCEPT !.rk = root, !.dhr = m.dhs, !.flag = TRUE],
                     old \cup Skipped(ChainOf(root), m.np), {})

\* Mutant: the staged key stays in the database.
DecryptInternalKeep(p, name, m) ==
    LET c == conv[p][name]
        s == SetupConv(p, c, m)
    IN  IF Refused(p, c, m) THEN Outcome(FALSE, c, {}, {})
        ELSE IF m.mk \in staged[p][name] THEN Outcome(TRUE, s, {}, {})
        ELSE IF m.dhs = s.dhr THEN OldRatchet(s, m)
        ELSE NewRatchet(s, m)
DecryptInternal(p, name, m) ==
    LET c == conv[p][name]
        s == SetupConv(p, c, m)
    IN  IF Refused(p, c, m) THEN Outcome(FALSE, c, {}, {})
        ELSE IF m.mk \in staged[p][name] THEN Outcome(TRUE, s, {}, {m.mk})
        ELSE IF m.dhs = s.dhr THEN OldRatchet(s, m)
        ELSE NewRatchet(s, m)

----------------------------------------------------------------------------
(* decrypt: which context gets the message.                                *)

\* Mutant: nobody prepares a secondary context.
CollisionIgnored(p, m) == FALSE
Collision(p, m) == IsSetup(m) /\ conv[p][Primary].a0 # NoKey /\ p = Greater
First(p, m) == IF Collision(p, m) THEN m.preKey ELSE Primary

\* Secondary contexts that were stored, tried with other than setup messages.
Secondaries(p) == {c \in Contexts(p) \ {Primary} : conv[p][c].rk # <<>>}

Readers(p, m) ==
    IF DecryptInternal(p, First(p, m), m).ok THEN {First(p, m)}
    ELSE IF IsSetup(m) THEN {}
    ELSE {c \in Secondaries(p) : DecryptInternal(p, c, m).ok}

\* The message comes once and after all its sender sent before.
InOrder(p, m) == m \notin got[p] /\ \A x \in SentBy(m.from) : x.id < m.id => x \in got[p]

Arrives(p, m) == m.from # p /\ ordered' = (ordered /\ InOrder(p, m))

\* removePreKey, as a statement of its own.  Mutant: the pre-key stays.
PreKeyStays(p, m) == UNCHANGED preKeys
SpendPreKey(p, m) == preKeys' = [preKeys EXCEPT ![p] = @ \ {m.preKey}]

\* Decrypted and stored.  What the primary context staged in memory before it
\* failed is stored with it.
Receive(p, m) ==
    /\ Arrives(p, m)
    /\ \E c \in Readers(p, m) :
         LET r    == DecryptInternal(p, c, m)
             junk == IF c = First(p, m) THEN {}
                     ELSE DecryptInternal(p, First(p, m), m).new
         IN  /\ conv' = [conv EXCEPT ![p][c] = r.conv]
             /\ staged' = [staged EXCEPT
                             ![p] = [x \in Contexts(p) |->
                                 IF x = c THEN (@[x] \ r.out) \cup r.new
                                 ELSE IF x = Primary THEN @[x] \cup junk ELSE @[x]]]
    /\ SpendPreKey(p, m)
    /\ got' = [got EXCEPT ![p] = @ \cup {m}]
    /\ twice' = IF m \in got[p] THEN twice \cup {m} ELSE twice
    /\ UNCHANGED <<handedOut, lastKey, setups, sent, unsaved, reKeys, faults>>

\* Not decrypted: nothing is stored, but the pre-key is gone.
Reject(p, m) ==
    /\ Arrives(p, m) /\ Readers(p, m) = {}
    /\ SpendPreKey(p, m)
    /\ UNCHANGED <<conv, staged, handedOut, lastKey, setups, sent, got, twice, unsaved,
                   reKeys, faults>>

\* Decrypted, but the process ends or the transaction is rolled back: staged
\* key and pre-key are gone from the database all the same.
ReceiveNotStored(p, m) ==
    /\ Arrives(p, m) /\ faults < MaxFaults /\ faults' = faults + 1
    /\ \E c \in Readers(p, m) :
         staged' = [staged EXCEPT ![p][c] = @ \ DecryptInternal(p, c, m).out]
    /\ SpendPreKey(p, m)
    /\ UNCHANGED <<conv, handedOut, lastKey, setups, sent, got, twice, unsaved, reKeys>>

Next == \/ \E p \in Parties : SetUp(p) \/ ReKey(p) \/ Send(p) \/ SendNotStored(p)
        \/ \E p \in Parties, m \in sent :
             Receive(p, m) \/ Reject(p, m) \/ ReceiveNotStored(p, m)

Spec == Init /\ [][Next]_vars
----------------------------------------------------------------------------
(* Properties.                                                             *)

KeyOrNone == Keys \cup {NoKey}
Root      == Seq(SUBSET Keys)
ChainKey  == [root : Root, n : Nat]
Conversation ==
    [rk : Root, dhs : KeyOrNone, dhr : KeyOrNone, a0 : KeyOrNone, preKey : KeyOrNone,
     cks : ChainKey, ckr : ChainKey, ns : Nat, nr : Nat, pns : Nat,
     flag : BOOLEAN, ctx : Nat, known : BOOLEAN]
Message ==
    [from : Parties, id : Nat, mk : ChainKey, dhs : Keys, np : Nat, pnp : Nat,
     ctx : Nat, a0 : KeyOrNone, preKey : KeyOrNone]

\* The types of the contexts, the tables and the messages.
TypeOK ==
    /\ DOMAIN conv = Parties /\ DOMAIN staged = Parties
    /\ \A p \in Parties : /\ conv[p] \in [Contexts(p) -> Conversation]
                          /\ staged[p] \in [Contexts(p) -> SUBSET ChainKey]
    /\ preKeys \in [Parties -> SUBSET Keys]
    /\ handedOut \in [Parties -> Nat] /\ lastKey \in [Parties -> Nat]
    /\ setups \in Seq(SUBSET Keys)
    /\ sent \subseteq Message /\ twice \subseteq Message
    /\ unsaved \subseteq sent
    /\ got \in [Parties -> SUBSET Message]
    /\ ordered \in BOOLEAN /\ reKeys \in Nat /\ faults \in Nat

\* No message key encrypts two messages: neither a chain position nor, after
\* a turn of the ratchet or a new setup, a chain comes back (encrypt,
\* setupConversationAlice, setupConversationBob), if the context of before was
\* stored.
KeyUsedOnce ==
    \A m, x \in sent : m.mk = x.mk => m = x \/ m \in unsaved \/ x \in unsaved

\* A message that was not read yet can be read whenever it comes: in any order,
\* after any other, with those before it lost or not (decryptInternal).  After a
\* second setup this is asked only for messages that come in order, and after a
\* re-keying only where one party did all the setups, of the newest context.
Unread(p) == {m \in sent : m.from # p /\ m \notin got[p]}
Readable(p, m) == Readers(p, m) # {}
Settled == \A p \in Parties : conv[p][Primary].known => conv[p][Primary].rk # <<>>
OneSided == \E q \in Parties : handedOut[q] = 0
UnreadIsReadable ==
    faults = 0 => \A p \in Parties : \A m \in Unread(p) :
        \/ Readable(p, m)
        \/ Len(setups) > 1 /\ ~(ordered /\ InOrder(p, m))
        \/ reKeys > 0 /\ ~(Settled /\ OneSided /\ m.ctx = Len(setups))

\* When two setups collide no message is lost, whatever the order of arrival
\* (decrypt: "to avoid losing messages the winner has to prepare a secondary
\* ratchet context").
CollisionLosesNothing ==
    faults = 0 /\ reKeys = 0 => \A p \in Parties : \A m \in Unread(p) : Readable(p, m)

\* Forward secrecy: what a party stores opens no message it has decrypted, in
\* spite of late messages, lost ones, crashes and rollbacks: the key is neither
\* staged, nor ahead in the receiving chain, nor in a chain that derives from
\* the root key, nor in one the pre-key gives.
Opens(p, k) ==
    \/ \E c \in Contexts(p) :
         LET v == conv[p][c]
         IN  \/ k \in staged[p][c]
             \/ k.root = v.ckr.root /\ k.n >= v.ckr.n
             \/ v.rk # <<>> /\ Len(k.root) = Len(v.rk) + 1 /\ v.dhs \in k.root[Len(k.root)]
                  /\ SubSeq(k.root, 1, Len(v.rk)) = v.rk
    \/ k.root[1] \cap preKeys[p] # {}
ReadIsForgotten == \A p \in Parties : \A m \in got[p] : ~Opens(p, m.mk)

\* The ratchet alone decrypts no message a second time (decryptInternal, the
\* duplicate check by hash left aside).
ReadOnce == twice = {}

\* A staged key belongs to a message of the peer that was sent and not read.
StagedIsOwed ==
    \A p \in Parties : \A c \in Contexts(p) : \A k \in staged[p][c] :
        \E m \in sent : m.mk = k /\ m.from # p /\ m \notin got[p]

\* The context id of a context is the one of the setup its root key comes from
\* (contextId: "unique ID of context, changes with every re-keying"); stated
\* for one setup, CollisionLosesNothing has more.
ContextNamesRoot ==
    Len(setups) = 1 => \A p \in Parties : \A c \in Contexts(p) :
        LET v == conv[p][c]
        IN  v.rk # <<>> => v.ctx \in DOMAIN setups /\ setups[v.ctx] = v.rk[1]

----------------------------------------------------------------------------
(* Inductive invariant, for the proofs.                                    *)

\* The key pairs there are so far; a ratchet key is none of the pre-keys.
Born       == {k \in Keys : k[2] <= lastKey[k[1]]}
PreKeys(p) == {PreKeyOf(p, n) : n \in 1 .. MaxSetups}

\* A chain that starts with a setup, as the one of the party with the pre-key,
\* starts once: the pre-key is not among those that are left.
Spent(p, left, root) ==
    Len(root) = 1 => \E n \in 1 .. MaxSetups : PreKeyOf(p, n) \in root[1] \ left

\* What a setup of p names: an own key out of S, a pre-key of the peer.
SetupOK(S, p, a0, preKey) ==
    a0 # NoKey => a0 \in S /\ a0[2] > MaxSetups /\ preKey \in PreKeys(Peer(p))

\* The next message goes out in the chain at hand.
Sending(c) == c.rk # <<>> /\ ~c.flag

\* A context of p and a message, with keys out of S.
ContextOK(S, p, c) ==
    /\ c.rk \in Seq(SUBSET S) /\ c.cks.root \in Seq(SUBSET S)
    /\ c.dhs \in S \cup {NoKey} /\ c.dhr \in S \cup {NoKey}
    /\ c.flag => c.dhr # NoKey
    /\ Sending(c) => c.dhs # NoKey
    /\ SetupOK(S, p, c.a0, c.preKey)

MessageOK(S, left, m) ==
    /\ m.mk.root \in Seq(SUBSET S) /\ m.dhs \in S
    /\ Spent(m.from, left, m.mk.root)
    /\ SetupOK(S, m.from, m.a0, m.preKey)

\* Messages in the chain a party sends in are behind, and it has the chain alone.
ChainOK(p) ==
    LET c == conv[p][Primary]
        d == conv[Peer(p)][Primary]
    IN  Sending(c) =>
          /\ Spent(p, preKeys[p], c.cks.root)
          /\ \A m \in sent : m.mk.root = c.cks.root => m.mk.n < c.cks.n \/ m \in unsaved
          /\ Sending(d) => d.cks.root # c.cks.root

KeyInv ==
    /\ TypeOK /\ IsFiniteSet(sent)
    /\ \A p \in Parties : /\ MaxSetups <= lastKey[p] /\ preKeys[p] \subseteq PreKeys(p)
                          /\ \A c \in Contexts(p) : ContextOK(Born, p, conv[p][c])
                          /\ ChainOK(p)
    /\ \A m \in sent : MessageOK(Born, preKeys[m.from], m)
    /\ KeyUsedOnce

\* The context v no longer comes to the key k: it is of another setup, or of a
\* chain or a position in it that is over.
Behind(v, k) ==
    v.rk # <<>> /\ k.root[1] = v.rk[1] =>
        Len(k.root) <= Len(v.ckr.root) /\ (k.root = v.ckr.root => k.n < v.ckr.n)

\* The contexts of a party are of different setups, whose pre-keys are gone; the
\* receiving chain is not ahead of the root.
SetupsOK(p) ==
    \A c \in Contexts(p) :
        LET v == conv[p][c]
        IN  /\ Len(v.ckr.root) <= Len(v.rk)
            /\ v.ckr.root # <<>> => v.ckr.root[1] = v.rk[1]
            /\ v.rk # <<>> => v.rk[1] \cap preKeys[p] = {}
            /\ v.rk # <<>> /\ c # Primary => c \in v.rk[1]
            /\ \A d \in Contexts(p) \ {c} :
                 v.rk # <<>> /\ conv[p][d].rk # <<>> => v.rk[1] # conv[p][d].rk[1]

\* Neither a staged key nor that of a message that was read can come again.
StagedOK(p) ==
    \A c \in Contexts(p) : \A k \in staged[p][c] : k.root # <<>> =>
        /\ k.root[1] \subseteq Born \ preKeys[p]
        /\ Behind(conv[p][c], k)
        /\ \A d \in Contexts(p) \ {c} :
             conv[p][d].rk # <<>> => k.root[1] # conv[p][d].rk[1]
        /\ c # Primary => conv[p][c].rk # <<>> /\ k.root[1] = conv[p][c].rk[1]
ReadOK(p) ==
    \A m \in got[p] :
        /\ m \in sent /\ m.from # p /\ m.mk.root[1] \cap preKeys[p] = {}
        /\ \A c \in Contexts(p) : Behind(conv[p][c], m.mk) /\ m.mk \notin staged[p][c]

\* A setup that the peer never used for a message of its own is only used in
\* setup messages, and nobody answers with a secondary context.
Answered(p, s) == \E m \in SentBy(Peer(p)) : m.mk.root[1] = s
SpeaksOK(p) ==
    LET v == conv[p][Primary]
    IN  /\ v.a0 # NoKey => v.rk # <<>> /\ v.rk[1] = {v.a0, v.preKey}
        /\ Sending(v) => v.cks.root # <<>> /\ v.cks.root[1] = v.rk[1]
        /\ v.rk # <<>> /\ v.a0 = NoKey => Answered(p, v.rk[1])
SaidOK(m) ==
    LET p == m.from
    IN  /\ m.mk.root # <<>> /\ m.mk.root[1] \cap preKeys[p] = {}
        /\ IF IsSetup(m) THEN m.mk.root[1] = {m.a0, m.preKey}
           ELSE Answered(p, m.mk.root[1])
        /\ \A c \in Contexts(p) \ {Primary} :
             conv[p][c].rk # <<>> => m.mk.root[1] # conv[p][c].rk[1]

ForgetInv ==
    /\ KeyInv
    /\ \A p \in Parties : SetupsOK(p) /\ StagedOK(p) /\ ReadOK(p) /\ SpeaksOK(p)
    /\ \A m \in sent : SaidOK(m)

\* Context ids and root keys come from the setups.
Made(s) == \E i \in DOMAIN setups : setups[i] = s
NamesInv ==
    /\ \A p \in Parties : \A c \in Contexts(p) :
         LET v == conv[p][c]
         IN  v.rk # <<>> => v.ctx \in DOMAIN setups /\ Made(v.rk[1])
    /\ \A m \in sent : m.ctx \in DOMAIN setups /\ Made(m.mk.root[1])

\* A root key without its last secret; the messages of S that p sent; p sent the
\* key n of the chain of a root, or all of them up to there.
Before(r)             == SubSeq(r, 1, Len(r) - 1)
From(S, p)            == {m \in S : m.from = p}
SentKey(S, p, r, n)   == \E m \in From(S, p) : m.mk = [root |-> r, n |-> n]
SentUpTo(S, p, r, n)  == \A i \in 0 .. n - 1 : SentKey(S, p, r, i)

\* The chains of a context are those of its root key and of the one before;
\* which of them it sends in depends on who turned the ratchet last.  The counters
\* are positions in them, and what the context counted as sent was sent.
Linked(S, p, v) ==
    /\ v.cks.n = v.ns /\ v.ckr.n = v.nr /\ SentUpTo(S, p, v.cks.root, v.ns)
    /\ v.rk # <<>> => /\ v.cks.root = IF v.flag THEN Before(v.rk) ELSE v.rk
                      /\ v.ckr.root = IF v.flag THEN v.rk ELSE Before(v.rk)
    /\ Sending(v) => SentUpTo(S, p, Before(Before(v.rk)), v.pns)
    /\ v.rk # <<>> /\ v.flag /\ v.dhs # NoKey =>
         \E m \in From(S, Peer(p)) : m.mk.root = v.rk

\* Nobody else sends in the chain p sends in, and p did not turn from it or send
\* in the one before; p does not send in the chain it receives.
Alone(S, p, v) ==
    /\ Sending(v) =>
         /\ \A m \in S : m.mk.root = v.rk => m.from = p
         /\ \A m \in From(S, p) : Before(m.mk.root) # v.rk /\ m.mk.root # Before(v.rk)
    /\ v.flag => \A m \in From(S, p) : m.mk.root # v.rk

\* What a message counts as sent in its chain and in the chain of its sender
\* before that was sent; the chain has one sender, who did not send in the chain
\* it turned from.
Sequel(S, m) ==
    /\ m.mk.n = m.np /\ SentUpTo(S, m.from, m.mk.root, m.np)
    /\ SentUpTo(S, m.from, Before(Before(m.mk.root)), m.pnp)
    /\ \A x \in S : x.mk.root = m.mk.root => x.from = m.from
    /\ \A x \in From(S, m.from) : Before(m.mk.root) # x.mk.root

OweInv ==
    /\ \A p \in Parties :
         /\ Alone(sent, p, conv[p][Primary])
         /\ \A c \in Contexts(p) : Linked(sent, p, conv[p][c])
         /\ \A c \in Contexts(p) : \A k \in staged[p][c] : SentKey(sent, Peer(p), k.root, k.n)
    /\ \A m \in sent : Sequel(sent, m)
============================================================================
