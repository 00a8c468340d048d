------------------------ MODULE ZinaRatchet_proofs ------------------------
(* Theorems about ZinaRatchet, for any number of setups, re-keyings,       *)
(* messages and faults: types, keys that are used once, forward secrecy    *)
(* (what a party stores opens no message it has read), context ids, and    *)
(* staged keys, which are those of messages on the way and no others.      *)
EXTENDS ZinaRatchet, FiniteSetTheorems, SequenceTheorems, TLAPS

USE ConstantsAssumption

\* There are two parties, and each is the peer of the other.
LEMMA PeerFacts ==
  ASSUME NEW p \in Parties
  PROVE  /\ Peer(p) \in Parties /\ Peer(p) # p /\ Peer(Peer(p)) = p
         /\ \A q \in Parties : q = p \/ q = Peer(p)
<1>0. IsFiniteSet(Parties \ {p}) /\ Cardinality(Parties \ {p}) = 1
  BY FS_RemoveElement
<1>1. PICK q : Parties \ {p} = {q}
  BY <1>0, FS_Singleton
<1>2. q \in Parties /\ q # p /\ Parties = {p, q}
  BY <1>1
<1>3. Peer(p) = q
  <2>1. Peer(p) \in Parties /\ Peer(p) # p
    BY <1>2 DEF Peer
  <2> QED
    BY <2>1, <1>2
<1>4. Peer(q) = p
  <2>1. Peer(q) \in Parties /\ Peer(q) # q
    BY <1>2 DEF Peer
  <2> QED
    BY <2>1, <1>2
<1> QED
  BY <1>2, <1>3, <1>4

----------------------------------------------------------------------------
(* Types of the helpers.                                                   *)

LEMMA Names ==
  ASSUME NEW p \in Parties
  PROVE  /\ Primary \in Contexts(p) /\ PreKeys(p) \subseteq Contexts(p)
         /\ Contexts(p) = {Primary} \cup PreKeys(p)
         /\ PreKeys(p) \subseteq Keys
         /\ \A k \in PreKeys(p) : k[1] = p /\ k[2] \in 1 .. MaxSetups /\ k # NoKey
  BY DEF Primary, Contexts, PreKeys, PreKeyOf, Keys

LEMMA ChainTypes ==
  /\ \A ck \in ChainKey, k \in Int :
       /\ Ahead(ck, k) \in ChainKey /\ Ahead(ck, k).root = ck.root
       /\ Skipped(ck, k) \subseteq ChainKey
  /\ \A root \in Root : ChainOf(root) \in ChainKey
  /\ \A root : ChainOf(root).root = root
  /\ NoChain \in ChainKey /\ NoChain.root = <<>>
<1>1. \A ck \in ChainKey, k \in Int :
        Ahead(ck, k) \in ChainKey /\ Ahead(ck, k).root = ck.root
  BY DEF Ahead, ChainKey
<1>2. \A ck \in ChainKey, k \in Int : Skipped(ck, k) \subseteq ChainKey
  BY <1>1 DEF Skipped
<1>4. \A root \in Root : ChainOf(root) \in ChainKey
  BY DEF ChainOf, ChainKey
<1>5. \A root : ChainOf(root).root = root
  BY DEF ChainOf
<1>6. <<>> \in Root
  BY DEF Root
<1> QED
  BY <1>1, <1>2, <1>4, <1>5, <1>6 DEF NoChain

\* A root key with one more secret in it.
LEMMA DeriveIs ==
  ASSUME NEW S, NEW rk \in Seq(SUBSET S), NEW a \in S, NEW b \in S
  PROVE  Derive(rk, a, b) \in Seq(SUBSET S) /\ Derive(rk, a, b) # <<>>
<1>1. {a, b} \in SUBSET S
  OBVIOUS
<1> QED
  BY <1>1, AppendProperties DEF Derive

\* A key pair that was not there before makes a root key that was not there.
LEMMA FreshRoot ==
  ASSUME NEW S, NEW T, NEW rk \in Seq(SUBSET S), NEW a \in S, NEW b \in S, a \notin T,
         NEW root \in Seq(SUBSET T)
  PROVE  root # Derive(rk, a, b)
<1> SUFFICES ASSUME root = Derive(rk, a, b) PROVE FALSE
  OBVIOUS
<1>1. {a, b} \in SUBSET S
  OBVIOUS
<1>2. root = Append(rk, {a, b})
  BY DEF Derive
<1>3. Len(rk) \in Nat /\ Len(root) = Len(rk) + 1 /\ root[Len(rk) + 1] = {a, b}
  BY <1>1, <1>2, AppendProperties, LenProperties
<1>4. Len(rk) + 1 \in 1 .. Len(root)
  BY <1>3
<1>5. root[Len(rk) + 1] \subseteq T
  BY <1>4, ElementOfSeq
<1> QED
  BY <1>3, <1>5

LEMMA ResetIs ==
  ASSUME NEW c \in Conversation
  PROVE  /\ Reset(c) \in Conversation
         /\ Reset(c).rk = <<>> /\ Reset(c).dhs = NoKey /\ Reset(c).dhr = NoKey
         /\ Reset(c).a0 = NoKey /\ Reset(c).cks = NoChain /\ Reset(c).ckr = NoChain
         /\ ~Reset(c).flag
<1>1. <<>> \in Root /\ NoChain \in ChainKey /\ NoKey \in KeyOrNone
  BY ChainTypes DEF Root, KeyOrNone
<1>2. EmptyConv \in Conversation
  BY <1>1 DEF EmptyConv, Conversation
<1>3. Reset(c) \in Conversation
  BY <1>2 DEF Reset, Conversation
<1> QED
  BY <1>3 DEF Reset, EmptyConv

\* A context with one thing changed.
LEMMA Updates ==
  ASSUME NEW c \in Conversation
  PROVE  /\ \A x \in Root : [c EXCEPT !.rk = x] \in Conversation
         /\ \A x \in KeyOrNone : /\ [c EXCEPT !.dhs = x] \in Conversation
                                /\ [c EXCEPT !.dhr = x] \in Conversation
                                /\ [c EXCEPT !.a0 = x] \in Conversation
                                /\ [c EXCEPT !.preKey = x] \in Conversation
         /\ \A x \in ChainKey : /\ [c EXCEPT !.cks = x] \in Conversation
                               /\ [c EXCEPT !.ckr = x] \in Conversation
         /\ \A x \in Nat : /\ [c EXCEPT !.ns = x] \in Conversation
                          /\ [c EXCEPT !.nr = x] \in Conversation
                          /\ [c EXCEPT !.pns = x] \in Conversation
                          /\ [c EXCEPT !.ctx = x] \in Conversation
         /\ \A x \in BOOLEAN : /\ [c EXCEPT !.flag = x] \in Conversation
                              /\ [c EXCEPT !.known = x] \in Conversation
  BY DEF Conversation

----------------------------------------------------------------------------
(* What an encryption does to a context.                                   *)

\* What the invariant says about each context, and about each message.
LEMMA ContextIs ==
  ASSUME KeyInv, NEW p \in Parties, NEW x \in Contexts(p)
  PROVE  /\ conv[p][x] \in Conversation /\ ContextOK(Born, p, conv[p][x])
         /\ lastKey[p] \in Nat /\ MaxSetups <= lastKey[p]
  BY DEF KeyInv, TypeOK

LEMMA MessageIs ==
  ASSUME KeyInv, NEW m \in sent
  PROVE  m \in Message /\ MessageOK(Born, preKeys[m.from], m)
  BY DEF KeyInv, TypeOK

LEMMA BornFacts ==
  ASSUME KeyInv
  PROVE  /\ Born \subseteq Keys /\ NoKey \notin Born
         /\ Seq(SUBSET Born) \subseteq Root
         /\ \A p \in Parties : PreKeys(p) \subseteq Born /\ <<p, lastKey[p] + 1>> \in Keys \ Born
<1>1. Born \subseteq Keys /\ NoKey \notin Born
  BY DEF Born
<1>2. SUBSET Born \subseteq SUBSET Keys
  BY <1>1
<1>3. Seq(SUBSET Born) \subseteq Root
  BY <1>2, SeqMonotonic DEF Root
<1>4. ASSUME NEW p \in Parties
      PROVE  PreKeys(p) \subseteq Born /\ <<p, lastKey[p] + 1>> \in Keys \ Born
  <2>1. lastKey[p] \in Nat /\ MaxSetups <= lastKey[p]
    BY DEF KeyInv, TypeOK
  <2>2. PreKeys(p) \subseteq Born
    BY <2>1, Names DEF Born
  <2>3. <<p, lastKey[p] + 1>> \in Keys \ Born
    BY <2>1 DEF Born, Keys
  <2> QED
    BY <2>2, <2>3
<1> QED
  BY <1>1, <1>3, <1>4

\* The context that encrypts, before the chain key is hashed.
LEMMA TurnIs ==
  ASSUME NEW S, S \subseteq Keys, NEW c \in Conversation, NEW new \in S,
         c.rk \in Seq(SUBSET S), c.rk # <<>>, c.flag => c.dhr \in S
  PROVE  LET t == Turn(c, new)
         IN  /\ t \in Conversation /\ t.rk # <<>> /\ ~t.flag
             /\ t.dhr = c.dhr /\ t.a0 = c.a0 /\ t.preKey = c.preKey
             /\ ~c.flag => t = c
             /\ c.flag => /\ t.dhs = new /\ t.rk = Derive(c.rk, new, c.dhr)
                          /\ t.cks = ChainOf(t.rk) /\ t.rk \in Seq(SUBSET S)
<1>1. CASE ~c.flag
  <2>1. Turn(c, new) = c
    BY <1>1 DEF Turn
  <2> QED
    BY <1>1, <2>1
<1>2. CASE c.flag
  <2> DEFINE root == Derive(c.rk, new, c.dhr)
             t == Turn(c, new)
  <2>0. c.dhr \in S
    BY <1>2
  <2>1. root \in Seq(SUBSET S) /\ root # <<>>
    BY <2>0, DeriveIs
  <2>2. root \in Root
    <3>1. SUBSET S \subseteq SUBSET Keys
      OBVIOUS
    <3> QED
      BY <2>1, <3>1, SeqMonotonic DEF Root
  <2>3. t = [c EXCEPT !.dhs = new, !.rk = root, !.cks = ChainOf(root),
                      !.pns = c.ns, !.ns = 0, !.flag = FALSE]
    BY <1>2 DEF Turn
  <2>4. ChainOf(root) \in ChainKey
    BY <2>2, ChainTypes
  <2>5. new \in KeyOrNone
    BY DEF KeyOrNone
  <2> HIDE DEF root, t
  <2>6. /\ t.dhs = new /\ t.rk = root /\ t.cks = ChainOf(root) /\ ~t.flag
        /\ t.dhr = c.dhr /\ t.a0 = c.a0 /\ t.preKey = c.preKey
    BY <2>3 DEF Conversation
  <2>7. t \in Conversation
    BY <2>2, <2>3, <2>4, <2>5 DEF Conversation
  <2> QED
    BY <1>2, <2>1, <2>6, <2>7 DEF root, t
<1> QED
  BY <1>1, <1>2

LEMMA UsedIs ==
  ASSUME NEW c \in Conversation
  PROVE  LET u == Used(c)
         IN  /\ u \in Conversation
             /\ u.cks.root = c.cks.root /\ u.cks.n = c.cks.n + 1
             /\ u.rk = c.rk /\ u.flag = c.flag /\ u.dhs = c.dhs /\ u.dhr = c.dhr
             /\ u.a0 = c.a0 /\ u.preKey = c.preKey
<1>1. /\ Ahead(c.cks, 1) \in ChainKey /\ Ahead(c.cks, 1).root = c.cks.root
      /\ Ahead(c.cks, 1).n = c.cks.n + 1
  BY DEF Ahead, ChainKey, Conversation
<1>2. Used(c) = [c EXCEPT !.ns = c.ns + 1, !.cks = Ahead(c.cks, 1)]
  BY DEF Used
<1>3. Used(c) \in Conversation
  <2>1. c.ns + 1 \in Nat
    BY DEF Conversation
  <2> QED
    BY <1>1, <1>2, <2>1 DEF Conversation
<1> QED
  BY <1>1, <1>2, <1>3 DEF Conversation

----------------------------------------------------------------------------
(* What a decryption does to a context.                                    *)

\* The context sends in the same chain as before.
Alike(v, w) == w.rk = v.rk /\ w.cks = v.cks /\ w.flag = v.flag

\* setupConversationBob, if the pre-key is there.
SetupRoot(m) == Derive(<<>>, m.a0, m.preKey)

LEMMA BobIs ==
  ASSUME KeyInv, NEW p \in Parties, NEW m \in sent, m.from # p, HasPreKey(p, m)
  PROVE  /\ m.a0 \in Born /\ m.a0[2] > MaxSetups
         /\ m.preKey \in preKeys[p] /\ m.preKey \in PreKeys(p) /\ m.preKey \in Born
         /\ SetupRoot(m) \in Seq(SUBSET Born) /\ Len(SetupRoot(m)) = 1
         /\ SetupRoot(m)[1] = {m.a0, m.preKey} /\ SetupRoot(m) # <<>>
<1>1. m \in Message /\ MessageOK(Born, preKeys[m.from], m) /\ m.a0 # NoKey /\ m.preKey \in preKeys[p]
  BY MessageIs DEF HasPreKey, IsSetup
<1>2. Peer(m.from) = p
  BY <1>1, PeerFacts DEF Message
<1>3. m.a0 \in Born /\ m.a0[2] > MaxSetups /\ m.preKey \in PreKeys(p)
  BY <1>1, <1>2 DEF MessageOK, SetupOK
<1>4. m.preKey \in Born
  BY <1>3, BornFacts
<1>5. {m.a0, m.preKey} \in SUBSET Born
  BY <1>3, <1>4
<1>6. SetupRoot(m) = <<{m.a0, m.preKey}>>
  BY DEF SetupRoot, Derive
<1> QED
  BY <1>1, <1>3, <1>4, <1>5, <1>6

LEMMA SetupConvIs ==
  ASSUME KeyInv, NEW p \in Parties, NEW m \in sent, m.from # p, NEW x \in Contexts(p)
  PROVE  LET v == conv[p][x]
             s == SetupConv(p, v, m)
         IN  /\ s \in Conversation /\ ContextOK(Born, p, s)
             /\ Alike(v, s) \/
                (HasPreKey(p, m) /\ s.cks = ChainOf(SetupRoot(m)) /\ s.dhr = NoKey)
<1> DEFINE v == conv[p][x]
           s == SetupConv(p, v, m)
<1>1. v \in Conversation /\ ContextOK(Born, p, v) /\ m \in Message
  BY ContextIs, MessageIs
<1>2. CASE HasPreKey(p, m)
  <2> DEFINE rk == SetupRoot(m)
  <2>1. /\ rk \in Seq(SUBSET Born) /\ rk \in Root /\ rk # <<>> /\ m.preKey \in Born
        /\ ChainOf(rk) \in ChainKey /\ ChainOf(rk).root = rk /\ m.preKey \in KeyOrNone
        /\ m.ctx \in Nat
    BY <1>1, <1>2, BobIs, BornFacts, ChainTypes DEF KeyOrNone, Message
  <2>2. s = [Reset(v) EXCEPT !.rk = rk, !.dhs = m.preKey, !.cks = ChainOf(rk),
                             !.ctx = m.ctx, !.known = TRUE]
    BY <1>2 DEF SetupConv, BobConv, SetupRoot
  <2> DEFINE e == Reset(v)
  <2>3. e \in Conversation /\ e.dhr = NoKey /\ e.a0 = NoKey /\ ~e.flag
    BY <1>1, ResetIs
  <2> HIDE DEF rk, e, v, s
  <2>4. /\ s.rk = rk /\ s.dhs = m.preKey /\ s.cks = ChainOf(rk)
        /\ s.dhr = NoKey /\ s.a0 = NoKey /\ ~s.flag
    BY <2>2, <2>3 DEF Conversation, e
  <2>5. s \in Conversation
    BY <2>1, <2>2, <2>3 DEF Conversation, e
  <2>6. ContextOK(Born, p, s)
    BY <2>1, <2>4, BornFacts DEF ContextOK, SetupOK, Sending
  <2> QED
    BY <1>2, <2>4, <2>5, <2>6 DEF rk, s, v
<1>3. CASE ~HasPreKey(p, m) /\ IsSetup(m)
  <2>1. s = [v EXCEPT !.ctx = m.ctx] /\ m.ctx \in Nat
    BY <1>1, <1>3 DEF SetupConv, Message
  <2> HIDE DEF v, s
  <2>2. s \in Conversation
    BY <1>1, <2>1, Updates
  <2>3. /\ s.rk = v.rk /\ s.cks = v.cks /\ s.flag = v.flag /\ s.dhs = v.dhs /\ s.dhr = v.dhr
        /\ s.a0 = v.a0 /\ s.preKey = v.preKey
    BY <1>1, <2>1 DEF Conversation
  <2>4. ContextOK(Born, p, s)
    BY <1>1, <2>3 DEF ContextOK, Sending
  <2> QED
    BY <2>2, <2>3, <2>4 DEF Alike, s, v
<1>4. CASE ~HasPreKey(p, m) /\ ~IsSetup(m)
  <2>1. s = v
    BY <1>4 DEF SetupConv
  <2> QED
    BY <1>1, <2>1 DEF Alike
<1> QED
  BY <1>2, <1>3, <1>4

\* The receiving chain goes on and the setup is over.
LEMMA AdvanceIs ==
  ASSUME NEW c \in Conversation, NEW ck \in ChainKey, NEW m \in Message
  PROVE  LET w == Advance(c, ck, m)
         IN  /\ w \in Conversation /\ Alike(c, w) /\ w.dhs = c.dhs /\ w.dhr = c.dhr
             /\ w.a0 = NoKey
<1>1. Ahead(ck, 1) \in ChainKey /\ m.np + 1 \in Nat /\ NoKey \in KeyOrNone
  BY DEF Ahead, ChainKey, Message, KeyOrNone
<1>2. Advance(c, ck, m) = [c EXCEPT !.ckr = Ahead(ck, 1), !.nr = m.np + 1, !.a0 = NoKey]
  BY DEF Advance
<1>3. Advance(c, ck, m) \in Conversation
  BY <1>1, <1>2 DEF Conversation
<1> QED
  BY <1>2, <1>3 DEF Alike, Conversation

LEMMA OldRatchetIs ==
  ASSUME NEW c \in Conversation, NEW m \in Message, NEW p, ContextOK(Born, p, c)
  PROVE  LET r == OldRatchet(c, m)
         IN  /\ r.conv \in Conversation /\ ContextOK(Born, p, r.conv) /\ Alike(c, r.conv)
             /\ r.new \subseteq ChainKey /\ r.out = {}
<1> DEFINE k == m.np - c.nr
           ck == Ahead(c.ckr, k)
           w == Advance(c, ck, m)
<1>1. k \in Int /\ c.ckr \in ChainKey
  BY DEF Message, Conversation
<1>2. ck \in ChainKey /\ Skipped(c.ckr, k) \subseteq ChainKey
  BY <1>1, ChainTypes
<1>3. /\ OldRatchet(c, m).conv = w /\ OldRatchet(c, m).out = {}
      /\ OldRatchet(c, m).new = Skipped(c.ckr, k)
  BY DEF OldRatchet, Outcome
<1> HIDE DEF ck, k
<1>4. w \in Conversation /\ Alike(c, w) /\ w.dhs = c.dhs /\ w.dhr = c.dhr /\ w.a0 = NoKey
  BY <1>2, AdvanceIs
<1> HIDE DEF w
<1>5. ContextOK(Born, p, w)
  BY <1>4 DEF ContextOK, Alike, Sending, SetupOK
<1> QED
  BY <1>2, <1>3, <1>4, <1>5

LEMMA NewRatchetIs ==
  ASSUME KeyInv, NEW c \in Conversation, NEW m \in Message, NEW p, ContextOK(Born, p, c),
         m.dhs \in Born
  PROVE  LET r == NewRatchet(c, m)
         IN  /\ r.conv \in Conversation /\ ContextOK(Born, p, r.conv)
             /\ Alike(c, r.conv) \/ r.conv.flag
             /\ r.new \subseteq ChainKey /\ r.out = {}
<1> DEFINE root == Derive(c.rk, c.dhs, m.dhs)
           ck == Ahead(ChainOf(root), m.np)
           old == Skipped(c.ckr, m.pnp - c.nr)
           r == NewRatchet(c, m)
<1>1. m.np \in Int /\ m.pnp - c.nr \in Int /\ c.ckr \in ChainKey
  BY DEF Message, Conversation
<1>2. old \subseteq ChainKey
  BY <1>1, ChainTypes
<1>3. CASE ~(c.dhs # NoKey /\ c.rk # <<>>)
  <2>1. r.conv = c /\ r.new = old /\ r.out = {}
    BY <1>3 DEF NewRatchet, Outcome
  <2> QED
    BY <1>2, <2>1 DEF Alike
<1>4. CASE c.dhs # NoKey /\ c.rk # <<>>
  <2>1. root \in Seq(SUBSET Born) /\ root \in Root
    <3>1. c.rk \in Seq(SUBSET Born) /\ c.dhs \in Born
      BY <1>4 DEF ContextOK
    <3>2. root \in Seq(SUBSET Born)
      BY <3>1, DeriveIs
    <3> QED
      BY <3>2, BornFacts
  <2>2. ChainOf(root) \in ChainKey
    BY <2>1, ChainTypes
  <2>3. ck \in ChainKey /\ Skipped(ChainOf(root), m.np) \subseteq ChainKey
    BY <1>1, <2>2, ChainTypes
  <2> DEFINE a == Advance(c, ck, m)
             w == [a EXCEPT !.rk = root, !.dhr = m.dhs, !.flag = TRUE]
  <2>4. r.conv = w /\ r.new = old \cup Skipped(ChainOf(root), m.np) /\ r.out = {}
    BY <1>4 DEF NewRatchet, Outcome
  <2> HIDE DEF ck, root
  <2>5. a \in Conversation /\ Alike(c, a) /\ a.dhs = c.dhs /\ a.a0 = NoKey
    BY <2>3, AdvanceIs
  <2> HIDE DEF a
  <2>6. m.dhs \in KeyOrNone /\ m.dhs # NoKey
    BY BornFacts DEF KeyOrNone
  <2>7. w \in Conversation
    BY <2>1, <2>5, <2>6 DEF Conversation
  <2>8. /\ w.rk = root /\ w.dhr = m.dhs /\ w.flag /\ w.dhs = c.dhs /\ w.a0 = NoKey
        /\ w.cks = c.cks
    BY <2>5 DEF Conversation, Alike
  <2> HIDE DEF w
  <2>9. ContextOK(Born, p, w)
    BY <2>1, <2>6, <2>8 DEF ContextOK, Sending, SetupOK
  <2> HIDE DEF r, old
  <2>10. r.new \subseteq ChainKey
    BY <1>2, <2>3, <2>4
  <2> QED
    BY <2>4, <2>7, <2>8, <2>9, <2>10 DEF r
<1> QED
  BY <1>3, <1>4

\* decryptInternal: the context sends in the chain it had, or it turns the ratchet
\* before it sends, or it is new from a setup.
LEMMA DecryptIs ==
  ASSUME KeyInv, NEW p \in Parties, NEW m \in sent, m.from # p, NEW x \in Contexts(p)
  PROVE  LET r == DecryptInternal(p, x, m)
         IN  /\ r.conv \in Conversation /\ ContextOK(Born, p, r.conv)
             /\ \/ Alike(conv[p][x], r.conv)
                \/ r.conv.flag
                \/ HasPreKey(p, m) /\ r.conv.cks = ChainOf(SetupRoot(m))
             /\ r.new \subseteq ChainKey /\ r.out \subseteq ChainKey
<1> DEFINE v == conv[p][x]
           s == SetupConv(p, v, m)
           r == DecryptInternal(p, x, m)
<1>1. v \in Conversation /\ ContextOK(Born, p, v) /\ m \in Message /\ m.dhs \in Born
      /\ m.mk \in ChainKey
  BY ContextIs, MessageIs DEF MessageOK, Message
<1>2. /\ s \in Conversation /\ ContextOK(Born, p, s)
      /\ Alike(v, s) \/ (HasPreKey(p, m) /\ s.cks = ChainOf(SetupRoot(m)) /\ s.dhr = NoKey)
  BY SetupConvIs
<1>3. CASE Refused(p, v, m)
  <2>1. r = Outcome(FALSE, v, {}, {})
    BY <1>3 DEF DecryptInternal
  <2> QED
    BY <1>1, <2>1 DEF Outcome, Alike
<1>4. CASE ~Refused(p, v, m) /\ m.mk \in staged[p][x]
  <2>1. r = Outcome(TRUE, s, {}, {m.mk})
    BY <1>4 DEF DecryptInternal
  <2> HIDE DEF s
  <2> QED
    BY <1>1, <1>2, <2>1 DEF Outcome
<1>5. CASE ~Refused(p, v, m) /\ m.mk \notin staged[p][x] /\ m.dhs = s.dhr
  <2>1. r = OldRatchet(s, m) /\ s.dhr # NoKey
    BY <1>1, <1>5, BornFacts DEF DecryptInternal
  <2> HIDE DEF s, r, v
  <2>2. Alike(v, s)
    BY <1>2, <2>1
  <2>3. /\ r.conv \in Conversation /\ ContextOK(Born, p, r.conv) /\ Alike(s, r.conv)
        /\ r.new \subseteq ChainKey /\ r.out = {}
    BY <1>1, <1>2, <2>1, OldRatchetIs
  <2> QED
    BY <2>2, <2>3 DEF Alike, r, v
<1>6. CASE ~Refused(p, v, m) /\ m.mk \notin staged[p][x] /\ m.dhs # s.dhr
  <2>1. r = NewRatchet(s, m)
    BY <1>6 DEF DecryptInternal
  <2> HIDE DEF s, r, v
  <2>2. /\ r.conv \in Conversation /\ ContextOK(Born, p, r.conv)
        /\ Alike(s, r.conv) \/ r.conv.flag
        /\ r.new \subseteq ChainKey /\ r.out = {}
    BY <1>1, <1>2, <2>1, NewRatchetIs
  <2> QED
    BY <1>2, <2>2 DEF Alike, r, v
<1> QED
  BY <1>3, <1>4, <1>5, <1>6

----------------------------------------------------------------------------
(* The invariant.                                                          *)

\* What was true of a context or a message stays true when keys are born and
\* pre-keys are spent.
LEMMA Later ==
  ASSUME NEW S, NEW T, S \subseteq T, NEW left, NEW less, less \subseteq left
  PROVE  /\ \A p, c : ContextOK(S, p, c) => ContextOK(T, p, c)
         /\ \A p, root : Spent(p, left, root) => Spent(p, less, root)
         /\ \A m : MessageOK(S, left, m) => MessageOK(T, less, m)
<1>1. Seq(SUBSET S) \subseteq Seq(SUBSET T)
  <2>1. SUBSET S \subseteq SUBSET T
    OBVIOUS
  <2> QED
    BY <2>1, SeqMonotonic
<1>2. \A p, a, b : SetupOK(S, p, a, b) => SetupOK(T, p, a, b)
  BY DEF SetupOK
<1>3. \A p, c : ContextOK(S, p, c) => ContextOK(T, p, c)
  BY <1>1, <1>2 DEF ContextOK
<1>4. \A p, root : Spent(p, left, root) => Spent(p, less, root)
  BY DEF Spent
<1>5. \A m : MessageOK(S, left, m) => MessageOK(T, less, m)
  BY <1>1, <1>2, <1>4 DEF MessageOK
<1> QED
  BY <1>3, <1>4, <1>5

LEMMA BornGrows ==
  ASSUME KeyInv, \A p \in Parties : lastKey'[p] \in Nat /\ lastKey[p] <= lastKey'[p]
  PROVE  Born \subseteq Born'
<1> SUFFICES ASSUME NEW k \in Keys, k[2] <= lastKey[k[1]] PROVE k[2] <= lastKey'[k[1]]
  BY DEF Born
<1>1. k[1] \in Parties /\ k[2] \in Nat
  BY DEF Keys
<1>2. lastKey[k[1]] \in Nat
  BY <1>1 DEF KeyInv, TypeOK
<1> QED
  BY <1>1, <1>2

\* A chain nobody sends or sent in, whose pre-key is gone.
NewChain(p, left, root) ==
  LET d == conv[Peer(p)][Primary]
  IN  /\ Spent(p, left, root)
      /\ \A m \in sent : m.mk.root # root
      /\ Sending(d) => d.cks.root # root

\* A step that sends nothing and changes one context at most.
LEMMA Moved ==
  ASSUME KeyInv, TypeOK', UNCHANGED <<sent, unsaved>>,
         \A q \in Parties : lastKey[q] <= lastKey'[q] /\ preKeys'[q] \subseteq preKeys[q],
         NEW p \in Parties, NEW x \in Contexts(p), NEW w, conv'[p][x] = w,
         \A q \in Parties : \A y \in Contexts(q) :
             q # p \/ y # x => conv'[q][y] = conv[q][y],
         ContextOK(Born', p, w),
         x = Primary /\ Sending(w) =>
             Alike(conv[p][Primary], w) \/ NewChain(p, preKeys'[p], w.cks.root)
  PROVE  KeyInv'
<1>1. \A q \in Parties : lastKey[q] \in Nat /\ lastKey'[q] \in Nat
  BY DEF KeyInv, TypeOK
<1>2. Born \subseteq Born'
  BY <1>1, BornGrows
<1>3. ASSUME NEW q \in Parties
      PROVE  /\ MaxSetups <= lastKey'[q] /\ preKeys'[q] \subseteq PreKeys(q)
             /\ \A y \in Contexts(q) : ContextOK(Born', q, conv'[q][y])
  <2>1. MaxSetups <= lastKey'[q] /\ preKeys'[q] \subseteq PreKeys(q)
    BY <1>1 DEF KeyInv
  <2>2. ASSUME NEW y \in Contexts(q) PROVE ContextOK(Born', q, conv'[q][y])
    <3>1. CASE q = p /\ y = x
      BY <3>1
    <3>2. CASE q # p \/ y # x
      <4>1. conv'[q][y] = conv[q][y] /\ ContextOK(Born, q, conv[q][y])
        BY <3>2, ContextIs
      <4> QED
        BY <1>2, <4>1, Later
    <3> QED
      BY <3>1, <3>2
  <2> QED
    BY <2>1, <2>2
<1>4. ASSUME NEW m \in sent PROVE MessageOK(Born', preKeys'[m.from], m)
  <2>1. m.from \in Parties /\ MessageOK(Born, preKeys[m.from], m)
    BY MessageIs DEF Message
  <2> QED
    BY <1>2, <2>1, Later
<1>5. ASSUME NEW q \in Parties PROVE ChainOK(q)'
  <2> DEFINE c == conv[q][Primary]
             d == conv[Peer(q)][Primary]
             c1 == conv'[q][Primary]
             d1 == conv'[Peer(q)][Primary]
  <2>1. /\ Peer(q) \in Parties /\ Peer(q) # q /\ Peer(Peer(q)) = q
        /\ Primary \in Contexts(q) /\ Primary \in Contexts(Peer(q))
    BY PeerFacts, Names
  <2>2. \/ c1 = c /\ d1 = d
        \/ q = p /\ x = Primary /\ c1 = w /\ d1 = d
        \/ Peer(q) = p /\ x = Primary /\ d1 = w /\ c1 = c
    BY <2>1
  <2>3. Sending(c) =>
          /\ Spent(q, preKeys[q], c.cks.root)
          /\ \A m \in sent : m.mk.root = c.cks.root => m.mk.n < c.cks.n \/ m \in unsaved
          /\ Sending(d) => d.cks.root # c.cks.root
    BY DEF KeyInv, ChainOK
  <2>4. \A root : Spent(q, preKeys[q], root) => Spent(q, preKeys'[q], root)
    BY Later
  <2>5. (ChainOK(q))' <=> (Sending(c1) =>
                 /\ Spent(q, preKeys'[q], c1.cks.root)
                 /\ \A m \in sent : m.mk.root = c1.cks.root =>
                        m.mk.n < c1.cks.n \/ m \in unsaved
                 /\ Sending(d1) => d1.cks.root # c1.cks.root)
    BY DEF ChainOK
  <2> SUFFICES ASSUME Sending(c1)
               PROVE  /\ Spent(q, preKeys'[q], c1.cks.root)
                      /\ \A m \in sent : m.mk.root = c1.cks.root =>
                             m.mk.n < c1.cks.n \/ m \in unsaved
                      /\ Sending(d1) => d1.cks.root # c1.cks.root
    BY <2>5
  <2> HIDE DEF c1, d1
  <2>6. CASE c1 = c /\ d1 = d
    BY <2>3, <2>4, <2>6
  <2>7. CASE q = p /\ x = Primary /\ c1 = w /\ d1 = d
    <3>1. CASE Alike(c, w)
      <4>1. Sending(c) /\ c.cks = c1.cks
        BY <2>7, <3>1 DEF Alike, Sending
      <4> QED
        BY <2>3, <2>4, <2>7, <4>1
    <3>2. CASE NewChain(p, preKeys'[p], w.cks.root)
      BY <2>7, <3>2 DEF NewChain
    <3> QED
      BY <2>7, <3>1, <3>2
  <2>8. CASE Peer(q) = p /\ x = Primary /\ d1 = w /\ c1 = c
    <3>1. Sending(w) => w.cks.root # c.cks.root
      <4>0. Peer(p) = q
        BY <2>1, <2>8
      <4> SUFFICES ASSUME Sending(w) PROVE w.cks.root # c.cks.root
        OBVIOUS
      <4>1. CASE Alike(d, w)
        <5>1. Sending(d) /\ d.cks = w.cks
          BY <4>1 DEF Alike, Sending
        <5> QED
          BY <2>3, <2>8, <5>1
      <4>2. CASE NewChain(p, preKeys'[p], w.cks.root)
        BY <2>8, <4>0, <4>2 DEF NewChain
      <4> QED
        BY <2>8, <4>1, <4>2
    <3> QED
      BY <2>3, <2>4, <2>8, <3>1
  <2> QED
    BY <2>2, <2>6, <2>7, <2>8
<1>6. IsFiniteSet(sent') /\ KeyUsedOnce'
  BY DEF KeyInv, KeyUsedOnce
<1> QED
  BY <1>3, <1>4, <1>5, <1>6 DEF KeyInv

\* One context of a party changes.
OneContext(p, x, w) ==
  /\ DOMAIN conv' = Parties
  /\ \A q \in Parties : conv'[q] \in [Contexts(q) -> Conversation]
  /\ conv'[p][x] = w
  /\ \A q \in Parties : \A y \in Contexts(q) : q # p \/ y # x => conv'[q][y] = conv[q][y]

LEMMA ConvUpdate ==
  ASSUME TypeOK, NEW p \in Parties, NEW x \in Contexts(p), NEW w \in Conversation,
         conv' = [conv EXCEPT ![p][x] = w]
  PROVE  OneContext(p, x, w)
<1>1. DOMAIN conv = Parties /\ \A q \in Parties : conv[q] \in [Contexts(q) -> Conversation]
  BY DEF TypeOK
<1>2. conv'[p] = [conv[p] EXCEPT ![x] = w] /\ \A q \in Parties : q # p => conv'[q] = conv[q]
  BY <1>1
<1>3. DOMAIN conv' = Parties
  BY <1>1
<1>4. conv'[p] \in [Contexts(p) -> Conversation] /\ conv'[p][x] = w
      /\ \A y \in Contexts(p) : y # x => conv'[p][y] = conv[p][y]
  BY <1>1, <1>2
<1> QED
  BY <1>1, <1>2, <1>3, <1>4 DEF OneContext

----------------------------------------------------------------------------
(* Each action keeps the invariant.                                        *)

LEMMA SetUpKeeps ==
  ASSUME KeyInv, NEW p \in Parties, SetUp(p)
  PROVE  KeyInv'
<1> DEFINE c == conv[p][Primary]
           q == Peer(p)
           b0 == PreKeyOf(q, handedOut[q] + 1)
           a0 == <<p, lastKey[p] + 1>>
           rk == Derive(<<>>, a0, b0)
           e == Reset(c)
           w == [e EXCEPT !.rk = rk, !.dhr = b0, !.a0 = a0, !.preKey = b0,
                          !.ckr = ChainOf(rk), !.flag = TRUE,
                          !.ctx = Len(setups) + 1, !.known = TRUE]
<1>1. /\ handedOut[q] < MaxSetups
      /\ conv' = [conv EXCEPT ![p][Primary] = w]
      /\ setups' = Append(setups, {a0, b0})
      /\ handedOut' = [handedOut EXCEPT ![q] = @ + 1]
      /\ lastKey' = [lastKey EXCEPT ![p] = @ + 1]
      /\ UNCHANGED <<staged, preKeys, sent, got, twice, ordered, unsaved, reKeys, faults>>
  BY DEF SetUp
<1>2. q \in Parties /\ Primary \in Contexts(p)
  BY PeerFacts, Names
<1>3. TypeOK /\ c \in Conversation /\ lastKey[p] \in Nat /\ MaxSetups <= lastKey[p]
  BY <1>2, ContextIs DEF KeyInv
<1>4. handedOut[q] \in Nat /\ handedOut \in [Parties -> Nat] /\ lastKey \in [Parties -> Nat]
  BY <1>2, <1>3 DEF TypeOK
<1>5. b0 \in PreKeys(q) /\ b0 \in Keys /\ b0 # NoKey
  <2>1. handedOut[q] + 1 \in 1 .. MaxSetups
    BY <1>1, <1>4
  <2>2. b0 \in PreKeys(q)
    BY <2>1 DEF PreKeys
  <2> QED
    BY <1>2, <2>2, Names
<1>6. lastKey' \in [Parties -> Nat] /\ \A x \in Parties : lastKey[x] <= lastKey'[x]
  <2>1. lastKey' = [lastKey EXCEPT ![p] = @ + 1]
    BY <1>1
  <2> QED
    BY <1>4, <2>1
<1>7. Born \subseteq Born'
  BY <1>6, BornGrows
<1>8. a0 \in Born' /\ a0 \in Keys /\ a0[2] > MaxSetups /\ Born' \subseteq Keys
  <2>1. a0 \in Keys /\ a0[1] = p /\ a0[2] = lastKey[p] + 1
    BY <1>3 DEF Keys
  <2>2. lastKey'[p] = lastKey[p] + 1
    BY <1>1, <1>4
  <2> QED
    BY <1>3, <2>1, <2>2 DEF Born
<1>9. b0 \in Born'
  BY <1>2, <1>5, <1>7, BornFacts
<1> HIDE DEF a0, b0, q
<1>10. rk \in Seq(SUBSET Born') /\ rk \in Root
  <2>1. <<>> \in Seq(SUBSET Born')
    OBVIOUS
  <2>2. rk \in Seq(SUBSET Born')
    BY <1>8, <1>9, <2>1, DeriveIs
  <2>3. SUBSET Born' \subseteq SUBSET Keys
    BY <1>8
  <2> QED
    BY <2>2, <2>3, SeqMonotonic DEF Root
<1>11. ChainOf(rk) \in ChainKey
  BY <1>10, ChainTypes
<1> HIDE DEF rk
<1>12. /\ e \in Conversation /\ e.dhs = NoKey /\ e.cks = NoChain
  BY <1>3, ResetIs
<1>13. Len(setups) + 1 \in Nat
  BY <1>3, LenProperties DEF TypeOK
<1> HIDE DEF e
<1>14. w \in Conversation
  <2>1. a0 \in KeyOrNone /\ b0 \in KeyOrNone
    BY <1>5, <1>8 DEF KeyOrNone
  <2> QED
    BY <1>10, <1>11, <1>12, <1>13, <2>1 DEF Conversation
<1>15. /\ w.rk = rk /\ w.dhs = NoKey /\ w.dhr = b0 /\ w.a0 = a0 /\ w.preKey = b0
       /\ w.cks = NoChain /\ w.flag
  BY <1>12 DEF Conversation
<1> HIDE DEF w, c
<1>16. ContextOK(Born', p, w)
  <2>1. w.cks.root \in Seq(SUBSET Born')
    BY <1>15, ChainTypes
  <2>2. SetupOK(Born', p, w.a0, w.preKey)
    BY <1>5, <1>8, <1>15 DEF SetupOK, q
  <2> QED
    BY <1>5, <1>9, <1>10, <1>15, <2>1, <2>2 DEF ContextOK, Sending
<1>17. /\ DOMAIN conv' = Parties
       /\ \A x \in Parties : conv'[x] \in [Contexts(x) -> Conversation]
       /\ conv'[p][Primary] = w
       /\ \A x \in Parties : \A y \in Contexts(x) :
            x # p \/ y # Primary => conv'[x][y] = conv[x][y]
  <2>1. conv' = [conv EXCEPT ![p][Primary] = w]
    BY <1>1
  <2>2. TypeOK /\ Primary \in Contexts(p) /\ w \in Conversation
    BY <1>2, <1>3, <1>14
  <2>3. OneContext(p, Primary, w)
    BY <2>1, <2>2, ConvUpdate
  <2> QED
    BY <2>3 DEF OneContext
<1>18. TypeOK'
  <2>1. setups' \in Seq(SUBSET Keys)
    <3>1. {a0, b0} \in SUBSET Keys
      BY <1>5, <1>8
    <3> QED
      BY <1>1, <1>3, <3>1, AppendProperties DEF TypeOK
  <2>2. handedOut' \in [Parties -> Nat]
    BY <1>1, <1>2, <1>4
  <2> QED
    BY <1>1, <1>3, <1>6, <1>17, <2>1, <2>2 DEF TypeOK
<1>19. \A x \in Parties : lastKey[x] <= lastKey'[x] /\ preKeys'[x] \subseteq preKeys[x]
  BY <1>1, <1>6
<1>20. ~Sending(w)
  BY <1>15 DEF Sending
<1> QED
  BY <1>1, <1>2, <1>16, <1>17, <1>18, <1>19, <1>20, Moved

LEMMA ReKeyKeeps ==
  ASSUME KeyInv, NEW p \in Parties, ReKey(p)
  PROVE  KeyInv'
<1> DEFINE w == Reset(conv[p][Primary])
<1>1. /\ conv' = [conv EXCEPT ![p][Primary] = w]
      /\ reKeys' = reKeys + 1
      /\ UNCHANGED <<staged, preKeys, handedOut, lastKey, setups, sent, got, twice,
                     ordered, unsaved, faults>>
  BY DEF ReKey
<1>2. TypeOK /\ Primary \in Contexts(p) /\ conv[p][Primary] \in Conversation
  BY Names, ContextIs DEF KeyInv
<1>3. /\ w \in Conversation /\ w.rk = <<>> /\ w.dhs = NoKey /\ w.dhr = NoKey
      /\ w.a0 = NoKey /\ w.cks = NoChain /\ ~w.flag
  BY <1>2, ResetIs
<1> HIDE DEF w
<1>4. ContextOK(Born', p, w) /\ ~Sending(w)
  BY <1>3, ChainTypes DEF ContextOK, Sending, SetupOK
<1>5. /\ DOMAIN conv' = Parties
      /\ \A x \in Parties : conv'[x] \in [Contexts(x) -> Conversation]
      /\ conv'[p][Primary] = w
      /\ \A x \in Parties : \A y \in Contexts(x) :
           x # p \/ y # Primary => conv'[x][y] = conv[x][y]
  <2>1. conv' = [conv EXCEPT ![p][Primary] = w]
    BY <1>1
  <2>2. TypeOK /\ Primary \in Contexts(p) /\ w \in Conversation
    BY <1>2, <1>3
  <2>3. OneContext(p, Primary, w)
    BY <2>1, <2>2, ConvUpdate
  <2> QED
    BY <2>3 DEF OneContext
<1>6. TypeOK'
  BY <1>1, <1>2, <1>5 DEF TypeOK
<1>7. \A x \in Parties : lastKey[x] <= lastKey'[x] /\ preKeys'[x] \subseteq preKeys[x]
  BY <1>1, <1>2 DEF TypeOK
<1> QED
  BY <1>1, <1>2, <1>4, <1>5, <1>6, <1>7, Moved

LEMMA ReadersAre ==
  ASSUME KeyInv, NEW p \in Parties, NEW m \in sent, m.from # p
  PROVE  First(p, m) \in Contexts(p) /\ Readers(p, m) \subseteq Contexts(p)
<1>1. m \in Message /\ MessageOK(Born, preKeys[m.from], m)
  BY MessageIs
<1>2. Peer(m.from) = p
  BY <1>1, PeerFacts DEF Message
<1>3. First(p, m) \in Contexts(p)
  BY <1>1, <1>2, Names DEF First, Collision, IsSetup, MessageOK, SetupOK
<1> QED
  BY <1>3 DEF Readers, Secondaries

\* The pre-key of a setup message is gone, decrypted or not.
LEMMA Spends ==
  ASSUME KeyInv, NEW p \in Parties, NEW m, SpendPreKey(p, m)
  PROVE  /\ preKeys' \in [Parties -> SUBSET Keys] /\ m.preKey \notin preKeys'[p]
         /\ \A q \in Parties : preKeys'[q] \subseteq preKeys[q]
<1>1. preKeys \in [Parties -> SUBSET Keys]
  BY DEF KeyInv, TypeOK
<1>2. preKeys' = [preKeys EXCEPT ![p] = @ \ {m.preKey}]
  BY DEF SpendPreKey
<1> QED
  BY <1>1, <1>2

\* The chain of a setup: its pre-key is there until now, so nobody used the chain.
LEMMA SetupIsNew ==
  ASSUME KeyInv, NEW p \in Parties, NEW m \in sent, m.from # p, HasPreKey(p, m),
         SpendPreKey(p, m)
  PROVE  NewChain(p, preKeys'[p], SetupRoot(m))
<1> DEFINE root == SetupRoot(m)
<1>1. /\ m.a0 \in Born /\ m.a0[2] > MaxSetups
      /\ m.preKey \in preKeys[p] /\ m.preKey \in PreKeys(p)
      /\ Len(root) = 1 /\ root[1] = {m.a0, m.preKey}
  BY BobIs
<1>2. m.preKey \notin preKeys'[p]
  BY Spends
<1>3. Spent(p, preKeys'[p], root)
  BY <1>1, <1>2 DEF Spent, PreKeys
<1>4. ASSUME NEW q \in Parties PROVE ~Spent(q, preKeys[q], root)
  <2> SUFFICES ASSUME NEW n \in 1 .. MaxSetups, PreKeyOf(q, n) \in root[1] \ preKeys[q]
               PROVE  FALSE
    BY <1>1 DEF Spent
  <2>1. PreKeyOf(q, n) # m.a0
    BY <1>1 DEF PreKeyOf
  <2>2. PreKeyOf(q, n) = m.preKey
    BY <1>1, <2>1
  <2>3. q = p
    BY <1>1, <2>2, Names DEF PreKeyOf
  <2> QED
    BY <1>1, <2>2, <2>3
<1> HIDE DEF root
<1>5. ASSUME NEW x \in sent PROVE x.mk.root # root
  <2>1. x.from \in Parties /\ Spent(x.from, preKeys[x.from], x.mk.root)
    BY MessageIs DEF MessageOK, Message
  <2> QED
    BY <1>4, <2>1
<1>6. ASSUME Sending(conv[Peer(p)][Primary]) PROVE conv[Peer(p)][Primary].cks.root # root
  <2>1. Peer(p) \in Parties
    BY PeerFacts
  <2>2. ChainOK(Peer(p))
    BY <2>1 DEF KeyInv
  <2>3. Spent(Peer(p), preKeys[Peer(p)], conv[Peer(p)][Primary].cks.root)
    BY <1>6, <2>2 DEF ChainOK
  <2> QED
    BY <1>4, <2>1, <2>3
<1>7. NewChain(p, preKeys'[p], root)
  BY <1>3, <1>5, <1>6 DEF NewChain
<1> QED
  BY <1>7 DEF root

LEMMA ReceiveKeeps ==
  ASSUME KeyInv, NEW p \in Parties, NEW m \in sent, Receive(p, m)
  PROVE  KeyInv'
<1>1. PICK c \in Readers(p, m) :
         LET r    == DecryptInternal(p, c, m)
             junk == IF c = First(p, m) THEN {}
                     ELSE DecryptInternal(p, First(p, m), m).new
         IN  /\ conv' = [conv EXCEPT ![p][c] = r.conv]
             /\ staged' = [staged EXCEPT
                             ![p] = [x \in Contexts(p) |->
                                 IF x = c THEN (@[x] \ r.out) \cup r.new
                                 ELSE IF x = Primary THEN @[x] \cup junk ELSE @[x]]]
  BY DEF Receive
<1> DEFINE r == DecryptInternal(p, c, m)
           junk == IF c = First(p, m) THEN {}
                   ELSE DecryptInternal(p, First(p, m), m).new
<1>2. /\ m.from # p /\ ordered' = (ordered /\ InOrder(p, m)) /\ SpendPreKey(p, m)
      /\ got' = [got EXCEPT ![p] = @ \cup {m}]
      /\ twice' = IF m \in got[p] THEN twice \cup {m} ELSE twice
      /\ UNCHANGED <<handedOut, lastKey, setups, sent, unsaved, reKeys, faults>>
  BY DEF Receive, Arrives
<1>3. c \in Contexts(p) /\ First(p, m) \in Contexts(p)
  BY <1>2, ReadersAre
<1>4. TypeOK /\ m \in Message
  BY MessageIs DEF KeyInv
<1>5. /\ r.conv \in Conversation /\ ContextOK(Born, p, r.conv)
      /\ \/ Alike(conv[p][c], r.conv)
         \/ r.conv.flag
         \/ HasPreKey(p, m) /\ r.conv.cks = ChainOf(SetupRoot(m))
      /\ r.new \subseteq ChainKey /\ r.out \subseteq ChainKey
  BY <1>2, <1>3, DecryptIs
<1>6. junk \subseteq ChainKey
  <2>1. DecryptInternal(p, First(p, m), m).new \subseteq ChainKey
    BY <1>2, <1>3, DecryptIs
  <2> QED
    BY <2>1
<1>7. /\ conv' = [conv EXCEPT ![p][c] = r.conv]
      /\ staged' = [staged EXCEPT
                      ![p] = [x \in Contexts(p) |->
                          IF x = c THEN (staged[p][x] \ r.out) \cup r.new
                          ELSE IF x = Primary THEN staged[p][x] \cup junk
                          ELSE staged[p][x]]]
  BY <1>1
<1> HIDE DEF r, junk
<1>8. /\ DOMAIN conv' = Parties
      /\ \A x \in Parties : conv'[x] \in [Contexts(x) -> Conversation]
      /\ conv'[p][c] = r.conv
      /\ \A x \in Parties : \A y \in Contexts(x) :
           x # p \/ y # c => conv'[x][y] = conv[x][y]
  <2>1. conv' = [conv EXCEPT ![p][c] = r.conv]
    BY <1>7
  <2>2. TypeOK /\ c \in Contexts(p) /\ r.conv \in Conversation
    BY <1>3, <1>4, <1>5
  <2>3. OneContext(p, c, r.conv)
    BY <2>1, <2>2, ConvUpdate
  <2> QED
    BY <2>3 DEF OneContext
<1>9. /\ DOMAIN staged' = Parties
      /\ \A q \in Parties : staged'[q] \in [Contexts(q) -> SUBSET ChainKey]
  <2>1. /\ DOMAIN staged = Parties
        /\ \A q \in Parties : staged[q] \in [Contexts(q) -> SUBSET ChainKey]
    BY <1>4 DEF TypeOK
  <2>2. staged'[p] \in [Contexts(p) -> SUBSET ChainKey]
    BY <1>5, <1>6, <1>7, <2>1
  <2>3. \A q \in Parties : q # p => staged'[q] = staged[q]
    BY <1>7, <2>1
  <2>4. DOMAIN staged' = Parties
    BY <1>7, <2>1
  <2> QED
    BY <2>1, <2>2, <2>3, <2>4
<1>10. /\ preKeys' \in [Parties -> SUBSET Keys]
       /\ \A q \in Parties : preKeys'[q] \subseteq preKeys[q]
  BY <1>2, Spends
<1>11. TypeOK'
  <2>1. ordered' \in BOOLEAN
    BY <1>2, <1>4 DEF TypeOK
  <2>2. got' \in [Parties -> SUBSET Message]
    BY <1>2, <1>4 DEF TypeOK
  <2>3. twice' \subseteq Message
    BY <1>2, <1>4 DEF TypeOK
  <2> QED
    BY <1>2, <1>4, <1>8, <1>9, <1>10, <2>1, <2>2, <2>3 DEF TypeOK
<1>12. \A q \in Parties : lastKey[q] <= lastKey'[q]
  BY <1>2, <1>4 DEF TypeOK
<1>13. Born' = Born
  BY <1>2 DEF Born
<1>14. c = Primary /\ Sending(r.conv) =>
          Alike(conv[p][Primary], r.conv) \/ NewChain(p, preKeys'[p], r.conv.cks.root)
  <2> SUFFICES ASSUME c = Primary, ~r.conv.flag, ~Alike(conv[p][Primary], r.conv)
               PROVE  NewChain(p, preKeys'[p], r.conv.cks.root)
    BY DEF Sending
  <2>1. HasPreKey(p, m) /\ r.conv.cks = ChainOf(SetupRoot(m))
    BY <1>5
  <2>2. r.conv.cks.root = SetupRoot(m)
    BY <2>1, ChainTypes
  <2>3. NewChain(p, preKeys'[p], SetupRoot(m))
    BY <1>2, <2>1, SetupIsNew
  <2> QED
    BY <2>2, <2>3
<1> QED
  BY <1>2, <1>3, <1>5, <1>8, <1>10, <1>11, <1>12, <1>13, <1>14, Moved

\* The database keeps the contexts.
LEMMA NotStored ==
  ASSUME KeyInv, TypeOK', UNCHANGED <<conv, lastKey, sent, unsaved>>,
         \A q \in Parties : preKeys'[q] \subseteq preKeys[q]
  PROVE  KeyInv'
<1>1. PICK p : p \in Parties
  BY DEF ConstantsAssumption
<1> DEFINE w == conv[p][Primary]
<1>2. Primary \in Contexts(p) /\ ContextOK(Born, p, w)
  BY <1>1, Names, ContextIs
<1>3. Born' = Born
  BY DEF Born
<1>4. \A q \in Parties : lastKey[q] <= lastKey'[q]
  BY DEF KeyInv, TypeOK
<1>5. Alike(conv[p][Primary], w) /\ conv'[p][Primary] = w
  BY DEF Alike
<1>6. \A q \in Parties : \A y \in Contexts(q) :
          q # p \/ y # Primary => conv'[q][y] = conv[q][y]
  OBVIOUS
<1> HIDE DEF w
<1> QED
  BY <1>1, <1>2, <1>3, <1>4, <1>5, <1>6, Moved

LEMMA RejectKeeps ==
  ASSUME KeyInv, NEW p \in Parties, NEW m \in sent, Reject(p, m)
  PROVE  KeyInv'
<1>1. /\ ordered' = (ordered /\ InOrder(p, m)) /\ SpendPreKey(p, m)
      /\ UNCHANGED <<conv, staged, handedOut, lastKey, setups, sent, got, twice, unsaved,
                     reKeys, faults>>
  BY DEF Reject, Arrives
<1>2. /\ preKeys' \in [Parties -> SUBSET Keys]
      /\ \A q \in Parties : preKeys'[q] \subseteq preKeys[q]
  BY <1>1, Spends
<1>3. TypeOK'
  <2>1. TypeOK /\ ordered' \in BOOLEAN
    BY <1>1 DEF KeyInv, TypeOK
  <2> QED
    BY <1>1, <1>2, <2>1 DEF TypeOK
<1> QED
  BY <1>1, <1>2, <1>3, NotStored

LEMMA ReceiveNotStoredKeeps ==
  ASSUME KeyInv, NEW p \in Parties, NEW m \in sent, ReceiveNotStored(p, m)
  PROVE  KeyInv'
<1>1. /\ m.from # p /\ ordered' = (ordered /\ InOrder(p, m)) /\ SpendPreKey(p, m)
      /\ faults' = faults + 1
      /\ UNCHANGED <<conv, handedOut, lastKey, setups, sent, got, twice, unsaved, reKeys>>
  BY DEF ReceiveNotStored, Arrives
<1>2. PICK c \in Readers(p, m) :
         staged' = [staged EXCEPT ![p][c] = @ \ DecryptInternal(p, c, m).out]
  BY DEF ReceiveNotStored
<1>3. c \in Contexts(p)
  BY <1>1, ReadersAre
<1>4. /\ preKeys' \in [Parties -> SUBSET Keys]
      /\ \A q \in Parties : preKeys'[q] \subseteq preKeys[q]
  BY <1>1, Spends
<1>5. TypeOK
  BY DEF KeyInv
<1>6. /\ DOMAIN staged' = Parties
      /\ \A q \in Parties : staged'[q] \in [Contexts(q) -> SUBSET ChainKey]
  <2>1. /\ DOMAIN staged = Parties
        /\ \A q \in Parties : staged[q] \in [Contexts(q) -> SUBSET ChainKey]
    BY <1>5 DEF TypeOK
  <2>2. /\ staged'[p] = [staged[p] EXCEPT ![c] =
                            staged[p][c] \ DecryptInternal(p, c, m).out]
        /\ \A q \in Parties : q # p => staged'[q] = staged[q]
        /\ DOMAIN staged' = Parties
    BY <1>2, <2>1
  <2>3. staged'[p] \in [Contexts(p) -> SUBSET ChainKey]
    BY <1>3, <2>1, <2>2
  <2> QED
    BY <2>1, <2>2, <2>3
<1>7. TypeOK'
  <2>1. ordered' \in BOOLEAN /\ faults' \in Nat
    BY <1>1, <1>5 DEF TypeOK
  <2> QED
    BY <1>1, <1>4, <1>5, <1>6, <2>1 DEF TypeOK
<1> QED
  BY <1>1, <1>4, <1>7, NotStored

\* What encrypt makes of the primary context and of the message: the chain key of
\* the message encrypted nothing before that a stored context knows of.
LEMMA Encrypted ==
  ASSUME KeyInv, NEW p \in Parties, conv[p][Primary].rk # <<>>,
         lastKey' = IF conv[p][Primary].flag THEN [lastKey EXCEPT ![p] = @ + 1] ELSE lastKey
  PROVE  LET t == Turn(conv[p][Primary], <<p, lastKey[p] + 1>>)
             d == conv[Peer(p)][Primary]
         IN  /\ t \in Conversation /\ ContextOK(Born', p, t) /\ Sending(t)
             /\ t.cks \in ChainKey /\ Spent(p, preKeys[p], t.cks.root)
             /\ \A x \in sent : x.mk.root = t.cks.root => x.mk.n < t.cks.n \/ x \in unsaved
             /\ Sending(d) => d.cks.root # t.cks.root
             /\ Wire(p, t) \in Message /\ MessageOK(Born', preKeys[p], Wire(p, t))
             /\ Wire(p, t).mk = t.cks /\ Wire(p, t).from = p
             /\ lastKey' \in [Parties -> Nat]
             /\ \A q \in Parties : lastKey[q] <= lastKey'[q]
             /\ ~conv[p][Primary].flag => t = conv[p][Primary]
<1> DEFINE c == conv[p][Primary]
           d == conv[Peer(p)][Primary]
           new == <<p, lastKey[p] + 1>>
           t == Turn(c, new)
<1>1. TypeOK /\ Primary \in Contexts(p) /\ Peer(p) \in Parties /\ Primary \in Contexts(Peer(p))
  BY Names, PeerFacts DEF KeyInv
<1>2. /\ c \in Conversation /\ ContextOK(Born, p, c) /\ c.rk # <<>>
      /\ lastKey[p] \in Nat /\ lastKey \in [Parties -> Nat]
  BY <1>1, ContextIs DEF TypeOK
<1>3. lastKey' \in [Parties -> Nat] /\ \A q \in Parties : lastKey[q] <= lastKey'[q]
  BY <1>2
<1>4. Born \subseteq Born' /\ Born' \subseteq Keys
  <2>1. Born \subseteq Born'
    BY <1>3, BornGrows
  <2> QED
    BY <2>1 DEF Born
<1>5. new \in Keys /\ new \notin Born /\ (c.flag => new \in Born')
  <2>1. new \in Keys \ Born
    BY BornFacts
  <2>2. c.flag => lastKey'[p] = lastKey[p] + 1
    BY <1>2
  <2> QED
    BY <1>2, <2>1, <2>2 DEF Born
<1>6. ContextOK(Born', p, c)
  BY <1>2, <1>4, Later
<1>7. ASSUME c.flag
      PROVE  /\ t \in Conversation /\ ContextOK(Born', p, t) /\ Sending(t)
             /\ Spent(p, preKeys[p], t.cks.root)
             /\ \A x \in sent : x.mk.root = t.cks.root => x.mk.n < t.cks.n \/ x \in unsaved
             /\ Sending(d) => d.cks.root # t.cks.root
  <2>1. new \in Born' /\ c.dhr \in Born' /\ c.rk \in Seq(SUBSET Born')
    BY <1>5, <1>6, <1>7 DEF ContextOK
  <2> DEFINE root == Derive(c.rk, new, c.dhr)
  <2>2. /\ t \in Conversation /\ t.rk # <<>> /\ ~t.flag
        /\ t.dhr = c.dhr /\ t.a0 = c.a0 /\ t.preKey = c.preKey
        /\ t.dhs = new /\ t.rk = root /\ t.cks = ChainOf(t.rk) /\ t.rk \in Seq(SUBSET Born')
    <3>1. /\ Turn(c, new) \in Conversation /\ Turn(c, new).rk # <<>> /\ ~Turn(c, new).flag
          /\ Turn(c, new).dhr = c.dhr /\ Turn(c, new).a0 = c.a0
          /\ Turn(c, new).preKey = c.preKey
          /\ c.flag => /\ Turn(c, new).dhs = new /\ Turn(c, new).rk = Derive(c.rk, new, c.dhr)
                       /\ Turn(c, new).cks = ChainOf(Turn(c, new).rk)
                       /\ Turn(c, new).rk \in Seq(SUBSET Born')
      <4> HIDE DEF c, new
      <4> QED
        BY <1>2, <1>4, <2>1, TurnIs
    <3> QED
      BY <1>7, <3>1
  <2>3. t.cks.root = root
    BY <2>2, ChainTypes
  <2>4. ASSUME NEW old \in Seq(SUBSET Born) PROVE old # root
    BY <1>5, <2>1, FreshRoot
  <2>5. Len(root) # 1
    <3>1. {new, c.dhr} \in SUBSET Born'
      BY <2>1
    <3>2. Len(root) = Len(c.rk) + 1 /\ Len(c.rk) \in Nat
      BY <2>1, <3>1, AppendProperties, LenProperties DEF Derive
    <3>3. Len(c.rk) # 0
      BY <1>2, <2>1, EmptySeq
    <3> HIDE DEF root
    <3> QED
      BY <3>2, <3>3
  <2>6. \A x \in sent : x.mk.root \in Seq(SUBSET Born)
    BY MessageIs DEF MessageOK
  <2>7. d.cks.root \in Seq(SUBSET Born)
    BY <1>1, ContextIs DEF ContextOK
  <2> HIDE DEF root, t, c, d, new
  <2>8. ContextOK(Born', p, t)
    BY <1>5, <1>6, <1>7, <2>1, <2>2, <2>3, BornFacts DEF ContextOK, Sending
  <2>9. Sending(t)
    BY <2>2 DEF Sending
  <2>10. Spent(p, preKeys[p], t.cks.root)
    BY <2>3, <2>5 DEF Spent
  <2>11. \A x \in sent : x.mk.root # t.cks.root
    BY <2>3, <2>4, <2>6
  <2>12. d.cks.root # t.cks.root
    BY <2>3, <2>4, <2>7
  <2> QED
    BY <2>2, <2>8, <2>9, <2>10, <2>11, <2>12
<1>8. ASSUME ~c.flag
      PROVE  /\ t = c /\ t \in Conversation /\ ContextOK(Born', p, t) /\ Sending(t)
             /\ Spent(p, preKeys[p], t.cks.root)
             /\ \A x \in sent : x.mk.root = t.cks.root => x.mk.n < t.cks.n \/ x \in unsaved
             /\ Sending(d) => d.cks.root # t.cks.root
  <2>1. t = c
    BY <1>8 DEF Turn
  <2>2. Sending(c)
    BY <1>2, <1>8 DEF Sending
  <2>3. /\ Spent(p, preKeys[p], c.cks.root)
        /\ \A x \in sent : x.mk.root = c.cks.root => x.mk.n < c.cks.n \/ x \in unsaved
        /\ Sending(d) => d.cks.root # c.cks.root
    BY <2>2 DEF KeyInv, ChainOK
  <2> HIDE DEF t, c, d
  <2> QED
    BY <1>2, <1>6, <2>1, <2>2, <2>3
<1> DEFINE w == Wire(p, t)
<1>9. /\ t \in Conversation /\ ContextOK(Born', p, t) /\ Sending(t)
      /\ Spent(p, preKeys[p], t.cks.root)
      /\ \A x \in sent : x.mk.root = t.cks.root => x.mk.n < t.cks.n \/ x \in unsaved
      /\ Sending(d) => d.cks.root # t.cks.root
  BY <1>7, <1>8
<1>10. ~c.flag => t = c
  BY <1>8
<1> HIDE DEF t
<1>11. /\ w = [from |-> p, id |-> Cardinality(SentBy(p)) + 1, mk |-> t.cks, dhs |-> t.dhs,
               np |-> t.ns, pnp |-> t.pns, ctx |-> t.ctx, a0 |-> t.a0,
               preKey |-> IF t.a0 = NoKey THEN NoKey ELSE t.preKey]
  BY DEF Wire
<1>12. Cardinality(SentBy(p)) + 1 \in Nat
  <2>1. IsFiniteSet(SentBy(p))
    <3>1. SentBy(p) \subseteq sent /\ IsFiniteSet(sent)
      BY DEF SentBy, KeyInv
    <3> QED
      BY <3>1, FS_Subset
  <2>2. Cardinality(SentBy(p)) \in Nat
    BY <2>1, FS_CardinalityType
  <2> QED
    BY <2>2
<1>13. t.dhs \in Born' /\ t.dhs \in Keys
  BY <1>4, <1>9 DEF ContextOK
<1>14. w \in Message
  <2>1. t.a0 \in KeyOrNone /\ t.preKey \in KeyOrNone /\ NoKey \in KeyOrNone
    BY <1>9 DEF Conversation, KeyOrNone
  <2>2. t.cks \in ChainKey /\ t.ns \in Nat /\ t.pns \in Nat /\ t.ctx \in Nat
    BY <1>9 DEF Conversation
  <2> QED
    BY <1>11, <1>12, <1>13, <2>1, <2>2 DEF Message
<1>15. MessageOK(Born', preKeys[p], w)
  <2>1. /\ w.mk = t.cks /\ w.dhs = t.dhs /\ w.from = p /\ w.a0 = t.a0
        /\ w.a0 # NoKey => w.preKey = t.preKey
    BY <1>11
  <2> HIDE DEF w
  <2>2. SetupOK(Born', p, t.a0, t.preKey) /\ t.cks.root \in Seq(SUBSET Born')
    BY <1>9 DEF ContextOK
  <2>3. SetupOK(Born', p, w.a0, w.preKey)
    BY <2>1, <2>2 DEF SetupOK
  <2> QED
    BY <1>9, <1>13, <2>1, <2>2, <2>3 DEF MessageOK
<1>16. w.mk = t.cks /\ w.from = p /\ t.cks \in ChainKey
  BY <1>9, <1>11 DEF Conversation
<1> HIDE DEF w
<1> QED
  BY <1>3, <1>9, <1>10, <1>14, <1>15, <1>16 DEF w, t

\* A step that sends one message and changes the primary context at most.
LEMMA Said ==
  ASSUME KeyInv, TypeOK', UNCHANGED preKeys,
         \A q \in Parties : lastKey[q] <= lastKey'[q],
         NEW p \in Parties, NEW k \in Message,
         sent' = sent \cup {k}, unsaved \subseteq unsaved',
         MessageOK(Born', preKeys[k.from], k),
         \A m \in sent : m.mk = k.mk => m \in unsaved,
         Sending(conv[Peer(p)][Primary]) => conv[Peer(p)][Primary].cks.root # k.mk.root,
         NEW w, conv'[p][Primary] = w,
         \A q \in Parties : \A y \in Contexts(q) :
             q # p \/ y # Primary => conv'[q][y] = conv[q][y],
         ContextOK(Born', p, w),
         Sending(w) =>
             /\ Spent(p, preKeys[p], w.cks.root)
             /\ \A m \in sent' : m.mk.root = w.cks.root =>
                    m.mk.n < w.cks.n \/ m \in unsaved'
             /\ Sending(conv[Peer(p)][Primary]) =>
                    conv[Peer(p)][Primary].cks.root # w.cks.root
  PROVE  KeyInv'
<1>1. \A q \in Parties : lastKey[q] \in Nat /\ lastKey'[q] \in Nat
  BY DEF KeyInv, TypeOK
<1>2. Born \subseteq Born'
  BY <1>1, BornGrows
<1>3. ASSUME NEW q \in Parties
      PROVE  /\ MaxSetups <= lastKey'[q] /\ preKeys'[q] \subseteq PreKeys(q)
             /\ \A y \in Contexts(q) : ContextOK(Born', q, conv'[q][y])
  <2>1. MaxSetups <= lastKey'[q] /\ preKeys'[q] \subseteq PreKeys(q)
    BY <1>1 DEF KeyInv
  <2>2. ASSUME NEW y \in Contexts(q) PROVE ContextOK(Born', q, conv'[q][y])
    <3>1. CASE q = p /\ y = Primary
      BY <3>1
    <3>2. CASE q # p \/ y # Primary
      <4>1. conv'[q][y] = conv[q][y] /\ ContextOK(Born, q, conv[q][y])
        BY <3>2, ContextIs
      <4> QED
        BY <1>2, <4>1, Later
    <3> QED
      BY <3>1, <3>2
  <2> QED
    BY <2>1, <2>2
<1>4. ASSUME NEW m \in sent' PROVE MessageOK(Born', preKeys'[m.from], m)
  <2>1. CASE m \in sent
    <3>1. MessageOK(Born, preKeys[m.from], m)
      BY <2>1, MessageIs
    <3> QED
      BY <1>2, <3>1, Later
  <2>2. CASE m = k
    BY <2>2
  <2> QED
    BY <2>1, <2>2
<1>5. ASSUME NEW q \in Parties PROVE ChainOK(q)'
  <2> DEFINE d == conv[Peer(p)][Primary]
  <2>1. /\ Peer(p) \in Parties /\ Peer(p) # p /\ Peer(Peer(p)) = p
        /\ Primary \in Contexts(p) /\ Primary \in Contexts(Peer(p))
        /\ q = p \/ q = Peer(p)
    BY PeerFacts, Names
  <2>2. conv'[Peer(p)][Primary] = d
    BY <2>1
  <2>3. CASE q = p
    <3>1. (ChainOK(p))' <=> (Sending(conv'[p][Primary]) =>
                 /\ Spent(p, preKeys'[p], conv'[p][Primary].cks.root)
                 /\ \A m \in sent' : m.mk.root = conv'[p][Primary].cks.root =>
                        m.mk.n < conv'[p][Primary].cks.n \/ m \in unsaved'
                 /\ Sending(conv'[Peer(p)][Primary]) =>
                        conv'[Peer(p)][Primary].cks.root # conv'[p][Primary].cks.root)
      BY DEF ChainOK
    <3> QED
      BY <2>2, <2>3, <3>1
  <2>4. CASE q = Peer(p)
    <3>1. (ChainOK(q))' <=> (Sending(conv'[q][Primary]) =>
                 /\ Spent(q, preKeys'[q], conv'[q][Primary].cks.root)
                 /\ \A m \in sent' : m.mk.root = conv'[q][Primary].cks.root =>
                        m.mk.n < conv'[q][Primary].cks.n \/ m \in unsaved'
                 /\ Sending(conv'[Peer(q)][Primary]) =>
                        conv'[Peer(q)][Primary].cks.root # conv'[q][Primary].cks.root)
      BY DEF ChainOK
    <3>2. conv'[q][Primary] = d /\ Peer(q) = p /\ conv'[Peer(q)][Primary] = w
      BY <2>1, <2>2, <2>4
    <3>3. Sending(d) =>
             /\ Spent(q, preKeys[q], d.cks.root)
             /\ \A m \in sent : m.mk.root = d.cks.root => m.mk.n < d.cks.n \/ m \in unsaved
      BY <2>4 DEF KeyInv, ChainOK
    <3> HIDE DEF d
    <3>4. Sending(d) => d.cks.root # k.mk.root
      BY DEF d
    <3>5. Sending(d) /\ Sending(w) => d.cks.root # w.cks.root
      BY DEF d
    <3> QED
      BY <3>1, <3>2, <3>3, <3>4, <3>5
  <2> QED
    BY <2>1, <2>3, <2>4
<1>6. IsFiniteSet(sent')
  BY FS_AddElement DEF KeyInv
<1>7. KeyUsedOnce'
  BY DEF KeyInv, KeyUsedOnce
<1> QED
  BY <1>3, <1>4, <1>5, <1>6, <1>7 DEF KeyInv

LEMMA SendKeeps ==
  ASSUME KeyInv, NEW p \in Parties, Send(p)
  PROVE  KeyInv'
<1> DEFINE c == conv[p][Primary]
           d == conv[Peer(p)][Primary]
           t == Turn(c, <<p, lastKey[p] + 1>>)
           u == Used(t)
           k == Wire(p, t)
<1>1. /\ c.rk # <<>>
      /\ conv' = [conv EXCEPT ![p][Primary] = u]
      /\ lastKey' = IF c.flag THEN [lastKey EXCEPT ![p] = @ + 1] ELSE lastKey
      /\ sent' = sent \cup {k}
      /\ UNCHANGED <<staged, preKeys, handedOut, setups, got, twice, ordered, unsaved,
                     reKeys, faults>>
  BY DEF Send
<1>2. TypeOK /\ Primary \in Contexts(p)
  BY Names DEF KeyInv
<1>3. /\ t \in Conversation /\ ContextOK(Born', p, t) /\ Sending(t)
      /\ t.cks \in ChainKey /\ Spent(p, preKeys[p], t.cks.root)
      /\ \A x \in sent : x.mk.root = t.cks.root => x.mk.n < t.cks.n \/ x \in unsaved
      /\ Sending(d) => d.cks.root # t.cks.root
      /\ k \in Message /\ MessageOK(Born', preKeys[p], k)
      /\ k.mk = t.cks /\ k.from = p
      /\ lastKey' \in [Parties -> Nat]
      /\ \A q \in Parties : lastKey[q] <= lastKey'[q]
  BY <1>1, Encrypted
<1> HIDE DEF t, k
<1>4. /\ u \in Conversation
      /\ u.cks.root = t.cks.root /\ u.cks.n = t.cks.n + 1
      /\ u.rk = t.rk /\ u.flag = t.flag /\ u.dhs = t.dhs /\ u.dhr = t.dhr
      /\ u.a0 = t.a0 /\ u.preKey = t.preKey
  BY <1>3, UsedIs
<1> HIDE DEF u
<1>5. ContextOK(Born', p, u)
  BY <1>3, <1>4 DEF ContextOK, Sending
<1>6. /\ DOMAIN conv' = Parties
      /\ \A x \in Parties : conv'[x] \in [Contexts(x) -> Conversation]
      /\ conv'[p][Primary] = u
      /\ \A x \in Parties : \A y \in Contexts(x) :
           x # p \/ y # Primary => conv'[x][y] = conv[x][y]
  <2>1. conv' = [conv EXCEPT ![p][Primary] = u]
    BY <1>1
  <2>2. TypeOK /\ Primary \in Contexts(p) /\ u \in Conversation
    BY <1>2, <1>4
  <2>3. OneContext(p, Primary, u)
    BY <2>1, <2>2, ConvUpdate
  <2> QED
    BY <2>3 DEF OneContext
<1>7. TypeOK'
  <2>1. sent' \subseteq Message
    BY <1>1, <1>2, <1>3 DEF TypeOK
  <2>2. unsaved' \subseteq sent'
    BY <1>1, <1>2 DEF TypeOK
  <2> QED
    BY <1>1, <1>2, <1>3, <1>6, <2>1, <2>2 DEF TypeOK
<1>8. \A m \in sent : m.mk = k.mk => m \in unsaved
  <2>1. t.cks.n \in Nat
    BY <1>3 DEF ChainKey
  <2> QED
    BY <1>3, <2>1
<1>9. /\ Spent(p, preKeys[p], u.cks.root)
      /\ \A m \in sent' : m.mk.root = u.cks.root => m.mk.n < u.cks.n \/ m \in unsaved'
      /\ Sending(d) => d.cks.root # u.cks.root
  <2>1. ASSUME NEW m \in sent', m.mk.root = u.cks.root
        PROVE  m.mk.n < u.cks.n \/ m \in unsaved'
    <3>1. t.cks.n \in Nat /\ m.mk.n \in Nat
      BY <1>3, <1>7 DEF ChainKey, TypeOK, Message
    <3>2. CASE m \in sent
      BY <1>1, <1>3, <1>4, <2>1, <3>1, <3>2
    <3>3. CASE m = k
      BY <1>3, <1>4, <3>1, <3>3
    <3> QED
      BY <1>1, <3>2, <3>3
  <2> QED
    BY <1>3, <1>4, <2>1
<1>10. MessageOK(Born', preKeys[k.from], k)
  BY <1>3
<1>11. Sending(d) => d.cks.root # k.mk.root
  BY <1>3
<1>12. unsaved \subseteq unsaved' /\ UNCHANGED preKeys
  BY <1>1
<1> QED
  BY <1>1, <1>3, <1>5, <1>6, <1>7, <1>8, <1>9, <1>10, <1>11, <1>12, Said

LEMMA SendNotStoredKeeps ==
  ASSUME KeyInv, NEW p \in Parties, SendNotStored(p)
  PROVE  KeyInv'
<1> DEFINE c == conv[p][Primary]
           d == conv[Peer(p)][Primary]
           t == Turn(c, <<p, lastKey[p] + 1>>)
           k == Wire(p, t)
<1>1. /\ c.rk # <<>> /\ faults' = faults + 1
      /\ lastKey' = IF c.flag THEN [lastKey EXCEPT ![p] = @ + 1] ELSE lastKey
      /\ sent' = sent \cup {k} /\ unsaved' = unsaved \cup {k}
      /\ UNCHANGED <<conv, staged, preKeys, handedOut, setups, got, twice, ordered, reKeys>>
  BY DEF SendNotStored
<1>2. TypeOK /\ Primary \in Contexts(p)
  BY Names DEF KeyInv
<1>3. /\ t.cks \in ChainKey
      /\ \A x \in sent : x.mk.root = t.cks.root => x.mk.n < t.cks.n \/ x \in unsaved
      /\ Sending(d) => d.cks.root # t.cks.root
      /\ k \in Message /\ MessageOK(Born', preKeys[p], k)
      /\ k.mk = t.cks /\ k.from = p
      /\ lastKey' \in [Parties -> Nat]
      /\ \A q \in Parties : lastKey[q] <= lastKey'[q]
  BY <1>1, Encrypted
<1> HIDE DEF t, k
<1>4. ContextOK(Born', p, c)
  <2>1. Born \subseteq Born'
    BY <1>2, <1>3, BornGrows
  <2> QED
    BY <1>2, <2>1, ContextIs, Later
<1>5. TypeOK'
  <2>1. sent' \subseteq Message
    BY <1>1, <1>2, <1>3 DEF TypeOK
  <2>2. unsaved' \subseteq sent' /\ faults' \in Nat
    BY <1>1, <1>2 DEF TypeOK
  <2> QED
    BY <1>1, <1>2, <1>3, <2>1, <2>2 DEF TypeOK
<1>6. \A m \in sent : m.mk = k.mk => m \in unsaved
  <2>1. t.cks.n \in Nat
    BY <1>3 DEF ChainKey
  <2> QED
    BY <1>3, <2>1
<1>7. Sending(c) =>
        /\ Spent(p, preKeys[p], c.cks.root)
        /\ \A m \in sent' : m.mk.root = c.cks.root => m.mk.n < c.cks.n \/ m \in unsaved'
        /\ Sending(d) => d.cks.root # c.cks.root
  <2>1. ChainOK(p)
    BY DEF KeyInv
  <2> QED
    BY <1>1, <2>1 DEF ChainOK
<1>8. MessageOK(Born', preKeys[k.from], k)
  BY <1>3
<1>9. Sending(d) => d.cks.root # k.mk.root
  BY <1>3
<1>10. unsaved \subseteq unsaved' /\ UNCHANGED preKeys
  BY <1>1
<1>11. /\ conv'[p][Primary] = c
       /\ \A q \in Parties : \A y \in Contexts(q) :
            q # p \/ y # Primary => conv'[q][y] = conv[q][y]
  BY <1>1
<1> HIDE DEF c, d
<1> QED
  BY <1>1, <1>3, <1>4, <1>5, <1>6, <1>7, <1>8, <1>9, <1>10, <1>11, Said DEF c, d

----------------------------------------------------------------------------
(* The theorems.                                                           *)

LEMMA InitInv == Init => KeyInv
<1> SUFFICES ASSUME Init PROVE KeyInv
  OBVIOUS
<1>1. /\ conv = [p \in Parties |-> [c \in Contexts(p) |-> EmptyConv]]
      /\ staged = [p \in Parties |-> [c \in Contexts(p) |-> {}]]
      /\ preKeys = [p \in Parties |-> PreKeys(p)]
      /\ handedOut = [p \in Parties |-> 0]
      /\ lastKey = [p \in Parties |-> MaxSetups]
      /\ setups = <<>>
      /\ sent = {} /\ got = [p \in Parties |-> {}] /\ twice = {} /\ ordered = TRUE
      /\ unsaved = {} /\ reKeys = 0 /\ faults = 0
  BY DEF Init, PreKeys
<1>2. /\ <<>> \in Root /\ NoChain \in ChainKey /\ NoKey \in KeyOrNone
  BY ChainTypes DEF Root, KeyOrNone
<1>3. /\ EmptyConv \in Conversation /\ EmptyConv.rk = <<>> /\ EmptyConv.cks = NoChain
      /\ EmptyConv.dhs = NoKey /\ EmptyConv.dhr = NoKey /\ EmptyConv.a0 = NoKey
      /\ ~EmptyConv.flag
  BY <1>2 DEF EmptyConv, Conversation
<1>4. MaxSetups \in Nat
  BY DEF ConstantsAssumption
<1>5. preKeys \in [Parties -> SUBSET Keys]
  BY <1>1, Names
<1>6. /\ DOMAIN conv = Parties /\ DOMAIN staged = Parties
      /\ \A p \in Parties : /\ conv[p] \in [Contexts(p) -> Conversation]
                            /\ staged[p] \in [Contexts(p) -> SUBSET ChainKey]
  BY <1>1, <1>3
<1>7. TypeOK
  BY <1>1, <1>4, <1>5, <1>6 DEF TypeOK
<1>8. \A p \in Parties : ContextOK(Born, p, EmptyConv) /\ ~Sending(EmptyConv)
  BY <1>3, ChainTypes DEF ContextOK, Sending, SetupOK
<1>9. \A p \in Parties : \A c \in Contexts(p) : conv[p][c] = EmptyConv
  BY <1>1
<1>10. \A p \in Parties : ChainOK(p)
  <2> SUFFICES ASSUME NEW p \in Parties PROVE ChainOK(p)
    OBVIOUS
  <2>1. conv[p][Primary] = EmptyConv
    BY <1>9, Names
  <2> QED
    BY <1>8, <2>1 DEF ChainOK
<1>11. \A p \in Parties : MaxSetups <= lastKey[p] /\ preKeys[p] \subseteq PreKeys(p)
  BY <1>1, <1>4
<1>12. IsFiniteSet(sent)
  BY <1>1, FS_EmptySet
<1> QED
  BY <1>1, <1>7, <1>8, <1>9, <1>10, <1>11, <1>12 DEF KeyInv, KeyUsedOnce

LEMMA StutterKeeps ==
  ASSUME KeyInv, UNCHANGED vars
  PROVE  KeyInv'
<1>1. UNCHANGED <<conv, staged, preKeys, handedOut, lastKey, setups, sent, got, twice,
                  ordered, unsaved, reKeys, faults>>
  BY DEF vars
<1>2. TypeOK'
  BY <1>1 DEF KeyInv, TypeOK
<1>3. \A q \in Parties : preKeys'[q] \subseteq preKeys[q]
  BY <1>1
<1> QED
  BY <1>1, <1>2, <1>3, NotStored

LEMMA NextKeeps == KeyInv /\ [Next]_vars => KeyInv'
<1> SUFFICES ASSUME KeyInv, [Next]_vars PROVE KeyInv'
  OBVIOUS
<1>1. ASSUME NEW p \in Parties, SetUp(p) PROVE KeyInv'
  BY <1>1, SetUpKeeps
<1>2. ASSUME NEW p \in Parties, ReKey(p) PROVE KeyInv'
  BY <1>2, ReKeyKeeps
<1>3. ASSUME NEW p \in Parties, Send(p) PROVE KeyInv'
  BY <1>3, SendKeeps
<1>4. ASSUME NEW p \in Parties, SendNotStored(p) PROVE KeyInv'
  BY <1>4, SendNotStoredKeeps
<1>5. ASSUME NEW p \in Parties, NEW m \in sent, Receive(p, m) PROVE KeyInv'
  BY <1>5, ReceiveKeeps
<1>6. ASSUME NEW p \in Parties, NEW m \in sent, Reject(p, m) PROVE KeyInv'
  BY <1>6, RejectKeeps
<1>7. ASSUME NEW p \in Parties, NEW m \in sent, ReceiveNotStored(p, m) PROVE KeyInv'
  BY <1>7, ReceiveNotStoredKeeps
<1>8. CASE UNCHANGED vars
  BY <1>8, StutterKeeps
<1> QED
  BY <1>1, <1>2, <1>3, <1>4, <1>5, <1>6, <1>7, <1>8 DEF Next

LEMMA Invariant == Spec => []KeyInv
<1> QED
  BY InitInv, NextKeeps, PTL DEF Spec

\* Contexts, staged keys and messages keep their types, for any number of setups,
\* re-keyings, messages and faults.
THEOREM TypeCorrect == Spec => []TypeOK
<1>1. KeyInv => TypeOK
  BY DEF KeyInv
<1> QED
  BY <1>1, Invariant, PTL

\* Two messages have one key only if the context of one of them was not stored
\* after encrypt: chains do not come back, not by a turn of the ratchet, a late
\* or repeated message, a collision, a re-keying or a setup.
THEOREM KeysUsedOnce == Spec => []KeyUsedOnce
<1>1. KeyInv => KeyUsedOnce
  BY DEF KeyInv
<1> QED
  BY <1>1, Invariant, PTL

----------------------------------------------------------------------------
(* Root keys.                                                              *)

LEMMA RootIs ==
  ASSUME NEW S, NEW r \in Seq(SUBSET S)
  PROVE  /\ Len(r) \in Nat /\ (r # <<>> <=> Len(r) >= 1) /\ (r = <<>> <=> Len(r) = 0)
         /\ r # <<>> => r[1] \subseteq S
<1>1. Len(r) \in Nat /\ (r = <<>> <=> Len(r) = 0)
  BY LenProperties, EmptySeq
<1>2. ASSUME r # <<>> PROVE r[1] \subseteq S
  <2>1. 1 \in 1 .. Len(r)
    BY <1>1, <1>2
  <2>2. r[1] \in SUBSET S
    BY <2>1, ElementOfSeq
  <2> QED
    BY <2>2
<1> QED
  BY <1>1, <1>2

\* The ratchet keeps the setup a root key comes from.
LEMMA RootGrows ==
  ASSUME NEW S, NEW r \in Seq(SUBSET S), NEW a \in S, NEW b \in S
  PROVE  /\ Len(Derive(r, a, b)) = Len(r) + 1 /\ Derive(r, a, b) # <<>>
         /\ r # <<>> => Derive(r, a, b)[1] = r[1]
<1>1. {a, b} \in SUBSET S
  OBVIOUS
<1>2. Len(r) \in Nat /\ (r # <<>> => Len(r) >= 1)
  BY RootIs
<1>3. Derive(r, a, b) = Append(r, {a, b})
  BY DEF Derive
<1>4. Len(Append(r, {a, b})) = Len(r) + 1
  BY <1>1, AppendProperties
<1>5. Append(r, {a, b}) # <<>>
  BY <1>1, AppendProperties
<1>6. ASSUME r # <<>> PROVE Append(r, {a, b})[1] = r[1]
  <2>1. 1 \in 1 .. Len(r)
    BY <1>2, <1>6
  <2> QED
    BY <1>1, <2>1, AppendProperties
<1> QED
  BY <1>3, <1>4, <1>5, <1>6

\* What the invariants say about the root keys of a party.
LEMMA ConvRoots ==
  ASSUME KeyInv, NEW p \in Parties, NEW c \in Contexts(p)
  PROVE  LET v == conv[p][c]
         IN  /\ v \in Conversation
             /\ v.rk \in Seq(SUBSET Born) /\ v.ckr \in ChainKey
             /\ Len(v.rk) \in Nat /\ (v.rk # <<>> <=> Len(v.rk) >= 1)
             /\ v.rk # <<>> => v.rk[1] \subseteq Born
             /\ v.ckr.n \in Nat
             /\ Len(v.ckr.root) \in Nat /\ (v.ckr.root # <<>> <=> Len(v.ckr.root) >= 1)
<1> DEFINE v == conv[p][c]
<1>1. v \in Conversation /\ v.rk \in Seq(SUBSET Born)
  BY ContextIs DEF ContextOK
<1>2. v.ckr \in ChainKey /\ v.ckr.root \in Seq(SUBSET Keys) /\ v.ckr.n \in Nat
  BY <1>1 DEF Conversation, ChainKey, Root
<1> HIDE DEF v
<1>3. /\ Len(v.rk) \in Nat /\ (v.rk # <<>> <=> Len(v.rk) >= 1)
      /\ v.rk # <<>> => v.rk[1] \subseteq Born
  BY <1>1, RootIs
<1>4. Len(v.ckr.root) \in Nat /\ (v.ckr.root # <<>> <=> Len(v.ckr.root) >= 1)
  BY <1>2, RootIs
<1> QED
  BY <1>1, <1>2, <1>3, <1>4 DEF v

LEMMA KeyRoots ==
  ASSUME NEW k \in ChainKey
  PROVE  k.n \in Nat /\ Len(k.root) \in Nat /\ (k.root # <<>> <=> Len(k.root) >= 1)
<1>1. k.n \in Nat /\ k.root \in Seq(SUBSET Keys)
  BY DEF ChainKey, Root
<1> QED
  BY <1>1, RootIs

LEMMA StagedRoots ==
  ASSUME TypeOK, NEW p \in Parties, NEW c \in Contexts(p), NEW k \in staged[p][c]
  PROVE  k \in ChainKey
  BY DEF TypeOK

LEMMA MessageRoots ==
  ASSUME KeyInv, NEW m \in sent
  PROVE  /\ m \in Message /\ m.from \in Parties /\ m.mk \in ChainKey
         /\ m.mk.root \in Seq(SUBSET Born) /\ m.dhs \in Born
         /\ m.mk.root # <<>> => m.mk.root[1] \subseteq Born
<1>1. m \in Message /\ m.mk.root \in Seq(SUBSET Born) /\ m.dhs \in Born
  BY MessageIs DEF MessageOK
<1> QED
  BY <1>1, RootIs DEF Message

----------------------------------------------------------------------------
(* The parts of the invariant.                                             *)

\* A party and its messages are well if the step was not its own.
LEMMA Others ==
  ASSUME ForgetInv, sent \subseteq sent', Born \subseteq Born',
         NEW q \in Parties, preKeys'[q] \subseteq preKeys[q],
         conv'[q] = conv[q], staged'[q] = staged[q], got'[q] = got[q]
  PROVE  /\ SetupsOK(q)' /\ StagedOK(q)' /\ ReadOK(q)' /\ SpeaksOK(q)'
         /\ \A m \in sent : m.from = q => SaidOK(m)'
<1>1. SetupsOK(q) /\ StagedOK(q) /\ ReadOK(q) /\ SpeaksOK(q)
  BY DEF ForgetInv
<1>2. \A s : Answered(q, s) => Answered(q, s)'
  BY DEF Answered, SentBy
<1>3. SetupsOK(q)'
  BY <1>1 DEF SetupsOK
<1>4. StagedOK(q)'
  BY <1>1 DEF StagedOK
<1>5. ReadOK(q)'
  BY <1>1 DEF ReadOK
<1>6. SpeaksOK(q)'
  BY <1>1, <1>2 DEF SpeaksOK, Answered, SentBy
<1>7. ASSUME NEW m \in sent, m.from = q PROVE SaidOK(m)'
  <2>1. SaidOK(m)
    BY DEF ForgetInv
  <2> QED
    BY <1>7, <2>1 DEF SaidOK, Answered, SentBy
<1> QED
  BY <1>3, <1>4, <1>5, <1>6, <1>7

LEMMA Assembled ==
  ASSUME ForgetInv, KeyInv', sent \subseteq sent', Born \subseteq Born',
         \A q \in Parties : preKeys'[q] \subseteq preKeys[q],
         NEW p \in Parties,
         \A q \in Parties \ {p} :
            conv'[q] = conv[q] /\ staged'[q] = staged[q] /\ got'[q] = got[q],
         SetupsOK(p)', StagedOK(p)', ReadOK(p)', SpeaksOK(p)',
         \A m \in sent' : (m \in sent /\ m.from # p) \/ SaidOK(m)'
  PROVE  ForgetInv'
<1>1. ASSUME NEW q \in Parties
      PROVE  SetupsOK(q)' /\ StagedOK(q)' /\ ReadOK(q)' /\ SpeaksOK(q)'
  <2>1. CASE q = p
    BY <2>1
  <2>2. CASE q # p
    BY <2>2, Others
  <2> QED
    BY <2>1, <2>2
<1>2. ASSUME NEW m \in sent' PROVE SaidOK(m)'
  <2>1. CASE m \in sent /\ m.from # p
    <3>1. m.from \in Parties
      BY <2>1, MessageRoots DEF ForgetInv
    <3> QED
      BY <2>1, <3>1, Others
  <2> QED
    BY <2>1
<1> QED
  BY <1>1, <1>2 DEF ForgetInv

\* The setup s is none that the party p has met.
Unmet(p, s) ==
  /\ \A c \in Contexts(p) : conv[p][c].rk # <<>> => s # conv[p][c].rk[1]
  /\ \A c \in Contexts(p) : \A k \in staged[p][c] : k.root # <<>> => s # k.root[1]
  /\ \A m \in got[p] : s # m.mk.root[1]

\* The context w is of the setup of v.
SameSetup(v, w) == v.rk # <<>> /\ w.rk # <<>> /\ w.rk[1] = v.rk[1]

\* The part of SetupsOK about one context.
Formed(w, c, left) ==
  /\ Len(w.ckr.root) <= Len(w.rk)
  /\ w.ckr.root # <<>> => w.ckr.root[1] = w.rk[1]
  /\ w.rk # <<>> => w.rk[1] \cap left = {}
  /\ w.rk # <<>> /\ c # Primary => c \in w.rk[1]

LEMMA IsFormed ==
  ASSUME ForgetInv, NEW p \in Parties, NEW c \in Contexts(p)
  PROVE  /\ Formed(conv[p][c], c, preKeys[p])
         /\ \A d \in Contexts(p) \ {c} :
              conv[p][c].rk # <<>> /\ conv[p][d].rk # <<>> =>
                conv[p][c].rk[1] # conv[p][d].rk[1]
  BY DEF ForgetInv, SetupsOK, Formed

\* Setups stay apart when one context goes on, is reset or starts anew.
LEMMA Apart ==
  ASSUME ForgetInv, NEW p \in Parties, NEW x \in Contexts(p), NEW w, conv'[p][x] = w,
         \A d \in Contexts(p) \ {x} : conv'[p][d] = conv[p][d],
         preKeys'[p] \subseteq preKeys[p], Formed(w, x, preKeys'[p]),
         w.rk = <<>> \/ SameSetup(conv[p][x], w) \/ Unmet(p, w.rk[1])
  PROVE  /\ SetupsOK(p)'
         /\ \A d \in Contexts(p) \ {x} :
              w.rk # <<>> /\ conv[p][d].rk # <<>> => w.rk[1] # conv[p][d].rk[1]
<1>1. ASSUME NEW d \in Contexts(p) \ {x}, w.rk # <<>>, conv[p][d].rk # <<>>
      PROVE  w.rk[1] # conv[p][d].rk[1]
  <2>1. CASE SameSetup(conv[p][x], w)
    BY <1>1, <2>1, IsFormed DEF SameSetup
  <2>2. CASE Unmet(p, w.rk[1])
    BY <1>1, <2>2 DEF Unmet
  <2> QED
    BY <1>1, <2>1, <2>2
<1>2. ASSUME NEW c \in Contexts(p)
      PROVE  /\ Formed(conv'[p][c], c, preKeys'[p])
             /\ \A d \in Contexts(p) \ {c} :
                  conv'[p][c].rk # <<>> /\ conv'[p][d].rk # <<>> =>
                    conv'[p][c].rk[1] # conv'[p][d].rk[1]
  <2>1. CASE c = x
    BY <1>1, <2>1
  <2>2. CASE c # x
    <3>1. Formed(conv[p][c], c, preKeys[p]) /\ conv'[p][c] = conv[p][c]
      BY <2>2, IsFormed
    <3>2. Formed(conv'[p][c], c, preKeys'[p])
      BY <3>1 DEF Formed
    <3>3. ASSUME NEW d \in Contexts(p) \ {c}, conv'[p][c].rk # <<>>, conv'[p][d].rk # <<>>
          PROVE  conv'[p][c].rk[1] # conv'[p][d].rk[1]
      <4>1. CASE d = x
        BY <1>1, <2>2, <3>1, <3>3, <4>1
      <4>2. CASE d # x
        BY <3>1, <3>3, <4>2, IsFormed
      <4> QED
        BY <4>1, <4>2
    <3> QED
      BY <3>2, <3>3
  <2> QED
    BY <2>1, <2>2
<1>3. SetupsOK(p)'
  BY <1>2 DEF SetupsOK, Formed
<1> QED
  BY <1>1, <1>3

\* Nothing is read and at most the primary context changes.
LEMMA PrimaryMoves ==
  ASSUME ForgetInv, sent \subseteq sent', Born \subseteq Born', NEW p \in Parties,
         NEW w, conv'[p][Primary] = w,
         \A d \in Contexts(p) \ {Primary} : conv'[p][d] = conv[p][d],
         preKeys'[p] \subseteq preKeys[p], Formed(w, Primary, preKeys'[p]),
         \/ w.rk = <<>>
         \/ SameSetup(conv[p][Primary], w) /\ w.ckr = conv[p][Primary].ckr
         \/ Unmet(p, w.rk[1]),
         \A c \in Contexts(p) : staged'[p][c] \subseteq staged[p][c],
         got'[p] = got[p]
  PROVE  SetupsOK(p)' /\ StagedOK(p)' /\ ReadOK(p)'
<1>0. Primary \in Contexts(p)
  BY Names
<1>1. /\ SetupsOK(p)'
      /\ \A d \in Contexts(p) \ {Primary} :
           w.rk # <<>> /\ conv[p][d].rk # <<>> => w.rk[1] # conv[p][d].rk[1]
  BY <1>0, Apart
<1>2. StagedOK(p) /\ ReadOK(p)
  BY DEF ForgetInv
<1>3. ASSUME NEW k, Behind(conv[p][Primary], k),
             Unmet(p, w.rk[1]) => w.rk[1] # k.root[1]
      PROVE  Behind(w, k)
  BY <1>3 DEF Behind, SameSetup
<1>4. ASSUME NEW c \in Contexts(p), NEW k \in staged'[p][c], k.root # <<>>
      PROVE  /\ k.root[1] \subseteq Born' \ preKeys'[p]
             /\ Behind(conv'[p][c], k)
             /\ \A d \in Contexts(p) \ {c} :
                  conv'[p][d].rk # <<>> => k.root[1] # conv'[p][d].rk[1]
             /\ c # Primary => conv'[p][c].rk # <<>> /\ k.root[1] = conv'[p][c].rk[1]
  <2>1. k \in staged[p][c]
    OBVIOUS
  <2>2. /\ k.root[1] \subseteq Born \ preKeys[p]
        /\ Behind(conv[p][c], k)
        /\ \A d \in Contexts(p) \ {c} :
             conv[p][d].rk # <<>> => k.root[1] # conv[p][d].rk[1]
        /\ c # Primary => conv[p][c].rk # <<>> /\ k.root[1] = conv[p][c].rk[1]
    BY <1>2, <1>4, <2>1 DEF StagedOK
  <2>3. Unmet(p, w.rk[1]) => w.rk[1] # k.root[1]
    BY <1>4, <2>1 DEF Unmet
  <2>4. Behind(conv'[p][c], k)
    BY <1>3, <2>2, <2>3
  <2>5. ASSUME NEW d \in Contexts(p) \ {c}, conv'[p][d].rk # <<>>
        PROVE  k.root[1] # conv'[p][d].rk[1]
    BY <2>2, <2>3, <2>5 DEF SameSetup
  <2> QED
    BY <2>2, <2>4, <2>5
<1>5. StagedOK(p)'
  BY <1>4 DEF StagedOK
<1>6. ASSUME NEW m \in got[p], NEW c \in Contexts(p)
      PROVE  Behind(conv'[p][c], m.mk) /\ m.mk \notin staged'[p][c]
  <2>1. Behind(conv[p][c], m.mk) /\ m.mk \notin staged[p][c]
    BY <1>2 DEF ReadOK
  <2>2. Unmet(p, w.rk[1]) => w.rk[1] # m.mk.root[1]
    BY DEF Unmet
  <2> QED
    BY <1>3, <2>1, <2>2
<1>7. ReadOK(p)'
  BY <1>2, <1>6 DEF ReadOK
<1> QED
  BY <1>1, <1>5, <1>7

\* What was said stays well if secondary contexts stay as they are.
LEMMA StillSaid ==
  ASSUME ForgetInv, sent \subseteq sent', NEW p \in Parties, preKeys'[p] \subseteq preKeys[p],
         \A d \in Contexts(p) \ {Primary} : conv'[p][d] = conv[p][d],
         NEW m \in sent, m.from = p
  PROVE  SaidOK(m)'
<1>1. SaidOK(m)
  BY DEF ForgetInv
<1> QED
  BY <1>1 DEF SaidOK, Answered, SentBy

LEMMA StillSpeaks ==
  ASSUME ForgetInv, sent \subseteq sent', NEW p \in Parties,
         conv'[p][Primary] = conv[p][Primary]
  PROVE  SpeaksOK(p)'
<1>1. SpeaksOK(p)
  BY DEF ForgetInv
<1> QED
  BY <1>1 DEF SpeaksOK, Answered, SentBy

----------------------------------------------------------------------------
(* Each action keeps the invariant.                                        *)

\* The contexts stay; staged keys and pre-keys only go; messages may be sent.
LEMMA Stays ==
  ASSUME ForgetInv, KeyInv', sent \subseteq sent', UNCHANGED <<conv, got>>,
         \A q \in Parties : lastKey[q] <= lastKey'[q],
         \A q \in Parties : preKeys'[q] \subseteq preKeys[q],
         NEW p \in Parties,
         \A q \in Parties \ {p} : staged'[q] = staged[q],
         \A c \in Contexts(p) : staged'[p][c] \subseteq staged[p][c],
         \A m \in sent' \ sent : SaidOK(m)'
  PROVE  ForgetInv'
<1> DEFINE w == conv[p][Primary]
<1>1. KeyInv /\ Primary \in Contexts(p)
  BY Names DEF ForgetInv
<1>2. \A q \in Parties : lastKey'[q] \in Nat
  BY DEF KeyInv, TypeOK
<1>3. Born \subseteq Born'
  BY <1>1, <1>2, BornGrows
<1>4. Formed(w, Primary, preKeys'[p])
  <2>1. Formed(w, Primary, preKeys[p])
    BY <1>1, IsFormed
  <2> QED
    BY <2>1 DEF Formed
<1>5. w.rk = <<>> \/ (SameSetup(conv[p][Primary], w) /\ w.ckr = conv[p][Primary].ckr)
  BY DEF SameSetup
<1>6. /\ conv'[p][Primary] = w /\ got'[p] = got[p]
      /\ \A d \in Contexts(p) \ {Primary} : conv'[p][d] = conv[p][d]
  OBVIOUS
<1> HIDE DEF w
<1>7. SetupsOK(p)' /\ StagedOK(p)' /\ ReadOK(p)'
  BY <1>3, <1>4, <1>5, <1>6, PrimaryMoves
<1>8. SpeaksOK(p)'
  BY StillSpeaks
<1>9. \A m \in sent' : (m \in sent /\ m.from # p) \/ SaidOK(m)'
  BY <1>6, StillSaid
<1>10. \A q \in Parties \ {p} :
          conv'[q] = conv[q] /\ staged'[q] = staged[q] /\ got'[q] = got[q]
  OBVIOUS
<1> QED
  BY <1>3, <1>7, <1>8, <1>9, <1>10, Assembled

LEMMA RejectForgets ==
  ASSUME ForgetInv, NEW p \in Parties, NEW m \in sent, Reject(p, m)
  PROVE  ForgetInv'
<1>1. /\ SpendPreKey(p, m)
      /\ UNCHANGED <<conv, staged, handedOut, lastKey, setups, sent, got, twice, unsaved,
                     reKeys, faults>>
  BY DEF Reject
<1>2. KeyInv /\ KeyInv'
  BY RejectKeeps DEF ForgetInv
<1>3. \A q \in Parties : preKeys'[q] \subseteq preKeys[q]
  BY <1>1, <1>2, Spends
<1>4. \A q \in Parties : lastKey[q] <= lastKey'[q]
  BY <1>1, <1>2 DEF KeyInv, TypeOK
<1> QED
  BY <1>1, <1>2, <1>3, <1>4, Stays

LEMMA ReceiveNotStoredForgets ==
  ASSUME ForgetInv, NEW p \in Parties, NEW m \in sent, ReceiveNotStored(p, m)
  PROVE  ForgetInv'
<1>1. /\ SpendPreKey(p, m)
      /\ UNCHANGED <<conv, handedOut, lastKey, setups, sent, got, twice, unsaved, reKeys>>
  BY DEF ReceiveNotStored
<1>2. KeyInv /\ KeyInv'
  BY ReceiveNotStoredKeeps DEF ForgetInv
<1>3. \A q \in Parties : preKeys'[q] \subseteq preKeys[q]
  BY <1>1, <1>2, Spends
<1>4. \A q \in Parties : lastKey[q] <= lastKey'[q]
  BY <1>1, <1>2 DEF KeyInv, TypeOK
<1>5. PICK c \in Readers(p, m) :
         staged' = [staged EXCEPT ![p][c] = @ \ DecryptInternal(p, c, m).out]
  BY DEF ReceiveNotStored
<1>6. DOMAIN staged = Parties
  BY <1>2 DEF KeyInv, TypeOK
<1>7. staged'[p] = [staged[p] EXCEPT ![c] = @ \ DecryptInternal(p, c, m).out]
  BY <1>5, <1>6
<1>8. DOMAIN staged[p] = Contexts(p)
  BY <1>2 DEF KeyInv, TypeOK
<1>9. \A x \in Contexts(p) : staged'[p][x] \subseteq staged[p][x]
  BY <1>7, <1>8
<1>10. \A q \in Parties \ {p} : staged'[q] = staged[q]
  BY <1>5, <1>6
<1> QED
  BY <1>1, <1>2, <1>3, <1>4, <1>9, <1>10, Stays

\* What an encryption leaves as it was, and whose setup it uses.
LEMMA Spoken ==
  ASSUME ForgetInv, NEW p \in Parties, conv[p][Primary].rk # <<>>
  PROVE  LET c == conv[p][Primary]
             t == Turn(c, <<p, lastKey[p] + 1>>)
             u == Used(t)
             k == Wire(p, t)
         IN  /\ t \in Conversation /\ u \in Conversation
             /\ u.rk # <<>> /\ u.rk[1] = c.rk[1] /\ Len(u.rk) >= Len(c.rk)
             /\ u.ckr = c.ckr /\ u.a0 = c.a0 /\ u.preKey = c.preKey
             /\ u.cks.root # <<>> /\ u.cks.root[1] = c.rk[1]
             /\ k.from = p /\ k.mk.root # <<>> /\ k.mk.root[1] = c.rk[1]
             /\ k.a0 = c.a0 /\ (k.a0 # NoKey => k.preKey = c.preKey)
<1> DEFINE c == conv[p][Primary]
           new == <<p, lastKey[p] + 1>>
           t == Turn(c, new)
           u == Used(t)
           k == Wire(p, t)
<1>1. KeyInv /\ Primary \in Contexts(p) /\ SpeaksOK(p)
  BY Names DEF ForgetInv
<1>2. /\ c \in Conversation /\ c.rk \in Seq(SUBSET Born) /\ c.rk # <<>> /\ Len(c.rk) \in Nat
      /\ c.dhr \in Born \cup {NoKey} /\ (c.flag => c.dhr # NoKey)
  BY <1>1, ConvRoots, ContextIs DEF ContextOK
<1>3. new \in Keys /\ Born \subseteq Keys
  BY <1>1, BornFacts
<1>4. Sending(c) => c.cks.root # <<>> /\ c.cks.root[1] = c.rk[1]
  BY <1>1 DEF SpeaksOK
<1> HIDE DEF c, new
<1>5. /\ t \in Conversation /\ t.rk # <<>> /\ t.rk[1] = c.rk[1] /\ Len(t.rk) >= Len(c.rk)
      /\ t.ckr = c.ckr /\ t.a0 = c.a0 /\ t.preKey = c.preKey
      /\ t.cks.root # <<>> /\ t.cks.root[1] = c.rk[1]
  <2>1. CASE ~c.flag
    <3>1. t = c
      BY <2>1 DEF Turn
    <3>2. Sending(c)
      BY <1>2, <2>1 DEF Sending
    <3> QED
      BY <1>2, <1>4, <3>1, <3>2
  <2>2. CASE c.flag
    <3> DEFINE S == Born \cup {new}
               root == Derive(c.rk, new, c.dhr)
    <3>1. S \subseteq Keys /\ new \in S /\ c.dhr \in S
      BY <1>2, <1>3, <2>2
    <3>2. c.rk \in Seq(SUBSET S)
      <4>1. SUBSET Born \subseteq SUBSET S
        OBVIOUS
      <4> QED
        BY <1>2, <4>1, SeqMonotonic
    <3> HIDE DEF S
    <3>3. Len(root) = Len(c.rk) + 1 /\ root # <<>> /\ root[1] = c.rk[1]
      BY <1>2, <3>1, <3>2, RootGrows
    <3>4. /\ t \in Conversation /\ t.a0 = c.a0 /\ t.preKey = c.preKey
          /\ t.rk = root /\ t.cks = ChainOf(t.rk)
      <4> HIDE DEF root, t
      <4>1. /\ S \subseteq Keys /\ c \in Conversation /\ new \in S
            /\ c.rk \in Seq(SUBSET S) /\ c.rk # <<>> /\ c.dhr \in S
        BY <1>2, <3>1, <3>2
      <4>2. /\ Turn(c, new) \in Conversation /\ Turn(c, new).rk # <<>> /\ ~Turn(c, new).flag
            /\ Turn(c, new).dhr = c.dhr /\ Turn(c, new).a0 = c.a0
            /\ Turn(c, new).preKey = c.preKey
            /\ ~c.flag => Turn(c, new) = c
            /\ c.flag => /\ Turn(c, new).dhs = new /\ Turn(c, new).rk = Derive(c.rk, new, c.dhr)
                         /\ Turn(c, new).cks = ChainOf(Turn(c, new).rk)
                         /\ Turn(c, new).rk \in Seq(SUBSET S)
        BY <4>1, TurnIs, Z3
      <4> QED
        BY <2>2, <4>2 DEF root, t
    <3>5. t.ckr = c.ckr
      BY <1>2, <2>2 DEF Turn, Conversation
    <3>6. t.cks.root = root
      BY <3>4, ChainTypes
    <3> HIDE DEF t, root
    <3> QED
      BY <1>2, <3>3, <3>4, <3>5, <3>6
  <2> QED
    BY <2>1, <2>2
<1> HIDE DEF t
<1>6. /\ u \in Conversation /\ u.cks.root = t.cks.root
      /\ u.rk = t.rk /\ u.a0 = t.a0 /\ u.preKey = t.preKey
  BY <1>5, UsedIs
<1>7. u.ckr = t.ckr
  BY <1>5 DEF Used, Conversation
<1>8. /\ k.from = p /\ k.mk = t.cks /\ k.a0 = t.a0
      /\ k.a0 # NoKey => k.preKey = t.preKey
  BY DEF Wire
<1> HIDE DEF u, k
<1>9. /\ t \in Conversation /\ u \in Conversation
      /\ u.rk # <<>> /\ u.rk[1] = c.rk[1] /\ Len(u.rk) >= Len(c.rk)
      /\ u.ckr = c.ckr /\ u.a0 = c.a0 /\ u.preKey = c.preKey
      /\ u.cks.root # <<>> /\ u.cks.root[1] = c.rk[1]
  BY <1>5, <1>6, <1>7
<1>10. /\ k.from = p /\ k.mk.root # <<>> /\ k.mk.root[1] = c.rk[1]
       /\ k.a0 = c.a0 /\ (k.a0 # NoKey => k.preKey = c.preKey)
  BY <1>5, <1>8
<1> QED
  BY <1>9, <1>10 DEF k, u, t, c, new

\* A message of the setup of the primary context is well.
LEMMA NewlySaid ==
  ASSUME ForgetInv, sent \subseteq sent', NEW p \in Parties, preKeys'[p] \subseteq preKeys[p],
         \A d \in Contexts(p) \ {Primary} : conv'[p][d] = conv[p][d],
         NEW k, k.from = p, k.mk.root # <<>>, conv[p][Primary].rk # <<>>,
         k.mk.root[1] = conv[p][Primary].rk[1], k.a0 = conv[p][Primary].a0,
         k.a0 # NoKey => k.preKey = conv[p][Primary].preKey
  PROVE  SaidOK(k)'
<1> DEFINE c == conv[p][Primary]
<1>1. Primary \in Contexts(p) /\ SpeaksOK(p)
  BY Names DEF ForgetInv
<1>2. c.rk[1] \cap preKeys[p] = {}
  BY <1>1, IsFormed DEF Formed
<1>3. \A d \in Contexts(p) \ {Primary} : conv[p][d].rk # <<>> => c.rk[1] # conv[p][d].rk[1]
  BY <1>1, IsFormed
<1>4. c.a0 # NoKey => c.rk[1] = {c.a0, c.preKey}
  BY <1>1 DEF SpeaksOK
<1>5. c.a0 = NoKey => Answered(p, c.rk[1])
  BY <1>1 DEF SpeaksOK
<1>6. c.a0 = NoKey => Answered(p, k.mk.root[1])'
  BY <1>5 DEF Answered, SentBy
<1> HIDE DEF c
<1>7. k.mk.root # <<>> /\ k.mk.root[1] = c.rk[1] /\ k.a0 = c.a0
      /\ (k.a0 # NoKey => k.preKey = c.preKey)
  BY DEF c
<1>8. IF k.a0 # NoKey THEN k.mk.root[1] = {k.a0, k.preKey} ELSE Answered(p, k.mk.root[1])'
  BY <1>4, <1>6, <1>7
<1>9. k.mk.root[1] \cap preKeys'[p] = {}
  BY <1>2, <1>7
<1>10. \A d \in Contexts(p) \ {Primary} :
          conv'[p][d].rk # <<>> => k.mk.root[1] # conv'[p][d].rk[1]
  BY <1>3, <1>7
<1> QED
  BY <1>7, <1>8, <1>9, <1>10 DEF SaidOK, IsSetup

\* The primary context changes and nothing is read.
LEMMA Changes ==
  ASSUME ForgetInv, KeyInv', sent \subseteq sent', UNCHANGED <<staged, preKeys, got>>,
         \A q \in Parties : lastKey[q] <= lastKey'[q],
         NEW p \in Parties, NEW w, conv' = [conv EXCEPT ![p][Primary] = w],
         Formed(w, Primary, preKeys[p]),
         \/ w.rk = <<>>
         \/ SameSetup(conv[p][Primary], w) /\ w.ckr = conv[p][Primary].ckr
         \/ Unmet(p, w.rk[1]),
         SpeaksOK(p)',
         \A m \in sent' \ sent : SaidOK(m)'
  PROVE  ForgetInv'
<1>1. KeyInv /\ Primary \in Contexts(p)
  BY Names DEF ForgetInv
<1>2. \A q \in Parties : lastKey'[q] \in Nat
  BY DEF KeyInv, TypeOK
<1>3. Born \subseteq Born'
  BY <1>1, <1>2, BornGrows
<1>4. DOMAIN conv = Parties /\ DOMAIN conv[p] = Contexts(p)
  BY <1>1 DEF KeyInv, TypeOK
<1>5. conv'[p] = [conv[p] EXCEPT ![Primary] = w] /\ \A q \in Parties \ {p} : conv'[q] = conv[q]
  BY <1>4
<1>6. /\ conv'[p][Primary] = w
      /\ \A d \in Contexts(p) \ {Primary} : conv'[p][d] = conv[p][d]
  BY <1>1, <1>4, <1>5
<1>7. /\ Formed(w, Primary, preKeys'[p]) /\ preKeys'[p] \subseteq preKeys[p]
      /\ \A c \in Contexts(p) : staged'[p][c] \subseteq staged[p][c]
      /\ got'[p] = got[p]
  OBVIOUS
<1>8. SetupsOK(p)' /\ StagedOK(p)' /\ ReadOK(p)'
  BY <1>3, <1>6, <1>7, PrimaryMoves
<1>9. \A m \in sent' : (m \in sent /\ m.from # p) \/ SaidOK(m)'
  BY <1>6, <1>7, StillSaid
<1>10. \A q \in Parties \ {p} :
          conv'[q] = conv[q] /\ staged'[q] = staged[q] /\ got'[q] = got[q]
  BY <1>5
<1>11. \A q \in Parties : preKeys'[q] \subseteq preKeys[q]
  OBVIOUS
<1> QED
  BY <1>3, <1>8, <1>9, <1>10, <1>11, Assembled

LEMMA ReKeyForgets ==
  ASSUME ForgetInv, NEW p \in Parties, ReKey(p)
  PROVE  ForgetInv'
<1> DEFINE w == Reset(conv[p][Primary])
<1>1. /\ conv' = [conv EXCEPT ![p][Primary] = w]
      /\ UNCHANGED <<staged, preKeys, lastKey, sent, got>>
  BY DEF ReKey
<1>2. KeyInv /\ KeyInv' /\ Primary \in Contexts(p)
  BY ReKeyKeeps, Names DEF ForgetInv
<1>3. conv[p][Primary] \in Conversation
  BY <1>2, ContextIs
<1>4. w.rk = <<>> /\ w.a0 = NoKey /\ w.ckr.root = <<>>
  BY <1>3, ResetIs, ChainTypes
<1> HIDE DEF w
<1>5. Formed(w, Primary, preKeys[p])
  BY <1>4 DEF Formed
<1>6. SpeaksOK(p)'
  <2>1. conv'[p][Primary] = w
    BY <1>1, <1>2 DEF KeyInv, TypeOK
  <2> QED
    BY <1>4, <2>1 DEF SpeaksOK, Sending
<1>7. \A q \in Parties : lastKey[q] <= lastKey'[q]
  BY <1>1, <1>2 DEF KeyInv, TypeOK
<1> QED
  BY <1>1, <1>2, <1>4, <1>5, <1>6, <1>7, Changes

LEMMA SendForgets ==
  ASSUME ForgetInv, NEW p \in Parties, Send(p)
  PROVE  ForgetInv'
<1> DEFINE c == conv[p][Primary]
           t == Turn(c, <<p, lastKey[p] + 1>>)
           w == Used(t)
<1>0. PICK k, s : k = Wire(p, t) /\ s = c.rk[1]
  OBVIOUS
<1>1. /\ c.rk # <<>>
      /\ conv' = [conv EXCEPT ![p][Primary] = w]
      /\ lastKey' = IF c.flag THEN [lastKey EXCEPT ![p] = @ + 1] ELSE lastKey
      /\ sent' = sent \cup {k}
      /\ UNCHANGED <<staged, preKeys, got>>
  BY <1>0 DEF Send
<1>2. KeyInv /\ KeyInv' /\ Primary \in Contexts(p) /\ SpeaksOK(p)
  BY SendKeeps, Names DEF ForgetInv
<1>3. /\ w.rk # <<>> /\ w.rk[1] = s /\ Len(w.rk) >= Len(c.rk)
      /\ w.ckr = c.ckr /\ w.a0 = c.a0 /\ w.preKey = c.preKey
      /\ w.cks.root # <<>> /\ w.cks.root[1] = s
      /\ k.from = p /\ k.mk.root # <<>> /\ k.mk.root[1] = s
      /\ k.a0 = c.a0 /\ (k.a0 # NoKey => k.preKey = c.preKey)
      /\ w \in Conversation /\ s = c.rk[1]
  BY <1>0, <1>1, Spoken
<1>4. /\ Len(c.rk) \in Nat /\ Len(c.ckr.root) \in Nat /\ Formed(c, Primary, preKeys[p])
  BY <1>2, ConvRoots, IsFormed
<1>5. Len(w.rk) \in Nat
  BY <1>3, LenProperties DEF Conversation, Root
<1>6. conv'[p][Primary] = w /\ \A d \in Contexts(p) \ {Primary} : conv'[p][d] = conv[p][d]
  <2>1. DOMAIN conv = Parties /\ DOMAIN conv[p] = Contexts(p)
    BY <1>2 DEF KeyInv, TypeOK
  <2>2. conv' = [conv EXCEPT ![p][Primary] = w]
    BY <1>1
  <2> HIDE DEF w, t, c
  <2>3. conv'[p] = [conv[p] EXCEPT ![Primary] = w]
    BY <2>1, <2>2
  <2> QED
    BY <1>2, <2>1, <2>3
<1> HIDE DEF w, t
<1>7. Formed(w, Primary, preKeys[p])
  <2>1. /\ Len(c.ckr.root) <= Len(c.rk)
        /\ c.ckr.root # <<>> => c.ckr.root[1] = c.rk[1]
        /\ c.rk[1] \cap preKeys[p] = {}
    BY <1>1, <1>4 DEF Formed
  <2>2. Len(w.ckr.root) <= Len(w.rk)
    BY <1>3, <1>4, <1>5, <2>1
  <2>3. (w.ckr.root # <<>> => w.ckr.root[1] = w.rk[1]) /\ w.rk[1] \cap preKeys[p] = {}
    BY <1>3, <2>1
  <2> QED
    BY <2>2, <2>3 DEF Formed
<1>8. SameSetup(c, w) /\ w.ckr = c.ckr
  BY <1>1, <1>3 DEF SameSetup
<1>9. SpeaksOK(p)'
  <2>1. /\ c.a0 # NoKey => s = {c.a0, c.preKey}
        /\ c.a0 = NoKey => Answered(p, s)
    BY <1>1, <1>2, <1>3 DEF SpeaksOK
  <2>2. c.a0 = NoKey => Answered(p, s)'
    BY <1>1, <2>1 DEF Answered, SentBy
  <2> QED
    BY <1>3, <1>6, <2>1, <2>2 DEF SpeaksOK
<1>10. SaidOK(k)'
  BY <1>1, <1>3, <1>6, NewlySaid
<1>11. \A m \in sent' \ sent : SaidOK(m)'
  BY <1>1, <1>10
<1>12. \A q \in Parties : lastKey[q] <= lastKey'[q]
  <2>1. lastKey \in [Parties -> Nat]
    BY <1>2 DEF KeyInv, TypeOK
  <2>2. lastKey' = lastKey \/ lastKey' = [lastKey EXCEPT ![p] = @ + 1]
    BY <1>1
  <2> QED
    BY <2>1, <2>2
<1> QED
  BY <1>1, <1>2, <1>7, <1>8, <1>9, <1>11, <1>12, Changes

LEMMA SendNotStoredForgets ==
  ASSUME ForgetInv, NEW p \in Parties, SendNotStored(p)
  PROVE  ForgetInv'
<1> DEFINE c == conv[p][Primary]
           t == Turn(c, <<p, lastKey[p] + 1>>)
<1>0. PICK k : k = Wire(p, t)
  OBVIOUS
<1>1. /\ c.rk # <<>>
      /\ lastKey' = IF c.flag THEN [lastKey EXCEPT ![p] = @ + 1] ELSE lastKey
      /\ sent' = sent \cup {k}
      /\ UNCHANGED <<conv, staged, preKeys, got>>
  BY <1>0 DEF SendNotStored
<1>2. KeyInv /\ KeyInv'
  BY SendNotStoredKeeps DEF ForgetInv
<1>3. /\ k.from = p /\ k.mk.root # <<>> /\ k.mk.root[1] = c.rk[1]
      /\ k.a0 = c.a0 /\ (k.a0 # NoKey => k.preKey = c.preKey)
  BY <1>0, <1>1, Spoken
<1> HIDE DEF t
<1>4. SaidOK(k)'
  BY <1>1, <1>3, NewlySaid
<1>5. \A m \in sent' \ sent : SaidOK(m)'
  BY <1>1, <1>4
<1>6. \A q \in Parties : lastKey[q] <= lastKey'[q]
  <2>1. lastKey \in [Parties -> Nat]
    BY <1>2 DEF KeyInv, TypeOK
  <2>2. lastKey' = lastKey \/ lastKey' = [lastKey EXCEPT ![p] = @ + 1]
    BY <1>1
  <2> QED
    BY <2>1, <2>2
<1> QED
  BY <1>1, <1>2, <1>5, <1>6, Stays

LEMMA SetUpForgets ==
  ASSUME ForgetInv, NEW p \in Parties, SetUp(p)
  PROVE  ForgetInv'
<1> DEFINE c == conv[p][Primary]
           q == Peer(p)
           e == Reset(c)
           z == Derive(<<>>, <<p, lastKey[p] + 1>>, PreKeyOf(q, handedOut[q] + 1))
<1>0. PICK a0, b0, rk, n : /\ a0 = <<p, lastKey[p] + 1>> /\ b0 = PreKeyOf(q, handedOut[q] + 1)
                           /\ rk = z /\ n = Len(setups) + 1
  OBVIOUS
<1> DEFINE w == [e EXCEPT !.rk = rk, !.dhr = b0, !.a0 = a0, !.preKey = b0,
                          !.ckr = ChainOf(rk), !.flag = TRUE,
                          !.ctx = n, !.known = TRUE]
<1>1. /\ conv' = [conv EXCEPT ![p][Primary] = w]
      /\ handedOut[q] < MaxSetups
      /\ lastKey' = [lastKey EXCEPT ![p] = @ + 1]
      /\ UNCHANGED <<staged, preKeys, sent, got>>
  BY <1>0 DEF SetUp
<1>2. KeyInv /\ KeyInv' /\ Primary \in Contexts(p) /\ q \in Parties /\ q # p
  BY SetUpKeeps, Names, PeerFacts DEF ForgetInv
<1>3. c \in Conversation /\ MaxSetups <= lastKey[p] /\ lastKey[p] \in Nat
  BY <1>2, ContextIs
<1>4. e \in Conversation
  BY <1>3, ResetIs
<1>5. rk # <<>> /\ Len(rk) = 1 /\ rk[1] = {a0, b0}
  BY <1>0 DEF Derive
<1>6. a0 \notin Born /\ a0 # NoKey /\ a0 \notin PreKeys(p)
  <2>1. a0 \in Keys /\ a0 \notin Born
    BY <1>0, <1>2, BornFacts
  <2>2. PreKeys(p) \subseteq Born
    BY <1>2, BornFacts
  <2> QED
    BY <2>1, <2>2
<1>7. b0 \notin PreKeys(p)
  BY <1>0, <1>2, Names DEF PreKeyOf
<1> HIDE DEF e, c
<1>8. /\ w.rk = rk /\ w.a0 = a0 /\ w.preKey = b0 /\ w.ckr = ChainOf(rk) /\ w.flag
  BY <1>4 DEF Conversation
<1> HIDE DEF w
<1>9. w.ckr.root = rk
  BY <1>8, ChainTypes
<1>10. Formed(w, Primary, preKeys[p])
  <2>1. preKeys[p] \subseteq PreKeys(p)
    BY <1>2 DEF KeyInv
  <2>2. {a0, b0} \cap preKeys[p] = {}
    BY <1>6, <1>7, <2>1
  <2>3. /\ Len(w.ckr.root) <= Len(w.rk) /\ w.ckr.root[1] = w.rk[1]
        /\ w.rk[1] \cap preKeys[p] = {}
    BY <1>5, <1>8, <1>9, <2>2
  <2> QED
    BY <2>3 DEF Formed
<1>11. Unmet(p, w.rk[1])
  <2>1. w.rk[1] = {a0, b0} /\ ~({a0, b0} \subseteq Born)
    BY <1>5, <1>6, <1>8
  <2>2. \A x \in Contexts(p) : conv[p][x].rk # <<>> => conv[p][x].rk[1] \subseteq Born
    BY <1>2, ConvRoots
  <2>3. \A x \in Contexts(p) : \A k \in staged[p][x] : k.root # <<>> => k.root[1] \subseteq Born
    BY DEF ForgetInv, StagedOK
  <2>4. ASSUME NEW m \in got[p] PROVE m.mk.root[1] \subseteq Born
    <3>1. m \in sent /\ SaidOK(m)
      BY DEF ForgetInv, ReadOK
    <3> QED
      BY <1>2, <3>1, MessageRoots DEF SaidOK
  <2> QED
    BY <2>1, <2>2, <2>3, <2>4 DEF Unmet
<1>12. SpeaksOK(p)'
  <2>1. conv'[p][Primary] = w
    BY <1>1, <1>2 DEF KeyInv, TypeOK
  <2> QED
    BY <1>5, <1>6, <1>8, <2>1 DEF SpeaksOK, Sending
<1>13. \A x \in Parties : lastKey[x] <= lastKey'[x]
  <2>1. lastKey \in [Parties -> Nat]
    BY <1>2 DEF KeyInv, TypeOK
  <2> QED
    BY <1>1, <2>1
<1> QED
  BY <1>1, <1>2, <1>10, <1>11, <1>12, <1>13, Changes

----------------------------------------------------------------------------
(* What a decryption that succeeds does to the chains.                     *)

LEMMA AheadIs ==
  ASSUME NEW ck \in ChainKey, NEW i \in Int
  PROVE  /\ Ahead(ck, i) \in ChainKey /\ Ahead(ck, i).root = ck.root
         /\ Ahead(ck, i).n = ck.n + (IF i > 0 THEN i ELSE 0)
         /\ \A k \in Skipped(ck, i) :
              k.root = ck.root /\ k.n >= ck.n /\ k.n < Ahead(ck, i).n
<1>1. \A j \in Int : /\ Ahead(ck, j) \in ChainKey /\ Ahead(ck, j).root = ck.root
                     /\ Ahead(ck, j).n = ck.n + (IF j > 0 THEN j ELSE 0)
  BY DEF Ahead, ChainKey
<1>2. ASSUME NEW k \in Skipped(ck, i)
      PROVE  k.root = ck.root /\ k.n >= ck.n /\ k.n < Ahead(ck, i).n
  <2>1. PICK j \in 0 .. i - 1 : k = Ahead(ck, j)
    BY DEF Skipped
  <2>2. j \in Int /\ j >= 0 /\ j < i /\ ck.n \in Nat
    BY KeyRoots
  <2>3. k.root = ck.root /\ k.n = ck.n + (IF j > 0 THEN j ELSE 0)
    BY <1>1, <2>1, <2>2
  <2>4. Ahead(ck, i).n = ck.n + i
    BY <1>1, <2>2
  <2> QED
    BY <2>2, <2>3, <2>4
<1> QED
  BY <1>1, <1>2

\* The message is the next in the receiving chain of s or one after it.
StepsOn(s, w, m, new) ==
  /\ w.rk = s.rk /\ w.cks = s.cks /\ w.flag = s.flag /\ w.a0 = NoKey
  /\ m.mk.root = s.ckr.root /\ m.mk.n >= s.ckr.n
  /\ w.ckr.root = s.ckr.root /\ w.ckr.n = m.mk.n + 1
  /\ \A k \in new : k.root = s.ckr.root /\ k.n >= s.ckr.n /\ k.n < m.mk.n

\* The message is in a chain that comes from the root key of s.
TurnsTo(s, w, m, new) ==
  /\ s.rk # <<>> /\ w.rk = m.mk.root /\ w.rk # <<>> /\ w.rk[1] = s.rk[1]
  /\ Len(w.rk) = Len(s.rk) + 1 /\ w.flag /\ w.a0 = NoKey
  /\ w.ckr.root = w.rk /\ w.ckr.n = m.mk.n + 1
  /\ \A k \in new : \/ k.root = s.ckr.root /\ k.n >= s.ckr.n
                    \/ k.root = w.rk /\ k.n < m.mk.n

LEMMA OldReads ==
  ASSUME NEW s \in Conversation, NEW m \in Message, OldRatchet(s, m).ok
  PROVE  StepsOn(s, OldRatchet(s, m).conv, m, OldRatchet(s, m).new)
<1> DEFINE i == m.np - s.nr
           ck == Ahead(s.ckr, i)
           w == Advance(s, ck, m)
<1>1. i \in Int /\ s.ckr \in ChainKey /\ s.ckr.n \in Nat /\ m.np + 1 \in Nat
  BY KeyRoots DEF Conversation, Message
<1>2. /\ ck = m.mk /\ OldRatchet(s, m).conv = w
      /\ OldRatchet(s, m).new = Skipped(s.ckr, i)
  BY DEF OldRatchet, Outcome
<1> HIDE DEF i
<1>3. /\ ck \in ChainKey /\ ck.root = s.ckr.root /\ ck.n >= s.ckr.n
      /\ \A k \in Skipped(s.ckr, i) : k.root = s.ckr.root /\ k.n >= s.ckr.n /\ k.n < ck.n
  <2>1. /\ ck \in ChainKey /\ ck.root = s.ckr.root
        /\ ck.n = s.ckr.n + (IF i > 0 THEN i ELSE 0)
        /\ \A k \in Skipped(s.ckr, i) :
             k.root = s.ckr.root /\ k.n >= s.ckr.n /\ k.n < ck.n
    BY <1>1, AheadIs
  <2> QED
    BY <1>1, <2>1
<1> HIDE DEF ck
<1>4. w = [s EXCEPT !.ckr = Ahead(ck, 1), !.nr = m.np + 1, !.a0 = NoKey]
  BY DEF Advance
<1>5. /\ w.rk = s.rk /\ w.cks = s.cks /\ w.flag = s.flag /\ w.a0 = NoKey
      /\ w.ckr = Ahead(ck, 1)
  BY <1>4 DEF Conversation
<1>6. Ahead(ck, 1).root = ck.root /\ Ahead(ck, 1).n = ck.n + 1
  BY <1>3, AheadIs
<1> HIDE DEF w
<1> QED
  BY <1>2, <1>3, <1>5, <1>6 DEF StepsOn

LEMMA NewReads ==
  ASSUME NEW S, S \subseteq Keys, NEW s \in Conversation, NEW m \in Message,
         s.rk \in Seq(SUBSET S), s.dhs \in S \cup {NoKey}, m.dhs \in S,
         NewRatchet(s, m).ok
  PROVE  TurnsTo(s, NewRatchet(s, m).conv, m, NewRatchet(s, m).new)
<1> DEFINE root == Derive(s.rk, s.dhs, m.dhs)
           ck == Ahead(ChainOf(root), m.np)
           i == m.pnp - s.nr
           a == Advance(s, ck, m)
           w == [a EXCEPT !.rk = root, !.dhr = m.dhs, !.flag = TRUE]
           r == NewRatchet(s, m)
<1>1. m.np \in Int /\ i \in Int /\ s.ckr \in ChainKey
  BY DEF Message, Conversation
<1>2. s.dhs # NoKey /\ s.rk # <<>>
  <2> SUFFICES ASSUME ~(s.dhs # NoKey /\ s.rk # <<>>) PROVE FALSE
    OBVIOUS
  <2>1. r = Outcome(FALSE, s, Skipped(s.ckr, i), {})
    BY DEF NewRatchet
  <2> QED
    BY <2>1 DEF Outcome
<1>3. /\ ck = m.mk /\ r.conv = w
      /\ r.new = Skipped(s.ckr, i) \cup Skipped(ChainOf(root), m.np)
  BY <1>2 DEF NewRatchet, Outcome
<1>4. Len(root) = Len(s.rk) + 1 /\ root # <<>> /\ root[1] = s.rk[1]
  BY <1>2, RootGrows
<1>5. ChainOf(root) \in ChainKey /\ ChainOf(root).root = root
  <2>1. root \in Seq(SUBSET S)
    BY <1>2, DeriveIs
  <2>2. SUBSET S \subseteq SUBSET Keys
    OBVIOUS
  <2>3. root \in Root
    BY <2>1, <2>2, SeqMonotonic DEF Root
  <2> QED
    BY <2>3, ChainTypes
<1> HIDE DEF root, r
<1>6. /\ ck \in ChainKey /\ ck.root = root
      /\ \A k \in Skipped(ChainOf(root), m.np) : k.root = root /\ k.n < ck.n
  <2>1. PICK h, n : h = ChainOf(root) /\ n = m.np
    OBVIOUS
  <2>2. h \in ChainKey /\ h.root = root /\ n \in Int
    BY <1>1, <1>5, <2>1
  <2>3. /\ Ahead(h, n) \in ChainKey /\ Ahead(h, n).root = h.root
        /\ \A k \in Skipped(h, n) : k.root = h.root /\ k.n < Ahead(h, n).n
    BY <2>2, AheadIs
  <2> QED
    BY <2>1, <2>2, <2>3
<1>7. \A k \in Skipped(s.ckr, i) : k.root = s.ckr.root /\ k.n >= s.ckr.n
  <2>1. PICK h, n : h = s.ckr /\ n = i
    OBVIOUS
  <2>2. h \in ChainKey /\ n \in Int
    BY <1>1, <2>1
  <2> HIDE DEF i
  <2>3. \A k \in Skipped(h, n) : k.root = h.root /\ k.n >= h.n
    BY <2>2, AheadIs
  <2> QED
    BY <2>1, <2>3
<1> HIDE DEF ck, i
<1>8. Ahead(ck, 1).root = root /\ Ahead(ck, 1).n = ck.n + 1
  BY <1>6, AheadIs
<1>9. a \in Conversation /\ a.a0 = NoKey
  BY <1>6, AdvanceIs
<1>10. a.ckr = Ahead(ck, 1)
  <2>1. a = [s EXCEPT !.ckr = Ahead(ck, 1), !.nr = m.np + 1, !.a0 = NoKey]
    BY DEF Advance
  <2> QED
    BY <2>1 DEF Conversation
<1> HIDE DEF a
<1>11. w.rk = root /\ w.flag /\ w.a0 = NoKey /\ w.ckr = Ahead(ck, 1)
  BY <1>9, <1>10 DEF Conversation
<1> HIDE DEF w
<1>12. \A k \in r.new : \/ k.root = s.ckr.root /\ k.n >= s.ckr.n
                        \/ k.root = w.rk /\ k.n < m.mk.n
  BY <1>3, <1>6, <1>7, <1>11
<1>13. /\ s.rk # <<>> /\ w.rk = m.mk.root /\ w.rk # <<>> /\ w.rk[1] = s.rk[1]
       /\ Len(w.rk) = Len(s.rk) + 1
  BY <1>2, <1>3, <1>4, <1>6, <1>11
<1>14. w.ckr.root = w.rk /\ w.ckr.n = m.mk.n + 1
  BY <1>3, <1>8, <1>11
<1>15. TurnsTo(s, w, m, r.new)
  BY <1>11, <1>12, <1>13, <1>14 DEF TurnsTo
<1> QED
  BY <1>3, <1>15 DEF r

\* The chains and keys of the context stay.
Alters(v, s) ==
  /\ s.rk = v.rk /\ s.ckr = v.ckr /\ s.cks = v.cks /\ s.flag = v.flag
  /\ s.a0 = v.a0 /\ s.preKey = v.preKey

\* setupConversationBob, or the context as it was.
LEMMA SetupIs ==
  ASSUME KeyInv, NEW p \in Parties, NEW m \in sent, m.from # p, NEW x \in Contexts(p)
  PROVE  LET v == conv[p][x]
             s == SetupConv(p, v, m)
         IN  \/ ~HasPreKey(p, m) /\ Alters(v, s)
             \/ HasPreKey(p, m) /\ s.rk = SetupRoot(m) /\ s.ckr = NoChain /\ s.dhr = NoKey
<1> DEFINE v == conv[p][x]
           s == SetupConv(p, v, m)
<1>1. v \in Conversation
  BY ContextIs
<1>2. CASE HasPreKey(p, m)
  <2>1. s = BobConv(v, m)
    BY <1>2 DEF SetupConv
  <2>2. Reset(v) \in Conversation /\ Reset(v).ckr = NoChain /\ Reset(v).dhr = NoKey
    BY <1>1, ResetIs
  <2>3. s.rk = SetupRoot(m) /\ s.ckr = NoChain /\ s.dhr = NoKey
    BY <2>1, <2>2 DEF BobConv, SetupRoot, Conversation
  <2> QED
    BY <1>2, <2>3
<1>3. CASE ~HasPreKey(p, m)
  <2>1. s = v \/ s = [v EXCEPT !.ctx = m.ctx]
    BY <1>3 DEF SetupConv
  <2> HIDE DEF s, v
  <2>2. Alters(v, s)
    BY <1>1, <2>1 DEF Alters, Conversation
  <2> QED
    BY <1>3, <2>2 DEF s, v
<1> QED
  BY <1>2, <1>3

\* A context opens a message with a staged key, with a chain of its own, or
\* with the first chain of a setup whose pre-key is still there.
Answers(p, w, m, new) ==
  /\ HasPreKey(p, m)
  /\ w.rk = m.mk.root /\ w.rk # <<>> /\ Len(w.rk) >= 1 /\ w.rk[1] = {m.a0, m.preKey}
  /\ w.flag /\ w.a0 = NoKey
  /\ w.ckr.root = w.rk /\ w.ckr.n = m.mk.n + 1
  /\ \A k \in new : k.root = <<>> \/ (k.root = w.rk /\ k.n < m.mk.n)

LEMMA ReadAs ==
  ASSUME ForgetInv, NEW p \in Parties, NEW m \in sent, m.from # p, NEW x \in Contexts(p),
         DecryptInternal(p, x, m).ok
  PROVE  LET v == conv[p][x]
             r == DecryptInternal(p, x, m)
         IN  \/ /\ m.mk \in staged[p][x] /\ r.new = {} /\ r.out = {m.mk}
                /\ Alters(v, r.conv)
             \/ /\ m.mk \notin staged[p][x] /\ r.out = {}
                /\ \/ StepsOn(v, r.conv, m, r.new)
                   \/ TurnsTo(v, r.conv, m, r.new)
                   \/ Answers(p, r.conv, m, r.new)
<1> DEFINE v == conv[p][x]
           s == SetupConv(p, v, m)
           r == DecryptInternal(p, x, m)
<1>1. KeyInv
  BY DEF ForgetInv
<1>2. /\ m \in Message /\ m.mk \in ChainKey /\ m.dhs \in Born
      /\ Born \subseteq Keys /\ NoKey \notin Born
  BY <1>1, MessageRoots, BornFacts
<1>3. s \in Conversation /\ s.rk \in Seq(SUBSET Born) /\ s.dhs \in Born \cup {NoKey}
  BY <1>1, SetupConvIs DEF ContextOK
<1>4. \/ ~HasPreKey(p, m) /\ Alters(v, s)
      \/ HasPreKey(p, m) /\ s.rk = SetupRoot(m) /\ s.ckr = NoChain /\ s.dhr = NoKey
  BY <1>1, SetupIs
<1>5. ~Refused(p, v, m)
  BY DEF DecryptInternal, Outcome
<1>6. m.mk.root # <<>> /\ (IsSetup(m) => m.mk.root[1] = {m.a0, m.preKey})
  BY DEF ForgetInv, SaidOK
<1>7. CASE m.mk \in staged[p][x]
  <2>1. r = Outcome(TRUE, s, {}, {m.mk})
    BY <1>5, <1>7 DEF DecryptInternal
  <2>2. r.conv = s /\ r.new = {} /\ r.out = {m.mk}
    BY <2>1 DEF Outcome
  <2>3. ~HasPreKey(p, m)
    <3>1. m.mk.root[1] \cap preKeys[p] = {}
      BY <1>6, <1>7 DEF ForgetInv, StagedOK
    <3> QED
      BY <1>6, <3>1 DEF HasPreKey
  <2>4. Alters(v, s)
    BY <1>4, <2>3
  <2> HIDE DEF s
  <2> QED
    BY <1>7, <2>2, <2>4
<1>8. CASE m.mk \notin staged[p][x] /\ m.dhs = s.dhr
  <2>1. r = OldRatchet(s, m) /\ r.out = {}
    BY <1>5, <1>8 DEF DecryptInternal, OldRatchet, Outcome
  <2>2. Alters(v, s)
    BY <1>2, <1>4, <1>8
  <2> HIDE DEF s, v
  <2>3. OldRatchet(s, m).ok
    BY <2>1
  <2>4. StepsOn(s, OldRatchet(s, m).conv, m, OldRatchet(s, m).new)
    BY <1>2, <1>3, <2>3, OldReads
  <2> HIDE DEF r
  <2>5. StepsOn(s, r.conv, m, r.new)
    BY <2>1, <2>4
  <2>6. StepsOn(v, r.conv, m, r.new)
    BY <2>2, <2>5 DEF StepsOn, Alters
  <2> QED
    BY <1>8, <2>1, <2>6 DEF r, v
<1>9. CASE m.mk \notin staged[p][x] /\ m.dhs # s.dhr
  <2>1. r = NewRatchet(s, m) /\ r.out = {}
    BY <1>5, <1>9 DEF DecryptInternal, NewRatchet, Outcome
  <2> HIDE DEF s, v
  <2>2. NewRatchet(s, m).ok
    BY <2>1
  <2>3. TurnsTo(s, NewRatchet(s, m).conv, m, NewRatchet(s, m).new)
    BY <1>2, <1>3, <2>2, NewReads
  <2> HIDE DEF r
  <2>4. TurnsTo(s, r.conv, m, r.new)
    BY <2>1, <2>3
  <2>5. CASE Alters(v, s)
    <3>1. TurnsTo(v, r.conv, m, r.new)
      BY <2>4, <2>5 DEF TurnsTo, Alters
    <3> QED
      BY <1>9, <2>1, <3>1 DEF r, v
  <2>6. CASE HasPreKey(p, m) /\ s.rk = SetupRoot(m) /\ s.ckr = NoChain
    <3>1. Len(s.rk) = 1 /\ s.rk[1] = {m.a0, m.preKey}
      BY <1>1, <2>6, BobIs
    <3>2. s.ckr.root = <<>>
      BY <2>6, ChainTypes
    <3>3. Answers(p, r.conv, m, r.new)
      BY <2>4, <2>6, <3>1, <3>2 DEF TurnsTo, Answers
    <3> QED
      BY <1>9, <2>1, <3>3 DEF r
  <2> QED
    BY <1>4, <2>5, <2>6
<1> QED
  BY <1>7, <1>8, <1>9

----------------------------------------------------------------------------
(* The invariant after a message was read.                                 *)

\* The context x of p is w after it read m with a chain: m was ahead, the context
\* comes neither to a key that was behind before nor to that of m again, and its
\* new keys are of its setup.
WellRead(p, x, m, w, new, left) ==
  /\ w.rk # <<>> /\ m.mk.root[1] = w.rk[1] /\ w.a0 = NoKey
  /\ Formed(w, x, left)
  /\ \/ SameSetup(conv[p][x], w) /\ ~Behind(conv[p][x], m.mk)
     \/ Unmet(p, w.rk[1]) /\ (x # Primary => x \in preKeys[p])
  /\ Sending(w) => w.rk = conv[p][x].rk /\ w.cks = conv[p][x].cks /\ ~conv[p][x].flag
  /\ \A k \in ChainKey :
       k.root # <<>> /\ Behind(conv[p][x], k) /\ (Unmet(p, w.rk[1]) => k.root[1] # w.rk[1])
       => Behind(w, k) /\ k \notin new
  /\ Behind(w, m.mk) /\ m.mk \notin new
  /\ \A k \in new : k.root # <<>> => k.root[1] = w.rk[1] /\ Behind(w, k)

\* What is used about the context that reads.
LEMMA ReaderIs ==
  ASSUME ForgetInv, NEW p \in Parties, NEW m \in sent, NEW x \in Contexts(p)
  PROVE  LET v == conv[p][x]
         IN  /\ v \in Conversation /\ v.ckr.n \in Nat
             /\ Len(v.rk) \in Nat /\ (v.rk # <<>> <=> Len(v.rk) >= 1)
             /\ Len(v.ckr.root) \in Nat /\ (v.ckr.root # <<>> <=> Len(v.ckr.root) >= 1)
             /\ Len(v.ckr.root) <= Len(v.rk)
             /\ v.ckr.root # <<>> => v.ckr.root[1] = v.rk[1]
             /\ v.rk # <<>> => v.rk[1] \cap preKeys[p] = {}
             /\ v.rk # <<>> /\ x # Primary => x \in v.rk[1]
             /\ m.mk.n \in Nat /\ m.mk.root # <<>> /\ Len(m.mk.root) >= 1
             /\ Len(m.mk.root) \in Nat /\ m.mk \in ChainKey
<1>1. KeyInv /\ m.mk.root # <<>>
  BY DEF ForgetInv, SaidOK
<1>2. Formed(conv[p][x], x, preKeys[p])
  BY IsFormed
<1>3. m.mk \in ChainKey
  BY <1>1, MessageRoots
<1>4. m.mk.n \in Nat /\ Len(m.mk.root) >= 1 /\ Len(m.mk.root) \in Nat
  BY <1>1, <1>3, KeyRoots
<1>5. LET v == conv[p][x]
      IN  /\ v \in Conversation /\ v.ckr.n \in Nat
          /\ Len(v.rk) \in Nat /\ (v.rk # <<>> <=> Len(v.rk) >= 1)
          /\ Len(v.ckr.root) \in Nat /\ (v.ckr.root # <<>> <=> Len(v.ckr.root) >= 1)
  BY <1>1, ConvRoots
<1> QED
  BY <1>1, <1>2, <1>3, <1>4, <1>5 DEF Formed

LEMMA StepsOnWell ==
  ASSUME ForgetInv, NEW p \in Parties, NEW m \in sent, NEW x \in Contexts(p),
         NEW w, NEW new, NEW left, left \subseteq preKeys[p],
         new \subseteq ChainKey, StepsOn(conv[p][x], w, m, new)
  PROVE  WellRead(p, x, m, w, new, left)
<1>0. PICK v : v = conv[p][x]
  OBVIOUS
<1>1. /\ v.ckr.n \in Nat
      /\ Len(v.rk) \in Nat /\ (v.rk # <<>> <=> Len(v.rk) >= 1)
      /\ Len(v.ckr.root) \in Nat /\ (v.ckr.root # <<>> <=> Len(v.ckr.root) >= 1)
      /\ Len(v.ckr.root) <= Len(v.rk)
      /\ v.ckr.root # <<>> => v.ckr.root[1] = v.rk[1]
      /\ v.rk # <<>> => v.rk[1] \cap preKeys[p] = {}
      /\ v.rk # <<>> /\ x # Primary => x \in v.rk[1]
      /\ m.mk.n \in Nat /\ m.mk.root # <<>> /\ Len(m.mk.root) >= 1
      /\ Len(m.mk.root) \in Nat
  BY <1>0, ReaderIs
<1>2. /\ w.rk = v.rk /\ w.cks = v.cks /\ w.flag = v.flag /\ w.a0 = NoKey
      /\ m.mk.root = v.ckr.root /\ m.mk.n >= v.ckr.n
      /\ w.ckr.root = v.ckr.root /\ w.ckr.n = m.mk.n + 1
      /\ \A k \in new : k.root = v.ckr.root /\ k.n >= v.ckr.n /\ k.n < m.mk.n
  BY <1>0 DEF StepsOn
<1>3. v.rk # <<>> /\ m.mk.root[1] = v.rk[1]
  BY <1>1, <1>2
<1>4. Formed(w, x, left)
  BY <1>1, <1>2 DEF Formed
<1>5. SameSetup(v, w)
  BY <1>2, <1>3 DEF SameSetup
<1>6. ASSUME NEW k \in ChainKey, k.root # <<>>, Behind(v, k)
      PROVE  Behind(w, k) /\ k \notin new
  <2>1. k.n \in Nat /\ Len(k.root) \in Nat
    BY KeyRoots
  <2>2. k.root[1] = v.rk[1] => Len(k.root) <= Len(v.ckr.root) /\ (k.root = v.ckr.root => k.n < v.ckr.n)
    BY <1>3, <1>6 DEF Behind
  <2>3. k.root = v.ckr.root => k.n < v.ckr.n
    BY <1>1, <1>2, <1>3, <2>2
  <2>4. k \notin new
    BY <1>1, <1>2, <2>1, <2>3
  <2>5. k.root = v.ckr.root => k.n < m.mk.n + 1
    BY <1>1, <1>2, <2>1, <2>3
  <2>6. Behind(w, k)
    BY <1>2, <2>2, <2>5 DEF Behind
  <2> QED
    BY <2>4, <2>6
<1>7. Behind(w, m.mk)
  <2>1. Len(m.mk.root) <= Len(w.ckr.root) /\ m.mk.n < w.ckr.n
    BY <1>1, <1>2
  <2> QED
    BY <2>1 DEF Behind
<1>8. m.mk \notin new
  <2>1. ~(m.mk.n < m.mk.n)
    BY <1>1
  <2> QED
    BY <1>2, <2>1
<1>9. ASSUME NEW k \in new, k.root # <<>> PROVE k.root[1] = w.rk[1] /\ Behind(w, k)
  <2>1. k.root = v.ckr.root /\ k.n >= v.ckr.n /\ k.n < m.mk.n
    BY <1>2
  <2>2. m.mk.root = v.ckr.root /\ w.rk = v.rk /\ w.ckr.root = v.ckr.root /\ w.ckr.n = m.mk.n + 1
    BY <1>2
  <2>3. k.root[1] = w.rk[1] /\ Len(k.root) <= Len(w.ckr.root)
    BY <1>1, <1>3, <2>1, <2>2
  <2>4. (k.n < m.mk.n) => k.n < w.ckr.n
    <3>1. k.n \in Nat
      BY KeyRoots
    <3> QED
      BY <1>1, <2>2, <3>1
  <2> QED
    BY <2>1, <2>3, <2>4 DEF Behind
<1>10. \/ SameSetup(conv[p][x], w) /\ ~Behind(conv[p][x], m.mk)
       \/ Unmet(p, w.rk[1]) /\ (x # Primary => x \in preKeys[p])
  <2>1. m.mk.root[1] = v.rk[1] /\ v.rk # <<>> /\ ~(m.mk.n < v.ckr.n)
    BY <1>1, <1>2, <1>3
  <2>2. ~Behind(v, m.mk)
    BY <1>1, <1>2, <2>1 DEF Behind
  <2> QED
    BY <1>0, <1>5, <2>2
<1>11. \A k \in ChainKey :
         k.root # <<>> /\ Behind(conv[p][x], k) /\ (Unmet(p, w.rk[1]) => k.root[1] # w.rk[1])
         => Behind(w, k) /\ k \notin new
  BY <1>0, <1>6
<1>12. /\ w.rk # <<>> /\ m.mk.root[1] = w.rk[1] /\ w.a0 = NoKey
       /\ Sending(w) => w.rk = conv[p][x].rk /\ w.cks = conv[p][x].cks /\ ~conv[p][x].flag
  BY <1>0, <1>2, <1>3 DEF Sending
<1> QED
  BY <1>4, <1>7, <1>8, <1>9, <1>10, <1>11, <1>12 DEF WellRead

LEMMA TurnsToWell ==
  ASSUME ForgetInv, NEW p \in Parties, NEW m \in sent, NEW x \in Contexts(p),
         NEW w, NEW new, NEW left, left \subseteq preKeys[p],
         new \subseteq ChainKey, TurnsTo(conv[p][x], w, m, new)
  PROVE  WellRead(p, x, m, w, new, left)
<1>0. PICK v : v = conv[p][x]
  OBVIOUS
<1>1. /\ v.ckr.n \in Nat
      /\ Len(v.rk) \in Nat /\ (v.rk # <<>> <=> Len(v.rk) >= 1)
      /\ Len(v.ckr.root) \in Nat /\ (v.ckr.root # <<>> <=> Len(v.ckr.root) >= 1)
      /\ Len(v.ckr.root) <= Len(v.rk)
      /\ v.ckr.root # <<>> => v.ckr.root[1] = v.rk[1]
      /\ v.rk # <<>> => v.rk[1] \cap preKeys[p] = {}
      /\ v.rk # <<>> /\ x # Primary => x \in v.rk[1]
      /\ m.mk.n \in Nat /\ m.mk.root # <<>> /\ Len(m.mk.root) >= 1
      /\ Len(m.mk.root) \in Nat
  BY <1>0, ReaderIs
<1>2. /\ v.rk # <<>> /\ w.rk = m.mk.root /\ w.rk # <<>> /\ w.rk[1] = v.rk[1]
      /\ Len(w.rk) = Len(v.rk) + 1 /\ w.flag /\ w.a0 = NoKey
      /\ w.ckr.root = w.rk /\ w.ckr.n = m.mk.n + 1
      /\ \A k \in new : \/ k.root = v.ckr.root /\ k.n >= v.ckr.n
                        \/ k.root = w.rk /\ k.n < m.mk.n
  BY <1>0 DEF TurnsTo
<1>3. Len(v.ckr.root) < Len(w.rk) /\ Len(w.rk) \in Nat /\ Len(w.rk) <= Len(w.ckr.root)
  BY <1>1, <1>2
<1>4. Formed(w, x, left)
  <2>1. (w.rk # <<>> => w.rk[1] \cap left = {}) /\ (w.rk # <<>> /\ x # Primary => x \in w.rk[1])
    BY <1>1, <1>2
  <2> QED
    BY <1>2, <1>3, <2>1 DEF Formed
<1>5. SameSetup(v, w)
  BY <1>2 DEF SameSetup
<1>6. ASSUME NEW k \in ChainKey, k.root # <<>>, Behind(v, k)
      PROVE  Behind(w, k) /\ k \notin new
  <2>1. k.n \in Nat /\ Len(k.root) \in Nat
    BY KeyRoots
  <2>2. k.root[1] = v.rk[1] => Len(k.root) <= Len(v.ckr.root) /\ (k.root = v.ckr.root => k.n < v.ckr.n)
    BY <1>2, <1>6 DEF Behind
  <2>3. k.root = v.ckr.root => k.n < v.ckr.n
    BY <1>1, <1>6, <2>2
  <2>4. k.root # w.rk
    <3> SUFFICES ASSUME k.root = w.rk PROVE FALSE
      OBVIOUS
    <3>1. Len(w.rk) <= Len(v.ckr.root)
      BY <1>2, <2>2
    <3> QED
      BY <1>1, <1>3, <3>1
  <2>5. k \notin new
    BY <1>1, <1>2, <2>1, <2>3, <2>4
  <2>6. k.root[1] = w.rk[1] => Len(k.root) <= Len(w.ckr.root)
    <3>1. w.rk[1] = v.rk[1] /\ Len(w.ckr.root) \in Nat /\ Len(v.ckr.root) \in Nat
      BY <1>1, <1>2, <1>3
    <3>2. Len(v.ckr.root) <= Len(w.ckr.root)
      BY <1>1, <1>2, <1>3
    <3> QED
      BY <2>1, <2>2, <3>1, <3>2
  <2>7. Behind(w, k)
    BY <1>2, <2>4, <2>6 DEF Behind
  <2> QED
    BY <2>5, <2>7
<1>7. Behind(w, m.mk)
  <2>1. Len(m.mk.root) <= Len(w.ckr.root) /\ m.mk.n < w.ckr.n
    BY <1>1, <1>2
  <2> QED
    BY <2>1 DEF Behind
<1>8. m.mk \notin new
  <2>1. ~(m.mk.n < m.mk.n) /\ m.mk.root # v.ckr.root
    BY <1>1, <1>2, <1>3
  <2> QED
    BY <1>2, <2>1
<1>9. ASSUME NEW k \in new, k.root # <<>> PROVE k.root[1] = w.rk[1] /\ Behind(w, k)
  <2>0. k.n \in Nat /\ Len(k.root) \in Nat
    BY KeyRoots
  <2>1. CASE k.root = v.ckr.root
    <3>1. k.root[1] = w.rk[1] /\ Len(k.root) <= Len(w.ckr.root) /\ k.root # w.ckr.root
      BY <1>1, <1>2, <1>3, <1>9, <2>1
    <3> QED
      BY <3>1 DEF Behind
  <2>2. CASE k.root = w.rk /\ k.n < m.mk.n
    <3>1. k.n < w.ckr.n
      BY <1>1, <1>2, <2>0, <2>2
    <3>2. k.root[1] = w.rk[1] /\ Len(k.root) <= Len(w.ckr.root)
      BY <1>3, <2>2
    <3> QED
      BY <3>1, <3>2 DEF Behind
  <2> QED
    BY <1>2, <2>1, <2>2
<1>10. m.mk.root[1] = w.rk[1] /\ ~Sending(w)
  BY <1>2 DEF Sending
<1>11. \/ SameSetup(conv[p][x], w) /\ ~Behind(conv[p][x], m.mk)
       \/ Unmet(p, w.rk[1]) /\ (x # Primary => x \in preKeys[p])
  <2>1. m.mk.root[1] = v.rk[1] /\ v.rk # <<>> /\ ~(Len(m.mk.root) <= Len(v.ckr.root))
    BY <1>1, <1>2, <1>3
  <2>2. ~Behind(v, m.mk)
    BY <1>1, <1>2, <2>1 DEF Behind
  <2> QED
    BY <1>0, <1>5, <2>2
<1>12. \A k \in ChainKey :
         k.root # <<>> /\ Behind(conv[p][x], k) /\ (Unmet(p, w.rk[1]) => k.root[1] # w.rk[1])
         => Behind(w, k) /\ k \notin new
  BY <1>0, <1>6
<1>13. w.rk # <<>> /\ w.a0 = NoKey
  BY <1>2
<1> QED
  BY <1>4, <1>7, <1>8, <1>9, <1>10, <1>11, <1>12, <1>13 DEF WellRead

LEMMA AnswersWell ==
  ASSUME ForgetInv, NEW p \in Parties, NEW m \in sent, m.from # p, NEW x \in Contexts(p),
         x # Primary => x = m.preKey,
         NEW w, NEW new, NEW left, left \subseteq preKeys[p], m.preKey \notin left,
         new \subseteq ChainKey, Answers(p, w, m, new)
  PROVE  WellRead(p, x, m, w, new, left) /\ Unmet(p, w.rk[1])
<1>1. KeyInv /\ m.mk.n \in Nat /\ m.mk.root # <<>> /\ Len(m.mk.root) \in Nat
  BY ReaderIs DEF ForgetInv
<1>2. /\ HasPreKey(p, m) /\ w.rk = m.mk.root /\ w.rk # <<>> /\ Len(w.rk) >= 1
      /\ w.rk[1] = {m.a0, m.preKey} /\ w.flag /\ w.a0 = NoKey
      /\ w.ckr.root = w.rk /\ w.ckr.n = m.mk.n + 1
      /\ \A k \in new : k.root = <<>> \/ (k.root = w.rk /\ k.n < m.mk.n)
  BY DEF Answers
<1>3. m.preKey \in preKeys[p] /\ m.a0 \notin preKeys[p]
  <2>1. m.preKey \in preKeys[p] /\ m.a0[2] > MaxSetups
    BY <1>1, <1>2, BobIs
  <2>2. preKeys[p] \subseteq PreKeys(p) /\ MaxSetups \in Nat
    BY <1>1 DEF KeyInv, ConstantsAssumption
  <2>3. \A k \in PreKeys(p) : k[2] \in 1 .. MaxSetups
    BY Names
  <2>4. m.a0 \notin PreKeys(p)
    BY <2>1, <2>2, <2>3
  <2> QED
    BY <2>1, <2>2, <2>4
<1>4. Unmet(p, w.rk[1])
  <2>1. \A c \in Contexts(p) : conv[p][c].rk # <<>> => conv[p][c].rk[1] \cap preKeys[p] = {}
    BY DEF ForgetInv, SetupsOK
  <2>2. \A c \in Contexts(p) : \A k \in staged[p][c] :
           k.root # <<>> => k.root[1] \cap preKeys[p] = {}
    BY DEF ForgetInv, StagedOK
  <2>3. \A g \in got[p] : g.mk.root[1] \cap preKeys[p] = {}
    BY DEF ForgetInv, ReadOK
  <2> QED
    BY <1>2, <1>3, <2>1, <2>2, <2>3 DEF Unmet
<1>5. Formed(w, x, left)
  <2>1. Len(w.ckr.root) <= Len(w.rk) /\ w.ckr.root[1] = w.rk[1]
    BY <1>1, <1>2
  <2>2. w.rk[1] \cap left = {} /\ (x # Primary => x \in w.rk[1])
    BY <1>2, <1>3
  <2> QED
    BY <2>1, <2>2 DEF Formed
<1>6. ASSUME NEW k \in ChainKey, k.root # <<>>, k.root[1] # w.rk[1]
      PROVE  Behind(w, k) /\ k \notin new
  <2>1. Behind(w, k)
    BY <1>6 DEF Behind
  <2>2. k \notin new
    BY <1>2, <1>6
  <2> QED
    BY <2>1, <2>2
<1>7. Behind(w, m.mk)
  <2>1. Len(m.mk.root) <= Len(w.ckr.root) /\ m.mk.n < w.ckr.n
    BY <1>1, <1>2
  <2> QED
    BY <2>1 DEF Behind
<1>8. m.mk \notin new
  <2>1. ~(m.mk.n < m.mk.n)
    BY <1>1
  <2> QED
    BY <1>1, <1>2, <2>1
<1>9. ASSUME NEW k \in new, k.root # <<>> PROVE k.root[1] = w.rk[1] /\ Behind(w, k)
  <2>1. k.n \in Nat /\ k.root = w.rk /\ k.n < m.mk.n
    BY <1>2, <1>9, KeyRoots
  <2>2. k.n < w.ckr.n /\ Len(k.root) <= Len(w.ckr.root)
    BY <1>1, <1>2, <2>1
  <2> QED
    BY <2>1, <2>2 DEF Behind
<1>10. m.mk.root[1] = w.rk[1] /\ ~Sending(w)
  BY <1>2 DEF Sending
<1> QED
  BY <1>2, <1>3, <1>4, <1>5, <1>6, <1>7, <1>8, <1>9, <1>10 DEF WellRead

----------------------------------------------------------------------------
(* Receive.                                                                *)

\* Nobody but the first context reads a message: those that are no setup messages
\* are of a setup the party has used itself, in its primary context.
LEMMA OneReader ==
  ASSUME ForgetInv, NEW p \in Parties, NEW m \in sent, m.from # p, NEW x \in Readers(p, m)
  PROVE  x = First(p, m) /\ x \in Contexts(p) /\ DecryptInternal(p, x, m).ok
<1>1. KeyInv /\ m.from \in Parties /\ p = Peer(m.from)
  <2>1. KeyInv
    BY DEF ForgetInv
  <2>2. m.from \in Parties
    BY <2>1, MessageRoots
  <2> QED
    BY <2>1, <2>2, PeerFacts
<1>2. x \in Contexts(p)
  BY <1>1, ReadersAre
<1>3. DecryptInternal(p, x, m).ok
  BY DEF Readers
<1>4. ASSUME x # First(p, m) PROVE FALSE
  <2>1. ~IsSetup(m) /\ x \in Secondaries(p)
    BY <1>4 DEF Readers
  <2>2. x \in Contexts(p) \ {Primary} /\ conv[p][x].rk # <<>>
    BY <2>1 DEF Secondaries
  <2>3. PICK y \in SentBy(p) : y.mk.root[1] = m.mk.root[1]
    BY <1>1, <2>1 DEF ForgetInv, SaidOK, Answered
  <2>4. y.mk.root[1] # conv[p][x].rk[1]
    BY <2>2 DEF ForgetInv, SaidOK, SentBy
  <2>5. CASE m.mk \in staged[p][x]
    <3>1. m.mk.root # <<>>
      BY DEF ForgetInv, SaidOK
    <3> QED
      BY <2>2, <2>3, <2>4, <2>5, <3>1 DEF ForgetInv, StagedOK
  <2>6. CASE m.mk \notin staged[p][x]
    <3> DEFINE w == DecryptInternal(p, x, m).conv
               new == DecryptInternal(p, x, m).new
    <3>1. StepsOn(conv[p][x], w, m, new) \/ TurnsTo(conv[p][x], w, m, new)
      BY <1>2, <1>3, <2>1, <2>6, ReadAs DEF Answers, HasPreKey
    <3>2. /\ conv[p][x].ckr.root # <<>> => conv[p][x].ckr.root[1] = conv[p][x].rk[1]
          /\ m.mk.root # <<>>
      BY <1>2, ReaderIs
    <3> HIDE DEF w, new
    <3>3. m.mk.root[1] = conv[p][x].rk[1]
      BY <3>1, <3>2 DEF StepsOn, TurnsTo
    <3> QED
      BY <2>3, <2>4, <3>3
  <2> QED
    BY <2>5, <2>6
<1> QED
  BY <1>2, <1>3, <1>4

\* The context that reads is well afterwards.
LEMMA ReadsWell ==
  ASSUME ForgetInv, NEW p \in Parties, NEW m \in sent, m.from # p, NEW x \in Readers(p, m),
         NEW left, left \subseteq preKeys[p], m.preKey \notin left
  PROVE  LET r == DecryptInternal(p, x, m)
         IN  /\ r.conv \in Conversation /\ r.new \subseteq ChainKey
             /\ \/ /\ m.mk \in staged[p][x] /\ r.new = {} /\ r.out = {m.mk}
                   /\ Alters(conv[p][x], r.conv)
                \/ /\ m.mk \notin staged[p][x] /\ r.out = {}
                   /\ WellRead(p, x, m, r.conv, r.new, left)
<1> DEFINE r == DecryptInternal(p, x, m)
<1>1. x = First(p, m) /\ x \in Contexts(p) /\ r.ok /\ KeyInv
  BY OneReader DEF ForgetInv
<1>2. r.conv \in Conversation /\ r.new \subseteq ChainKey
  BY <1>1, DecryptIs
<1>3. x # Primary => x = m.preKey
  BY <1>1 DEF First
<1>4. \/ /\ m.mk \in staged[p][x] /\ r.new = {} /\ r.out = {m.mk}
         /\ Alters(conv[p][x], r.conv)
      \/ /\ m.mk \notin staged[p][x] /\ r.out = {}
         /\ \/ StepsOn(conv[p][x], r.conv, m, r.new)
            \/ TurnsTo(conv[p][x], r.conv, m, r.new)
            \/ Answers(p, r.conv, m, r.new)
  BY <1>1, ReadAs
<1> HIDE DEF r
<1>5. StepsOn(conv[p][x], r.conv, m, r.new) => WellRead(p, x, m, r.conv, r.new, left)
  BY <1>1, <1>2, StepsOnWell
<1>6. TurnsTo(conv[p][x], r.conv, m, r.new) => WellRead(p, x, m, r.conv, r.new, left)
  BY <1>1, <1>2, TurnsToWell
<1>7. Answers(p, r.conv, m, r.new) => WellRead(p, x, m, r.conv, r.new, left)
  BY <1>1, <1>2, <1>3, AnswersWell
<1> QED
  BY <1>2, <1>4, <1>5, <1>6, <1>7 DEF r

\* The context x of p reads m: what happens to the state.
Reads(p, m, x, w, new, out) ==
  /\ m.from # p /\ conv'[p][x] = w
  /\ \A d \in Contexts(p) \ {x} : conv'[p][d] = conv[p][d] /\ staged'[p][d] = staged[p][d]
  /\ staged'[p][x] = (staged[p][x] \ out) \cup new
  /\ got'[p] = got[p] \cup {m}
  /\ sent' = sent /\ Born' = Born /\ preKeys'[p] \subseteq preKeys[p]

\* A key that one context has staged belongs to no other.
LEMMA StagedOnce ==
  ASSUME ForgetInv, NEW p \in Parties, NEW x \in Contexts(p), NEW d \in Contexts(p) \ {x},
         NEW k \in staged[p][x], k.root # <<>>
  PROVE  k \notin staged[p][d] /\ (conv[p][d].rk # <<>> => k.root[1] # conv[p][d].rk[1])
<1>1. StagedOK(p)
  BY DEF ForgetInv
<1>2. conv[p][d].rk # <<>> => k.root[1] # conv[p][d].rk[1]
  BY <1>1 DEF StagedOK
<1>3. ASSUME k \in staged[p][d] PROVE FALSE
  <2>1. conv[p][x].rk # <<>> => k.root[1] # conv[p][x].rk[1]
    BY <1>1, <1>3 DEF StagedOK
  <2>2. d # Primary => conv[p][d].rk # <<>> /\ k.root[1] = conv[p][d].rk[1]
    BY <1>1, <1>3 DEF StagedOK
  <2>3. x # Primary => conv[p][x].rk # <<>> /\ k.root[1] = conv[p][x].rk[1]
    BY <1>1 DEF StagedOK
  <2> QED
    BY <1>2, <2>1, <2>2, <2>3
<1> QED
  BY <1>2, <1>3

\* A message that is read with a staged key.
LEMMA TakenForgets ==
  ASSUME ForgetInv, NEW p \in Parties, NEW m \in sent, NEW x \in Contexts(p), NEW w,
         Reads(p, m, x, w, {}, {m.mk}), m.mk \in staged[p][x], Alters(conv[p][x], w)
  PROVE  SetupsOK(p)' /\ StagedOK(p)' /\ ReadOK(p)' /\ SpeaksOK(p)'
<1>0. PICK v : v = conv[p][x]
  OBVIOUS
<1>1. /\ w.rk = v.rk /\ w.ckr = v.ckr /\ w.cks = v.cks /\ w.flag = v.flag
      /\ w.a0 = v.a0 /\ w.preKey = v.preKey
  BY <1>0 DEF Alters
<1>2. /\ m.from # p /\ conv'[p][x] = w /\ got'[p] = got[p] \cup {m}
      /\ \A d \in Contexts(p) \ {x} : conv'[p][d] = conv[p][d] /\ staged'[p][d] = staged[p][d]
      /\ staged'[p][x] = staged[p][x] \ {m.mk}
      /\ sent' = sent /\ Born' = Born /\ preKeys'[p] \subseteq preKeys[p]
  BY DEF Reads
<1>3. SetupsOK(p) /\ StagedOK(p) /\ ReadOK(p) /\ SpeaksOK(p) /\ m.mk.root # <<>>
  BY DEF ForgetInv, SaidOK
<1>4. SetupsOK(p)'
  <2>1. Formed(w, x, preKeys'[p])
    <3>1. Formed(v, x, preKeys[p])
      BY <1>0, IsFormed
    <3> QED
      BY <1>1, <1>2, <3>1 DEF Formed
  <2>2. w.rk = <<>> \/ SameSetup(conv[p][x], w)
    BY <1>0, <1>1 DEF SameSetup
  <2> QED
    BY <1>2, <2>1, <2>2, Apart
<1>5. \A k : Behind(v, k) => Behind(w, k)
  BY <1>1 DEF Behind
<1>6. \A c \in Contexts(p) : staged'[p][c] \subseteq staged[p][c]
  BY <1>2
<1>7. /\ \A c \in Contexts(p) : conv'[p][c].rk = conv[p][c].rk
      /\ \A c \in Contexts(p) : \A k : Behind(conv[p][c], k) => Behind(conv'[p][c], k)
  BY <1>0, <1>1, <1>2, <1>5
<1>8. StagedOK(p)'
  <2> SUFFICES ASSUME NEW c \in Contexts(p), NEW k \in staged'[p][c], k.root # <<>>
               PROVE  /\ k.root[1] \subseteq Born' \ preKeys'[p]
                      /\ Behind(conv'[p][c], k)
                      /\ \A d \in Contexts(p) \ {c} :
                           conv'[p][d].rk # <<>> => k.root[1] # conv'[p][d].rk[1]
                      /\ c # Primary => conv'[p][c].rk # <<>> /\ k.root[1] = conv'[p][c].rk[1]
    BY DEF StagedOK
  <2>1. k \in staged[p][c]
    BY <1>6
  <2>2. /\ k.root[1] \subseteq Born \ preKeys[p]
        /\ Behind(conv[p][c], k)
        /\ \A d \in Contexts(p) \ {c} :
             conv[p][d].rk # <<>> => k.root[1] # conv[p][d].rk[1]
        /\ c # Primary => conv[p][c].rk # <<>> /\ k.root[1] = conv[p][c].rk[1]
    BY <1>3, <2>1 DEF StagedOK
  <2> QED
    BY <1>2, <1>7, <2>2
<1>9. ASSUME NEW g \in got'[p]
      PROVE  /\ g \in sent' /\ g.from # p /\ g.mk.root[1] \cap preKeys'[p] = {}
             /\ \A c \in Contexts(p) : Behind(conv'[p][c], g.mk) /\ g.mk \notin staged'[p][c]
  <2>1. CASE g \in got[p]
    <3>1. /\ g \in sent /\ g.from # p /\ g.mk.root[1] \cap preKeys[p] = {}
          /\ \A c \in Contexts(p) : Behind(conv[p][c], g.mk) /\ g.mk \notin staged[p][c]
      BY <1>3, <2>1 DEF ReadOK
    <3> QED
      BY <1>2, <1>6, <1>7, <3>1
  <2>2. CASE g = m
    <3>1. m.mk.root[1] \subseteq Born \ preKeys[p] /\ Behind(v, m.mk)
      BY <1>0, <1>3 DEF StagedOK
    <3>2. ASSUME NEW c \in Contexts(p)
          PROVE  Behind(conv'[p][c], m.mk) /\ m.mk \notin staged'[p][c]
      <4>1. CASE c = x
        BY <1>0, <1>2, <1>5, <3>1, <4>1
      <4>2. CASE c # x
        <5>1. /\ m.mk \notin staged[p][c]
              /\ conv[p][c].rk # <<>> => m.mk.root[1] # conv[p][c].rk[1]
          BY <1>3, <4>2, StagedOnce
        <5> QED
          BY <1>2, <4>2, <5>1 DEF Behind
      <4> QED
        BY <4>1, <4>2
    <3> QED
      BY <1>2, <2>2, <3>1, <3>2
  <2> QED
    BY <1>2, <2>1, <2>2
<1>10. ReadOK(p)'
  BY <1>9 DEF ReadOK
<1>11. SpeaksOK(p)'
  <2> DEFINE c == conv'[p][Primary]
             b == conv[p][Primary]
  <2>1. /\ c.rk = b.rk /\ c.a0 = b.a0 /\ c.preKey = b.preKey /\ c.cks = b.cks /\ c.flag = b.flag
    BY <1>0, <1>1, <1>2, Names
  <2>2. /\ b.a0 # NoKey => b.rk # <<>> /\ b.rk[1] = {b.a0, b.preKey}
        /\ Sending(b) => b.cks.root # <<>> /\ b.cks.root[1] = b.rk[1]
        /\ b.rk # <<>> /\ b.a0 = NoKey => Answered(p, b.rk[1])
    BY <1>3 DEF SpeaksOK
  <2>3. \A s : Answered(p, s)' <=> Answered(p, s)
    BY <1>2 DEF Answered, SentBy
  <2>4. (SpeaksOK(p))' <=>
          /\ c.a0 # NoKey => c.rk # <<>> /\ c.rk[1] = {c.a0, c.preKey}
          /\ Sending(c) => c.cks.root # <<>> /\ c.cks.root[1] = c.rk[1]
          /\ c.rk # <<>> /\ c.a0 = NoKey =>
               \E y \in sent' : y.from = Peer(p) /\ y.mk.root[1] = c.rk[1]
    BY DEF SpeaksOK, Answered, SentBy
  <2> HIDE DEF c, b
  <2> QED
    BY <1>2, <2>1, <2>2, <2>4 DEF Sending, Answered, SentBy
<1> QED
  BY <1>4, <1>8, <1>10, <1>11

\* A message that is read with a chain.
LEMMA ChainForgets ==
  ASSUME ForgetInv, NEW p \in Parties, NEW m \in sent, NEW x \in Contexts(p),
         NEW w \in Conversation, w.rk \in Seq(SUBSET Born), NEW new \in SUBSET ChainKey,
         Reads(p, m, x, w, new, {}), m.mk \notin staged[p][x],
         WellRead(p, x, m, w, new, preKeys'[p])
  PROVE  SetupsOK(p)' /\ StagedOK(p)' /\ ReadOK(p)' /\ SpeaksOK(p)'
<1>0. PICK v : v = conv[p][x]
  OBVIOUS
<1>1. /\ w.rk # <<>> /\ m.mk.root[1] = w.rk[1] /\ w.a0 = NoKey
      /\ Formed(w, x, preKeys'[p])
      /\ \/ SameSetup(v, w)
         \/ Unmet(p, w.rk[1]) /\ (x # Primary => x \in preKeys[p])
      /\ Sending(w) => w.rk = v.rk /\ w.cks = v.cks /\ ~v.flag
      /\ Behind(w, m.mk) /\ m.mk \notin new
      /\ \A k \in new : k.root # <<>> => k.root[1] = w.rk[1] /\ Behind(w, k)
  BY <1>0 DEF WellRead
<1>2. \A k \in ChainKey :
         k.root # <<>> /\ Behind(v, k) /\ (Unmet(p, w.rk[1]) => k.root[1] # w.rk[1])
         => Behind(w, k) /\ k \notin new
  BY <1>0 DEF WellRead
<1>3. /\ m.from # p /\ conv'[p][x] = w /\ got'[p] = got[p] \cup {m}
      /\ \A d \in Contexts(p) \ {x} : conv'[p][d] = conv[p][d] /\ staged'[p][d] = staged[p][d]
      /\ staged'[p][x] = staged[p][x] \cup new
      /\ sent' = sent /\ Born' = Born /\ preKeys'[p] \subseteq preKeys[p]
  BY DEF Reads
<1>4. SetupsOK(p) /\ StagedOK(p) /\ ReadOK(p) /\ SpeaksOK(p) /\ m.mk.root # <<>> /\ KeyInv
  BY DEF ForgetInv, SaidOK
<1>5. /\ SetupsOK(p)'
      /\ \A d \in Contexts(p) \ {x} : conv[p][d].rk # <<>> => w.rk[1] # conv[p][d].rk[1]
  BY <1>0, <1>1, <1>3, Apart
<1>6. w.rk[1] \subseteq Born \ preKeys'[p]
  <2>1. w.rk[1] \subseteq Born
    BY <1>1, RootIs
  <2> QED
    BY <1>1, <2>1 DEF Formed
\* The keys that were staged before.
<1>7. ASSUME NEW c \in Contexts(p), NEW k \in staged[p][c], k.root # <<>>
      PROVE  /\ k.root[1] \subseteq Born' \ preKeys'[p]
             /\ Behind(conv'[p][c], k)
             /\ \A d \in Contexts(p) \ {c} :
                  conv'[p][d].rk # <<>> => k.root[1] # conv'[p][d].rk[1]
             /\ c # Primary => conv'[p][c].rk # <<>> /\ k.root[1] = conv'[p][c].rk[1]
  <2>1. /\ k.root[1] \subseteq Born \ preKeys[p]
        /\ Behind(conv[p][c], k)
        /\ \A d \in Contexts(p) \ {c} :
             conv[p][d].rk # <<>> => k.root[1] # conv[p][d].rk[1]
        /\ c # Primary => conv[p][c].rk # <<>> /\ k.root[1] = conv[p][c].rk[1]
    BY <1>4, <1>7 DEF StagedOK
  <2>2. k \in ChainKey
    BY <1>4, StagedRoots DEF KeyInv
  <2>3. Unmet(p, w.rk[1]) => w.rk[1] # k.root[1]
    BY <1>7 DEF Unmet
  <2>4. Behind(conv'[p][c], k)
    <3>1. CASE c = x
      BY <1>0, <1>2, <1>3, <1>7, <2>1, <2>2, <2>3, <3>1
    <3>2. CASE c # x
      BY <1>3, <2>1, <3>2
    <3> QED
      BY <3>1, <3>2
  <2>5. ASSUME NEW d \in Contexts(p) \ {c}, conv'[p][d].rk # <<>>
        PROVE  k.root[1] # conv'[p][d].rk[1]
    <3>1. CASE d = x
      BY <1>0, <1>1, <1>3, <2>1, <2>3, <3>1 DEF SameSetup
    <3>2. CASE d # x
      BY <1>3, <2>1, <2>5, <3>2
    <3> QED
      BY <3>1, <3>2
  <2>6. ASSUME c # Primary PROVE conv'[p][c].rk # <<>> /\ k.root[1] = conv'[p][c].rk[1]
    <3>1. CASE c = x
      <4>1. v.rk # <<>> /\ k.root[1] = v.rk[1]
        BY <1>0, <2>1, <2>6, <3>1
      <4>2. c \in v.rk[1] /\ v.rk[1] \cap preKeys[p] = {}
        BY <1>0, <1>4, <2>6, <3>1, <4>1 DEF SetupsOK
      <4>3. SameSetup(v, w)
        BY <1>1, <2>6, <3>1, <4>2
      <4> QED
        BY <1>3, <3>1, <4>1, <4>3 DEF SameSetup
    <3>2. CASE c # x
      BY <1>3, <2>1, <2>6, <3>2
    <3> QED
      BY <3>1, <3>2
  <2> QED
    BY <1>3, <2>1, <2>4, <2>5, <2>6
\* The keys that are staged now.
<1>8. ASSUME NEW k \in new, k.root # <<>>
      PROVE  /\ k.root[1] \subseteq Born' \ preKeys'[p]
             /\ Behind(conv'[p][x], k)
             /\ \A d \in Contexts(p) \ {x} :
                  conv'[p][d].rk # <<>> => k.root[1] # conv'[p][d].rk[1]
             /\ conv'[p][x].rk # <<>> /\ k.root[1] = conv'[p][x].rk[1]
  <2>1. k.root[1] = w.rk[1] /\ Behind(w, k)
    BY <1>1, <1>8
  <2> QED
    BY <1>1, <1>3, <1>5, <1>6, <2>1
<1>9. StagedOK(p)'
  <2> SUFFICES ASSUME NEW c \in Contexts(p), NEW k \in staged'[p][c], k.root # <<>>
               PROVE  /\ k.root[1] \subseteq Born' \ preKeys'[p]
                      /\ Behind(conv'[p][c], k)
                      /\ \A d \in Contexts(p) \ {c} :
                           conv'[p][d].rk # <<>> => k.root[1] # conv'[p][d].rk[1]
                      /\ c # Primary => conv'[p][c].rk # <<>> /\ k.root[1] = conv'[p][c].rk[1]
    BY DEF StagedOK
  <2>1. k \in staged[p][c] \/ (c = x /\ k \in new)
    BY <1>3
  <2> QED
    BY <1>7, <1>8, <2>1
<1>10. ASSUME NEW g \in got[p], NEW c \in Contexts(p)
       PROVE  Behind(conv'[p][c], g.mk) /\ g.mk \notin staged'[p][c]
  <2>1. g \in sent /\ Behind(conv[p][c], g.mk) /\ g.mk \notin staged[p][c]
    BY <1>4 DEF ReadOK
  <2>2. g.mk \in ChainKey /\ g.mk.root # <<>>
    BY <1>4, <2>1, MessageRoots DEF ForgetInv, SaidOK
  <2>3. Unmet(p, w.rk[1]) => w.rk[1] # g.mk.root[1]
    BY DEF Unmet
  <2>4. CASE c = x
    <3>1. Behind(w, g.mk) /\ g.mk \notin new
      BY <1>0, <1>2, <2>1, <2>2, <2>3, <2>4
    <3> QED
      BY <1>3, <2>1, <2>4, <3>1
  <2>5. CASE c # x
    BY <1>3, <2>1, <2>5
  <2> QED
    BY <2>4, <2>5
<1>11. ASSUME NEW c \in Contexts(p)
       PROVE  Behind(conv'[p][c], m.mk) /\ m.mk \notin staged'[p][c]
  <2>1. CASE c = x
    BY <1>1, <1>3, <2>1
  <2>2. CASE c # x
    <3>1. conv[p][c].rk # <<>> => m.mk.root[1] # conv[p][c].rk[1]
      BY <1>1, <1>5, <2>2
    <3>2. Behind(conv[p][c], m.mk)
      BY <3>1 DEF Behind
    <3>3. ASSUME m.mk \in staged[p][c] PROVE FALSE
      <4>1. v.rk # <<>> => m.mk.root[1] # v.rk[1]
        BY <1>0, <1>4, <2>2, <3>3 DEF StagedOK
      <4>2. Unmet(p, w.rk[1]) => m.mk.root[1] # w.rk[1]
        BY <1>4, <3>3 DEF Unmet
      <4> QED
        BY <1>1, <4>1, <4>2 DEF SameSetup
    <3> QED
      BY <1>3, <2>2, <3>2, <3>3
  <2> QED
    BY <2>1, <2>2
<1>12. ReadOK(p)'
  <2>1. ASSUME NEW g \in got[p]
        PROVE  g \in sent /\ g.from # p /\ g.mk.root[1] \cap preKeys'[p] = {}
    BY <1>3, <1>4 DEF ReadOK
  <2>2. m.mk.root[1] \cap preKeys'[p] = {}
    BY <1>1, <1>6
  <2>3. ASSUME NEW g \in got'[p]
        PROVE  /\ g \in sent' /\ g.from # p /\ g.mk.root[1] \cap preKeys'[p] = {}
               /\ \A c \in Contexts(p) : Behind(conv'[p][c], g.mk) /\ g.mk \notin staged'[p][c]
    BY <1>3, <1>10, <1>11, <2>1, <2>2
  <2> QED
    BY <2>3 DEF ReadOK
<1>13. SpeaksOK(p)'
  <2>0. Primary \in Contexts(p)
    BY Names
  <2>1. CASE x = Primary
    <3>1. /\ conv'[p][Primary] = w
          /\ v.rk # <<>> /\ ~v.flag => v.cks.root # <<>> /\ v.cks.root[1] = v.rk[1]
      BY <1>0, <1>3, <1>4, <2>1 DEF SpeaksOK, Sending
    <3>2. Sending(w) => w.cks.root # <<>> /\ w.cks.root[1] = w.rk[1]
      BY <1>1, <3>1
    <3>3. m \in sent /\ m.from = Peer(p) /\ m.mk.root[1] = w.rk[1]
      <4>1. m.from \in Parties
        BY <1>4, MessageRoots
      <4> QED
        BY <1>1, <1>3, <4>1, PeerFacts
    <3>4. (SpeaksOK(p))' <=>
          /\ w.a0 # NoKey => w.rk # <<>> /\ w.rk[1] = {w.a0, w.preKey}
          /\ Sending(w) => w.cks.root # <<>> /\ w.cks.root[1] = w.rk[1]
          /\ w.rk # <<>> /\ w.a0 = NoKey =>
               \E y \in sent' : y.from = Peer(p) /\ y.mk.root[1] = w.rk[1]
      BY <3>1 DEF SpeaksOK, Answered, SentBy
    <3> QED
      BY <1>1, <1>3, <3>2, <3>3, <3>4
  <2>2. CASE x # Primary
    <3>1. conv'[p][Primary] = conv[p][Primary] /\ sent \subseteq sent'
      BY <1>3, <2>0, <2>2
    <3> QED
      BY <3>1, StillSpeaks
  <2> QED
    BY <2>1, <2>2
<1> QED
  BY <1>5, <1>9, <1>12, <1>13

\* No message is read twice, by the ratchet alone.
LEMMA NotRead ==
  ASSUME ForgetInv, NEW p \in Parties, NEW m \in sent, m.from # p, NEW x \in Readers(p, m)
  PROVE  m \notin got[p]
<1> SUFFICES ASSUME m \in got[p] PROVE FALSE
  OBVIOUS
<1>1. x \in Contexts(p)
  BY OneReader
<1>2. Behind(conv[p][x], m.mk) /\ m.mk \notin staged[p][x]
  BY <1>1 DEF ForgetInv, ReadOK
<1> DEFINE r == DecryptInternal(p, x, m)
<1>3. WellRead(p, x, m, r.conv, r.new, {})
  BY <1>2, ReadsWell
<1> HIDE DEF r
<1>4. Unmet(p, r.conv.rk[1]) /\ m.mk.root[1] = r.conv.rk[1]
  BY <1>2, <1>3 DEF WellRead
<1> QED
  BY <1>4 DEF Unmet

\* What a message that is read changes: the context it is for and what is staged there.
LEMMA Received ==
  ASSUME ForgetInv, NEW p \in Parties, NEW m \in sent, Receive(p, m)
  PROVE  \E x \in Readers(p, m) : \E r :
            /\ r = DecryptInternal(p, x, m) /\ x \in Contexts(p)
            /\ conv' = [conv EXCEPT ![p][x] = r.conv]
            /\ staged' = [staged EXCEPT
                            ![p] = [y \in Contexts(p) |->
                                IF y = x THEN (staged[p][y] \ r.out) \cup r.new
                                ELSE staged[p][y]]]
<1>1. PICK x \in Readers(p, m) :
         LET r    == DecryptInternal(p, x, m)
             junk == IF x = First(p, m) THEN {}
                     ELSE DecryptInternal(p, First(p, m), m).new
         IN  /\ conv' = [conv EXCEPT ![p][x] = r.conv]
             /\ staged' = [staged EXCEPT
                             ![p] = [y \in Contexts(p) |->
                                 IF y = x THEN (@[y] \ r.out) \cup r.new
                                 ELSE IF y = Primary THEN @[y] \cup junk ELSE @[y]]]
  BY DEF Receive
<1> DEFINE z == DecryptInternal(p, x, m)
<1>2. PICK r : r = z
  OBVIOUS
<1>3. m.from # p
  BY DEF Receive, Arrives
<1>4. x = First(p, m) /\ x \in Contexts(p)
  BY <1>3, OneReader
<1>5. staged' = [staged EXCEPT
                    ![p] = [y \in Contexts(p) |->
                        IF y = x THEN (staged[p][y] \ z.out) \cup z.new
                        ELSE IF y = Primary THEN staged[p][y] \cup {} ELSE staged[p][y]]]
  BY <1>1, <1>4
<1>6. conv' = [conv EXCEPT ![p][x] = z.conv]
  BY <1>1
<1> HIDE DEF z
<1>7. [y \in Contexts(p) |->
          IF y = x THEN (staged[p][y] \ z.out) \cup z.new
          ELSE IF y = Primary THEN staged[p][y] \cup {} ELSE staged[p][y]]
      = [y \in Contexts(p) |->
          IF y = x THEN (staged[p][y] \ r.out) \cup r.new ELSE staged[p][y]]
  BY <1>2
<1>8. /\ conv' = [conv EXCEPT ![p][x] = r.conv]
      /\ staged' = [staged EXCEPT
                      ![p] = [y \in Contexts(p) |->
                          IF y = x THEN (staged[p][y] \ r.out) \cup r.new
                          ELSE staged[p][y]]]
  BY <1>2, <1>5, <1>6, <1>7
<1> QED
  BY <1>2, <1>4, <1>8 DEF z

LEMMA ReceiveForgets ==
  ASSUME ForgetInv, NEW p \in Parties, NEW m \in sent, Receive(p, m)
  PROVE  ForgetInv' /\ m \notin got[p]
<1>0. PICK x \in Readers(p, m) : \E r :
         /\ r = DecryptInternal(p, x, m) /\ x \in Contexts(p)
         /\ conv' = [conv EXCEPT ![p][x] = r.conv]
         /\ staged' = [staged EXCEPT
                         ![p] = [y \in Contexts(p) |->
                             IF y = x THEN (staged[p][y] \ r.out) \cup r.new
                             ELSE staged[p][y]]]
  BY Received
<1>1. PICK r :
         /\ r = DecryptInternal(p, x, m) /\ x \in Contexts(p)
         /\ conv' = [conv EXCEPT ![p][x] = r.conv]
         /\ staged' = [staged EXCEPT
                         ![p] = [y \in Contexts(p) |->
                             IF y = x THEN (staged[p][y] \ r.out) \cup r.new
                             ELSE staged[p][y]]]
  BY <1>0
<1> DEFINE z == DecryptInternal(p, x, m)
<1>2. r = z
  BY <1>1
<1>3. /\ m.from # p /\ SpendPreKey(p, m)
      /\ got' = [got EXCEPT ![p] = @ \cup {m}]
      /\ UNCHANGED <<handedOut, lastKey, setups, sent, unsaved, reKeys, faults>>
  BY DEF Receive, Arrives
<1>4. KeyInv /\ KeyInv' /\ x = First(p, m) /\ x \in Contexts(p)
  BY <1>3, ReceiveKeeps, OneReader DEF ForgetInv
<1>5. /\ conv' = [conv EXCEPT ![p][x] = r.conv]
      /\ staged' = [staged EXCEPT
                      ![p] = [y \in Contexts(p) |->
                          IF y = x THEN (staged[p][y] \ r.out) \cup r.new
                          ELSE staged[p][y]]]
  BY <1>1
<1>6. /\ DOMAIN conv = Parties /\ DOMAIN conv[p] = Contexts(p) /\ DOMAIN staged = Parties
      /\ got \in [Parties -> SUBSET Message]
  BY <1>4 DEF KeyInv, TypeOK
<1>7. \A q \in Parties : preKeys'[q] \subseteq preKeys[q]
  BY <1>3, <1>4, Spends
<1>8. Born' = Born
  BY <1>3 DEF Born
<1>9. /\ conv'[p] = [conv[p] EXCEPT ![x] = r.conv]
      /\ \A q \in Parties \ {p} :
           conv'[q] = conv[q] /\ staged'[q] = staged[q] /\ got'[q] = got[q]
  BY <1>3, <1>5, <1>6
<1>10. staged'[p] = [y \in Contexts(p) |->
                       IF y = x THEN (staged[p][y] \ r.out) \cup r.new ELSE staged[p][y]]
  BY <1>5, <1>6
<1>11. Reads(p, m, x, r.conv, r.new, r.out)
  <2>1. conv'[p][x] = r.conv /\ \A d \in Contexts(p) \ {x} : conv'[p][d] = conv[p][d]
    BY <1>4, <1>6, <1>9
  <2>2. /\ staged'[p][x] = (staged[p][x] \ r.out) \cup r.new
        /\ \A d \in Contexts(p) \ {x} : staged'[p][d] = staged[p][d]
    BY <1>4, <1>10
  <2>3. got'[p] = got[p] \cup {m}
    BY <1>3, <1>6
  <2> QED
    BY <1>3, <1>7, <1>8, <2>1, <2>2, <2>3 DEF Reads
<1>12. /\ r.conv \in Conversation /\ r.new \subseteq ChainKey
       /\ \/ /\ m.mk \in staged[p][x] /\ r.new = {} /\ r.out = {m.mk}
             /\ Alters(conv[p][x], r.conv)
          \/ /\ m.mk \notin staged[p][x] /\ r.out = {}
             /\ WellRead(p, x, m, r.conv, r.new, preKeys'[p])
  <2>1. preKeys'[p] \subseteq preKeys[p] /\ m.preKey \notin preKeys'[p]
    BY <1>3, <1>4, Spends
  <2>2. /\ z.conv \in Conversation /\ z.new \subseteq ChainKey
        /\ \/ /\ m.mk \in staged[p][x] /\ z.new = {} /\ z.out = {m.mk}
              /\ Alters(conv[p][x], z.conv)
           \/ /\ m.mk \notin staged[p][x] /\ z.out = {}
              /\ WellRead(p, x, m, z.conv, z.new, preKeys'[p])
    BY <1>3, <2>1, ReadsWell
  <2> HIDE DEF z
  <2> QED
    BY <1>2, <2>2
<1>13. r.conv.rk \in Seq(SUBSET Born)
  <2>1. ContextOK(Born, p, z.conv)
    BY <1>3, <1>4, DecryptIs
  <2> HIDE DEF z
  <2> QED
    BY <1>2, <2>1 DEF ContextOK
<1> HIDE DEF z
<1>14. SetupsOK(p)' /\ StagedOK(p)' /\ ReadOK(p)' /\ SpeaksOK(p)'
  <2>1. CASE m.mk \in staged[p][x] /\ r.new = {} /\ r.out = {m.mk} /\ Alters(conv[p][x], r.conv)
    BY <1>4, <1>11, <2>1, TakenForgets
  <2>2. CASE m.mk \notin staged[p][x] /\ r.out = {} /\ WellRead(p, x, m, r.conv, r.new, preKeys'[p])
    BY <1>4, <1>11, <1>12, <1>13, <2>2, ChainForgets
  <2> QED
    BY <1>12, <2>1, <2>2
<1>15. ASSUME NEW y \in sent, y.from = p PROVE SaidOK(y)'
  <2>1. CASE x = Primary
    BY <1>3, <1>7, <1>11, <1>15, <2>1, StillSaid DEF Reads
  <2>2. CASE x # Primary
    <3>1. SaidOK(y)
      BY DEF ForgetInv
    <3>2. r.conv.rk # <<>> => y.mk.root[1] # r.conv.rk[1]
      <4>1. conv[p][x].rk # <<>> => y.mk.root[1] # conv[p][x].rk[1]
        BY <1>4, <1>15, <2>2, <3>1 DEF SaidOK
      <4>2. y.mk.root[1] \cap preKeys[p] = {}
        BY <1>15, <3>1 DEF SaidOK
      <4>3. CASE Alters(conv[p][x], r.conv)
        BY <4>1, <4>3 DEF Alters
      <4>4. CASE WellRead(p, x, m, r.conv, r.new, preKeys'[p])
        BY <2>2, <4>1, <4>2, <4>4 DEF WellRead, SameSetup, Formed
      <4> QED
        BY <1>12, <4>3, <4>4
    <3>3. \A d \in Contexts(p) \ {Primary} :
             conv'[p][d].rk # <<>> => y.mk.root[1] # conv'[p][d].rk[1]
      BY <1>11, <1>15, <3>1, <3>2 DEF Reads, SaidOK
    <3>4. sent' = sent
      BY <1>3
    <3>5. y.mk.root[1] \cap preKeys'[p] = {}
      BY <1>7, <1>15, <3>1 DEF SaidOK
    <3> QED
      BY <1>15, <3>1, <3>3, <3>4, <3>5 DEF SaidOK, Answered, SentBy
  <2> QED
    BY <2>1, <2>2
<1>16. \A y \in sent' : (y \in sent /\ y.from # p) \/ SaidOK(y)'
  BY <1>3, <1>15
<1>17. ForgetInv'
  BY <1>3, <1>4, <1>7, <1>8, <1>9, <1>14, <1>16, Assembled
<1>18. m \notin got[p]
  BY <1>3, NotRead
<1> QED
  BY <1>17, <1>18

----------------------------------------------------------------------------
(* The theorems.                                                           *)

LEMMA InitForgets == Init => ForgetInv
<1> SUFFICES ASSUME Init PROVE ForgetInv
  OBVIOUS
<1>1. KeyInv
  BY InitInv
<1>2. /\ conv = [p \in Parties |-> [c \in Contexts(p) |-> EmptyConv]]
      /\ staged = [p \in Parties |-> [c \in Contexts(p) |-> {}]]
      /\ sent = {} /\ got = [p \in Parties |-> {}]
  BY DEF Init
<1>3. /\ EmptyConv.rk = <<>> /\ EmptyConv.ckr.root = <<>>
      /\ EmptyConv.a0 = NoKey
  BY DEF EmptyConv, NoChain, ChainOf
<1> HIDE DEF EmptyConv
<1>4. ASSUME NEW p \in Parties
      PROVE  SetupsOK(p) /\ StagedOK(p) /\ ReadOK(p) /\ SpeaksOK(p)
  <2>1. /\ \A c \in Contexts(p) : conv[p][c] = EmptyConv /\ staged[p][c] = {}
        /\ got[p] = {} /\ Primary \in Contexts(p)
    BY <1>2, Names
  <2>2. SetupsOK(p)
    BY <1>3, <2>1 DEF SetupsOK
  <2>3. StagedOK(p) /\ ReadOK(p)
    BY <2>1 DEF StagedOK, ReadOK
  <2>4. SpeaksOK(p)
    BY <1>3, <2>1 DEF SpeaksOK, Sending
  <2> QED
    BY <2>2, <2>3, <2>4
<1> QED
  BY <1>1, <1>2, <1>4 DEF ForgetInv

LEMMA StutterForgets ==
  ASSUME ForgetInv, UNCHANGED vars
  PROVE  ForgetInv'
<1>1. UNCHANGED <<conv, staged, preKeys, lastKey, sent, got>>
  BY DEF vars
<1>2. KeyInv /\ KeyInv'
  BY StutterKeeps DEF ForgetInv
<1>3. PICK p : p \in Parties
  BY DEF ConstantsAssumption
<1>4. \A q \in Parties : lastKey[q] <= lastKey'[q] /\ preKeys'[q] \subseteq preKeys[q]
  BY <1>1, <1>2 DEF KeyInv, TypeOK
<1> QED
  BY <1>1, <1>2, <1>3, <1>4, Stays

\* The invariant of the proof: no message was read twice.
Forgetting == ForgetInv /\ ReadOnce

LEMMA NextForgets == Forgetting /\ [Next]_vars => Forgetting'
<1> SUFFICES ASSUME ForgetInv, ReadOnce, [Next]_vars PROVE ForgetInv' /\ ReadOnce'
  BY DEF Forgetting
<1>1. ASSUME NEW p \in Parties, SetUp(p) PROVE ForgetInv' /\ ReadOnce'
  BY <1>1, SetUpForgets DEF SetUp, ReadOnce
<1>2. ASSUME NEW p \in Parties, ReKey(p) PROVE ForgetInv' /\ ReadOnce'
  BY <1>2, ReKeyForgets DEF ReKey, ReadOnce
<1>3. ASSUME NEW p \in Parties, Send(p) PROVE ForgetInv' /\ ReadOnce'
  BY <1>3, SendForgets DEF Send, ReadOnce
<1>4. ASSUME NEW p \in Parties, SendNotStored(p) PROVE ForgetInv' /\ ReadOnce'
  BY <1>4, SendNotStoredForgets DEF SendNotStored, ReadOnce
<1>5. ASSUME NEW p \in Parties, NEW m \in sent, Receive(p, m) PROVE ForgetInv' /\ ReadOnce'
  <2>1. ForgetInv' /\ m \notin got[p]
    BY <1>5, ReceiveForgets
  <2>2. twice' = IF m \in got[p] THEN twice \cup {m} ELSE twice
    BY <1>5 DEF Receive
  <2> QED
    BY <2>1, <2>2 DEF ReadOnce
<1>6. ASSUME NEW p \in Parties, NEW m \in sent, Reject(p, m) PROVE ForgetInv' /\ ReadOnce'
  BY <1>6, RejectForgets DEF Reject, ReadOnce
<1>7. ASSUME NEW p \in Parties, NEW m \in sent, ReceiveNotStored(p, m)
      PROVE  ForgetInv' /\ ReadOnce'
  BY <1>7, ReceiveNotStoredForgets DEF ReceiveNotStored, ReadOnce
<1>8. CASE UNCHANGED vars
  BY <1>8, StutterForgets DEF vars, ReadOnce
<1> QED
  BY <1>1, <1>2, <1>3, <1>4, <1>5, <1>6, <1>7, <1>8 DEF Next

LEMMA AlwaysForgets == Spec => []Forgetting
<1>1. Init => Forgetting
  BY InitForgets DEF Init, Forgetting, ReadOnce
<1> QED
  BY <1>1, NextForgets, PTL DEF Spec

\* What is behind every context of a party is opened by nothing it has.
LEMMA BehindIsClosed ==
  ASSUME ForgetInv, NEW p \in Parties, NEW m \in got[p]
  PROVE  ~Opens(p, m.mk)
<1>0. PICK k : k = m.mk
  OBVIOUS
<1>1. KeyInv /\ m \in sent /\ k.root[1] \cap preKeys[p] = {}
  BY <1>0 DEF ForgetInv, ReadOK
<1>2. k.root # <<>> /\ Len(k.root) \in Nat /\ Len(k.root) >= 1
  <2>1. m.mk \in ChainKey /\ m.mk.root # <<>>
    BY <1>1, MessageRoots DEF ForgetInv, SaidOK
  <2> QED
    BY <1>0, <2>1, KeyRoots
<1>3. ASSUME NEW c \in Contexts(p), NEW v, v = conv[p][c]
      PROVE  /\ k \notin staged[p][c]
             /\ ~(k.root = v.ckr.root /\ k.n >= v.ckr.n)
             /\ ~(/\ v.rk # <<>> /\ Len(k.root) = Len(v.rk) + 1
                  /\ SubSeq(k.root, 1, Len(v.rk)) = v.rk)
  <2>1. Behind(v, k) /\ k \notin staged[p][c]
    BY <1>0, <1>3 DEF ForgetInv, ReadOK
  <2>2. /\ Len(v.rk) \in Nat /\ (v.rk # <<>> <=> Len(v.rk) >= 1)
        /\ Len(v.ckr.root) \in Nat /\ (v.ckr.root # <<>> <=> Len(v.ckr.root) >= 1)
        /\ Len(v.ckr.root) <= Len(v.rk) /\ v.ckr.n \in Nat
        /\ v.ckr.root # <<>> => v.ckr.root[1] = v.rk[1]
    BY <1>1, <1>3, ReaderIs
  <2>3. k.n \in Nat
    <3>1. m.mk \in ChainKey
      BY <1>1, MessageRoots
    <3> QED
      BY <1>0, <3>1, KeyRoots
  <2>4. ASSUME k.root = v.ckr.root, k.n >= v.ckr.n PROVE FALSE
    <3>1. v.rk # <<>> /\ k.root[1] = v.rk[1]
      BY <1>2, <2>2, <2>4
    <3>2. k.n < v.ckr.n
      BY <2>1, <2>4, <3>1 DEF Behind
    <3> QED
      BY <2>2, <2>3, <2>4, <3>2
  <2>5. ASSUME v.rk # <<>>, Len(k.root) = Len(v.rk) + 1, SubSeq(k.root, 1, Len(v.rk)) = v.rk
        PROVE  FALSE
    <3>1. SubSeq(k.root, 1, Len(v.rk))[1] = k.root[1]
      <4>1. Len(v.rk) \in 1 .. Len(k.root) /\ 1 \in 1 .. Len(v.rk)
        BY <1>2, <2>2, <2>5
      <4>2. k.root \in Seq(SUBSET Keys)
        BY <1>0, <1>1, MessageRoots DEF ChainKey, Root
      <4> QED
        BY <4>1, <4>2
    <3>2. k.root[1] = v.rk[1]
      BY <2>5, <3>1
    <3>3. Len(k.root) <= Len(v.ckr.root)
      BY <2>1, <2>5, <3>2 DEF Behind
    <3> QED
      BY <1>2, <2>2, <2>5, <3>3
  <2> QED
    BY <2>1, <2>4, <2>5
<1> QED
  BY <1>0, <1>1, <1>3 DEF Opens

\* Forward secrecy: nothing a party stores, staged keys, receiving chains, root
\* keys or pre-keys, opens a message it has read, whatever came late, was lost,
\* collided, was keyed anew, or was read or sent without the context being stored.
THEOREM Forgotten == Spec => []ReadIsForgotten
<1>1. Forgetting => ReadIsForgotten
  BY BehindIsClosed DEF Forgetting, ReadIsForgotten
<1> QED
  BY <1>1, AlwaysForgets, PTL

\* A message that comes again is not decrypted again, whatever happened between:
\* the ratchet does not need the check of the message hash for that.
THEOREM NeverTwice == Spec => []ReadOnce
<1>1. Forgetting => ReadOnce
  BY DEF Forgetting
<1> QED
  BY <1>1, AlwaysForgets, PTL

----------------------------------------------------------------------------
(* The context id of a context names the setup of its root key.            *)

\* The names of the context w and of a message with the id ctx and a key out of
\* root are those of setups in S.
Named(S, ctx, root) == ctx \in DOMAIN S /\ \E i \in DOMAIN S : S[i] = root[1]

LEMMA NamesAre ==
  ASSUME NamesInv
  PROVE  /\ \A p \in Parties : \A c \in Contexts(p) :
              conv[p][c].rk # <<>> => Named(setups, conv[p][c].ctx, conv[p][c].rk)
         /\ \A m \in sent : Named(setups, m.ctx, m.mk.root)
  BY DEF NamesInv, Named, Made

\* A setup is added to the list or the list stays.
LEMMA NamesStay ==
  ASSUME TypeOK, NEW s \in SUBSET Keys, NEW S, S = setups \/ S = Append(setups, s)
  PROVE  /\ \A ctx, root : Named(setups, ctx, root) => Named(S, ctx, root)
         /\ \A root : S = Append(setups, s) /\ root[1] = s =>
              Named(S, Len(setups) + 1, root)
<1>1. setups \in Seq(SUBSET Keys)
  BY DEF TypeOK
<1>2. Len(setups) \in Nat /\ DOMAIN setups = 1 .. Len(setups)
  BY <1>1, LenProperties
<1>3. ASSUME S = Append(setups, s)
      PROVE  /\ DOMAIN S = 1 .. Len(setups) + 1 /\ S[Len(setups) + 1] = s
             /\ \A i \in DOMAIN setups : S[i] = setups[i]
  <2>1. /\ Append(setups, s) \in Seq(SUBSET Keys)
        /\ Len(Append(setups, s)) = Len(setups) + 1
        /\ \A i \in 1 .. Len(setups) : Append(setups, s)[i] = setups[i]
        /\ Append(setups, s)[Len(setups) + 1] = s
    BY <1>1, AppendProperties
  <2> QED
    BY <1>2, <1>3, <2>1, LenProperties
<1>4. DOMAIN setups \subseteq DOMAIN S /\ \A i \in DOMAIN setups : S[i] = setups[i]
  BY <1>2, <1>3
<1>5. \A root : S = Append(setups, s) /\ root[1] = s => Named(S, Len(setups) + 1, root)
  <2>1. S = Append(setups, s) => Len(setups) + 1 \in DOMAIN S
    BY <1>2, <1>3
  <2> QED
    BY <1>3, <2>1 DEF Named
<1> QED
  BY <1>4, <1>5 DEF Named

\* The names hold after a step that leaves the context w of one party.
LEMMA NamesStep ==
  ASSUME KeyInv, NamesInv, NEW p \in Parties, NEW x \in Contexts(p), NEW w,
         conv' = [conv EXCEPT ![p][x] = w] \/ conv' = conv,
         NEW s \in SUBSET Keys, setups' = setups \/ setups' = Append(setups, s),
         w.rk # <<>> => Named(setups', w.ctx, w.rk),
         \A m \in sent' \ sent : Named(setups', m.ctx, m.mk.root)
  PROVE  NamesInv'
<1>0. PICK S : S = setups'
  OBVIOUS
<1>1. \A ctx, root : Named(setups, ctx, root) => Named(S, ctx, root)
  BY <1>0, NamesStay DEF KeyInv
<1>2. ASSUME NEW q \in Parties, NEW c \in Contexts(q), NEW v, v = conv'[q][c], v.rk # <<>>
      PROVE  Named(S, v.ctx, v.rk)
  <2>1. v = conv[q][c] \/ v = w
    <3>1. DOMAIN conv = Parties /\ DOMAIN conv[p] = Contexts(p)
      BY DEF KeyInv, TypeOK
    <3>2. conv'[q] = conv[q] \/ (q = p /\ conv'[q] = [conv[p] EXCEPT ![x] = w])
      BY <3>1
    <3> QED
      BY <1>2, <3>1, <3>2
  <2> QED
    BY <1>0, <1>1, <1>2, <2>1, NamesAre
<1>3. ASSUME NEW m \in sent' PROVE Named(S, m.ctx, m.mk.root)
  BY <1>0, <1>1, NamesAre
<1> QED
  BY <1>0, <1>2, <1>3 DEF Named, NamesInv, Made

\* A message has the name and the setup of the context it was sent from.
LEMMA SaidNames ==
  ASSUME ForgetInv, NamesInv, NEW p \in Parties, conv[p][Primary].rk # <<>>
  PROVE  LET t == Turn(conv[p][Primary], <<p, lastKey[p] + 1>>)
         IN  /\ Named(setups, Used(t).ctx, Used(t).rk)
             /\ Named(setups, Wire(p, t).ctx, Wire(p, t).mk.root)
<1> DEFINE c == conv[p][Primary]
           t == Turn(c, <<p, lastKey[p] + 1>>)
<1>1. Primary \in Contexts(p) /\ c \in Conversation
  BY Names, ContextIs DEF ForgetInv
<1>2. Named(setups, c.ctx, c.rk)
  BY <1>1, NamesAre
<1>3. /\ t \in Conversation /\ Used(t).rk[1] = c.rk[1]
      /\ Wire(p, t).mk.root[1] = c.rk[1]
  BY Spoken
<1>4. t.ctx = c.ctx
  <2> HIDE DEF c
  <2> QED
    BY <1>1 DEF Turn, Conversation
<1> HIDE DEF t
<1>5. Used(t).ctx = c.ctx /\ Wire(p, t).ctx = c.ctx
  BY <1>3, <1>4 DEF Used, Wire, Conversation
<1> QED
  BY <1>2, <1>3, <1>5 DEF Named, t

\* The context that reads has the name of the message; the pre-key gives it that
\* name, and another is refused.
LEMMA CtxIs ==
  ASSUME KeyInv, NEW p \in Parties, NEW m \in sent, m.from # p, NEW x \in Contexts(p),
         DecryptInternal(p, x, m).ok
  PROVE  \/ DecryptInternal(p, x, m).conv.ctx = m.ctx
         \/ /\ ~HasPreKey(p, m)
            /\ DecryptInternal(p, x, m).conv.ctx = conv[p][x].ctx
<1> DEFINE v == conv[p][x]
           s == SetupConv(p, v, m)
           r == DecryptInternal(p, x, m)
           o == Ahead(s.ckr, m.np - s.nr)
           k == Ahead(ChainOf(Derive(s.rk, s.dhs, m.dhs)), m.np)
<1>1. v \in Conversation /\ s \in Conversation
  BY ContextIs, SetupConvIs
<1>2. s.ctx = m.ctx \/ (~HasPreKey(p, m) /\ s.ctx = v.ctx)
  <2>1. CASE HasPreKey(p, m)
    <3>1. s = BobConv(v, m)
      BY <2>1 DEF SetupConv
    <3>2. Reset(v) \in Conversation
      BY <1>1, ResetIs
    <3> QED
      BY <3>1, <3>2 DEF BobConv, Conversation
  <2>2. CASE ~HasPreKey(p, m)
    <3>1. s = v \/ s = [v EXCEPT !.ctx = m.ctx]
      BY <2>2 DEF SetupConv
    <3> HIDE DEF s, v
    <3> QED
      BY <1>1, <2>2, <3>1 DEF Conversation
  <2> QED
    BY <2>1, <2>2
<1>3. ~Refused(p, v, m)
  BY DEF DecryptInternal, Outcome
<1>4. \/ r.conv = s
      \/ r.conv = Advance(s, o, m)
      \/ \E root : r.conv = [Advance(s, k, m) EXCEPT !.rk = root, !.dhr = m.dhs, !.flag = TRUE]
  BY <1>3 DEF DecryptInternal, OldRatchet, NewRatchet, Outcome
<1> HIDE DEF s, o, k, r, v
<1>5. "ctx" \in DOMAIN s
  BY <1>1 DEF Conversation
<1>6. ASSUME NEW y, NEW a, a = Advance(s, y, m)
      PROVE  a.ctx = s.ctx /\ DOMAIN a = DOMAIN s
  <2>1. PICK b : b = Ahead(y, 1)
    OBVIOUS
  <2>2. a = [s EXCEPT !.ckr = b, !.nr = m.np + 1, !.a0 = NoKey]
    BY <1>6, <2>1 DEF Advance
  <2> QED
    BY <1>5, <2>2
<1>7. r.conv.ctx = s.ctx
  <2>1. CASE r.conv = s \/ r.conv = Advance(s, o, m)
    BY <1>6, <2>1
  <2>2. ASSUME NEW root,
               r.conv = [Advance(s, k, m) EXCEPT !.rk = root, !.dhr = m.dhs, !.flag = TRUE]
        PROVE  r.conv.ctx = s.ctx
    <3>1. PICK a : a = Advance(s, k, m)
      OBVIOUS
    <3>2. a.ctx = s.ctx /\ DOMAIN a = DOMAIN s
      BY <1>6, <3>1
    <3>3. r.conv = [a EXCEPT !.rk = root, !.dhr = m.dhs, !.flag = TRUE]
      BY <2>2, <3>1
    <3> QED
      BY <1>5, <3>2, <3>3
  <2> QED
    BY <1>4, <2>1, <2>2
<1> QED
  BY <1>2, <1>7 DEF r, v

LEMMA ReceiveNames ==
  ASSUME ForgetInv, NamesInv, NEW p \in Parties, NEW m \in sent, Receive(p, m)
  PROVE  NamesInv'
<1>1. PICK x \in Readers(p, m) :
         conv' = [conv EXCEPT ![p][x] = DecryptInternal(p, x, m).conv]
  BY DEF Receive
<1>2. PICK w : w = DecryptInternal(p, x, m).conv
  OBVIOUS
<1>3. m.from # p /\ setups' = setups /\ sent' = sent /\ KeyInv
  BY DEF Receive, Arrives, ForgetInv
<1>4. x \in Contexts(p) /\ DecryptInternal(p, x, m).ok
  BY <1>3, OneReader
<1>5. PICK v : v = conv[p][x]
  OBVIOUS
<1>6. w.ctx = m.ctx \/ (~HasPreKey(p, m) /\ w.ctx = v.ctx)
  BY <1>2, <1>3, <1>4, <1>5, CtxIs
<1>7. /\ w.rk # <<>> => w.rk[1] = m.mk.root[1] \/ (v.rk # <<>> /\ w.rk[1] = v.rk[1])
      /\ w.rk # <<>> => HasPreKey(p, m) \/ v.rk # <<>>
  <2> DEFINE new == DecryptInternal(p, x, m).new
  <2>1. \/ Alters(v, w) \/ StepsOn(v, w, m, new) \/ TurnsTo(v, w, m, new)
        \/ Answers(p, w, m, new)
    BY <1>2, <1>3, <1>4, <1>5, ReadAs
  <2>2. /\ v.ckr.root # <<>> => v.rk # <<>>
        /\ m.mk.root # <<>>
    <3>1. /\ (v.rk # <<>> <=> Len(v.rk) >= 1) /\ Len(v.rk) \in Nat
          /\ (v.ckr.root # <<>> <=> Len(v.ckr.root) >= 1) /\ Len(v.ckr.root) \in Nat
          /\ Len(v.ckr.root) <= Len(v.rk) /\ m.mk.root # <<>>
      BY <1>4, <1>5, ReaderIs
    <3> QED
      BY <3>1
  <2> HIDE DEF new
  <2> QED
    BY <2>1, <2>2 DEF Alters, StepsOn, TurnsTo, Answers
<1>8. /\ v.rk # <<>> => Named(setups, v.ctx, v.rk)
      /\ Named(setups, m.ctx, m.mk.root)
  BY <1>4, <1>5, NamesAre
<1>9. w.rk # <<>> => Named(setups, w.ctx, w.rk)
  BY <1>6, <1>7, <1>8 DEF Named
<1> QED
  BY <1>1, <1>2, <1>3, <1>4, <1>9, NamesStep

LEMMA SetUpNames ==
  ASSUME ForgetInv, NamesInv, NEW p \in Parties, SetUp(p)
  PROVE  NamesInv'
<1> DEFINE c == conv[p][Primary]
           q == Peer(p)
           e == Reset(c)
           z == Derive(<<>>, <<p, lastKey[p] + 1>>, PreKeyOf(q, handedOut[q] + 1))
<1>0. PICK a0, b0, rk, n : /\ a0 = <<p, lastKey[p] + 1>> /\ b0 = PreKeyOf(q, handedOut[q] + 1)
                           /\ rk = z /\ n = Len(setups) + 1
  OBVIOUS
<1> DEFINE w == [e EXCEPT !.rk = rk, !.dhr = b0, !.a0 = a0, !.preKey = b0,
                          !.ckr = ChainOf(rk), !.flag = TRUE,
                          !.ctx = n, !.known = TRUE]
<1>1. /\ conv' = [conv EXCEPT ![p][Primary] = w]
      /\ setups' = Append(setups, {a0, b0}) /\ sent' = sent
      /\ handedOut[q] < MaxSetups
  BY <1>0 DEF SetUp
<1>2. KeyInv /\ Primary \in Contexts(p) /\ q \in Parties
  BY Names, PeerFacts DEF ForgetInv
<1>3. e \in Conversation
  BY <1>2, ContextIs, ResetIs
<1> HIDE DEF e
<1>4. w.rk = rk /\ w.ctx = n
  BY <1>3 DEF Conversation
<1>5. rk[1] = {a0, b0}
  BY <1>0 DEF Derive
<1>6. {a0, b0} \in SUBSET Keys
  <2>1. lastKey[p] \in Nat /\ handedOut[q] \in Nat
    BY <1>2 DEF KeyInv, TypeOK
  <2> QED
    BY <1>0, <1>2, <2>1 DEF Keys, PreKeyOf
<1> HIDE DEF w
<1>7. Named(setups', w.ctx, w.rk)
  <2>1. PICK S : S = setups'
    OBVIOUS
  <2>2. Named(S, Len(setups) + 1, w.rk)
    BY <1>1, <1>2, <1>4, <1>5, <1>6, <2>1, NamesStay DEF KeyInv
  <2> QED
    BY <1>0, <1>4, <2>1, <2>2
<1> QED
  BY <1>1, <1>2, <1>6, <1>7, NamesStep

LEMMA NextNames == Forgetting /\ NamesInv /\ [Next]_vars => NamesInv'
<1> SUFFICES ASSUME ForgetInv, NamesInv, [Next]_vars PROVE NamesInv'
  BY DEF Forgetting
<1>1. KeyInv /\ {} \in SUBSET Keys /\ \A p \in Parties : Primary \in Contexts(p)
  BY Names DEF ForgetInv
<1>2. ASSUME NEW p \in Parties, ReKey(p) PROVE NamesInv'
  <2>1. PICK w : w = Reset(conv[p][Primary])
    OBVIOUS
  <2>2. w.rk = <<>>
    BY <1>1, <2>1, ContextIs, ResetIs
  <2>3. conv' = [conv EXCEPT ![p][Primary] = w] /\ sent' = sent /\ setups' = setups
    BY <1>2, <2>1 DEF ReKey
  <2> QED
    BY <1>1, <2>2, <2>3, NamesStep
<1>3. ASSUME NEW p \in Parties, Send(p) \/ SendNotStored(p) PROVE NamesInv'
  <2> DEFINE t == Turn(conv[p][Primary], <<p, lastKey[p] + 1>>)
  <2>1. PICK w, k : w = Used(t) /\ k = Wire(p, t)
    OBVIOUS
  <2>2. /\ conv[p][Primary].rk # <<>> /\ sent' = sent \cup {k} /\ setups' = setups
        /\ conv' = [conv EXCEPT ![p][Primary] = w] \/ conv' = conv
    BY <1>3, <2>1 DEF Send, SendNotStored
  <2>3. Named(setups, w.ctx, w.rk) /\ Named(setups, k.ctx, k.mk.root)
    BY <2>1, <2>2, SaidNames
  <2> HIDE DEF t
  <2> QED
    BY <1>1, <2>2, <2>3, NamesStep
<1>4. ASSUME NEW p \in Parties, NEW m \in sent, Reject(p, m) \/ ReceiveNotStored(p, m)
      PROVE  NamesInv'
  BY <1>4 DEF Reject, ReceiveNotStored, NamesInv, Made
<1>5. CASE UNCHANGED vars
  BY <1>5 DEF vars, NamesInv, Made
<1> QED
  BY <1>2, <1>3, <1>4, <1>5, SetUpNames, ReceiveNames DEF Next

LEMMA AlwaysNames == Spec => []NamesInv
<1>1. Init => NamesInv
  <2>1. EmptyConv.rk = <<>>
    BY DEF EmptyConv
  <2> QED
    BY <2>1 DEF Init, NamesInv
<1> QED
  BY <1>1, AlwaysForgets, NextNames, PTL DEF Spec

\* After one setup, whatever was lost, came late or again, was re-keyed or not
\* stored, a context with a root key has the context id of the setup this root
\* key comes from, at both parties.
THEOREM NamesRoot == Spec => []ContextNamesRoot
<1>1. NamesInv => ContextNamesRoot
  <2> SUFFICES ASSUME NamesInv, Len(setups) = 1,
                      NEW p \in Parties, NEW c \in Contexts(p), conv[p][c].rk # <<>>
               PROVE  /\ conv[p][c].ctx \in DOMAIN setups
                      /\ setups[conv[p][c].ctx] = conv[p][c].rk[1]
    BY DEF ContextNamesRoot
  <2>1. Named(setups, conv[p][c].ctx, conv[p][c].rk)
    BY NamesAre
  <2> QED
    BY <2>1 DEF Named
<1> QED
  BY <1>1, AlwaysNames, PTL

----------------------------------------------------------------------------
(* Staged keys are owed.                                                   *)

LEMMA BeforeIs ==
  ASSUME NEW S, NEW r \in Seq(S)
  PROVE  /\ Before(r) \in Seq(S)
         /\ r # <<>> => /\ Len(Before(r)) = Len(r) - 1 /\ Before(r) # r
                        /\ Before(r) # <<>> => Before(r)[1] = r[1]
<1>1. Len(r) \in Nat /\ (r = <<>> <=> Len(r) = 0)
  BY LenProperties, EmptySeq
<1>2. \A i \in 1 .. Len(r) - 1 : r[i] \in S
  BY <1>1, ElementOfSeq
<1>3. /\ Before(r) \in Seq(S)
      /\ Len(Before(r)) = (IF 1 <= Len(r) - 1 THEN Len(r) - 1 ELSE 0)
      /\ \A i \in 1 .. Len(r) - 1 : Before(r)[i] = r[i]
  <2>1. /\ SubSeq(r, 1, Len(r) - 1) \in Seq(S)
        /\ Len(SubSeq(r, 1, Len(r) - 1)) = (IF 1 <= Len(r) - 1 THEN Len(r) - 1 - 1 + 1 ELSE 0)
        /\ \A i \in 1 .. Len(r) - 1 - 1 + 1 : SubSeq(r, 1, Len(r) - 1)[i] = r[1 + i - 1]
    BY <1>1, <1>2, SubSeqProperties
  <2> QED
    BY <1>1, <2>1 DEF Before
<1>4. ASSUME r # <<>>
      PROVE  /\ Len(Before(r)) = Len(r) - 1 /\ Before(r) # r
             /\ Before(r) # <<>> => Before(r)[1] = r[1]
  <2>1. Len(Before(r)) = Len(r) - 1
    <3>1. PICK n, l : n = Len(r) /\ l = Len(Before(r))
      OBVIOUS
    <3>2. n \in Nat /\ n # 0 /\ l = (IF 1 <= n - 1 THEN n - 1 ELSE 0)
      BY <1>1, <1>3, <1>4, <3>1
    <3>3. l = n - 1
      BY <3>2
    <3> QED
      BY <3>1, <3>3
  <2>2. ASSUME Before(r) # <<>> PROVE Before(r)[1] = r[1]
    <3>1. Len(Before(r)) \in Nat \ {0}
      BY <1>3, <2>2, EmptySeq
    <3>2. 1 \in 1 .. Len(r) - 1
      BY <1>1, <2>1, <3>1
    <3> QED
      BY <1>3, <3>2
  <2>3. Before(r) # r
    BY <1>1, <2>1
  <2> QED
    BY <2>1, <2>2, <2>3
<1> QED
  BY <1>3, <1>4

\* The root key before one that grew.
LEMMA BeforeAppended ==
  ASSUME NEW S, NEW r \in Seq(S), NEW e \in S
  PROVE  Before(Append(r, e)) = r
<1>1. Len(r) \in Nat
  BY LenProperties
<1>2. PICK a : a = Append(r, e)
  OBVIOUS
<1>3. /\ a \in Seq(S) /\ Len(a) = Len(r) + 1
      /\ \A i \in 1 .. Len(r) : a[i] = r[i]
  BY <1>2, AppendProperties
<1>4. \A i \in 1 .. Len(r) : a[i] \in S
  BY <1>3, ElementOfSeq
<1>5. /\ SubSeq(a, 1, Len(r)) \in Seq(S)
      /\ Len(SubSeq(a, 1, Len(r))) = (IF 1 <= Len(r) THEN Len(r) - 1 + 1 ELSE 0)
      /\ \A i \in 1 .. Len(r) - 1 + 1 : SubSeq(a, 1, Len(r))[i] = a[1 + i - 1]
  BY <1>1, <1>4, SubSeqProperties
<1>6. Before(a) = SubSeq(a, 1, Len(r))
  <2>1. Len(a) - 1 = Len(r)
    BY <1>1, <1>3
  <2> QED
    BY <2>1 DEF Before
<1>7. /\ Len(SubSeq(a, 1, Len(r))) = Len(r)
      /\ \A i \in 1 .. Len(r) : SubSeq(a, 1, Len(r))[i] = r[i]
  BY <1>1, <1>3, <1>5
<1>8. SubSeq(a, 1, Len(r)) = r
  BY <1>5, <1>7, SeqEqual
<1> QED
  BY <1>2, <1>6, <1>8

\* The root key before one that was derived.
LEMMA BeforeDerived ==
  ASSUME NEW S, NEW r \in Seq(SUBSET S), NEW a \in S, NEW b \in S
  PROVE  Before(Derive(r, a, b)) = r
<1>1. PICK T, e : T = SUBSET S /\ e = {a, b}
  OBVIOUS
<1>2. r \in Seq(T) /\ e \in T
  BY <1>1
<1>3. Before(Append(r, e)) = r
  BY <1>2, BeforeAppended
<1> QED
  BY <1>1, <1>3 DEF Derive

\* What was sent stays sent.
LEMMA MoreSent ==
  ASSUME NEW S, NEW T, S \subseteq T
  PROVE  /\ \A p : From(S, p) \subseteq From(T, p)
         /\ \A p, r, n : /\ SentKey(S, p, r, n) => SentKey(T, p, r, n)
                         /\ SentUpTo(S, p, r, n) => SentUpTo(T, p, r, n)
         /\ \A p, v : Linked(S, p, v) => Linked(T, p, v)
<1>1. \A p : From(S, p) \subseteq From(T, p)
  BY DEF From
<1>2. \A p, r, n : SentKey(S, p, r, n) => SentKey(T, p, r, n)
  BY <1>1 DEF SentKey
<1>3. \A p, r, n : SentUpTo(S, p, r, n) => SentUpTo(T, p, r, n)
  BY <1>2 DEF SentUpTo
<1>4. \A p, v : Linked(S, p, v) => Linked(T, p, v)
  BY <1>1, <1>3 DEF Linked
<1> QED
  BY <1>1, <1>2, <1>3, <1>4

\* The chains, the counters and the ratchet key of a context are those of another.
SameChains(v, w) ==
  /\ w.rk = v.rk /\ w.flag = v.flag /\ w.cks = v.cks /\ w.ckr = v.ckr /\ w.dhs = v.dhs
  /\ w.ns = v.ns /\ w.nr = v.nr /\ w.pns = v.pns

LEMMA SameLinked ==
  ASSUME NEW S, NEW p, NEW v, NEW w, SameChains(v, w), Linked(S, p, v)
  PROVE  Linked(S, p, w)
  BY DEF SameChains, Linked, Sending

\* Nothing was sent or read in a context yet.
LEMMA NewLinked ==
  ASSUME NEW S, NEW p, NEW v, v.ns = 0, v.nr = 0, v.pns = 0, v.cks.n = 0, v.ckr.n = 0,
         v.flag => v.dhs = NoKey,
         v.rk # <<>> => /\ v.cks.root = (IF v.flag THEN Before(v.rk) ELSE v.rk)
                        /\ v.ckr.root = (IF v.flag THEN v.rk ELSE Before(v.rk))
  PROVE  Linked(S, p, v)
<1>1. \A r : SentUpTo(S, p, r, 0)
  BY DEF SentUpTo
<1> QED
  BY <1>1 DEF Linked

----------------------------------------------------------------------------
(* What an encryption leaves.                                              *)

\* The context c turned the ratchet, to a root key that has not all its keys in A.
Turned(A, c, t) ==
  /\ t \in Conversation /\ t.rk # <<>> /\ ~t.flag
  /\ t.cks.root = t.rk /\ t.cks.n = 0 /\ t.rk \in Seq(SUBSET Keys)
  /\ t.ckr = c.ckr /\ t.ns = 0 /\ t.nr = c.nr /\ t.pns = c.ns
  /\ Before(t.rk) = c.rk /\ t.rk \notin Seq(SUBSET A)

LEMMA TurnIsNew ==
  ASSUME NEW A, A \subseteq Keys, NEW new \in Keys, new \notin A,
         NEW c \in Conversation, c.rk \in Seq(SUBSET A), c.rk # <<>>, c.flag, c.dhr \in A,
         NEW t, t = Turn(c, new)
  PROVE  Turned(A, c, t)
<1>0. PICK S : S = A \cup {new}
  OBVIOUS
<1>1. S \subseteq Keys /\ new \in S /\ c.dhr \in S
  BY <1>0
<1>2. c.rk \in Seq(SUBSET S)
  <2>1. SUBSET A \subseteq SUBSET S
    BY <1>0
  <2> QED
    BY <2>1, SeqMonotonic
<1>3. /\ t \in Conversation /\ t.rk # <<>> /\ ~t.flag
      /\ t.rk = Derive(c.rk, new, c.dhr) /\ t.cks = ChainOf(t.rk) /\ t.rk \in Seq(SUBSET S)
  <2> DEFINE u == Turn(c, new)
  <2>1. /\ u \in Conversation /\ u.rk # <<>> /\ ~u.flag
        /\ u.dhr = c.dhr /\ u.a0 = c.a0 /\ u.preKey = c.preKey
        /\ ~c.flag => u = c
        /\ c.flag => /\ u.dhs = new /\ u.rk = Derive(c.rk, new, c.dhr)
                     /\ u.cks = ChainOf(u.rk) /\ u.rk \in Seq(SUBSET S)
    BY <1>1, <1>2, TurnIs
  <2> QED
    BY <2>1
<1>4. PICK root, h, b : root = Derive(c.rk, new, c.dhr) /\ h = ChainOf(root) /\ b = c.dhr
  OBVIOUS
<1>5. t = [c EXCEPT !.dhs = new, !.rk = root, !.cks = h,
                    !.pns = c.ns, !.ns = 0, !.flag = FALSE]
  BY <1>4 DEF Turn
<1>6. t.ckr = c.ckr /\ t.ns = 0 /\ t.nr = c.nr /\ t.pns = c.ns
  BY <1>5 DEF Conversation
<1>7. t.rk = root /\ t.cks.root = root /\ t.cks.n = 0
  BY <1>3, <1>4 DEF ChainOf
<1>8. root \in Seq(SUBSET Keys)
  <2>1. SUBSET S \subseteq SUBSET Keys
    BY <1>1
  <2>2. root \in Seq(SUBSET S)
    BY <1>3, <1>7
  <2> QED
    BY <2>1, <2>2, SeqMonotonic
<1>9. Before(root) = c.rk
  BY <1>1, <1>2, <1>4, BeforeDerived
<1>10. root \notin Seq(SUBSET A)
  <2> SUFFICES ASSUME NEW r \in Seq(SUBSET A) PROVE r # root
    OBVIOUS
  <2>1. r # Derive(c.rk, new, b)
    BY <1>1, <1>2, <1>4, FreshRoot
  <2> QED
    BY <1>4, <2>1
<1> QED
  BY <1>3, <1>6, <1>7, <1>8, <1>9, <1>10 DEF Turned

\* The roots of the chains of S have keys out of A; the messages are well.
Rooted(S, A) == \A m \in S : m.mk.root \in Seq(SUBSET A)
Sequels(S)   == \A m \in S : Sequel(S, m)

\* The chain of a context that sends: nobody else sent in it, and its root key
\* is neither the end of a chain nor the start of one that p turned to.
LEMMA TurnLinked ==
  ASSUME NEW S, NEW A, A \subseteq Keys, Rooted(S, A),
         NEW p \in Parties, NEW c \in Conversation, c.rk \in Seq(SUBSET A), c.rk # <<>>,
         c.flag => c.dhr \in A, NEW new \in Keys, new \notin A,
         Linked(S, p, c), Alone(S, p, c), NEW t, t = Turn(c, new)
  PROVE  /\ Linked(S, p, t) /\ Alone(S, p, t) /\ Sending(t)
         /\ t \in Conversation /\ t.rk \in Seq(SUBSET Keys)
         /\ c.flag => t.rk \notin Seq(SUBSET A) /\ Before(t.rk) = c.rk
         /\ ~c.flag => t = c
<1>1. CASE ~c.flag
  <2>1. t = c
    BY <1>1 DEF Turn
  <2>2. Sending(c)
    BY <1>1 DEF Sending
  <2>3. Linked(S, p, t) /\ Alone(S, p, t) /\ Sending(t) /\ t \in Conversation
    BY <2>1, <2>2
  <2>4. t.rk \in Seq(SUBSET Keys)
    BY <2>1 DEF Conversation, Root
  <2> QED
    BY <1>1, <2>1, <2>3, <2>4
<1>2. CASE c.flag
  <2>1. /\ t \in Conversation /\ t.rk # <<>> /\ ~t.flag
        /\ t.cks.root = t.rk /\ t.cks.n = 0 /\ t.rk \in Seq(SUBSET Keys)
        /\ t.ckr = c.ckr /\ t.ns = 0 /\ t.nr = c.nr /\ t.pns = c.ns
        /\ Before(t.rk) = c.rk /\ t.rk \notin Seq(SUBSET A)
    <3>1. c.dhr \in A
      BY <1>2
    <3>2. Turned(A, c, t)
      BY <1>2, <3>1, TurnIsNew
    <3> QED
      BY <3>2 DEF Turned
  <2>2. \A m \in S : m.mk.root # t.rk /\ Before(m.mk.root) # t.rk
    <3>1. ASSUME NEW r \in Seq(SUBSET A) PROVE Before(r) \in Seq(SUBSET A)
      BY BeforeIs
    <3> QED
      BY <2>1, <3>1 DEF Rooted
  <2>3. /\ c.ckr.n = c.nr /\ SentUpTo(S, p, c.cks.root, c.ns)
        /\ c.cks.root = Before(c.rk) /\ c.ckr.root = c.rk
        /\ \A m \in From(S, p) : m.mk.root # c.rk
    BY <1>2 DEF Linked, Alone
  <2>4. Linked(S, p, t)
    <3>1. SentUpTo(S, p, t.cks.root, t.ns)
      BY <2>1 DEF SentUpTo
    <3>2. SentUpTo(S, p, Before(Before(t.rk)), t.pns)
      BY <2>1, <2>3
    <3> QED
      BY <2>1, <2>3, <3>1, <3>2 DEF Linked
  <2>5. Alone(S, p, t)
    BY <2>1, <2>2, <2>3 DEF Alone, From
  <2>6. Sending(t)
    BY <2>1 DEF Sending
  <2> QED
    BY <1>2, <2>1, <2>2, <2>4, <2>5, <2>6
<1> QED
  BY <1>1, <1>2

\* The message that goes out, and what there was before.
LEMMA UsedLinked ==
  ASSUME NEW S, Sequels(S), NEW p \in Parties, NEW t \in Conversation,
         Linked(S, p, t), Alone(S, p, t), Sending(t), t.rk \in Seq(SUBSET Keys),
         NEW k, k = Wire(p, t), NEW T, T = S \cup {k}, NEW w, w = Used(t)
  PROVE  /\ Linked(T, p, w) /\ Alone(T, p, w) /\ k.from = p /\ k.mk.root = t.rk
         /\ Sequels(T)
<1>2. /\ k.from = p /\ k.mk = t.cks /\ k.np = t.ns /\ k.pnp = t.pns
  BY DEF Wire
<1>3. /\ w.cks.root = t.cks.root /\ w.cks.n = t.cks.n + 1
      /\ w.rk = t.rk /\ w.flag = t.flag
  BY UsedIs
<1>4. w.ckr = t.ckr /\ w.ns = t.ns + 1 /\ w.nr = t.nr /\ w.pns = t.pns /\ w.dhs = t.dhs
  BY DEF Used, Conversation
<1>5. /\ t.rk # <<>> /\ ~t.flag /\ t.cks.n = t.ns /\ t.ckr.n = t.nr
      /\ t.cks.root = t.rk /\ t.ckr.root = Before(t.rk)
      /\ SentUpTo(S, p, t.rk, t.ns) /\ SentUpTo(S, p, Before(Before(t.rk)), t.pns)
  BY DEF Linked, Sending
<1>6. /\ \A m \in S : m.mk.root = t.rk => m.from = p
      /\ \A m \in From(S, p) : Before(m.mk.root) # t.rk /\ m.mk.root # Before(t.rk)
  BY DEF Alone
<1>7. t.ns \in Nat /\ t.cks = [root |-> t.rk, n |-> t.ns]
  BY <1>5 DEF Conversation, ChainKey
<1>8. Before(t.rk) # t.rk
  BY <1>5, BeforeIs
<1>9. /\ \A q, r, n : SentUpTo(S, q, r, n) => SentUpTo(T, q, r, n)
      /\ \A q, r, n : SentKey(S, q, r, n) => SentKey(T, q, r, n)
  BY MoreSent
<1>10. From(T, p) = From(S, p) \cup {k} /\ \A q : q # p => From(T, q) = From(S, q)
  BY <1>2 DEF From
<1>11. Linked(T, p, w)
  <2>1. SentUpTo(T, p, t.rk, t.ns + 1)
    <3>0. PICK n : n = t.ns + 1
      OBVIOUS
    <3> SUFFICES ASSUME NEW i \in 0 .. n - 1 PROVE SentKey(T, p, t.rk, i)
      BY <3>0 DEF SentUpTo
    <3>1. CASE i = t.ns
      BY <1>2, <1>7, <1>10, <3>1 DEF SentKey
    <3>2. CASE i # t.ns
      <4>1. i \in 0 .. t.ns - 1
        BY <1>7, <3>0, <3>2
      <4> QED
        BY <1>5, <1>9, <4>1 DEF SentUpTo
    <3> QED
      BY <3>1, <3>2
  <2>2. SentUpTo(T, p, Before(Before(t.rk)), t.pns)
    BY <1>5, <1>9
  <2> QED
    BY <1>3, <1>4, <1>5, <2>1, <2>2 DEF Linked
<1>12. Alone(T, p, w)
  BY <1>2, <1>3, <1>5, <1>6, <1>8, <1>10 DEF Alone
<1>13. Sequel(T, k)
  <2>1. SentUpTo(T, p, t.rk, t.ns) /\ SentUpTo(T, p, Before(Before(t.rk)), t.pns)
    BY <1>5, <1>9
  <2>2. \A x \in T : x.mk.root = t.rk => x.from = p
    BY <1>2, <1>6
  <2>3. \A x \in From(T, p) : Before(t.rk) # x.mk.root
    BY <1>2, <1>5, <1>6, <1>8, <1>10
  <2> QED
    BY <1>2, <1>5, <2>1, <2>2, <2>3 DEF Sequel
<1>14. ASSUME NEW m \in S PROVE Sequel(T, m)
  <2>1. Sequel(S, m)
    BY DEF Sequels
  <2>2. \A x \in T : x.mk.root = m.mk.root => x.from = m.from
    BY <1>2, <1>5, <1>6, <2>1 DEF Sequel
  <2>3. \A x \in From(T, m.from) : Before(m.mk.root) # x.mk.root
    <3>1. m.from = p => Before(m.mk.root) # k.mk.root
      BY <1>2, <1>5, <1>6 DEF From
    <3> QED
      BY <1>10, <2>1, <3>1 DEF Sequel
  <2> QED
    BY <1>9, <2>1, <2>2, <2>3 DEF Sequel
<1>15. Sequels(T)
  BY <1>13, <1>14 DEF Sequels
<1> QED
  BY <1>2, <1>5, <1>11, <1>12, <1>15
----------------------------------------------------------------------------
(* What a decryption leaves.                                               *)

\* What a context has of its own is not touched by a message it reads.
Counts(s, w, m) ==
  /\ w.cks = s.cks /\ w.dhs = s.dhs /\ w.ns = s.ns /\ w.pns = s.pns /\ w.nr = m.np + 1

LEMMA AdvanceCounts ==
  ASSUME NEW s \in Conversation, NEW ck, NEW m, NEW root
  PROVE  LET a == Advance(s, ck, m)
         IN  /\ Counts(s, a, m)
             /\ Counts(s, [a EXCEPT !.rk = root, !.dhr = m.dhs, !.flag = TRUE], m)
<1>1. PICK h, n, a : h = Ahead(ck, 1) /\ n = m.np + 1 /\ a = Advance(s, ck, m)
  OBVIOUS
<1>2. a = [s EXCEPT !.ckr = h, !.nr = n, !.a0 = NoKey]
  BY <1>1 DEF Advance
<1>3. a.cks = s.cks /\ a.dhs = s.dhs /\ a.ns = s.ns /\ a.pns = s.pns /\ a.nr = n
  BY <1>2 DEF Conversation
<1>4. PICK w : w = [a EXCEPT !.rk = root, !.dhr = m.dhs, !.flag = TRUE]
  OBVIOUS
<1>5. "rk" \in DOMAIN a /\ "dhr" \in DOMAIN a /\ "flag" \in DOMAIN a
  BY <1>2 DEF Conversation
<1>6. w.cks = a.cks /\ w.dhs = a.dhs /\ w.ns = a.ns /\ w.pns = a.pns /\ w.nr = a.nr
  <2>1. DOMAIN a = DOMAIN s /\ {"cks", "dhs", "ns", "pns", "nr"} \subseteq DOMAIN s
    BY <1>2 DEF Conversation
  <2> QED
    BY <1>4, <2>1
<1> QED
  BY <1>1, <1>3, <1>4, <1>6 DEF Counts

\* A message in the receiving chain: what was skipped was sent before it.
LEMMA OldLinked ==
  ASSUME NEW S, NEW p \in Parties, NEW s \in Conversation, NEW m \in Message,
         m.from = Peer(p), Sequel(S, m), Linked(S, p, s), OldRatchet(s, m).ok
  PROVE  LET r == OldRatchet(s, m)
         IN  Linked(S, p, r.conv) /\ \A k \in r.new : SentKey(S, Peer(p), k.root, k.n)
<1> DEFINE i == m.np - s.nr
           ck == Ahead(s.ckr, i)
<1>1. PICK w, new, h : /\ w = OldRatchet(s, m).conv /\ new = OldRatchet(s, m).new
                       /\ h = s.ckr
  OBVIOUS
<1>2. StepsOn(s, w, m, new)
  BY <1>1, OldReads
<1>3. w = Advance(s, ck, m) /\ new = Skipped(h, i)
  BY <1>1 DEF OldRatchet, Outcome
<1>4. i \in Int /\ h \in ChainKey
  BY <1>1 DEF Message, Conversation
<1>5. new \subseteq ChainKey
  <2> HIDE DEF i
  <2> QED
    BY <1>3, <1>4, ChainTypes
<1> HIDE DEF ck, i
<1>6. Counts(s, w, m)
  BY <1>3, AdvanceCounts
<1>7. m.mk.n = m.np /\ SentUpTo(S, Peer(p), m.mk.root, m.np)
  BY DEF Sequel
<1>8. Linked(S, p, w)
  BY <1>2, <1>6, <1>7 DEF Linked, StepsOn, Counts, Sending
<1>9. ASSUME NEW k \in new PROVE SentKey(S, Peer(p), k.root, k.n)
  <2>1. k.n \in Nat /\ k.root = m.mk.root /\ k.n < m.np /\ m.np \in Nat
    BY <1>2, <1>5, <1>7, KeyRoots DEF StepsOn, Message
  <2>2. k.n \in 0 .. m.np - 1
    BY <2>1
  <2> QED
    BY <1>7, <2>1, <2>2 DEF SentUpTo
<1> QED
  BY <1>1, <1>8, <1>9

\* A message of a new chain: the one before ends where the message says, and it
\* is not the context that turned last.
LEMMA NewestLinked ==
  ASSUME NEW S, NEW A, A \subseteq Keys, NEW p \in Parties, NEW s \in Conversation,
         s.rk \in Seq(SUBSET A), s.dhs \in A \cup {NoKey},
         NEW m \in Message, m \in S, m.dhs \in A,
         m.from = Peer(p), Sequel(S, m), Linked(S, p, s), NewRatchet(s, m).ok
  PROVE  LET r == NewRatchet(s, m)
         IN  Linked(S, p, r.conv) /\ \A k \in r.new : SentKey(S, Peer(p), k.root, k.n)
<1> DEFINE root == Derive(s.rk, s.dhs, m.dhs)
           ck == Ahead(ChainOf(root), m.np)
           i == m.pnp - s.nr
           r == NewRatchet(s, m)
<1>1. PICK w, new, h, e : /\ w = r.conv /\ new = r.new /\ h = s.ckr /\ e = root
  OBVIOUS
<1>2. TurnsTo(s, w, m, new)
  BY <1>1, NewReads
<1>3. s.dhs # NoKey /\ s.rk # <<>>
  <2> SUFFICES ASSUME ~(s.dhs # NoKey /\ s.rk # <<>>) PROVE FALSE
    OBVIOUS
  <2>1. r = Outcome(FALSE, s, Skipped(s.ckr, i), {})
    BY DEF NewRatchet
  <2> QED
    BY <2>1 DEF Outcome
<1>4. /\ w = [Advance(s, ck, m) EXCEPT !.rk = root, !.dhr = m.dhs, !.flag = TRUE]
      /\ new = Skipped(h, i) \cup Skipped(ChainOf(root), m.np) /\ w.rk = m.mk.root
  BY <1>1, <1>2, <1>3 DEF NewRatchet, Outcome, TurnsTo
<1>5. Counts(s, w, m)
  <2> HIDE DEF ck, root
  <2> QED
    BY <1>4, AdvanceCounts
<1>6. "rk" \in DOMAIN Advance(s, ck, m)
  <2>1. PICK a, b : a = Ahead(ck, 1) /\ b = m.np + 1
    OBVIOUS
  <2>2. Advance(s, ck, m) = [s EXCEPT !.ckr = a, !.nr = b, !.a0 = NoKey]
    BY <2>1 DEF Advance
  <2> QED
    BY <2>2 DEF Conversation
<1>7. root = m.mk.root
  <2> HIDE DEF ck, root
  <2>1. PICK a : a = Advance(s, ck, m)
    OBVIOUS
  <2> QED
    BY <1>4, <1>6, <2>1
<1>8. Before(m.mk.root) = s.rk
  <2>1. Before(root) = s.rk
    BY <1>3, BeforeDerived
  <2> HIDE DEF root
  <2> QED
    BY <1>7, <2>1
<1>9. /\ h \in ChainKey /\ i \in Int /\ m.np \in Nat /\ m.pnp \in Nat /\ s.nr \in Nat
      /\ ChainOf(root) \in ChainKey /\ h.n = s.nr
  <2>1. m.mk.root \in Root
    BY DEF Message, ChainKey
  <2>2. ChainOf(root) \in ChainKey
    <3> HIDE DEF root
    <3> QED
      BY <1>7, <2>1, ChainTypes
  <2> QED
    BY <1>1, <2>2 DEF Message, Conversation, Linked
<1>10. new \subseteq ChainKey
  <2>1. PICK c, n, j : c = ChainOf(root) /\ n = m.np /\ j = i
    OBVIOUS
  <2>2. c \in ChainKey /\ n \in Int /\ j \in Int /\ new = Skipped(h, j) \cup Skipped(c, n)
    BY <1>4, <1>9, <2>1
  <2> QED
    BY <1>9, <2>2, ChainTypes
<1>11. /\ m.mk.n = m.np /\ SentUpTo(S, Peer(p), m.mk.root, m.np)
       /\ SentUpTo(S, Peer(p), Before(s.rk), m.pnp)
       /\ \A x \in From(S, Peer(p)) : s.rk # x.mk.root
  BY <1>8 DEF Sequel
<1>12. ~s.flag
  BY <1>3, <1>11 DEF Linked
<1>13. s.cks.root = s.rk /\ h.root = Before(s.rk)
  BY <1>1, <1>3, <1>12 DEF Linked
<1>14. \A k \in Skipped(h, i) : k.root = h.root /\ k.n < m.pnp
  <2>1. PICK n : n = i
    OBVIOUS
  <2>2. n \in Int
    BY <1>9, <2>1
  <2> HIDE DEF i
  <2>3. /\ Ahead(h, n).n = h.n + (IF n > 0 THEN n ELSE 0)
        /\ \A k \in Skipped(h, n) : k.root = h.root /\ k.n >= h.n /\ k.n < Ahead(h, n).n
    BY <1>9, <2>2, AheadIs
  <2>4. ASSUME NEW k \in Skipped(h, n) PROVE k.n < m.pnp
    <3>1. n > 0 /\ k.n \in Int
      <4>1. k \in ChainKey
        BY <1>9, <2>2, ChainTypes
      <4>2. k.n \in Nat /\ h.n \in Nat
        BY <1>9, <4>1, KeyRoots
      <4> QED
        BY <2>2, <2>3, <4>2
    <3>2. Ahead(h, n).n = h.n + n /\ k.n < Ahead(h, n).n
      BY <2>3, <3>1
    <3>3. n = m.pnp - s.nr
      BY <2>1 DEF i
    <3> QED
      BY <1>9, <3>1, <3>2, <3>3
  <2> QED
    BY <2>1, <2>3, <2>4
<1>15. Linked(S, p, w)
  <2>1. \E x \in From(S, Peer(p)) : x.mk.root = w.rk
    BY <1>4 DEF From
  <2> HIDE DEF ck, root, r, i
  <2>2. w.rk = m.mk.root /\ w.flag /\ w.ckr.root = w.rk /\ w.ckr.n = m.mk.n + 1
    BY <1>2 DEF TurnsTo
  <2>3. s.cks.n = s.ns /\ SentUpTo(S, p, s.cks.root, s.ns)
    BY DEF Linked
  <2> QED
    BY <1>5, <1>8, <1>11, <1>13, <2>1, <2>2, <2>3 DEF Linked, Counts, Sending
<1>16. ASSUME NEW k \in new PROVE SentKey(S, Peer(p), k.root, k.n)
  <2>1. k.n \in Nat
    BY <1>10, KeyRoots
  <2>2. CASE k \in Skipped(h, i)
    <3>1. k.root = Before(s.rk) /\ k.n \in 0 .. m.pnp - 1
      <4>1. k.n < m.pnp /\ k.root = h.root
        BY <1>14, <2>2
      <4> QED
        BY <1>9, <1>13, <2>1, <4>1
    <3> QED
      BY <1>11, <3>1 DEF SentUpTo
  <2>3. CASE k \in Skipped(ChainOf(root), m.np)
    <3>1. PICK c, n : c = ChainOf(root) /\ n = m.np
      OBVIOUS
    <3>2. c \in ChainKey /\ n \in Int /\ c.root = m.mk.root /\ c.n = 0 /\ n >= 0
      <4> HIDE DEF root
      <4> QED
        BY <1>7, <1>9, <3>1 DEF ChainOf
    <3>3. k \in Skipped(c, n)
      BY <2>3, <3>1
    <3>4. k.root = c.root /\ k.n < Ahead(c, n).n
          /\ Ahead(c, n).n = c.n + (IF n > 0 THEN n ELSE 0)
      BY <3>2, <3>3, AheadIs
    <3>5. k.root = m.mk.root /\ k.n \in 0 .. m.np - 1
      BY <2>1, <3>1, <3>2, <3>4
    <3> QED
      BY <1>11, <3>5 DEF SentUpTo
  <2> QED
    BY <1>4, <2>2, <2>3
<1> QED
  BY <1>1, <1>15, <1>16

LEMMA SetupLinked ==
  ASSUME KeyInv, NEW p \in Parties, NEW m \in sent, m.from # p, NEW x \in Contexts(p),
         NEW S, Linked(S, p, conv[p][x])
  PROVE  Linked(S, p, SetupConv(p, conv[p][x], m))
<1> DEFINE v == conv[p][x]
           s == SetupConv(p, v, m)
<1>1. v \in Conversation
  BY ContextIs
<1>2. CASE HasPreKey(p, m)
  <2>1. PICK rk, h, e : rk = SetupRoot(m) /\ h = ChainOf(rk) /\ e = Reset(v)
    OBVIOUS
  <2>2. s = [e EXCEPT !.rk = rk, !.dhs = m.preKey, !.cks = h, !.ctx = m.ctx, !.known = TRUE]
    BY <1>2, <2>1 DEF SetupConv, BobConv, SetupRoot
  <2>3. e \in Conversation /\ ~e.flag /\ e.ckr = NoChain
    BY <1>1, <2>1, ResetIs
  <2>4. e.ns = 0 /\ e.nr = 0 /\ e.pns = 0
    BY <2>1 DEF Reset, EmptyConv
  <2> HIDE DEF s, v
  <2>5. /\ s.rk = rk /\ s.cks = h /\ s.ckr = NoChain /\ ~s.flag
        /\ s.ns = 0 /\ s.nr = 0 /\ s.pns = 0
    BY <2>2, <2>3, <2>4 DEF Conversation
  <2>6. h.root = rk /\ h.n = 0 /\ NoChain.root = <<>> /\ NoChain.n = 0
    BY <2>1 DEF ChainOf, NoChain
  <2>7. Before(rk) = <<>>
    <3>1. m.a0 \in Born /\ m.preKey \in Born /\ <<>> \in Seq(SUBSET Born)
      BY <1>2, BobIs
    <3>2. PICK a, b, z : a = m.a0 /\ b = m.preKey /\ z = <<>>
      OBVIOUS
    <3>3. a \in Born /\ b \in Born /\ z \in Seq(SUBSET Born)
      BY <3>1, <3>2
    <3>4. Before(Derive(z, a, b)) = z
      BY <3>3, BeforeDerived
    <3> QED
      BY <2>1, <3>2, <3>4 DEF SetupRoot
  <2>8. Linked(S, p, s)
    BY <2>5, <2>6, <2>7, NewLinked
  <2> QED
    BY <2>8 DEF s, v
<1>3. CASE ~HasPreKey(p, m)
  <2>1. s = v \/ s = [v EXCEPT !.ctx = m.ctx]
    BY <1>3 DEF SetupConv
  <2>2. Linked(S, p, v)
    OBVIOUS
  <2> HIDE DEF s, v
  <2>3. SameChains(v, s)
    BY <1>1, <2>1 DEF SameChains, Conversation
  <2>4. Linked(S, p, s)
    BY <2>2, <2>3, SameLinked
  <2> QED
    BY <2>4 DEF s, v
<1> QED
  BY <1>2, <1>3

\* The context that reads, and what it stages.
LEMMA ReaderLinked ==
  ASSUME ForgetInv, OweInv, NEW p \in Parties, NEW m \in sent, m.from # p,
         NEW x \in Contexts(p), DecryptInternal(p, x, m).ok
  PROVE  LET r == DecryptInternal(p, x, m)
         IN  /\ Linked(sent, p, r.conv)
             /\ \A k \in r.new : SentKey(sent, Peer(p), k.root, k.n)
             /\ Alone(sent, p, conv[p][x]) => Alone(sent, p, r.conv)
<1> DEFINE v == conv[p][x]
           s == SetupConv(p, v, m)
           r == DecryptInternal(p, x, m)
<1>1. KeyInv
  BY DEF ForgetInv
<1>2. /\ m \in Message /\ m.dhs \in Born /\ Born \subseteq Keys /\ m.from = Peer(p)
  BY <1>1, MessageRoots, BornFacts, PeerFacts
<1>3. Linked(sent, p, v) /\ Sequel(sent, m)
  BY DEF OweInv
<1>4. s \in Conversation /\ s.rk \in Seq(SUBSET Born) /\ s.dhs \in Born \cup {NoKey}
  BY <1>1, SetupConvIs DEF ContextOK
<1>5. Linked(sent, p, s)
  BY <1>1, <1>3, SetupLinked
<1>6. ~Refused(p, v, m)
  BY DEF DecryptInternal, Outcome
<1>7. Linked(sent, p, r.conv) /\ \A k \in r.new : SentKey(sent, Peer(p), k.root, k.n)
  <2>1. CASE m.mk \in staged[p][x]
    <3>1. r = Outcome(TRUE, s, {}, {m.mk})
      BY <1>6, <2>1 DEF DecryptInternal
    <3> HIDE DEF s
    <3>2. r.conv = s /\ r.new = {}
      BY <3>1 DEF Outcome
    <3> QED
      BY <1>5, <3>2
  <2>2. CASE m.mk \notin staged[p][x] /\ m.dhs = s.dhr
    <3>1. r = OldRatchet(s, m)
      BY <1>6, <2>2 DEF DecryptInternal
    <3> HIDE DEF s, r
    <3>2. OldRatchet(s, m).ok
      BY <3>1 DEF r
    <3>3. /\ Linked(sent, p, OldRatchet(s, m).conv)
          /\ \A k \in OldRatchet(s, m).new : SentKey(sent, Peer(p), k.root, k.n)
      BY <1>2, <1>3, <1>4, <1>5, <3>2, OldLinked
    <3> QED
      BY <3>1, <3>3
  <2>3. CASE m.mk \notin staged[p][x] /\ m.dhs # s.dhr
    <3>1. r = NewRatchet(s, m)
      BY <1>6, <2>3 DEF DecryptInternal
    <3> HIDE DEF s, r
    <3>2. NewRatchet(s, m).ok
      BY <3>1 DEF r
    <3>3. /\ Linked(sent, p, NewRatchet(s, m).conv)
          /\ \A k \in NewRatchet(s, m).new : SentKey(sent, Peer(p), k.root, k.n)
      BY <1>2, <1>3, <1>4, <1>5, <3>2, NewestLinked
    <3> QED
      BY <3>1, <3>3
  <2> QED
    BY <2>1, <2>2, <2>3
<1>8. (r.conv.rk = v.rk /\ r.conv.flag = v.flag) \/ (r.conv.flag /\ r.conv.rk = m.mk.root)
  <2>1. PICK w, new : w = r.conv /\ new = r.new
    OBVIOUS
  <2>2. \/ Alters(v, w) \/ StepsOn(v, w, m, new) \/ TurnsTo(v, w, m, new)
        \/ Answers(p, w, m, new)
    BY <2>1, ReadAs
  <2> HIDE DEF r, v
  <2>3. (w.rk = v.rk /\ w.flag = v.flag) \/ (w.flag /\ w.rk = m.mk.root)
    BY <2>2 DEF Alters, StepsOn, TurnsTo, Answers
  <2> QED
    BY <2>1, <2>3
<1>9. \A y \in From(sent, p) : y.mk.root # m.mk.root
  BY <1>2, <1>3, PeerFacts DEF Sequel, From
<1> HIDE DEF r, v
<1>10. Alone(sent, p, v) => Alone(sent, p, r.conv)
  BY <1>8, <1>9 DEF Alone, Sending
<1> QED
  BY <1>7, <1>10 DEF r, v

----------------------------------------------------------------------------
(* The steps.                                                              *)

\* One context changes at most, and what is staged is of messages sent.
LEMMA OwesStep ==
  ASSUME KeyInv, OweInv, NEW p \in Parties, NEW x \in Contexts(p), NEW w,
         conv' = [conv EXCEPT ![p][x] = w] \/ (conv' = conv /\ w = conv[p][x]),
         NEW T, T = sent', sent \subseteq T, Linked(T, p, w),
         x = Primary => Alone(T, p, w),
         \A q \in Parties : q # p \/ x # Primary => Alone(T, q, conv[q][Primary]),
         \A q \in Parties : \A c \in Contexts(q) : \A k \in staged'[q][c] :
            k \in staged[q][c] \/ SentKey(T, Peer(q), k.root, k.n),
         Sequels(T)
  PROVE  OweInv'
<1>1. ASSUME NEW q \in Parties, NEW c \in Contexts(q)
      PROVE  conv'[q][c] = IF q = p /\ c = x THEN w ELSE conv[q][c]
  <2>1. DOMAIN conv = Parties /\ DOMAIN conv[p] = Contexts(p)
    BY DEF KeyInv, TypeOK
  <2>2. \/ conv'[q] = conv[q] /\ (q = p => w = conv[p][x])
        \/ q = p /\ conv'[q] = [conv[p] EXCEPT ![x] = w]
    BY <2>1
  <2> QED
    BY <2>1, <2>2
<1>2. /\ \A q, v : Linked(sent, q, v) => Linked(T, q, v)
      /\ \A q, r, n : SentKey(sent, q, r, n) => SentKey(T, q, r, n)
  BY MoreSent
<1>3. ASSUME NEW q \in Parties, NEW v, v = conv'[q][Primary] PROVE Alone(T, q, v)
  BY <1>1, <1>3, Names
<1>4. ASSUME NEW q \in Parties, NEW c \in Contexts(q), NEW v, v = conv'[q][c]
      PROVE  Linked(T, q, v)
  <2>1. Linked(sent, q, conv[q][c])
    BY DEF OweInv
  <2> QED
    BY <1>1, <1>2, <1>4, <2>1
<1>5. ASSUME NEW q \in Parties, NEW c \in Contexts(q), NEW k \in staged'[q][c]
      PROVE  SentKey(T, Peer(q), k.root, k.n)
  <2>1. k \in staged[q][c] => SentKey(sent, Peer(q), k.root, k.n)
    BY DEF OweInv
  <2> QED
    BY <1>2, <2>1
<1>6. OweInv' = (/\ \A q \in Parties :
                      /\ Alone(T, q, conv'[q][Primary])
                      /\ \A c \in Contexts(q) : Linked(T, q, conv'[q][c])
                      /\ \A c \in Contexts(q) : \A k \in staged'[q][c] :
                           SentKey(T, Peer(q), k.root, k.n)
                 /\ Sequels(T))
  BY DEF OweInv, Sequels
<1> QED
  BY <1>3, <1>4, <1>5, <1>6

\* Nothing is sent.
LEMMA QuietOwes ==
  ASSUME KeyInv, OweInv, NEW p \in Parties, NEW x \in Contexts(p), NEW w,
         conv' = [conv EXCEPT ![p][x] = w] \/ (conv' = conv /\ w = conv[p][x]),
         sent' = sent, Linked(sent, p, w), x = Primary => Alone(sent, p, w),
         \A q \in Parties : \A c \in Contexts(q) : \A k \in staged'[q][c] :
            k \in staged[q][c] \/ SentKey(sent, Peer(q), k.root, k.n)
  PROVE  OweInv'
<1>1. \A q \in Parties : Alone(sent, q, conv[q][Primary])
  BY DEF OweInv
<1>2. Sequels(sent)
  BY DEF OweInv, Sequels
<1> QED
  BY <1>1, <1>2, OwesStep

LEMMA SetUpOwes ==
  ASSUME KeyInv, OweInv, NEW p \in Parties, SetUp(p)
  PROVE  OweInv'
<1> DEFINE q == Peer(p)
           e == Reset(conv[p][Primary])
           z == Derive(<<>>, <<p, lastKey[p] + 1>>, PreKeyOf(q, handedOut[q] + 1))
<1>0. PICK a0, b0, rk, n, h : /\ a0 = <<p, lastKey[p] + 1>> /\ b0 = PreKeyOf(q, handedOut[q] + 1)
                              /\ rk = z /\ n = Len(setups) + 1 /\ h = ChainOf(rk)
  OBVIOUS
<1> DEFINE w == [e EXCEPT !.rk = rk, !.dhr = b0, !.a0 = a0, !.preKey = b0,
                          !.ckr = h, !.flag = TRUE, !.ctx = n, !.known = TRUE]
<1>1. /\ conv' = [conv EXCEPT ![p][Primary] = w]
      /\ sent' = sent /\ staged' = staged
  BY <1>0 DEF SetUp
<1>2. Primary \in Contexts(p) /\ q \in Parties
  BY Names, PeerFacts
<1>3. conv[p][Primary] \in Conversation
  BY <1>2, ContextIs
<1>4. e \in Conversation /\ e.cks = NoChain /\ e.dhs = NoKey
  BY <1>3, ResetIs
<1>5. e.ns = 0 /\ e.nr = 0 /\ e.pns = 0
  BY DEF Reset, EmptyConv
<1>6. a0 \in Keys /\ b0 \in Keys /\ a0 \notin Born
  <2>1. handedOut[q] \in Nat
    BY <1>2 DEF KeyInv, TypeOK
  <2>2. b0 \in Keys
    BY <1>0, <1>2, <2>1 DEF Keys, PreKeyOf
  <2>3. a0 \in Keys /\ a0 \notin Born
    BY <1>0, BornFacts
  <2> QED
    BY <2>2, <2>3
<1>7. Before(rk) = <<>>
  <2>1. PICK y : y = <<>>
    OBVIOUS
  <2>2. y \in Seq(SUBSET Keys)
    BY <2>1
  <2>3. Before(Derive(y, a0, b0)) = y
    BY <1>6, <2>2, BeforeDerived
  <2> QED
    BY <1>0, <2>1, <2>3
<1> HIDE DEF e
<1>8. /\ w.rk = rk /\ w.flag /\ w.dhs = NoKey /\ w.cks = NoChain /\ w.ckr = h
      /\ w.ns = 0 /\ w.nr = 0 /\ w.pns = 0
  BY <1>4, <1>5 DEF Conversation
<1> HIDE DEF w
<1>9. h.root = rk /\ h.n = 0 /\ NoChain.root = <<>> /\ NoChain.n = 0
  BY <1>0 DEF ChainOf, NoChain
<1>10. Linked(sent, p, w)
  BY <1>7, <1>8, <1>9, NewLinked
<1>11. Alone(sent, p, w)
  <2>1. ASSUME NEW m \in sent PROVE m.mk.root # rk
    <3>1. m.mk.root \in Seq(SUBSET Born)
      BY MessageRoots
    <3>2. PICK y : y = <<>>
      OBVIOUS
    <3>3. y \in Seq(SUBSET Keys)
      BY <3>2
    <3>4. m.mk.root # Derive(y, a0, b0)
      BY <1>6, <3>1, <3>3, FreshRoot
    <3> QED
      BY <1>0, <3>2, <3>4
  <2> QED
    BY <1>8, <2>1 DEF Alone, Sending, From
<1> QED
  BY <1>1, <1>2, <1>10, <1>11, QuietOwes

\* A message goes out; the context may keep what it was before.
LEMMA SendOwes ==
  ASSUME KeyInv, OweInv, NEW p \in Parties, Send(p) \/ SendNotStored(p)
  PROVE  OweInv'
<1> DEFINE z == Turn(conv[p][Primary], <<p, lastKey[p] + 1>>)
<1>1. PICK c, new, t, k, w, T : /\ c = conv[p][Primary] /\ new = <<p, lastKey[p] + 1>>
                                /\ t = z /\ k = Wire(p, z) /\ w = Used(z) /\ T = sent'
  OBVIOUS
<1>2. /\ c.rk # <<>> /\ T = sent \cup {k} /\ staged' = staged
      /\ conv' = [conv EXCEPT ![p][Primary] = w] \/ conv' = conv
  BY <1>1 DEF Send, SendNotStored
<1>3. t = Turn(c, new) /\ k = Wire(p, t) /\ w = Used(t)
  BY <1>1
<1> HIDE DEF z
<1>4. /\ Primary \in Contexts(p) /\ Peer(p) \in Parties /\ Peer(p) # p
      /\ \A q \in Parties : q = p \/ q = Peer(p)
  BY Names, PeerFacts
<1>5. c \in Conversation /\ c.rk \in Seq(SUBSET Born) /\ (c.flag => c.dhr \in Born)
  BY <1>1, <1>4, ContextIs DEF ContextOK
<1>6. new \in Keys /\ new \notin Born /\ Born \subseteq Keys
  BY <1>1, BornFacts
<1>7. Linked(sent, p, c) /\ Alone(sent, p, c) /\ Sequels(sent)
  BY <1>1, <1>4 DEF OweInv, Sequels
<1>8. Rooted(sent, Born)
  BY MessageRoots DEF Rooted
<1>9. /\ Linked(sent, p, t) /\ Alone(sent, p, t) /\ Sending(t)
      /\ t \in Conversation /\ t.rk \in Seq(SUBSET Keys)
      /\ c.flag => t.rk \notin Seq(SUBSET Born) /\ Before(t.rk) = c.rk
      /\ ~c.flag => t = c
  BY <1>2, <1>3, <1>5, <1>6, <1>7, <1>8, TurnLinked
<1>10. /\ Linked(T, p, w) /\ Alone(T, p, w) /\ k.from = p /\ k.mk.root = t.rk
       /\ Sequels(T)
  BY <1>2, <1>3, <1>7, <1>9, UsedLinked
<1>11. w.rk = t.rk /\ w.flag = t.flag
  BY <1>3, <1>9, UsedIs
<1>12. Linked(T, p, c)
  BY <1>2, <1>7, MoreSent
<1>13. Alone(T, p, c)
  <2>1. CASE c.flag
    <3>1. t.rk # c.rk
      <4>1. t.rk # <<>>
        BY <1>9 DEF Sending
      <4> QED
        BY <1>9, <2>1, <4>1, BeforeIs
    <3> QED
      BY <1>2, <1>7, <1>10, <2>1, <3>1 DEF Alone, Sending, From
  <2>2. CASE ~c.flag
    <3>1. w.rk = c.rk /\ ~w.flag
      BY <1>9, <1>11, <2>2
    <3> QED
      BY <1>10, <2>2, <3>1 DEF Alone, Sending
  <2> QED
    BY <2>1, <2>2
<1>14. ASSUME NEW d, d = conv[Peer(p)][Primary] PROVE Alone(T, Peer(p), d)
  <2>1. Primary \in Contexts(Peer(p)) /\ d.rk \in Seq(SUBSET Born)
    BY <1>4, <1>14, Names, ContextIs DEF ContextOK
  <2>2. Linked(sent, Peer(p), d) /\ Alone(sent, Peer(p), d)
    BY <1>4, <1>14, <2>1 DEF OweInv
  <2>3. Sending(d) => d.rk # t.rk
    <3>1. CASE c.flag
      BY <1>9, <2>1, <3>1
    <3>2. CASE ~c.flag
      <4>1. Sending(c) /\ t.rk = c.rk /\ c.cks.root = c.rk
        BY <1>2, <1>7, <1>9, <3>2 DEF Sending, Linked
      <4>2. Sending(d) => d.cks.root = d.rk
        BY <2>2 DEF Sending, Linked
      <4>3. Sending(d) => d.cks.root # c.cks.root
        BY <1>1, <1>14, <4>1 DEF KeyInv, ChainOK
      <4> QED
        BY <4>1, <4>2, <4>3
    <3> QED
      BY <3>1, <3>2
  <2>4. From(T, Peer(p)) = From(sent, Peer(p))
    BY <1>2, <1>4, <1>10 DEF From
  <2> QED
    BY <1>2, <1>10, <2>2, <2>3, <2>4 DEF Alone
<1>15. \A q \in Parties : q # p \/ Primary # Primary => Alone(T, q, conv[q][Primary])
  BY <1>4, <1>14
<1>16. T = sent' /\ sent \subseteq T
  BY <1>1, <1>2
<1>17. CASE conv' = [conv EXCEPT ![p][Primary] = w]
  BY <1>2, <1>4, <1>10, <1>15, <1>16, <1>17, OwesStep
<1>18. CASE conv' = conv
  BY <1>1, <1>2, <1>4, <1>10, <1>12, <1>13, <1>15, <1>16, <1>18, OwesStep
<1> QED
  BY <1>2, <1>17, <1>18

LEMMA ReceiveOwes ==
  ASSUME ForgetInv, OweInv, NEW p \in Parties, NEW m \in sent, Receive(p, m)
  PROVE  OweInv'
<1>0. PICK x \in Readers(p, m) : \E r :
         /\ r = DecryptInternal(p, x, m) /\ x \in Contexts(p)
         /\ conv' = [conv EXCEPT ![p][x] = r.conv]
         /\ staged' = [staged EXCEPT
                         ![p] = [y \in Contexts(p) |->
                             IF y = x THEN (staged[p][y] \ r.out) \cup r.new
                             ELSE staged[p][y]]]
  BY Received
<1>1. PICK r :
         /\ r = DecryptInternal(p, x, m) /\ x \in Contexts(p)
         /\ conv' = [conv EXCEPT ![p][x] = r.conv]
         /\ staged' = [staged EXCEPT
                         ![p] = [y \in Contexts(p) |->
                             IF y = x THEN (staged[p][y] \ r.out) \cup r.new
                             ELSE staged[p][y]]]
  BY <1>0
<1>2. m.from # p /\ sent' = sent /\ KeyInv
  BY DEF Receive, Arrives, ForgetInv
<1>3. DecryptInternal(p, x, m).ok
  BY <1>2, OneReader
<1>4. /\ Linked(sent, p, r.conv)
      /\ \A k \in r.new : SentKey(sent, Peer(p), k.root, k.n)
      /\ Alone(sent, p, conv[p][x]) => Alone(sent, p, r.conv)
  <2>1. /\ Linked(sent, p, DecryptInternal(p, x, m).conv)
        /\ \A k \in DecryptInternal(p, x, m).new : SentKey(sent, Peer(p), k.root, k.n)
        /\ Alone(sent, p, conv[p][x]) => Alone(sent, p, DecryptInternal(p, x, m).conv)
    BY <1>1, <1>2, <1>3, ReaderLinked
  <2> QED
    BY <1>1, <2>1
<1>5. x = Primary => Alone(sent, p, r.conv)
  BY <1>4 DEF OweInv
<1>6. \A q \in Parties : \A c \in Contexts(q) : \A k \in staged'[q][c] :
         k \in staged[q][c] \/ SentKey(sent, Peer(q), k.root, k.n)
  <2>1. DOMAIN staged = Parties
    BY <1>2 DEF KeyInv, TypeOK
  <2>2. ASSUME NEW q \in Parties, NEW c \in Contexts(q), NEW k \in staged'[q][c]
        PROVE  k \in staged[q][c] \/ (q = p /\ k \in r.new)
    BY <1>1, <2>1
  <2> QED
    BY <1>4, <2>2
<1> QED
  BY <1>1, <1>2, <1>4, <1>5, <1>6, QuietOwes

LEMMA NextOwes == Forgetting /\ OweInv /\ [Next]_vars => OweInv'
<1> SUFFICES ASSUME ForgetInv, OweInv, [Next]_vars PROVE OweInv'
  BY DEF Forgetting
<1>1. KeyInv /\ \A p \in Parties : Primary \in Contexts(p)
  BY Names DEF ForgetInv
<1>2. ASSUME NEW p \in Parties, ReKey(p) PROVE OweInv'
  <2>1. PICK w : w = Reset(conv[p][Primary])
    OBVIOUS
  <2>2. /\ conv' = [conv EXCEPT ![p][Primary] = w] /\ sent' = sent /\ staged' = staged
    BY <1>2, <2>1 DEF ReKey
  <2>3. w.rk = <<>> /\ w.cks = NoChain /\ w.ckr = NoChain /\ ~w.flag
    BY <1>1, <2>1, ContextIs, ResetIs
  <2>4. w.ns = 0 /\ w.nr = 0 /\ w.pns = 0 /\ NoChain.n = 0
    BY <2>1 DEF Reset, EmptyConv, NoChain, ChainOf
  <2>5. Linked(sent, p, w)
    BY <2>3, <2>4, NewLinked
  <2>6. Alone(sent, p, w)
    BY <2>3 DEF Alone, Sending
  <2> QED
    BY <1>1, <2>2, <2>5, <2>6, QuietOwes
<1>3. ASSUME NEW p \in Parties, NEW m \in sent, Reject(p, m) \/ ReceiveNotStored(p, m)
      PROVE  OweInv'
  <2>1. PICK w : w = conv[p][Primary]
    OBVIOUS
  <2>2. conv' = conv /\ sent' = sent /\ DOMAIN staged = Parties
    BY <1>1, <1>3 DEF Reject, ReceiveNotStored, KeyInv, TypeOK
  <2>3. \A q \in Parties : \A c \in Contexts(q) : staged'[q][c] \subseteq staged[q][c]
    <3>1. CASE Reject(p, m)
      BY <3>1 DEF Reject
    <3>2. CASE ReceiveNotStored(p, m)
      <4>1. PICK x \in Readers(p, m) : \E out :
               staged' = [staged EXCEPT ![p][x] = @ \ out]
        BY <3>2 DEF ReceiveNotStored
      <4>2. DOMAIN staged[p] = Contexts(p)
        BY <1>1 DEF KeyInv, TypeOK
      <4> QED
        BY <2>2, <4>1, <4>2
    <3> QED
      BY <1>3, <3>1, <3>2
  <2>4. Linked(sent, p, w) /\ Alone(sent, p, w)
    BY <1>1, <2>1 DEF OweInv
  <2> QED
    BY <1>1, <2>1, <2>2, <2>3, <2>4, QuietOwes
<1>4. CASE UNCHANGED vars
  BY <1>4 DEF vars, OweInv
<1> QED
  BY <1>1, <1>2, <1>3, <1>4, SetUpOwes, SendOwes, ReceiveOwes DEF Next

LEMMA AlwaysOwes == Spec => []OweInv
<1>1. Init => OweInv
  <2> SUFFICES ASSUME Init PROVE OweInv
    OBVIOUS
  <2>1. PICK e : e = EmptyConv
    OBVIOUS
  <2>2. /\ \A p \in Parties : \A c \in Contexts(p) : conv[p][c] = e /\ staged[p][c] = {}
        /\ sent = {}
    BY <2>1 DEF Init
  <2>3. /\ e.rk = <<>> /\ ~e.flag /\ e.cks.n = 0 /\ e.ckr.n = 0
        /\ e.ns = 0 /\ e.nr = 0 /\ e.pns = 0
    BY <2>1 DEF EmptyConv, NoChain, ChainOf
  <2>4. \A p : Linked({}, p, e)
    BY <2>3, NewLinked
  <2>5. \A p : Alone({}, p, e)
    BY <2>3 DEF Alone, Sending
  <2> QED
    BY <2>2, <2>4, <2>5, Names DEF OweInv
<1> QED
  BY <1>1, AlwaysForgets, NextOwes, PTL DEF Spec

\* In spite of messages that are lost, late or come again, of re-keying and of
\* contexts that are not stored, a key a party keeps for later is the key of a
\* message the peer sent and the party has not read: none is staged for a message
\* that does not exist, or stays when its message was read.
THEOREM StagedOwed == Spec => []StagedIsOwed
<1>1. Forgetting /\ OweInv => StagedIsOwed
  <2> SUFFICES ASSUME ForgetInv, OweInv, NEW p \in Parties, NEW c \in Contexts(p),
                      NEW k \in staged[p][c]
               PROVE  \E m \in sent : m.mk = k /\ m.from # p /\ m \notin got[p]
    BY DEF Forgetting, StagedIsOwed
  <2>1. PICK m \in From(sent, Peer(p)) : m.mk = [root |-> k.root, n |-> k.n]
    BY DEF OweInv, SentKey
  <2>2. m \in sent /\ m.from = Peer(p) /\ Peer(p) # p
    BY <2>1, PeerFacts DEF From
  <2>3. k \in ChainKey
    BY DEF ForgetInv, KeyInv, TypeOK
  <2>4. m.mk = k
    BY <2>1, <2>3 DEF ChainKey
  <2>5. m \notin got[p]
    BY <2>4 DEF ForgetInv, ReadOK
  <2> QED
    BY <2>2, <2>4, <2>5
<1> QED
  BY <1>1, AlwaysForgets, AlwaysOwes, PTL
=============================================================================
