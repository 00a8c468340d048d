---------------------- MODULE ZinaRatchetRead_proofs ----------------------
(* Unread messages of ZinaRatchet can be read: theorem UnreadReadable, for *)
(* any number of setups, re-keyings and messages.                          *)
EXTENDS ZinaRatchet_proofs

USE ConstantsAssumption

----------------------------------------------------------------------------
(* An inductive invariant for UnreadIsReadable.  As long as no context was *)
(* lost, the contexts of two parties in a session follow each other, and a *)
(* message is read, staged or ahead of its reader.                         *)

\* The context v is in the session of the setup s.
InSession(v, s) == v.rk # <<>> /\ v.rk[1] = s

\* What a party wrote in its session is in chains before the one at hand, or
\* behind in that one; a chain has one ratchet key, and its end is counted.
WritesOK(p) ==
    LET v == conv[p][Primary]
    IN  \A x \in SentBy(p) :
          /\ x.id <= Cardinality(SentBy(p))
          /\ x.mk.root = v.cks.root => x.mk.n < v.ns
          /\ InSession(v, x.mk.root[1]) =>
               Len(x.mk.root) < Len(v.rk) \/ (Sending(v) /\ x.mk.root = v.rk)
          /\ Sending(v) /\ x.mk.root = v.rk => x.dhs = v.dhs
          /\ Sending(v) /\ x.mk.root = Before(Before(v.rk)) => x.mk.n < v.pns
WrittenOK(m) ==
    \A x \in SentBy(m.from) :
        /\ x.mk.root = m.mk.root => x.dhs = m.dhs
        /\ x.mk.root[1] = m.mk.root[1] /\ Len(x.mk.root) = Len(m.mk.root)
             => x.mk.root = m.mk.root
        /\ x.mk.root = Before(Before(m.mk.root)) => x.mk.n < m.pnp
        /\ IsSetup(m) \/ m.preKey = NoKey
\* The message before the next one in the chain a context receives was sent.
HeardOK(p) ==
    \A c \in Contexts(p) :
        LET v == conv[p][c]
        IN  v.ckr.n > 0 => SentKey(sent, Peer(p), v.ckr.root, v.ckr.n - 1)

\* What a party knows of the setups; without re-keying it makes one.
KnownOK(p) ==
    LET v == conv[p][Primary]
    IN  /\ Len(setups) = handedOut[p] + handedOut[Peer(p)] /\ handedOut[p] <= MaxSetups
        /\ \A c \in Contexts(p) : /\ conv[p][c].ctx <= Len(setups)
                                  /\ conv[p][c].rk # <<>> => conv[p][c].known
        /\ \A n \in 1 .. MaxSetups : n > handedOut[p] => PreKeyOf(p, n) \in preKeys[p]
        /\ handedOut[Peer(p)] > 0 => v.known
        /\ reKeys = 0 => handedOut[p] <= 1 /\ (v.known => v.rk # <<>>)

\* Setups have nothing in common and one pre-key each, which is handed out.
ApartOK ==
    /\ \A p \in Parties : KnownOK(p)
    /\ \A i \in DOMAIN setups :
         /\ setups[i] \subseteq Born
         /\ \A q \in Parties : \A n \in 1 .. MaxSetups : PreKeyOf(q, n) \in setups[i] =>
              /\ n <= handedOut[q]
              /\ \A k \in setups[i] : k[2] <= MaxSetups => k = PreKeyOf(q, n)
         /\ \A j \in DOMAIN setups \ {i} : setups[i] \cap setups[j] = {}

\* In order, all messages before one that was read were read.
OrderOK ==
    ordered => \A p \in Parties : \A m \in got[p] : \A x \in SentBy(m.from) :
                   x.id < m.id => x \in got[p]

\* The contexts x and y of a session: y has the chain x sends in, and nobody has
\* turned the ratchet since; or y has, and x does not know.
Follows(x, y) == Sending(x) /\ y.flag /\ y.rk = x.rk /\ y.dhr = x.dhs
Crossed(x, y) ==
    /\ Sending(x) /\ Sending(y) /\ y.rk = Derive(x.rk, x.dhs, y.dhs)
    /\ y.dhr = x.dhs /\ y.dhs # x.dhr
Joined(x, y)  == Follows(x, y) \/ Follows(y, x) \/ Crossed(x, y) \/ Crossed(y, x)

\* The reader has read the message, has its key, or comes to it in the chain it
\* receives or in the next one; or it opens the session.
InChain(v, m)   == m.mk.root = v.ckr.root /\ m.mk.n >= v.ckr.n /\ m.dhs = v.dhr
NextChain(v, m) ==
    Sending(v) /\ m.dhs # v.dhr /\ m.mk.root = Derive(v.rk, v.dhs, m.dhs)
Expects(p, c, m) ==
    \/ m \in got[p] \/ m.mk \in staged[p][c]
    \/ InChain(conv[p][c], m) \/ NextChain(conv[p][c], m)
Opening(p, m) ==
    HasPreKey(p, m) /\ m.mk.root = Derive(Derive(<<>>, m.a0, m.preKey), m.preKey, m.dhs)

\* Who made a setup and has no answer.
Calling(p) ==
    LET w == conv[p][Primary]
        r == Derive(<<>>, w.a0, w.preKey)
    IN  /\ w.a0 # NoKey /\ w.dhr = w.preKey
        /\ \/ w.flag /\ w.dhs = NoKey /\ w.rk = r
           \/ Sending(w) /\ w.rk = Derive(r, w.preKey, w.dhs)
        /\ \A m \in sent : m.mk.root[1] = {w.a0, w.preKey} =>
             /\ m.from = p /\ m.a0 = w.a0 /\ m.preKey = w.preKey
             /\ m.mk.root = w.rk /\ m.dhs = w.dhs /\ m.ctx = w.ctx

\* One party, a, makes all setups.  Its peer has read no message of the newest one.
Uncalled(a) ==
    LET v == conv[Peer(a)][Primary]
    IN  /\ Calling(a) /\ conv[a][Primary].preKey \in preKeys[Peer(a)]
        /\ ~InSession(v, setups[Len(setups)])
        /\ v.ctx # Len(setups) /\ \A m \in SentBy(Peer(a)) : m.ctx # Len(setups)
\* The peer is in the session of the newest setup, and its messages are expected.
Connected(a) ==
    LET v == conv[Peer(a)][Primary]
        s == setups[Len(setups)]
    IN  /\ InSession(v, s) /\ v.ctx = Len(setups) /\ Joined(conv[a][Primary], v)
        /\ \A m \in sent :
             /\ m.mk.root[1] = s <=> m.ctx = Len(setups)
             /\ m.ctx = Len(setups) => Expects(Peer(m.from), Primary, m)
\* Nobody uses a secondary context, and sessions of a come in the order of setups.
Caller(a) ==
    LET w == conv[a][Primary]
        n == Len(setups)
    IN  /\ \A p \in Parties : \A c \in Contexts(p) \ {Primary} : conv[p][c].rk = <<>>
        /\ conv[Peer(a)][Primary].a0 = NoKey /\ \A m \in SentBy(Peer(a)) : m.a0 = NoKey
        /\ w.rk # <<>> => w.ctx = n /\ n > 0 /\ w.rk[1] = setups[n]
        /\ \A m \in SentBy(a) :
             /\ m.mk.root[1] = setups[m.ctx]
             /\ \A x \in SentBy(a) : x.ctx < m.ctx => x.id < m.id
\* The peer has read a message of the newest setup; it may have left since.
Called(a) ==
    LET v == conv[Peer(a)][Primary]
    IN  /\ \E m \in got[Peer(a)] : m.ctx = Len(setups)
        /\ (v.rk = <<>> /\ v.known) \/ Connected(a)
OneSide(a) ==
    /\ Caller(a)
    /\ conv[a][Primary].rk # <<>> /\ (ordered \/ Len(setups) <= 1) =>
         Uncalled(a) \/ Called(a)

\* Two setups collided: the winner reads those messages of the other's session
\* with a secondary context, and the other comes over to the winner's.
Loser       == Peer(Greater)
FirstKey(p) == PreKeyOf(p, 1)
OfKey(p)    == {m \in sent : FirstKey(p) \in m.mk.root[1]}
Aside ==
    LET k == FirstKey(Greater)
    IN  \A m \in OfKey(Greater) :
          /\ m.from = Loser /\ IsSetup(m) /\ m.preKey = k
          /\ IF conv[Greater][k].rk = <<>> THEN Opening(Greater, m)
             ELSE Expects(Greater, k, m)
          /\ \A x \in OfKey(Greater) : x.mk.root = m.mk.root
BothCall ==
    LET y == conv[Greater][FirstKey(Greater)]
    IN  /\ \A p \in Parties : Calling(p) /\ conv[p][Primary].preKey = FirstKey(Peer(p))
        /\ FirstKey(Loser) \in preKeys[Loser]
        /\ \/ y.rk = <<>> /\ FirstKey(Greater) \in preKeys[Greater]
           \/ Follows(conv[Loser][Primary], y)
CameOver ==
    LET w == conv[Greater][Primary]
        v == conv[Loser][Primary]
    IN  /\ w.rk # <<>> /\ FirstKey(Loser) \in w.rk[1] /\ InSession(v, w.rk[1])
        /\ w.ctx = v.ctx /\ v.a0 = NoKey /\ Joined(w, v)
        /\ \A m \in OfKey(Loser) :
             /\ m.mk.root[1] = w.rk[1] /\ m.ctx = w.ctx /\ Expects(Peer(m.from), Primary, m)
             /\ m.from = Loser =>
                  m.a0 = NoKey /\ \A x \in OfKey(Greater) : x.id < m.id
        /\ w.a0 # NoKey \/ OfKey(Greater) \subseteq got[Greater]
Collided ==
    sent \subseteq OfKey(Greater) \cup OfKey(Loser) /\ Aside /\ (BothCall \/ CameOver)

\* What holds of both parties and all messages, one setup or several.
Base ==
    /\ unsaved = {} /\ ApartOK /\ OrderOK
    /\ \A p \in Parties : WritesOK(p) /\ HeardOK(p)
    /\ \A m \in sent : WrittenOK(m)

\* The inductive invariant.
ReadInv ==
    faults = 0 =>
        /\ Base
        /\ \A a \in Parties : handedOut[a] = 0 => OneSide(a)
        /\ ordered /\ reKeys = 0 /\ (\A p \in Parties : handedOut[p] > 0) => Collided

----------------------------------------------------------------------------
(* Reading what is expected.                                               *)

\* A chain key that is hashed, and the keys on the way.
LEMMA Hashed ==
  ASSUME NEW ck \in ChainKey, NEW j \in Nat
  PROVE  Ahead(ck, j) = [root |-> ck.root, n |-> ck.n + j]
<1>1. ck.n \in Nat /\ ck = [root |-> ck.root, n |-> ck.n]
  BY DEF ChainKey
<1>2. ck.n + (IF j > 0 THEN j ELSE 0) = ck.n + j
  BY <1>1
<1> QED
  BY <1>1, <1>2 DEF Ahead, ChainKey

LEMMA SkippedAre ==
  ASSUME NEW ck \in ChainKey, NEW i \in Int, NEW k \in ChainKey,
         k.root = ck.root, k.n >= ck.n, k.n < ck.n + i
  PROVE  k \in Skipped(ck, i)
<1>1. k.n \in Nat /\ ck.n \in Nat
  BY KeyRoots
<1>2. PICK j : j = k.n - ck.n
  OBVIOUS
<1>3. j \in Nat /\ j \in 0 .. i - 1 /\ ck.n + j = k.n
  BY <1>1, <1>2
<1>4. Ahead(ck, j) = [root |-> k.root, n |-> k.n]
  BY <1>3, Hashed
<1>5. Ahead(ck, j) = k
  BY <1>4 DEF ChainKey
<1> QED
  BY <1>3, <1>5 DEF Skipped

\* The context sends as before and knows the same ratchet keys.
SameKeys(v, w) == w.rk = v.rk /\ w.flag = v.flag /\ w.dhs = v.dhs /\ w.dhr = v.dhr

\* How the context v reads m and is w: with a staged key, in the chain it receives
\* or in the next one, and what it stages and takes.
Takes(v, w, m, new, out, had) ==
  \/ m.mk \in had /\ out = {m.mk} /\ new = {} /\ SameKeys(v, w) /\ w.ckr = v.ckr
  \/ /\ m.mk \notin had /\ out = {} /\ InChain(v, m) /\ SameKeys(v, w)
     /\ w.ckr = [root |-> m.mk.root, n |-> m.mk.n + 1]
     /\ \A k \in ChainKey : k.root = v.ckr.root /\ k.n >= v.ckr.n /\ k.n < m.mk.n => k \in new
  \/ /\ m.mk \notin had /\ out = {} /\ NextChain(v, m)
     /\ w.rk = m.mk.root /\ w.flag /\ w.dhs = v.dhs /\ w.dhr = m.dhs
     /\ w.ckr = [root |-> m.mk.root, n |-> m.mk.n + 1]
     /\ \A k \in ChainKey : k.root = v.ckr.root /\ k.n >= v.ckr.n /\ k.n < m.pnp => k \in new
     /\ \A k \in ChainKey : k.root = m.mk.root /\ k.n < m.mk.n => k \in new

LEMMA OldTakes ==
  ASSUME NEW s \in Conversation, NEW m \in Message, m.mk.n = m.np, s.ckr.n = s.nr, InChain(s, m)
  PROVE  LET r == OldRatchet(s, m)
         IN  r.ok /\ (\A had : m.mk \notin had => Takes(s, r.conv, m, r.new, r.out, had))
<1> DEFINE i == m.np - s.nr
           ck == Ahead(s.ckr, i)
<1>1. s.ckr \in ChainKey /\ m.mk \in ChainKey /\ m.np \in Nat /\ s.nr \in Nat /\ i \in Nat
  <2>1. s.ckr \in ChainKey /\ m.mk \in ChainKey /\ m.np \in Nat /\ s.nr \in Nat
    BY DEF Conversation, Message
  <2>2. m.np >= s.nr
    BY DEF InChain
  <2> QED
    BY <2>1, <2>2
<1>2. ck = [root |-> s.ckr.root, n |-> s.ckr.n + i]
  BY <1>1, Hashed
<1>3. s.ckr.n + i = m.mk.n
  BY <1>1
<1>4. ck = m.mk
  BY <1>1, <1>2, <1>3 DEF ChainKey, InChain
<1>6. Ahead(ck, 1) = [root |-> m.mk.root, n |-> m.mk.n + 1]
  BY <1>1, <1>4, Hashed
<1>7. \A k \in ChainKey : k.root = s.ckr.root /\ k.n >= s.ckr.n /\ k.n < m.mk.n
                            => k \in Skipped(s.ckr, i)
  <2> SUFFICES ASSUME NEW k \in ChainKey, k.root = s.ckr.root, k.n >= s.ckr.n, k.n < m.mk.n
               PROVE  k \in Skipped(s.ckr, i)
    OBVIOUS
  <2>1. k.n < s.ckr.n + i
    BY <1>1, KeyRoots
  <2> QED
    BY <1>1, <2>1, SkippedAre
<1>8. /\ OldRatchet(s, m).ok /\ OldRatchet(s, m).out = {}
      /\ OldRatchet(s, m).new = Skipped(s.ckr, i)
      /\ OldRatchet(s, m).conv = Advance(s, ck, m)
  BY <1>4 DEF OldRatchet, Outcome
<1>9. SameKeys(s, Advance(s, ck, m)) /\ Advance(s, ck, m).ckr = Ahead(ck, 1)
  BY DEF Advance, SameKeys, Conversation
<1> QED
  BY <1>6, <1>7, <1>8, <1>9 DEF Takes

LEMMA NewTakes ==
  ASSUME NEW s \in Conversation, NEW m \in Message, m.mk.n = m.np, s.ckr.n = s.nr,
         NextChain(s, m), s.dhs # NoKey
  PROVE  LET r == NewRatchet(s, m)
         IN  r.ok /\ (\A had : m.mk \notin had => Takes(s, r.conv, m, r.new, r.out, had))
<1> DEFINE root == Derive(s.rk, s.dhs, m.dhs)
           ck   == Ahead(ChainOf(root), m.np)
           w    == [Advance(s, ck, m) EXCEPT !.rk = root, !.dhr = m.dhs, !.flag = TRUE]
           i    == m.pnp - s.nr
<1>1. /\ s.ckr \in ChainKey /\ m.mk \in ChainKey /\ m.np \in Nat /\ m.pnp \in Nat
      /\ s.nr \in Nat /\ i \in Int /\ root = m.mk.root /\ s.rk # <<>>
  BY DEF Conversation, Message, NextChain, Sending
<1>2. ChainOf(root) \in ChainKey /\ ChainOf(root).root = root /\ ChainOf(root).n = 0
  BY <1>1 DEF ChainOf, ChainKey
<1>3. ck = [root |-> root, n |-> m.np]
  <2>1. PICK h, j : h = ChainOf(root) /\ j = m.np
    OBVIOUS
  <2>2. Ahead(h, j) = [root |-> h.root, n |-> h.n + j]
    BY <1>1, <1>2, <2>1, Hashed
  <2>3. h.root = root /\ h.n + j = m.np
    BY <1>1, <1>2, <2>1
  <2> QED
    BY <2>1, <2>2, <2>3
<1>4. ck = m.mk
  BY <1>1, <1>3 DEF ChainKey
<1>6. Ahead(ck, 1) = [root |-> m.mk.root, n |-> m.mk.n + 1]
  BY <1>1, <1>4, Hashed
<1>7. \A k \in ChainKey : k.root = s.ckr.root /\ k.n >= s.ckr.n /\ k.n < m.pnp
                            => k \in Skipped(s.ckr, i)
  <2> SUFFICES ASSUME NEW k \in ChainKey, k.root = s.ckr.root, k.n >= s.ckr.n, k.n < m.pnp
               PROVE  k \in Skipped(s.ckr, i)
    OBVIOUS
  <2>1. k.n < s.ckr.n + i
    BY <1>1, KeyRoots
  <2> QED
    BY <1>1, <2>1, SkippedAre
<1>8. \A k \in ChainKey : k.root = m.mk.root /\ k.n < m.mk.n
                            => k \in Skipped(ChainOf(root), m.np)
  <2> SUFFICES ASSUME NEW k \in ChainKey, k.root = m.mk.root, k.n < m.mk.n
               PROVE  k \in Skipped(ChainOf(root), m.np)
    OBVIOUS
  <2>1. k.n >= ChainOf(root).n /\ k.n < ChainOf(root).n + m.np
    BY <1>1, <1>2, KeyRoots
  <2> QED
    BY <1>1, <1>2, <2>1, SkippedAre
<1>9. /\ NewRatchet(s, m).ok /\ NewRatchet(s, m).out = {}
      /\ NewRatchet(s, m).new = Skipped(s.ckr, i) \cup Skipped(ChainOf(root), m.np)
      /\ NewRatchet(s, m).conv = w
  BY <1>1, <1>4 DEF NewRatchet, Outcome
<1>10. w.rk = root /\ w.flag /\ w.dhs = s.dhs /\ w.dhr = m.dhs /\ w.ckr = Ahead(ck, 1)
  BY DEF Advance, Conversation
<1> QED
  BY <1>1, <1>6, <1>7, <1>8, <1>9, <1>10 DEF Takes

\* What is expected is read, unless the context id is another one.
LEMMA ExpectedReads ==
  ASSUME KeyInv, NEW p \in Parties, NEW m \in sent, m.from # p, NEW x \in Contexts(p),
         Sequel(sent, m), Linked(sent, p, conv[p][x]),
         ~HasPreKey(p, m), ~Refused(p, conv[p][x], m),
         Expects(p, x, m), m \notin got[p]
  PROVE  LET r == DecryptInternal(p, x, m)
         IN  r.ok /\ Takes(conv[p][x], r.conv, m, r.new, r.out, staged[p][x])
<1> DEFINE v == conv[p][x]
           s == SetupConv(p, v, m)
           r == DecryptInternal(p, x, m)
<1>1. v \in Conversation /\ m \in Message /\ m.dhs \in Keys /\ m.mk.n = m.np /\ v.ckr.n = v.nr
  <2>1. v \in Conversation /\ m \in Message
    BY ContextIs, MessageIs
  <2> QED
    BY <2>1 DEF Message, Sequel, Linked
<1>2. s \in Conversation /\ SameKeys(v, s) /\ s.ckr = v.ckr /\ s.nr = v.nr /\ s.rk = v.rk
  <2>1. s = [v EXCEPT !.ctx = m.ctx] \/ s = v
    BY DEF SetupConv
  <2>2. m.ctx \in Nat
    BY <1>1 DEF Message
  <2> QED
    BY <1>1, <2>1, <2>2 DEF SameKeys, Conversation
<1> HIDE DEF s
<1>3. CASE m.mk \in staged[p][x]
  <2>1. r = Outcome(TRUE, s, {}, {m.mk})
    BY <1>3 DEF DecryptInternal, s
  <2> QED
    BY <1>2, <1>3, <2>1 DEF Outcome, Takes
<1>4. CASE m.mk \notin staged[p][x] /\ InChain(v, m)
  <2>1. r = OldRatchet(s, m)
    BY <1>2, <1>4 DEF DecryptInternal, s, InChain, SameKeys
  <2>2. InChain(s, m)
    BY <1>2, <1>4 DEF InChain, SameKeys
  <2>3. r.ok /\ Takes(s, r.conv, m, r.new, r.out, staged[p][x])
    BY <1>1, <1>2, <1>4, <2>1, <2>2, OldTakes
  <2> QED
    BY <1>2, <2>3, <1>4 DEF Takes, SameKeys, InChain, NextChain, Sending
<1>5. CASE m.mk \notin staged[p][x] /\ NextChain(v, m)
  <2>1. r = NewRatchet(s, m)
    BY <1>2, <1>5 DEF DecryptInternal, s, NextChain, SameKeys
  <2>2. NextChain(s, m)
    BY <1>2, <1>5 DEF NextChain, SameKeys, Sending
  <2>3. s.dhs # NoKey
    <3>1. ContextOK(Born, p, v)
      BY ContextIs
    <3> QED
      BY <1>2, <1>5, <3>1 DEF ContextOK, NextChain, SameKeys
  <2>4. r.ok /\ Takes(s, r.conv, m, r.new, r.out, staged[p][x])
    BY <1>1, <1>2, <1>5, <2>1, <2>2, <2>3, NewTakes
  <2> QED
    BY <1>2, <2>4, <1>5 DEF Takes, SameKeys, InChain, NextChain, Sending
<1> QED
  BY <1>3, <1>4, <1>5 DEF Expects

\* What a context has of its own stays when it reads.
Own(v, w) ==
  /\ w.cks = v.cks /\ w.ns = v.ns /\ w.pns = v.pns /\ w.dhs = v.dhs
  /\ w.known = v.known /\ w.preKey = v.preKey /\ w.a0 \in {v.a0, NoKey}

LEMMA RatchetsOwn ==
  ASSUME NEW s \in Conversation, NEW m
  PROVE  /\ Own(s, OldRatchet(s, m).conv) /\ OldRatchet(s, m).conv.ctx = s.ctx
         /\ Own(s, NewRatchet(s, m).conv) /\ NewRatchet(s, m).conv.ctx = s.ctx
         /\ NewRatchet(s, m).ok => NewRatchet(s, m).conv.a0 = NoKey
<1> DEFINE Turns(a, root) == [a EXCEPT !.rk = root, !.dhr = m.dhs, !.flag = TRUE]
<1>1. \A ck : Own(s, Advance(s, ck, m)) /\ Advance(s, ck, m).ctx = s.ctx
  BY DEF Advance, Own, Conversation
<1>2. \A ck, root : LET b == Turns(Advance(s, ck, m), root)
                   IN  Own(s, b) /\ b.ctx = s.ctx /\ b.a0 = NoKey
  BY DEF Advance, Own, Conversation
<1>3. Own(s, s)
  BY DEF Own
<1>4. PICK ck : OldRatchet(s, m).conv = Advance(s, ck, m)
  BY DEF OldRatchet, Outcome
<1>5. \/ NewRatchet(s, m).conv = s /\ ~NewRatchet(s, m).ok
      \/ \E cj, root : NewRatchet(s, m).conv = Turns(Advance(s, cj, m), root)
  BY DEF NewRatchet, Outcome
<1> HIDE DEF Turns
<1>6. Own(s, OldRatchet(s, m).conv) /\ OldRatchet(s, m).conv.ctx = s.ctx
  BY <1>1, <1>4
<1>7. CASE NewRatchet(s, m).conv = s /\ ~NewRatchet(s, m).ok
  BY <1>3, <1>6, <1>7
<1>8. ASSUME NEW cj, NEW root, NewRatchet(s, m).conv = Turns(Advance(s, cj, m), root)
      PROVE  Own(s, NewRatchet(s, m).conv) /\ NewRatchet(s, m).conv.ctx = s.ctx
             /\ NewRatchet(s, m).conv.a0 = NoKey
  BY <1>2, <1>8
<1> QED
  BY <1>5, <1>6, <1>7, <1>8

LEMMA ReadsOwn ==
  ASSUME KeyInv, NEW p \in Parties, NEW m \in sent, m.from # p, NEW x \in Contexts(p)
  PROVE  Own(SetupConv(p, conv[p][x], m), DecryptInternal(p, x, m).conv)
         \/ DecryptInternal(p, x, m).conv = conv[p][x]
<1> DEFINE v == conv[p][x]
           s == SetupConv(p, v, m)
           r == DecryptInternal(p, x, m)
<1>1. s \in Conversation
  BY SetupConvIs
<1> HIDE DEF s
<1>2. Own(s, s)
  BY DEF Own
<1>3. r.conv = v \/ r.conv = s \/ r = OldRatchet(s, m) \/ r = NewRatchet(s, m)
  BY DEF DecryptInternal, Outcome, s
<1>4. Own(s, OldRatchet(s, m).conv) /\ Own(s, NewRatchet(s, m).conv)
  BY <1>1, RatchetsOwn
<1> QED
  BY <1>2, <1>3, <1>4 DEF s

\* A context that is not set up anew keeps what is its own.
LEMMA OfItsOwn ==
  ASSUME KeyInv, NEW p \in Parties, NEW m \in sent, m.from # p, NEW x \in Contexts(p),
         ~HasPreKey(p, m)
  PROVE  Own(conv[p][x], DecryptInternal(p, x, m).conv)
<1> DEFINE v == conv[p][x]
           s == SetupConv(p, v, m)
<1>1. v \in Conversation /\ m \in Message
  BY ContextIs, MessageIs
<1>2. s = v \/ s = [v EXCEPT !.ctx = m.ctx]
  BY DEF SetupConv
<1>3. Own(v, s) /\ Own(v, v)
  BY <1>1, <1>2 DEF Own, Conversation
<1>4. \A r : Own(s, r) => Own(v, r)
  BY <1>3 DEF Own
<1> QED
  BY <1>3, <1>4, ReadsOwn

\* What a setup message leaves that opens its session.
Opened(w, m, new) ==
  /\ w.rk = m.mk.root /\ w.flag /\ w.dhs = m.preKey /\ w.dhr = m.dhs
  /\ w.ckr = [root |-> m.mk.root, n |-> m.mk.n + 1]
  /\ w.ctx = m.ctx /\ w.known /\ w.a0 = NoKey
  /\ \A k \in ChainKey : k.root = m.mk.root /\ k.n < m.mk.n => k \in new

LEMMA OpeningReads ==
  ASSUME KeyInv, NEW p \in Parties, NEW m \in sent, m.from # p, NEW x \in Contexts(p),
         Sequel(sent, m), Opening(p, m), m.mk \notin staged[p][x]
  PROVE  LET r == DecryptInternal(p, x, m)
         IN  r.ok /\ Opened(r.conv, m, r.new) /\ r.out = {}
<1> DEFINE v == conv[p][x]
           s == SetupConv(p, v, m)
           r == DecryptInternal(p, x, m)
           b == BobConv(v, m)
<1>1. v \in Conversation /\ m \in Message /\ m.dhs \in Keys /\ m.mk.n = m.np
  <2>1. v \in Conversation /\ m \in Message
    BY ContextIs, MessageIs
  <2> QED
    BY <2>1 DEF Message, Sequel
<1>2. HasPreKey(p, m) /\ IsSetup(m)
  BY DEF Opening, HasPreKey
<1>3. s \in Conversation /\ s = b
  <2>1. s \in Conversation
    BY SetupConvIs
  <2> QED
    BY <1>2, <2>1 DEF SetupConv
<1>4. /\ b.rk = SetupRoot(m) /\ ~b.flag /\ b.dhs = m.preKey /\ b.dhr = NoKey
      /\ b.ckr = NoChain /\ b.nr = 0 /\ b.ctx = m.ctx /\ b.known
  <2>1. /\ Reset(v) \in Conversation /\ Reset(v).dhr = NoKey /\ Reset(v).ckr = NoChain
        /\ ~Reset(v).flag
    BY <1>1, ResetIs
  <2>2. Reset(v).nr = 0
    BY DEF Reset, EmptyConv
  <2> QED
    BY <2>1, <2>2 DEF BobConv, SetupRoot, Conversation
<1>5. m.preKey # NoKey /\ SetupRoot(m) # <<>> /\ m.dhs # NoKey
  <2>1. m.preKey \in Born /\ SetupRoot(m) # <<>>
    BY <1>2, BobIs
  <2> QED
    BY <1>1, <2>1, BornFacts
<1>6. ~Refused(p, v, m)
  BY <1>2, <1>3, <1>4 DEF Refused
<1>7. r = NewRatchet(s, m)
  BY <1>3, <1>4, <1>5, <1>6 DEF DecryptInternal
<1>8. NextChain(s, m) /\ s.dhs # NoKey /\ s.ckr.n = s.nr
  BY <1>3, <1>4, <1>5 DEF NextChain, Sending, Opening, SetupRoot, NoChain, ChainOf
<1>9. ~InChain(s, m)
  BY <1>3, <1>4, <1>5 DEF InChain
<1> HIDE DEF s, r
<1>10. r.ok /\ Takes(s, r.conv, m, r.new, r.out, staged[p][x])
  BY <1>1, <1>3, <1>7, <1>8, NewTakes
<1>11. Own(s, r.conv) /\ r.conv.ctx = s.ctx /\ r.conv.a0 = NoKey
  BY <1>3, <1>7, <1>10, RatchetsOwn
<1>12. Opened(r.conv, m, r.new) /\ r.out = {}
  BY <1>3, <1>4, <1>9, <1>10, <1>11 DEF Takes, Own, Opened
<1> QED
  BY <1>10, <1>12 DEF r

\* Without faults two messages have two keys.
LEMMA OneMessage ==
  ASSUME KeyInv, unsaved = {}, NEW m \in sent, NEW z \in sent, z.mk = m.mk
  PROVE  z = m
  BY DEF KeyInv, KeyUsedOnce

\* Keys of a message with the root and the position of another key.
LEMMA SameKey ==
  ASSUME NEW j \in ChainKey, NEW k \in ChainKey, j.root = k.root, j.n = k.n
  PROVE  j = k
  BY DEF ChainKey

\* The context x of p reads m: what happens to the state.
ReadBy(p, m, x, r) ==
  /\ m.from # p /\ x \in Contexts(p) /\ r = DecryptInternal(p, x, m) /\ r.ok
  /\ x = First(p, m) /\ m \notin got[p]
  /\ conv'[p][x] = r.conv /\ staged'[p][x] = (staged[p][x] \ r.out) \cup r.new
  /\ \A d \in Contexts(p) \ {x} : conv'[p][d] = conv[p][d] /\ staged'[p][d] = staged[p][d]
  /\ conv'[Peer(p)] = conv[Peer(p)] /\ staged'[Peer(p)] = staged[Peer(p)]
  /\ got'[p] = got[p] \cup {m} /\ got'[Peer(p)] = got[Peer(p)]
  /\ preKeys'[p] = preKeys[p] \ {m.preKey} /\ preKeys'[Peer(p)] = preKeys[Peer(p)]
  /\ ordered' = (ordered /\ InOrder(p, m))
  /\ UNCHANGED <<handedOut, lastKey, setups, sent, unsaved, reKeys, faults>>

LEMMA ReceivedBy ==
  ASSUME ForgetInv, NEW p \in Parties, NEW m \in sent, Receive(p, m)
  PROVE  \E x, r : ReadBy(p, m, x, r)
<1>1. PICK x, r :
            /\ x \in Readers(p, m) /\ r = DecryptInternal(p, x, m) /\ x \in Contexts(p)
            /\ conv' = [conv EXCEPT ![p][x] = r.conv]
            /\ staged' = [staged EXCEPT
                            ![p] = [y \in Contexts(p) |->
                                IF y = x THEN (staged[p][y] \ r.out) \cup r.new
                                ELSE staged[p][y]]]
  BY Received
<1>2. m.from # p /\ ordered' = (ordered /\ InOrder(p, m))
  BY DEF Receive, Arrives
<1>3. x = First(p, m) /\ r.ok /\ m \notin got[p]
  BY <1>1, <1>2, OneReader, NotRead
<1>4. TypeOK /\ Peer(p) \in Parties /\ Peer(p) # p
  BY PeerFacts DEF ForgetInv, KeyInv
<1>5. /\ conv'[p][x] = r.conv /\ conv'[Peer(p)] = conv[Peer(p)]
      /\ \A d \in Contexts(p) \ {x} : conv'[p][d] = conv[p][d]
  BY <1>1, <1>4 DEF TypeOK
<1>6. /\ staged'[p][x] = (staged[p][x] \ r.out) \cup r.new /\ staged'[Peer(p)] = staged[Peer(p)]
      /\ \A d \in Contexts(p) \ {x} : staged'[p][d] = staged[p][d]
  BY <1>1, <1>4 DEF TypeOK
<1>7. /\ got'[p] = got[p] \cup {m} /\ got'[Peer(p)] = got[Peer(p)]
      /\ preKeys'[p] = preKeys[p] \ {m.preKey} /\ preKeys'[Peer(p)] = preKeys[Peer(p)]
      /\ UNCHANGED <<handedOut, lastKey, setups, sent, unsaved, reKeys, faults>>
  BY <1>4 DEF Receive, SpendPreKey, TypeOK
<1>8. ReadBy(p, m, x, r)
  BY <1>1, <1>2, <1>3, <1>5, <1>6, <1>7 DEF ReadBy
<1> QED
  BY <1>8

\* What a context expected it expects after it read another message.
LEMMA ExpectsOn ==
  ASSUME ForgetInv, unsaved = {}, NEW p \in Parties, NEW m \in sent, NEW x, NEW r,
         ReadBy(p, m, x, r), Linked(sent, p, conv[p][x]), WrittenOK(m),
         Takes(conv[p][x], r.conv, m, r.new, r.out, staged[p][x]),
         NEW z \in sent, z.from = m.from, Expects(p, x, z)
  PROVE  Expects(p, x, z)'
<1> DEFINE v == conv[p][x]
           w == r.conv
<1>1. conv'[p][x] = w /\ staged'[p][x] = (staged[p][x] \ r.out) \cup r.new
      /\ got'[p] = got[p] \cup {m} /\ x \in Contexts(p) /\ KeyInv
  BY DEF ReadBy, ForgetInv
<1>2. CASE z = m \/ z \in got[p]
  BY <1>1, <1>2 DEF Expects
<1>3. /\ m.mk \in ChainKey /\ z.mk \in ChainKey /\ z.mk.n \in Nat /\ m.mk.n \in Nat
      /\ v.rk \in Seq(SUBSET Born) /\ m.dhs \in Born /\ z.dhs \in Born
      /\ ContextOK(Born, p, v)
  BY <1>1, MessageRoots, ConvRoots, KeyRoots, ContextIs
<1>4. CASE z # m /\ z.mk \in staged[p][x]
  <2>1. z.mk # m.mk
    BY <1>1, <1>4, OneMessage
  <2>2. z.mk \notin r.out
    BY <2>1 DEF Takes
  <2> QED
    BY <1>1, <1>4, <2>2 DEF Expects
<1>5. CASE z # m /\ InChain(v, z)
  <2>1. CASE SameKeys(v, w) /\ w.ckr = v.ckr
    BY <1>1, <1>5, <2>1 DEF Expects, InChain, SameKeys
  <2>2. CASE /\ InChain(v, m) /\ SameKeys(v, w)
             /\ w.ckr = [root |-> m.mk.root, n |-> m.mk.n + 1]
             /\ \A k \in ChainKey : k.root = v.ckr.root /\ k.n >= v.ckr.n /\ k.n < m.mk.n => k \in r.new
    <3>1. CASE z.mk.n < m.mk.n
      BY <1>1, <1>3, <1>5, <2>2, <3>1 DEF Expects, InChain
    <3>2. CASE z.mk.n = m.mk.n
      BY <1>1, <1>3, <1>5, <2>2, <3>2, SameKey, OneMessage DEF InChain
    <3>3. CASE z.mk.n > m.mk.n
      <4>1. z.mk.n >= m.mk.n + 1
        BY <1>3, <3>3
      <4> QED
        BY <1>1, <1>5, <2>2, <4>1 DEF Expects, InChain, SameKeys
    <3> QED
      BY <1>3, <3>1, <3>2, <3>3
  <2>3. CASE /\ NextChain(v, m)
             /\ \A k \in ChainKey : k.root = v.ckr.root /\ k.n >= v.ckr.n /\ k.n < m.pnp => k \in r.new
    <3>1. v.dhs \in Born /\ Sending(v) /\ v.ckr.root = Before(v.rk)
      BY <1>3, <2>3 DEF NextChain, ContextOK, Linked, Sending
    <3>2. Before(m.mk.root) = v.rk
      BY <1>3, <2>3, <3>1, BeforeDerived DEF NextChain
    <3>3. z.mk.root = Before(Before(m.mk.root))
      BY <1>5, <3>1, <3>2 DEF InChain
    <3>4. z.mk.n < m.pnp
      BY <3>3 DEF WrittenOK, SentBy
    <3> QED
      BY <1>1, <1>3, <1>5, <2>3, <3>4 DEF Expects, InChain
  <2> QED
    BY <2>1, <2>2, <2>3 DEF Takes
<1>6. CASE z # m /\ NextChain(v, z)
  <2>1. CASE SameKeys(v, w)
    BY <1>1, <1>6, <2>1 DEF Expects, NextChain, SameKeys, Sending
  <2>2. CASE /\ NextChain(v, m) /\ w.dhr = m.dhs
             /\ w.ckr = [root |-> m.mk.root, n |-> m.mk.n + 1]
             /\ \A k \in ChainKey : k.root = m.mk.root /\ k.n < m.mk.n => k \in r.new
    <3>1. v.dhs \in Born /\ v.rk # <<>>
      BY <1>3, <2>2 DEF NextChain, ContextOK, Sending
    <3>2. Len(z.mk.root) = Len(m.mk.root) /\ z.mk.root[1] = m.mk.root[1]
      BY <1>3, <1>6, <2>2, <3>1, RootGrows DEF NextChain
    <3>3. z.mk.root = m.mk.root
      BY <3>2 DEF WrittenOK, SentBy
    <3>4. z.dhs = m.dhs
      BY <3>3 DEF WrittenOK, SentBy
    <3>5. CASE z.mk.n < m.mk.n
      BY <1>1, <1>3, <2>2, <3>3, <3>5 DEF Expects
    <3>6. CASE z.mk.n = m.mk.n
      BY <1>1, <1>3, <1>6, <3>3, <3>6, SameKey, OneMessage
    <3>7. CASE z.mk.n > m.mk.n
      <4>1. z.mk.n >= m.mk.n + 1
        BY <1>3, <3>7
      <4> QED
        BY <1>1, <2>2, <3>3, <3>4, <4>1 DEF Expects, InChain
    <3> QED
      BY <1>3, <3>5, <3>6, <3>7
  <2> QED
    BY <2>1, <2>2 DEF Takes
<1> QED
  BY <1>2, <1>4, <1>5, <1>6 DEF Expects

\* What messages say of the ratchet of the party that wrote them, if its context u
\* is in their session: there are none ahead of u.
LEMMA NoneAhead ==
  ASSUME KeyInv, NEW q \in Parties, WritesOK(q), NEW m \in sent, m.from = q,
         InSession(conv[q][Primary], m.mk.root[1])
  PROVE  LET u == conv[q][Primary]
         IN  Len(m.mk.root) < Len(u.rk) \/ (Sending(u) /\ m.mk.root = u.rk /\ m.dhs = u.dhs)
  BY DEF WritesOK, SentBy

\* A pair of contexts that is joined stays so when one of them reads.
LEMMA JoinedReads ==
  ASSUME ForgetInv, NEW p \in Parties, NEW m \in sent, m.from = Peer(p),
         NEW x \in Contexts(p), WritesOK(Peer(p)), Joined(conv[Peer(p)][Primary], conv[p][x]),
         NEW w, NEW new, NEW out, NEW had, Takes(conv[p][x], w, m, new, out, had)
  PROVE  Joined(conv[Peer(p)][Primary], w)
<1> DEFINE q == Peer(p)
           u == conv[q][Primary]
           v == conv[p][x]
<1>1. /\ KeyInv /\ q \in Parties /\ Primary \in Contexts(q)
      /\ v.rk \in Seq(SUBSET Born) /\ u.rk \in Seq(SUBSET Born)
      /\ m.dhs \in Born /\ Len(v.rk) \in Nat /\ Len(u.rk) \in Nat
      /\ ContextOK(Born, p, v) /\ ContextOK(Born, q, u)
  BY PeerFacts, Names, ConvRoots, MessageRoots, ContextIs DEF ForgetInv
<1>2. CASE SameKeys(v, w)
  BY <1>2 DEF Joined, Follows, Crossed, SameKeys, Sending
<1>3. CASE /\ NextChain(v, m)
           /\ w.rk = m.mk.root /\ w.flag /\ w.dhs = v.dhs /\ w.dhr = m.dhs
  <2>1. v.dhs \in Born /\ v.rk # <<>> /\ ~v.flag
    BY <1>1, <1>3 DEF NextChain, ContextOK, Sending
  <2>2. Len(m.mk.root) = Len(v.rk) + 1 /\ m.mk.root[1] = v.rk[1]
    BY <1>1, <1>3, <2>1, RootGrows DEF NextChain
  <2>3. CASE Follows(v, u)
    <3>1. InSession(u, m.mk.root[1])
      BY <2>1, <2>2, <2>3 DEF Follows, InSession
    <3>2. Len(m.mk.root) < Len(u.rk) \/ m.mk.root = u.rk
      BY <1>1, <3>1, NoneAhead
    <3> QED
      BY <1>1, <2>2, <2>3, <3>2 DEF Follows
  <2>4. CASE Crossed(u, v)
    <3>1. u.dhs \in Born /\ v.rk = Derive(u.rk, u.dhs, v.dhs) /\ u.rk # <<>>
      BY <1>1, <2>4 DEF Crossed, ContextOK, Sending
    <3>2. Len(v.rk) = Len(u.rk) + 1 /\ v.rk[1] = u.rk[1]
      BY <1>1, <2>1, <3>1, RootGrows
    <3>3. InSession(u, m.mk.root[1])
      BY <2>2, <3>1, <3>2 DEF InSession
    <3>4. Len(m.mk.root) < Len(u.rk) \/ m.mk.root = u.rk
      BY <1>1, <3>3, NoneAhead
    <3> QED
      BY <1>1, <2>2, <3>2, <3>4
  <2>5. CASE Crossed(v, u)
    <3>1. u.dhs \in Born /\ u.rk = Derive(v.rk, v.dhs, u.dhs) /\ Sending(u)
      BY <1>1, <2>5 DEF Crossed, ContextOK, Sending
    <3>2. Len(u.rk) = Len(v.rk) + 1 /\ u.rk[1] = v.rk[1] /\ u.rk # <<>>
      BY <1>1, <2>1, <3>1, RootGrows
    <3>3. InSession(u, m.mk.root[1])
      BY <2>2, <3>2 DEF InSession
    <3>4. Len(m.mk.root) < Len(u.rk) \/ (m.mk.root = u.rk /\ m.dhs = u.dhs)
      BY <1>1, <3>3, NoneAhead
    <3>5. m.mk.root = u.rk /\ m.dhs = u.dhs
      BY <1>1, <2>2, <3>2, <3>4
    <3> QED
      BY <1>3, <3>1, <3>5 DEF Joined, Follows
  <2> QED
    BY <2>1, <2>3, <2>4, <2>5 DEF Joined, Follows
<1> QED
  BY <1>2, <1>3 DEF Takes

LEMMA JoinedIsMutual ==
  ASSUME NEW u, NEW v, Joined(u, v)
  PROVE  Joined(v, u)
  BY DEF Joined

\* What encrypt makes of the primary context c of p, before the chain key is hashed,
\* and of the message.
SentAs(p, t, k) ==
  t = Turn(conv[p][Primary], <<p, lastKey[p] + 1>>) /\ k = Wire(p, t)

LEMMA SentIs ==
  ASSUME ForgetInv, OweInv, NEW p \in Parties, conv[p][Primary].rk # <<>>,
         NEW t, NEW k, SentAs(p, t, k)
  PROVE  LET c == conv[p][Primary]
         IN  /\ t \in Conversation /\ Sending(t) /\ k.mk = t.cks /\ k.mk.root = t.rk
             /\ k.mk.n = t.ns /\ k.np = t.ns /\ k.pnp = t.pns
             /\ k.dhs = t.dhs /\ k.from = p /\ k.ctx = c.ctx /\ k.a0 = c.a0
             /\ k.id = Cardinality(SentBy(p)) + 1
             /\ k.preKey = IF c.a0 = NoKey THEN NoKey ELSE c.preKey
             /\ t.dhr = c.dhr /\ t.ckr = c.ckr /\ t.ctx = c.ctx /\ t.known = c.known
             /\ ~c.flag => t = c /\ Sending(c)
             /\ c.flag => /\ t.dhs = <<p, lastKey[p] + 1>> /\ t.ns = 0 /\ t.pns = c.ns
                          /\ t.dhs \in Keys \ Born /\ c.dhr \in Born
                          /\ t.rk = Derive(c.rk, t.dhs, c.dhr) /\ Before(t.rk) = c.rk
                          /\ t.rk \notin Seq(SUBSET Born)
<1> DEFINE c == conv[p][Primary]
           new == <<p, lastKey[p] + 1>>
<1>1. /\ c \in Conversation /\ c.rk \in Seq(SUBSET Born) /\ KeyInv /\ Primary \in Contexts(p)
      /\ c.flag => c.dhr \in Born
      /\ new \in Keys /\ new \notin Born /\ Born \subseteq Keys /\ NoKey \notin Born
  <2>1. KeyInv /\ Primary \in Contexts(p)
    BY Names DEF ForgetInv
  <2>2. c \in Conversation /\ ContextOK(Born, p, c)
    BY <2>1, ContextIs
  <2> QED
    BY <2>1, <2>2, BornFacts DEF ContextOK
<1>2. Linked(sent, p, c) /\ Alone(sent, p, c)
  BY <1>1 DEF OweInv
<1>3. Rooted(sent, Born)
  BY <1>1, MessageRoots DEF Rooted
<1>4. /\ Linked(sent, p, t) /\ Sending(t) /\ t \in Conversation
      /\ c.flag => t.rk \notin Seq(SUBSET Born) /\ Before(t.rk) = c.rk
      /\ ~c.flag => t = c
  BY <1>1, <1>2, <1>3, TurnLinked DEF SentAs
<1>5. t.cks.root = t.rk /\ t.cks.n = t.ns
  BY <1>4 DEF Linked, Sending
<1>6. /\ k.mk = t.cks /\ k.np = t.ns /\ k.pnp = t.pns /\ k.dhs = t.dhs /\ k.from = p
      /\ k.ctx = t.ctx /\ k.a0 = t.a0 /\ k.id = Cardinality(SentBy(p)) + 1
      /\ k.preKey = IF t.a0 = NoKey THEN NoKey ELSE t.preKey
  BY DEF SentAs, Wire
<1>7. /\ t.dhr = c.dhr /\ t.ckr = c.ckr /\ t.ctx = c.ctx /\ t.known = c.known
      /\ t.a0 = c.a0 /\ t.preKey = c.preKey
      /\ c.flag => t.dhs = new /\ t.ns = 0 /\ t.pns = c.ns /\ t.rk = Derive(c.rk, new, c.dhr)
  BY <1>1 DEF SentAs, Turn, Conversation
<1>8. ~c.flag => Sending(c)
  BY DEF Sending
<1> QED
  BY <1>1, <1>4, <1>5, <1>6, <1>7, <1>8

\* The reader y of another party comes to the message that goes out, and stays joined.
LEMMA JoinedSends ==
  ASSUME ForgetInv, OweInv, NEW p \in Parties, conv[p][Primary].rk # <<>>,
         NEW t, NEW k, SentAs(p, t, k), WritesOK(p), HeardOK(Peer(p)),
         NEW d \in Contexts(Peer(p)), Joined(conv[p][Primary], conv[Peer(p)][d])
  PROVE  LET y == conv[Peer(p)][d]
         IN  /\ Joined(t, y) /\ (InChain(y, k) \/ NextChain(y, k))
             /\ Follows(conv[p][Primary], y) => Follows(t, y) /\ t = conv[p][Primary]
<1> DEFINE c == conv[p][Primary]
           q == Peer(p)
           y == conv[q][d]
<1>1. /\ KeyInv /\ q \in Parties /\ Primary \in Contexts(p) /\ Peer(q) = p
      /\ c.rk \in Seq(SUBSET Born) /\ y.rk \in Seq(SUBSET Born) /\ y.ckr.n \in Nat
      /\ ContextOK(Born, q, y) /\ Linked(sent, q, y)
      /\ c \in Conversation /\ c.ns \in Nat
  <2>1. KeyInv /\ q \in Parties /\ Primary \in Contexts(p) /\ Peer(q) = p
    BY PeerFacts, Names DEF ForgetInv
  <2>2. c \in Conversation /\ c.ns \in Nat
    BY <2>1, ContextIs DEF Conversation
  <2> QED
    BY <2>1, <2>2, ConvRoots, ContextIs DEF OweInv
<1>2. /\ t \in Conversation /\ Sending(t) /\ k.mk.root = t.rk /\ k.mk.n = t.ns /\ k.dhs = t.dhs
      /\ t.dhr = c.dhr /\ (~c.flag => t = c /\ Sending(c))
      /\ c.flag => t.dhs \in Keys \ Born /\ c.dhr \in Born /\ t.rk = Derive(c.rk, t.dhs, c.dhr)
  BY SentIs
<1>3. ASSUME ~c.flag, y.ckr.root = c.rk, y.dhr = c.dhs
      PROVE  InChain(y, k)
  <2>1. c.cks.root = c.rk
    BY <1>2, <1>3, <1>1, Names DEF OweInv, Linked, Sending
  <2>2. CASE y.ckr.n > 0
    <3>1. PICK z \in From(sent, p) : z.mk = [root |-> y.ckr.root, n |-> y.ckr.n - 1]
      BY <1>1, <2>2 DEF HeardOK, SentKey
    <3>2. y.ckr.n - 1 < c.ns
      <4>1. \A m \in SentBy(p) : m.mk.root = c.cks.root => m.mk.n < c.ns
        BY DEF WritesOK
      <4>2. z \in SentBy(p) /\ z.mk.root = c.cks.root /\ z.mk.n = y.ckr.n - 1
        BY <1>3, <2>1, <3>1 DEF SentBy, From
      <4> QED
        BY <4>1, <4>2
    <3>3. c.ns >= y.ckr.n
      BY <1>1, <3>2
    <3> QED
      BY <1>2, <1>3, <3>3 DEF InChain
  <2>3. CASE y.ckr.n = 0
    BY <1>1, <1>2, <1>3, <2>3 DEF InChain
  <2> QED
    BY <1>1, <2>2, <2>3
<1>4. CASE Follows(c, y)
  <2>1. ~c.flag /\ y.ckr.root = c.rk /\ y.dhr = c.dhs
    BY <1>1, <1>4 DEF Follows, Linked, Sending
  <2> QED
    BY <1>2, <1>3, <1>4, <2>1 DEF Joined
<1>5. CASE Crossed(c, y)
  <2>1. c.dhs \in Born /\ y.dhs \in Born /\ c.rk # <<>> /\ Sending(y)
    BY <1>1, <1>5, ContextIs DEF Crossed, ContextOK, Sending
  <2>2. Before(y.rk) = c.rk
    BY <1>1, <1>5, <2>1, BeforeDerived DEF Crossed
  <2>3. ~c.flag /\ y.ckr.root = c.rk /\ y.dhr = c.dhs
    BY <1>1, <1>5, <2>1, <2>2 DEF Crossed, Linked, Sending
  <2> QED
    BY <1>2, <1>3, <1>5, <2>3 DEF Joined, Crossed, Follows, Sending
<1>6. CASE Crossed(y, c)
  <2>1. ~c.flag /\ t = c
    BY <1>2, <1>6 DEF Crossed, Sending
  <2> QED
    BY <1>2, <1>6, <2>1 DEF Joined, Crossed, NextChain, Follows, Sending
<1>7. CASE Follows(y, c)
  <2>1. c.flag /\ Sending(y) /\ c.rk = y.rk /\ c.dhr = y.dhs
    BY <1>7 DEF Follows
  <2>2. t.rk = Derive(y.rk, y.dhs, t.dhs)
    BY <1>2, <2>1 DEF Derive
  <2>3. t.dhs # y.dhr
    BY <1>1, <1>2, <2>1 DEF ContextOK, Sending
  <2> QED
    BY <1>2, <2>1, <2>2, <2>3 DEF Joined, Crossed, NextChain, Follows, Sending
<1> QED
  BY <1>4, <1>5, <1>6, <1>7 DEF Joined

----------------------------------------------------------------------------
(* What a party wrote.                                                     *)

\* The context that has sent: the position moved on.
LEMMA UsedOnce ==
  ASSUME NEW t \in Conversation
  PROVE  LET u == Used(t)
         IN  /\ u.rk = t.rk /\ u.flag = t.flag /\ u.dhs = t.dhs /\ u.dhr = t.dhr
             /\ u.cks.root = t.cks.root /\ u.ckr = t.ckr /\ u.ns = t.ns + 1 /\ u.pns = t.pns
             /\ u.a0 = t.a0 /\ u.preKey = t.preKey /\ u.ctx = t.ctx /\ u.known = t.known
<1>1. Used(t).cks.root = t.cks.root
  BY UsedIs
<1> QED
  BY <1>1 DEF Used, Conversation

\* p sends k: what happens to the state.
SendBy(p, t, k) ==
  /\ conv[p][Primary].rk # <<>> /\ SentAs(p, t, k)
  /\ conv'[p][Primary] = Used(t)
  /\ \A d \in Contexts(p) \ {Primary} : conv'[p][d] = conv[p][d]
  /\ conv'[Peer(p)] = conv[Peer(p)] /\ sent' = sent \cup {k} /\ Born \subseteq Born'
  /\ UNCHANGED <<staged, preKeys, handedOut, setups, got, ordered, unsaved, reKeys, faults>>

LEMMA SentOut ==
  ASSUME KeyInv, NEW p \in Parties, Send(p)
  PROVE  \E t, k : SendBy(p, t, k)
<1> DEFINE t == Turn(conv[p][Primary], <<p, lastKey[p] + 1>>)
           k == Wire(p, t)
<1>1. Peer(p) \in Parties /\ Peer(p) # p /\ Primary \in Contexts(p) /\ TypeOK
  BY PeerFacts, Names DEF KeyInv
<1>2. /\ conv[p][Primary].rk # <<>> /\ conv' = [conv EXCEPT ![p][Primary] = Used(t)]
      /\ sent' = sent \cup {k}
      /\ UNCHANGED <<staged, preKeys, handedOut, setups, got, ordered, unsaved, reKeys, faults>>
  BY DEF Send
<1>3. /\ conv'[p][Primary] = Used(t) /\ conv'[Peer(p)] = conv[Peer(p)]
      /\ \A d \in Contexts(p) \ {Primary} : conv'[p][d] = conv[p][d]
  BY <1>1, <1>2 DEF TypeOK
<1>4. Born \subseteq Born'
  <2>1. lastKey' = IF conv[p][Primary].flag THEN [lastKey EXCEPT ![p] = @ + 1] ELSE lastKey
    BY DEF Send
  <2>2. \A q \in Parties : lastKey'[q] \in Nat /\ lastKey[q] <= lastKey'[q]
    BY <1>1, <2>1 DEF TypeOK
  <2> QED
    BY <2>2, BornGrows
<1>5. SentAs(p, t, k)
  BY DEF SentAs
<1> HIDE DEF t, k
<1> QED
  BY <1>2, <1>3, <1>4, <1>5 DEF SendBy

\* The messages of a party after one more; it has the highest number.
LEMMA OneMore ==
  ASSUME ForgetInv, OweInv, NEW p \in Parties, NEW t, NEW k, SendBy(p, t, k),
         \A x \in SentBy(p) : x.id <= Cardinality(SentBy(p))
  PROVE  /\ SentBy(p)' = SentBy(p) \cup {k} /\ SentBy(Peer(p))' = SentBy(Peer(p))
         /\ Cardinality(SentBy(p)) \in Nat
         /\ Cardinality(SentBy(p)') = Cardinality(SentBy(p)) + 1
         /\ k.id = Cardinality(SentBy(p)) + 1
         /\ \A x \in SentBy(p) : x.id < k.id
<1>1. k.from = p /\ k.id = Cardinality(SentBy(p)) + 1
  BY SentIs DEF SendBy
<1>2. Peer(p) # p
  BY PeerFacts
<1>3. SentBy(p)' = SentBy(p) \cup {k} /\ SentBy(Peer(p))' = SentBy(Peer(p))
  BY <1>1, <1>2 DEF SendBy, SentBy
<1>4. IsFiniteSet(SentBy(p))
  BY FS_Subset DEF SentBy, ForgetInv, KeyInv
<1>5. Cardinality(SentBy(p)) \in Nat
  BY <1>4, FS_CardinalityType
<1>6. \A x \in SentBy(p) : x.id < k.id
  <2> TAKE x \in SentBy(p)
  <2>1. x.id \in Nat
    BY MessageIs DEF SentBy, Message, ForgetInv
  <2> QED
    BY <1>1, <1>5, <2>1
<1>7. k \notin SentBy(p)
  BY <1>1, <1>5, <1>6
<1>8. Cardinality(SentBy(p) \cup {k}) = Cardinality(SentBy(p)) + 1
  BY <1>4, <1>7, FS_AddElement
<1> QED
  BY <1>1, <1>3, <1>5, <1>6, <1>8

\* What the next messages of p are like.
LEMMA Sends ==
  ASSUME ForgetInv, OweInv, NEW p \in Parties, NEW t, NEW k, SendBy(p, t, k)
  PROVE  LET c == conv[p][Primary]
             u == conv'[p][Primary]
         IN  /\ k.mk.root = u.rk /\ k.mk.n = u.ns - 1 /\ u.ns \in Nat \ {0} /\ k.dhs = u.dhs
             /\ k.from = p /\ k.pnp = u.pns /\ k.ctx = c.ctx /\ k.a0 = c.a0
             /\ k.preKey = (IF c.a0 = NoKey THEN NoKey ELSE c.preKey)
             /\ k.mk.root[1] = c.rk[1] /\ k.mk.root # <<>>
             /\ Sending(u) /\ u.cks.root = u.rk /\ u.rk \in Seq(SUBSET Keys)
             /\ u.dhr = c.dhr /\ u.ckr = c.ckr /\ u.a0 = c.a0 /\ u.preKey = c.preKey
             /\ u.ctx = c.ctx /\ u.known = c.known
             /\ ~c.flag => /\ Sending(c) /\ u.rk = c.rk /\ u.dhs = c.dhs /\ u.pns = c.pns
                           /\ u.ns = c.ns + 1 /\ c.cks.root = c.rk
             /\ c.flag => /\ u.ns = 1 /\ u.pns = c.ns /\ Before(u.rk) = c.rk
                          /\ u.rk = Derive(c.rk, u.dhs, c.dhr) /\ Len(u.rk) = Len(c.rk) + 1
                          /\ u.rk \notin Seq(SUBSET Born) /\ c.cks.root = Before(c.rk)
                          /\ u.dhs \in Keys \ Born /\ c.dhr \in Born
             /\ c.rk # <<>> /\ c.rk \in Seq(SUBSET Born) /\ Len(c.rk) \in Nat \ {0}
             /\ u.rk # <<>> /\ u.rk[1] = c.rk[1] /\ Len(u.rk) \in Nat /\ Len(u.rk) >= Len(c.rk)
<1> DEFINE c == conv[p][Primary]
           u == conv'[p][Primary]
<1>1. /\ KeyInv /\ SentAs(p, t, k) /\ c.rk # <<>> /\ u = Used(t)
      /\ c \in Conversation /\ Linked(sent, p, c) /\ c.rk \in Seq(SUBSET Born)
      /\ Len(c.rk) \in Nat \ {0} /\ Born \subseteq Keys /\ NoKey \notin Keys
  <2>1. KeyInv /\ Primary \in Contexts(p)
    BY Names DEF ForgetInv
  <2>2. c \in Conversation /\ c.rk \in Seq(SUBSET Born) /\ Len(c.rk) \in Nat
    BY <2>1, ConvRoots
  <2>3. c.rk # <<>>
    BY DEF SendBy
  <2>4. Len(c.rk) >= 1
    BY <2>1, <2>3, ConvRoots
  <2> QED
    BY <2>1, <2>2, <2>3, <2>4, BornFacts DEF OweInv, SendBy
<1>2. /\ t \in Conversation /\ Sending(t) /\ k.mk.root = t.rk /\ k.mk.n = t.ns /\ k.dhs = t.dhs
      /\ k.mk = t.cks /\ k.pnp = t.pns
      /\ k.from = p /\ k.ctx = c.ctx /\ k.a0 = c.a0
      /\ k.preKey = IF c.a0 = NoKey THEN NoKey ELSE c.preKey
      /\ t.dhr = c.dhr /\ t.ckr = c.ckr /\ t.ctx = c.ctx /\ t.known = c.known
      /\ ~c.flag => t = c /\ Sending(c)
      /\ c.flag => /\ t.ns = 0 /\ t.pns = c.ns /\ Before(t.rk) = c.rk
                   /\ t.rk = Derive(c.rk, t.dhs, c.dhr)
                   /\ t.rk \notin Seq(SUBSET Born)
                   /\ t.dhs \in Keys \ Born /\ c.dhr \in Born
  BY <1>1, SentIs
<1>3. /\ u.rk = t.rk /\ u.flag = t.flag /\ u.dhs = t.dhs /\ u.dhr = t.dhr
      /\ u.cks.root = t.cks.root /\ u.ckr = t.ckr /\ u.ns = t.ns + 1 /\ u.pns = t.pns
      /\ u.a0 = t.a0 /\ u.preKey = t.preKey /\ u.ctx = t.ctx /\ u.known = t.known
  BY <1>1, <1>2, UsedOnce
<1>4. t.ns \in Nat /\ c.ns \in Nat
  BY <1>1, <1>2 DEF Conversation
<1>5. c.flag => c.cks.root = Before(c.rk)
  BY <1>1 DEF Linked
<1>6. u.a0 = c.a0 /\ u.preKey = c.preKey /\ u.rk # <<>> /\ u.rk[1] = c.rk[1] /\ Len(u.rk) >= Len(c.rk)
      /\ k.mk.root # <<>> /\ k.mk.root[1] = c.rk[1]
  BY <1>1, Spoken DEF SentAs
<1>7. /\ u.ns \in Nat \ {0} /\ k.mk.n = u.ns - 1
      /\ Len(u.rk) \in Nat /\ u.rk \in Seq(SUBSET Keys) /\ Sending(u) /\ u.cks.root = u.rk
  <2>1. u.ns \in Nat \ {0} /\ k.mk.n = u.ns - 1
    BY <1>2, <1>3, <1>4
  <2>2. u.rk \in Seq(SUBSET Keys)
    BY <1>2, <1>3 DEF Conversation, Root
  <2>3. Len(u.rk) \in Nat
    BY <2>2, RootIs
  <2>4. t.cks.root = t.rk
    BY <1>2
  <2> QED
    BY <1>2, <1>3, <2>1, <2>2, <2>3, <2>4 DEF Sending
<1>8. ASSUME c.flag PROVE Len(u.rk) = Len(c.rk) + 1
  <2>1. c.rk \in Seq(SUBSET Keys)
    BY <1>1
  <2>2. t.dhs \in Keys /\ c.dhr \in Keys
    BY <1>1, <1>2, <1>8
  <2> QED
    BY <1>2, <1>3, <1>8, <2>1, <2>2, RootGrows
<1> HIDE DEF c, u
<1>9. ~c.flag => /\ Sending(c) /\ u.rk = c.rk /\ u.dhs = c.dhs /\ u.pns = c.pns
                 /\ u.ns = c.ns + 1 /\ c.cks.root = c.rk
  BY <1>1, <1>2, <1>3 DEF Linked
<1>10. c.flag => /\ u.ns = 1 /\ u.pns = c.ns /\ Before(u.rk) = c.rk
                 /\ u.rk = Derive(c.rk, u.dhs, c.dhr) /\ Len(u.rk) = Len(c.rk) + 1
                 /\ u.rk \notin Seq(SUBSET Born) /\ c.cks.root = Before(c.rk)
                 /\ u.dhs \in Keys \ Born /\ c.dhr \in Born
  BY <1>2, <1>3, <1>5, <1>8
<1>11. /\ k.mk.root = u.rk /\ k.dhs = u.dhs /\ k.pnp = u.pns
       /\ u.dhr = c.dhr /\ u.ckr = c.ckr /\ u.ctx = c.ctx /\ u.known = c.known
  BY <1>2, <1>3
<1> QED
  BY <1>1, <1>2, <1>6, <1>7, <1>9, <1>10, <1>11 DEF c, u

LEMMA SendWrites ==
  ASSUME ForgetInv, OweInv, NEW p \in Parties, NEW t, NEW k, SendBy(p, t, k),
         \A q \in Parties : WritesOK(q)
  PROVE  \A q \in Parties : WritesOK(q)'
<1> DEFINE c == conv[p][Primary]
           u == conv'[p][Primary]
<1>1. /\ k.mk.root = u.rk /\ k.mk.n = u.ns - 1 /\ u.ns \in Nat /\ k.dhs = u.dhs
      /\ k.mk.root # <<>> /\ k.mk.root[1] = c.rk[1]
      /\ Sending(u) /\ u.cks.root = u.rk /\ u.rk \in Seq(SUBSET Keys)
      /\ ~c.flag => /\ Sending(c) /\ u.rk = c.rk /\ u.dhs = c.dhs /\ u.pns = c.pns
                    /\ u.ns = c.ns + 1 /\ c.cks.root = c.rk
      /\ c.flag => /\ u.pns = c.ns /\ Before(u.rk) = c.rk /\ Len(u.rk) = Len(c.rk) + 1
                   /\ u.rk \notin Seq(SUBSET Born) /\ c.cks.root = Before(c.rk)
      /\ c.rk # <<>> /\ Len(c.rk) \in Nat \ {0}
      /\ u.rk # <<>> /\ u.rk[1] = c.rk[1] /\ Len(u.rk) \in Nat
  BY Sends
<1>2. c.ns \in Nat
  BY Names, ContextIs DEF ForgetInv, Conversation
<1>3. /\ SentBy(p)' = SentBy(p) \cup {k} /\ SentBy(Peer(p))' = SentBy(Peer(p))
      /\ Cardinality(SentBy(p)) \in Nat
      /\ Cardinality(SentBy(p)') = Cardinality(SentBy(p)) + 1
      /\ k.id = Cardinality(SentBy(p)) + 1
  <2>1. \A x \in SentBy(p) : x.id <= Cardinality(SentBy(p))
    BY DEF WritesOK
  <2> QED
    BY <2>1, OneMore
<1>4. Len(Before(Before(u.rk))) < Len(u.rk) /\ Before(Before(u.rk)) # u.rk
  <2>1. Before(u.rk) \in Seq(SUBSET Keys) /\ Len(Before(u.rk)) = Len(u.rk) - 1
    BY <1>1, BeforeIs
  <2>2. Before(u.rk) # <<>> => Len(Before(Before(u.rk))) = Len(Before(u.rk)) - 1
    BY <2>1, BeforeIs
  <2>3. Before(u.rk) = <<>> => Before(Before(u.rk)) = <<>> /\ Len(<<>>) = 0
    BY DEF Before
  <2>4. Len(u.rk) \in Nat /\ Len(u.rk) > 0
    BY <1>1, RootIs
  <2> QED
    BY <2>1, <2>2, <2>3, <2>4
<1>5. ASSUME NEW x \in SentBy(p)
      PROVE  /\ x.id <= Cardinality(SentBy(p)')
             /\ x.mk.root = u.cks.root => x.mk.n < u.ns
             /\ InSession(u, x.mk.root[1]) =>
                  Len(x.mk.root) < Len(u.rk) \/ (Sending(u) /\ x.mk.root = u.rk)
             /\ Sending(u) /\ x.mk.root = u.rk => x.dhs = u.dhs
             /\ Sending(u) /\ x.mk.root = Before(Before(u.rk)) => x.mk.n < u.pns
  <2>1. /\ x.id <= Cardinality(SentBy(p))
        /\ x.mk.root = c.cks.root => x.mk.n < c.ns
        /\ InSession(c, x.mk.root[1]) =>
             Len(x.mk.root) < Len(c.rk) \/ (Sending(c) /\ x.mk.root = c.rk)
        /\ Sending(c) /\ x.mk.root = c.rk => x.dhs = c.dhs
        /\ Sending(c) /\ x.mk.root = Before(Before(c.rk)) => x.mk.n < c.pns
    BY DEF WritesOK
  <2>2. x.id \in Nat /\ x.mk.n \in Nat /\ x.mk.root \in Seq(SUBSET Born) /\ Len(x.mk.root) \in Nat
    BY MessageRoots, KeyRoots DEF SentBy, ForgetInv, Message
  <2>3. x.id <= Cardinality(SentBy(p)')
    BY <1>3, <2>1, <2>2
  <2>4. InSession(u, x.mk.root[1]) = InSession(c, x.mk.root[1])
    BY <1>1 DEF InSession
  <2> HIDE DEF c, u
  <2>5. CASE c.flag
    <3>1. x.mk.root # u.rk
      BY <1>1, <2>2, <2>5
    <3>2. InSession(u, x.mk.root[1]) => Len(x.mk.root) < Len(u.rk)
      BY <1>1, <2>1, <2>2, <2>4, <2>5 DEF Sending
    <3>3. x.mk.root = Before(Before(u.rk)) => x.mk.n < u.pns
      BY <1>1, <2>1, <2>5
    <3> QED
      BY <1>1, <2>3, <3>1, <3>2, <3>3
  <2>6. CASE ~c.flag
    <3>1. x.mk.root = u.cks.root => x.mk.n < u.ns
      BY <1>1, <1>2, <2>1, <2>2, <2>6
    <3> QED
      BY <1>1, <2>1, <2>3, <2>4, <2>6, <3>1
  <2> QED
    BY <2>5, <2>6
<1>6. k.mk.n < u.ns /\ k.id <= Cardinality(SentBy(p)')
  BY <1>1, <1>3
<1> HIDE DEF c
<1>7. ASSUME NEW x \in SentBy(p)'
      PROVE  /\ x.id <= Cardinality(SentBy(p)')
             /\ x.mk.root = u.cks.root => x.mk.n < u.ns
             /\ InSession(u, x.mk.root[1]) =>
                  Len(x.mk.root) < Len(u.rk) \/ (Sending(u) /\ x.mk.root = u.rk)
             /\ Sending(u) /\ x.mk.root = u.rk => x.dhs = u.dhs
             /\ Sending(u) /\ x.mk.root = Before(Before(u.rk)) => x.mk.n < u.pns
  <2>1. CASE x \in SentBy(p)
    BY <1>5, <2>1
  <2>2. CASE x = k
    BY <1>1, <1>4, <1>6, <2>2
  <2> QED
    BY <1>3, <2>1, <2>2
<1>8. WritesOK(p)'
  BY <1>7 DEF WritesOK
<1>9. WritesOK(Peer(p))'
  <2>1. conv'[Peer(p)] = conv[Peer(p)] /\ WritesOK(Peer(p))
    BY PeerFacts DEF SendBy
  <2> QED
    BY <1>3, <2>1 DEF WritesOK
<1> QED
  BY <1>8, <1>9, PeerFacts

LEMMA SendWritten ==
  ASSUME ForgetInv, OweInv, NEW p \in Parties, NEW t, NEW k, SendBy(p, t, k),
         WritesOK(p), WritesOK(p)', \A m \in sent : WrittenOK(m)
  PROVE  \A m \in sent' : WrittenOK(m)'
<1> DEFINE c == conv[p][Primary]
           u == conv'[p][Primary]
<1>1. /\ k.mk.root = u.rk /\ k.dhs = u.dhs /\ k.from = p /\ k.pnp = u.pns /\ k.a0 = c.a0
      /\ k.preKey = (IF c.a0 = NoKey THEN NoKey ELSE c.preKey)
      /\ k.mk.root # <<>> /\ k.mk.root[1] = c.rk[1] /\ Sending(u)
      /\ ~c.flag => Sending(c) /\ u.rk = c.rk /\ u.dhs = c.dhs
      /\ c.flag => Len(u.rk) = Len(c.rk) + 1 /\ u.rk \notin Seq(SUBSET Born)
      /\ c.rk # <<>> /\ Len(c.rk) \in Nat /\ Len(u.rk) \in Nat /\ Len(u.rk) >= Len(c.rk)
  BY Sends
<1>2. sent' = sent \cup {k} /\ SentBy(p)' = SentBy(p) \cup {k} /\ SentBy(Peer(p))' = SentBy(Peer(p))
  <2>1. \A x \in SentBy(p) : x.id <= Cardinality(SentBy(p))
    BY DEF WritesOK
  <2> QED
    BY <2>1, OneMore DEF SendBy
<1>3. ASSUME NEW x \in SentBy(p)
      PROVE  /\ x.mk.root = k.mk.root => x.dhs = k.dhs
             /\ x.mk.root[1] = k.mk.root[1] =>
                  Len(x.mk.root) < Len(k.mk.root) \/ x.mk.root = k.mk.root
             /\ x.mk.root = Before(Before(k.mk.root)) => x.mk.n < k.pnp
             /\ Len(x.mk.root) \in Nat /\ x.mk.root \in Seq(SUBSET Born)
  <2>1. /\ InSession(c, x.mk.root[1]) =>
             Len(x.mk.root) < Len(c.rk) \/ (Sending(c) /\ x.mk.root = c.rk)
        /\ Sending(c) /\ x.mk.root = c.rk => x.dhs = c.dhs
    BY DEF WritesOK
  <2>2. x.mk.root \in Seq(SUBSET Born) /\ Len(x.mk.root) \in Nat
    BY MessageRoots, KeyRoots DEF SentBy, ForgetInv
  <2>3. x.mk.root = Before(Before(u.rk)) => x.mk.n < u.pns
    <3>1. x \in SentBy(p)'
      BY <1>2
    <3> QED
      BY <1>1, <3>1 DEF WritesOK
  <2> HIDE DEF c, u
  <2>4. x.mk.root[1] = k.mk.root[1] => InSession(c, x.mk.root[1])
    BY <1>1 DEF InSession
  <2>5. CASE c.flag
    BY <1>1, <2>1, <2>2, <2>3, <2>4, <2>5 DEF Sending
  <2>6. CASE ~c.flag
    BY <1>1, <2>1, <2>2, <2>3, <2>4, <2>6
  <2> QED
    BY <2>5, <2>6
<1>4. Len(k.mk.root) \in Nat /\ k.mk.root \in Seq(SUBSET Keys) /\ (IsSetup(k) \/ k.preKey = NoKey)
  BY <1>1, Sends DEF IsSetup
<1>5. \A m \in {k} \cup sent : m.mk.root \in Seq(SUBSET Keys) /\ m.mk.root # <<>>
  <2>1. \A m \in sent : m.mk.root \in Seq(SUBSET Keys) /\ m.mk.root # <<>>
    BY MessageIs DEF ForgetInv, SaidOK, Message, ChainKey, Root
  <2> QED
    BY <1>1, <1>4, <2>1
<1>6. \A r \in Seq(SUBSET Keys) : r # <<>> =>
         /\ Before(Before(r)) # <<>> => /\ Before(Before(r))[1] = r[1]
                                        /\ Len(Before(Before(r))) < Len(r)
         /\ Before(Before(r)) # r
  <2> SUFFICES ASSUME NEW r \in Seq(SUBSET Keys), r # <<>>
               PROVE  /\ Before(Before(r)) # <<>> => /\ Before(Before(r))[1] = r[1]
                                                     /\ Len(Before(Before(r))) < Len(r)
                      /\ Before(Before(r)) # r
    OBVIOUS
  <2>1. Before(r) \in Seq(SUBSET Keys) /\ Len(Before(r)) = Len(r) - 1 /\ Len(r) \in Nat
    BY BeforeIs, RootIs
  <2>2. CASE Before(r) = <<>>
    <3>1. Before(Before(r)) = <<>>
      BY <2>2 DEF Before
    <3> QED
      BY <3>1
  <2>3. CASE Before(r) # <<>>
    <3>1. Len(Before(Before(r))) = Len(Before(r)) - 1
      BY <2>1, <2>3, BeforeIs
    <3>2. Before(Before(r)) # <<>> => Before(Before(r))[1] = Before(r)[1]
      BY <2>1, <2>3, BeforeIs
    <3>3. Before(r)[1] = r[1]
      BY <2>3, BeforeIs
    <3> QED
      BY <2>1, <3>1, <3>2, <3>3
  <2> QED
    BY <2>2, <2>3
<1> HIDE DEF c, u
<1>7. ASSUME NEW m \in SentBy(p)
      PROVE  /\ k.mk.root = m.mk.root => k.dhs = m.dhs
             /\ k.mk.root[1] = m.mk.root[1] /\ Len(k.mk.root) = Len(m.mk.root)
                  => k.mk.root = m.mk.root
             /\ k.mk.root # Before(Before(m.mk.root))
  <2>1. m.mk.root \in Seq(SUBSET Keys) /\ m.mk.root # <<>>
    BY <1>5 DEF SentBy
  <2>2. k.mk.root # Before(Before(m.mk.root))
    <3> SUFFICES ASSUME k.mk.root = Before(Before(m.mk.root)) PROVE FALSE
      OBVIOUS
    <3>1. k.mk.root[1] = m.mk.root[1] /\ Len(k.mk.root) < Len(m.mk.root)
      BY <1>1, <1>6, <2>1
    <3> QED
      BY <1>3, <1>4, <3>1
  <2> QED
    BY <1>3, <1>4, <2>2
<1>8. Before(Before(k.mk.root)) # k.mk.root
  BY <1>1, <1>4, <1>6
<1>9. ASSUME NEW m \in sent', m.from = p
      PROVE  WrittenOK(m)'
  <2>1. ASSUME NEW x \in SentBy(p)'
        PROVE  /\ x.mk.root = m.mk.root => x.dhs = m.dhs
               /\ x.mk.root[1] = m.mk.root[1] /\ Len(x.mk.root) = Len(m.mk.root)
                    => x.mk.root = m.mk.root
               /\ x.mk.root = Before(Before(m.mk.root)) => x.mk.n < m.pnp
               /\ IsSetup(m) \/ m.preKey = NoKey
    <3>1. CASE m \in sent /\ x \in SentBy(p)
      BY <1>9, <3>1 DEF WrittenOK
    <3>2. CASE m \in sent /\ x = k
      <4>1. m \in SentBy(p) /\ WrittenOK(m)
        BY <1>9, <3>2 DEF SentBy
      <4>2. IsSetup(m) \/ m.preKey = NoKey
        BY <4>1, <1>9 DEF WrittenOK
      <4> QED
        BY <1>7, <3>2, <4>1, <4>2
    <3>3. CASE m = k /\ x \in SentBy(p)
      BY <1>3, <1>4, <3>3
    <3>4. CASE m = k /\ x = k
      BY <1>4, <1>8, <3>4
    <3> QED
      BY <1>2, <3>1, <3>2, <3>3, <3>4
  <2> QED
    BY <1>9, <2>1 DEF WrittenOK
<1>10. ASSUME NEW m \in sent', m.from # p
       PROVE  WrittenOK(m)'
  <2>1. m \in sent /\ m.from = Peer(p)
    <3>1. m \in sent
      BY <1>1, <1>2, <1>10
    <3>2. m.from \in Parties
      BY <3>1, MessageIs DEF ForgetInv, Message
    <3> QED
      BY <1>10, <3>1, <3>2, PeerFacts
  <2>2. SentBy(m.from)' = SentBy(m.from) /\ WrittenOK(m)
    BY <1>2, <2>1
  <2> QED
    BY <2>2 DEF WrittenOK
<1> QED
  BY <1>9, <1>10

\* A message opens a session with a pre-key, or the context that reads it goes on.
LEMMA ReadHow ==
  ASSUME ForgetInv, NEW p \in Parties, NEW m \in sent, m.from # p, NEW x \in Contexts(p),
         DecryptInternal(p, x, m).ok
  PROVE  LET v == conv[p][x]
             r == DecryptInternal(p, x, m)
         IN  IF HasPreKey(p, m) THEN Answers(p, r.conv, m, r.new)
             ELSE /\ Own(v, r.conv)
                  /\ Alters(v, r.conv) \/ StepsOn(v, r.conv, m, r.new)
                       \/ TurnsTo(v, r.conv, m, r.new)
<1> DEFINE v == conv[p][x]
           r == DecryptInternal(p, x, m)
<1>1. KeyInv
  BY DEF ForgetInv
<1>2. \/ m.mk \in staged[p][x] /\ Alters(v, r.conv)
      \/ StepsOn(v, r.conv, m, r.new) \/ TurnsTo(v, r.conv, m, r.new)
      \/ Answers(p, r.conv, m, r.new)
  BY ReadAs
<1>3. CASE ~HasPreKey(p, m)
  BY <1>1, <1>2, <1>3, OfItsOwn DEF Answers
<1>4. CASE HasPreKey(p, m)
  <2>1. m.mk.root # <<>> /\ m.mk.root[1] = {m.a0, m.preKey} /\ m.preKey \in preKeys[p]
    BY <1>4 DEF ForgetInv, SaidOK, HasPreKey
  <2>2. v.rk # <<>> => m.mk.root[1] # v.rk[1]
    BY <2>1, ReaderIs
  <2>3. m.mk \notin staged[p][x]
    BY <2>1 DEF ForgetInv, StagedOK
  <2>4. ~StepsOn(v, r.conv, m, r.new)
    <3>1. v.ckr.root # <<>> => v.rk # <<>> /\ v.ckr.root[1] = v.rk[1]
      BY ReaderIs
    <3> QED
      BY <2>1, <2>2, <3>1 DEF StepsOn
  <2>5. ~TurnsTo(v, r.conv, m, r.new)
    BY <2>2 DEF TurnsTo
  <2> QED
    BY <1>2, <1>4, <2>3, <2>4, <2>5
<1> QED
  BY <1>3, <1>4

\* Nothing is sent: the context sends in the chain it had, or in none that p knows.
LEMMA QuietWrites ==
  ASSUME ForgetInv, NEW p \in Parties, sent' = sent, WritesOK(p),
         \/ LET v == conv[p][Primary]
                w == conv'[p][Primary]
            IN  /\ w.cks = v.cks /\ w.ns = v.ns
                /\ \/ w.rk = v.rk /\ w.flag = v.flag /\ w.dhs = v.dhs /\ w.pns = v.pns
                   \/ ~Sending(w) /\ SameSetup(v, w) /\ Len(w.rk) = Len(v.rk) + 1
         \/ /\ ~Sending(conv'[p][Primary])
            /\ \A z \in SentBy(p) : /\ z.mk.root # conv'[p][Primary].cks.root
                                    /\ ~InSession(conv'[p][Primary], z.mk.root[1])
  PROVE  WritesOK(p)'
<1> DEFINE v == conv[p][Primary]
           w == conv'[p][Primary]
<1>1. SentBy(p)' = SentBy(p) /\ Len(v.rk) \in Nat
  BY Names, ConvRoots DEF SentBy, ForgetInv
<1>2. ASSUME NEW z \in SentBy(p)
      PROVE  /\ z.id <= Cardinality(SentBy(p))
             /\ z.mk.root = v.cks.root => z.mk.n < v.ns
             /\ InSession(v, z.mk.root[1]) =>
                  Len(z.mk.root) < Len(v.rk) \/ (Sending(v) /\ z.mk.root = v.rk)
             /\ Sending(v) /\ z.mk.root = v.rk => z.dhs = v.dhs
             /\ Sending(v) /\ z.mk.root = Before(Before(v.rk)) => z.mk.n < v.pns
             /\ Len(z.mk.root) \in Nat
  BY MessageRoots, KeyRoots DEF WritesOK, SentBy, ForgetInv
<1>3. CASE /\ w.cks = v.cks /\ w.ns = v.ns
           /\ w.rk = v.rk /\ w.flag = v.flag /\ w.dhs = v.dhs /\ w.pns = v.pns
  BY <1>1, <1>2, <1>3 DEF WritesOK, InSession, Sending
<1>4. CASE /\ w.cks = v.cks /\ w.ns = v.ns
           /\ ~Sending(w) /\ SameSetup(v, w) /\ Len(w.rk) = Len(v.rk) + 1
  <2>1. ASSUME NEW z \in SentBy(p), InSession(w, z.mk.root[1])
        PROVE  Len(z.mk.root) < Len(w.rk)
    <3>1. InSession(v, z.mk.root[1])
      BY <1>4, <2>1 DEF SameSetup, InSession
    <3> QED
      BY <1>1, <1>2, <1>4, <3>1
  <2> QED
    BY <1>1, <1>2, <1>4, <2>1 DEF WritesOK
<1>5. CASE /\ ~Sending(w)
           /\ \A z \in SentBy(p) : z.mk.root # w.cks.root /\ ~InSession(w, z.mk.root[1])
  BY <1>1, <1>2, <1>5 DEF WritesOK
<1> QED
  BY <1>3, <1>4, <1>5

LEMMA ReceiveWrites ==
  ASSUME ForgetInv, OweInv, NEW p \in Parties, NEW m \in sent, NEW x, NEW r,
         ReadBy(p, m, x, r), \A q \in Parties : WritesOK(q)
  PROVE  \A q \in Parties : WritesOK(q)'
<1> DEFINE v == conv[p][x]
           w == r.conv
<1>1. /\ KeyInv /\ x \in Contexts(p) /\ m.from # p /\ r = DecryptInternal(p, x, m) /\ r.ok
      /\ sent' = sent /\ conv'[p][x] = w /\ Primary \in Contexts(p) /\ conv'[Peer(p)] = conv[Peer(p)]
      /\ \A d \in Contexts(p) \ {x} : conv'[p][d] = conv[p][d]
  BY Names DEF ReadBy, ForgetInv
<1>2. WritesOK(Peer(p))'
  <2>1. conv'[Peer(p)][Primary] = conv[Peer(p)][Primary] /\ Peer(p) \in Parties
    BY <1>1, PeerFacts
  <2> QED
    BY <1>1, <2>1, QuietWrites
<1>3. CASE x # Primary
  <2>1. conv'[p][Primary] = conv[p][Primary]
    BY <1>1, <1>3
  <2> QED
    BY <1>1, <1>2, <2>1, QuietWrites, PeerFacts
<1>4. CASE x = Primary /\ HasPreKey(p, m)
  <2>1. Answers(p, w, m, r.new)
    BY <1>1, <1>4, ReadHow
  <2>2. Linked(sent, p, w)
    BY <1>1, ReaderLinked
  <2>3. /\ w.rk = m.mk.root /\ m.mk.root # <<>> /\ m.mk.root[1] = {m.a0, m.preKey} /\ w.flag
        /\ w.cks.root = Before(m.mk.root) /\ m.preKey \in preKeys[p]
    BY <2>1, <2>2 DEF Answers, Linked, HasPreKey
  <2>4. m.mk.root \in Seq(SUBSET Born)
    BY <1>1, MessageRoots
  <2>5. ASSUME NEW z \in SentBy(p)
        PROVE  z.mk.root # w.cks.root /\ ~InSession(w, z.mk.root[1])
    <3>1. z.mk.root # <<>> /\ z.mk.root[1] \cap preKeys[p] = {}
      BY DEF ForgetInv, SaidOK, SentBy
    <3>2. z.mk.root[1] # m.mk.root[1]
      BY <2>3, <3>1
    <3> QED
      BY <2>3, <2>4, <3>1, <3>2, BeforeIs DEF InSession
  <2>6. WritesOK(p)'
    BY <1>1, <1>4, <2>3, <2>5, QuietWrites DEF Sending
  <2> QED
    BY <1>2, <2>6, PeerFacts
<1>5. CASE x = Primary /\ ~HasPreKey(p, m)
  <2>1. Own(v, w) /\ (Alters(v, w) \/ StepsOn(v, w, m, r.new) \/ TurnsTo(v, w, m, r.new))
    BY <1>1, <1>5, ReadHow
  <2>2. \/ w.rk = v.rk /\ w.flag = v.flag
        \/ ~Sending(w) /\ SameSetup(v, w) /\ Len(w.rk) = Len(v.rk) + 1
    BY <2>1 DEF Alters, StepsOn, TurnsTo, SameSetup, Sending
  <2>3. w.cks = v.cks /\ w.ns = v.ns /\ w.dhs = v.dhs /\ w.pns = v.pns
    BY <2>1 DEF Own
  <2>4. WritesOK(p)'
    BY <1>1, <1>5, <2>2, <2>3, QuietWrites
  <2> QED
    BY <1>2, <2>4, PeerFacts
<1> QED
  BY <1>3, <1>4, <1>5

LEMMA ReceiveHeard ==
  ASSUME ForgetInv, OweInv, NEW p \in Parties, NEW m \in sent, NEW x, NEW r,
         ReadBy(p, m, x, r), \A q \in Parties : HeardOK(q)
  PROVE  \A q \in Parties : HeardOK(q)'
<1> DEFINE v == conv[p][x]
           w == r.conv
<1>1. /\ KeyInv /\ x \in Contexts(p) /\ m.from # p /\ r = DecryptInternal(p, x, m) /\ r.ok
      /\ sent' = sent /\ conv'[p][x] = w /\ conv'[Peer(p)] = conv[Peer(p)]
      /\ \A d \in Contexts(p) \ {x} : conv'[p][d] = conv[p][d]
  BY DEF ReadBy, ForgetInv
<1>2. m.from = Peer(p) /\ m.mk \in ChainKey
  BY <1>1, PeerFacts, MessageRoots
<1>3. \/ w.ckr = v.ckr
      \/ w.ckr.root = m.mk.root /\ w.ckr.n = m.mk.n + 1
  BY <1>1, ReadHow DEF Alters, StepsOn, TurnsTo, Answers
<1>4. m.mk = [root |-> m.mk.root, n |-> m.mk.n] /\ m.mk.n \in Nat
  BY <1>2 DEF ChainKey
<1>5. ASSUME w.ckr.root = m.mk.root, w.ckr.n = m.mk.n + 1
      PROVE  SentKey(sent, Peer(p), w.ckr.root, w.ckr.n - 1)
  <2>1. w.ckr.n - 1 = m.mk.n
    BY <1>4, <1>5
  <2> QED
    BY <1>2, <1>4, <1>5, <2>1 DEF SentKey, From
<1>6. ASSUME NEW c \in Contexts(p), conv'[p][c].ckr.n > 0
      PROVE  SentKey(sent, Peer(p), conv'[p][c].ckr.root, conv'[p][c].ckr.n - 1)
  <2>1. CASE conv'[p][c].ckr = conv[p][c].ckr
    BY <1>6, <2>1 DEF HeardOK
  <2>2. CASE c = x /\ w.ckr.root = m.mk.root /\ w.ckr.n = m.mk.n + 1
    BY <1>1, <1>5, <2>2
  <2> QED
    BY <1>1, <1>3, <2>1, <2>2
<1>7. HeardOK(p)'
  BY <1>1, <1>6 DEF HeardOK
<1>8. HeardOK(Peer(p))'
  BY <1>1, PeerFacts DEF HeardOK
<1> QED
  BY <1>7, <1>8, PeerFacts

----------------------------------------------------------------------------
(* Setups that stay apart, and messages in order.                          *)

LEMMA ReadsKnown ==
  ASSUME KeyInv, NEW p \in Parties, NEW m \in sent, m.from # p, NEW x \in Contexts(p),
         DecryptInternal(p, x, m).ok
  PROVE  DecryptInternal(p, x, m).conv.known
<1> DEFINE v == conv[p][x]
           s == SetupConv(p, v, m)
           r == DecryptInternal(p, x, m)
<1>1. s \in Conversation
  BY SetupConvIs
<1>2. s.known /\ ~Refused(p, v, m)
  BY DEF DecryptInternal, Refused, Outcome
<1> HIDE DEF s
<1>3. r.conv = s \/ r = OldRatchet(s, m) \/ r = NewRatchet(s, m)
  BY <1>2 DEF DecryptInternal, Outcome, s
<1>4. Own(s, OldRatchet(s, m).conv) /\ Own(s, NewRatchet(s, m).conv)
  BY <1>1, RatchetsOwn
<1> QED
  BY <1>2, <1>3, <1>4 DEF Own

\* The session of a message is one of the setups, and its pre-key is in it.
LEMMA SetupOf ==
  ASSUME ForgetInv, NamesInv, NEW m \in sent
  PROVE  /\ \E i \in DOMAIN setups : setups[i] = m.mk.root[1]
         /\ m.ctx \in DOMAIN setups /\ m.mk.root # <<>>
         /\ m.from \in Parties
         /\ m.mk.root[1] \cap preKeys[m.from] = {}
         /\ IsSetup(m) => m.mk.root[1] = {m.a0, m.preKey} /\ m.preKey \in PreKeys(Peer(m.from))
<1>1. Made(m.mk.root[1]) /\ m.ctx \in DOMAIN setups
  BY DEF NamesInv
<1>2. SaidOK(m) /\ MessageOK(Born, preKeys[m.from], m) /\ m \in Message
  BY MessageIs DEF ForgetInv
<1> QED
  BY <1>1, <1>2 DEF Made, SaidOK, MessageOK, SetupOK, IsSetup, Message

LEMMA PreKeyHanded ==
  ASSUME ForgetInv, NamesInv, ApartOK, NEW m \in sent, WrittenOK(m),
         NEW q \in Parties, NEW n \in 1 .. MaxSetups, m.preKey = PreKeyOf(q, n)
  PROVE  n <= handedOut[q]
<1>1. m.preKey # NoKey
  BY DEF PreKeyOf, Keys
<1>2. m.mk.root[1] = {m.a0, m.preKey}
  BY <1>1, SetupOf DEF WrittenOK, SentBy
<1> QED
  BY <1>2, SetupOf DEF ApartOK

\* Pre-keys that were not handed out stay when the one of a message is spent.
LEMMA SpareKeys ==
  ASSUME ForgetInv, NamesInv, ApartOK, NEW p \in Parties, NEW m \in sent, WrittenOK(m),
         preKeys'[p] = preKeys[p] \ {m.preKey}, preKeys'[Peer(p)] = preKeys[Peer(p)]
  PROVE  \A q \in Parties : \A n \in 1 .. MaxSetups :
            n > handedOut[q] => PreKeyOf(q, n) \in preKeys'[q]
<1> SUFFICES ASSUME NEW q \in Parties, NEW n \in 1 .. MaxSetups, n > handedOut[q]
             PROVE  PreKeyOf(q, n) \in preKeys'[q]
  OBVIOUS
<1>1. PreKeyOf(q, n) \in preKeys[q]
  BY DEF ApartOK, KnownOK
<1>2. handedOut[q] \in Nat
  BY DEF ForgetInv, KeyInv, TypeOK
<1>3. m.preKey # PreKeyOf(q, n)
  BY <1>2, PreKeyHanded
<1> QED
  BY <1>1, <1>3, PeerFacts

\* One context of a party changes, and nothing is set up.
LEMMA StaysApart ==
  ASSUME ForgetInv, ApartOK, UNCHANGED <<setups, handedOut>>, Born \subseteq Born',
         reKeys <= reKeys', reKeys \in Nat, reKeys' \in Nat,
         \A q \in Parties : \A n \in 1 .. MaxSetups :
            n > handedOut[q] => PreKeyOf(q, n) \in preKeys'[q],
         NEW p \in Parties, NEW x \in Contexts(p),
         \A d \in Contexts(p) \ {x} : conv'[p][d] = conv[p][d],
         conv'[Peer(p)] = conv[Peer(p)],
         conv'[p][x].ctx <= Len(setups),
         conv'[p][x].rk # <<>> => conv'[p][x].known,
         x = Primary => (conv[p][x].known => conv'[p][x].known),
         x = Primary /\ reKeys' = 0 => (conv'[p][x].known => conv'[p][x].rk # <<>>)
  PROVE  ApartOK'
<1>1. ASSUME NEW q \in Parties
      PROVE  KnownOK(q)'
  <2>1. /\ Len(setups) = handedOut[q] + handedOut[Peer(q)] /\ handedOut[q] <= MaxSetups
        /\ \A c \in Contexts(q) : /\ conv[q][c].ctx <= Len(setups)
                                  /\ conv[q][c].rk # <<>> => conv[q][c].known
        /\ handedOut[Peer(q)] > 0 => conv[q][Primary].known
        /\ reKeys = 0 => handedOut[q] <= 1
                         /\ (conv[q][Primary].known => conv[q][Primary].rk # <<>>)
    <3>1. KnownOK(q)
      BY DEF ApartOK
    <3> QED
      BY <3>1 DEF KnownOK
  <2>2. reKeys' = 0 => reKeys = 0
    OBVIOUS
  <2>3. q = p \/ q = Peer(p)
    BY PeerFacts
  <2>4. Primary \in Contexts(q)
    BY Names
  <2>5. \A n \in 1 .. MaxSetups : n > handedOut[q] => PreKeyOf(q, n) \in preKeys'[q]
    OBVIOUS
  <2>6. /\ \A c \in Contexts(q) : /\ conv'[q][c].ctx <= Len(setups)
                                  /\ conv'[q][c].rk # <<>> => conv'[q][c].known
        /\ conv[q][Primary].known => conv'[q][Primary].known
        /\ reKeys' = 0 => (conv'[q][Primary].known => conv'[q][Primary].rk # <<>>)
    <3>1. CASE q = Peer(p)
      BY <2>1, <2>2, <3>1
    <3>2. CASE q = p
      <4>1. ASSUME NEW c \in Contexts(p)
            PROVE  conv'[p][c].ctx <= Len(setups) /\ (conv'[p][c].rk # <<>> => conv'[p][c].known)
        BY <2>1, <3>2
      <4>2. conv[p][Primary].known => conv'[p][Primary].known
        BY <2>4, <3>2
      <4>3. reKeys' = 0 => (conv'[p][Primary].known => conv'[p][Primary].rk # <<>>)
        BY <2>1, <2>2, <2>4, <3>2
      <4> QED
        BY <3>2, <4>1, <4>2, <4>3
    <3> QED
      BY <2>3, <3>1, <3>2
  <2> QED
    BY <2>1, <2>2, <2>5, <2>6 DEF KnownOK
<1>2. \A i \in DOMAIN setups :
         /\ setups[i] \subseteq Born'
         /\ \A q \in Parties : \A n \in 1 .. MaxSetups : PreKeyOf(q, n) \in setups[i] =>
              /\ n <= handedOut[q]
              /\ \A k \in setups[i] : k[2] <= MaxSetups => k = PreKeyOf(q, n)
         /\ \A j \in DOMAIN setups \ {i} : setups[i] \cap setups[j] = {}
  BY DEF ApartOK
<1> QED
  BY <1>1, <1>2 DEF ApartOK

LEMMA SetupList ==
  ASSUME ForgetInv
  PROVE  setups \in Seq(SUBSET Keys) /\ Len(setups) \in Nat /\ DOMAIN setups = 1 .. Len(setups)
<1>1. setups \in Seq(SUBSET Keys)
  BY DEF ForgetInv, KeyInv, TypeOK
<1> QED
  BY <1>1, LenProperties

LEMMA ReceiveApart ==
  ASSUME ForgetInv, NamesInv, ApartOK, NEW p \in Parties, NEW m \in sent, WrittenOK(m),
         NEW x, NEW r, ReadBy(p, m, x, r)
  PROVE  ApartOK'
<1> DEFINE v == conv[p][x]
           w == r.conv
<1>1. /\ KeyInv /\ x \in Contexts(p) /\ m.from # p /\ r = DecryptInternal(p, x, m) /\ r.ok
      /\ conv'[p][x] = w /\ conv'[Peer(p)] = conv[Peer(p)] /\ Primary \in Contexts(p)
      /\ \A d \in Contexts(p) \ {x} : conv'[p][d] = conv[p][d]
      /\ UNCHANGED <<setups, handedOut, reKeys, lastKey>>
      /\ preKeys'[p] = preKeys[p] \ {m.preKey} /\ preKeys'[Peer(p)] = preKeys[Peer(p)]
  BY Names DEF ReadBy, ForgetInv
<1>2. w.known
  BY <1>1, ReadsKnown
<1>3. w.ctx <= Len(setups)
  <2>1. v.ctx <= Len(setups)
    <3>1. KnownOK(p)
      BY DEF ApartOK
    <3> QED
      BY <1>1, <3>1 DEF KnownOK
  <2>2. m.ctx \in 1 .. Len(setups)
    BY SetupOf, SetupList
  <2>3. Len(setups) \in Nat
    BY SetupList
  <2> QED
    BY <1>1, <2>1, <2>2, <2>3, CtxIs
<1>4. x = Primary /\ reKeys = 0 => w.rk # <<>>
  <2> SUFFICES ASSUME x = Primary, reKeys = 0 PROVE w.rk # <<>>
    OBVIOUS
  <2>1. CASE HasPreKey(p, m)
    BY <1>1, <2>1, ReadHow DEF Answers
  <2>2. CASE ~HasPreKey(p, m)
    <3>1. Own(v, w) /\ (Alters(v, w) \/ StepsOn(v, w, m, r.new) \/ TurnsTo(v, w, m, r.new))
      BY <1>1, <2>2, ReadHow
    <3>2. v.rk # <<>>
      BY <1>2, <3>1 DEF ApartOK, KnownOK, Own
    <3> QED
      BY <3>1, <3>2 DEF Alters, StepsOn, TurnsTo
  <2> QED
    BY <2>1, <2>2
<1>5. reKeys \in Nat /\ Born' = Born
  BY <1>1 DEF KeyInv, TypeOK, Born
<1>6. \A q \in Parties : \A n \in 1 .. MaxSetups :
         n > handedOut[q] => PreKeyOf(q, n) \in preKeys'[q]
  BY <1>1, SpareKeys
<1> HIDE DEF w, v
<1> QED
  BY <1>1, <1>2, <1>3, <1>4, <1>5, <1>6, StaysApart

\* At most a message is read that is the next in order.
LEMMA ReadInOrder ==
  ASSUME ForgetInv, OrderOK, NEW p \in Parties, NEW m, sent' = sent,
         ordered' = (ordered /\ InOrder(p, m)), m.from \in Parties,
         got'[p] \in {got[p], got[p] \cup {m}}, got'[Peer(p)] = got[Peer(p)]
  PROVE  OrderOK'
<1> SUFFICES ASSUME ordered', NEW q \in Parties, NEW z \in got'[q], NEW y \in SentBy(z.from)',
                    y.id < z.id
             PROVE  y \in got'[q]
  BY DEF OrderOK
<1>1. y \in SentBy(z.from) /\ ordered /\ InOrder(p, m)
  BY DEF SentBy
<1>2. CASE z \in got[q]
  <2>1. y \in got[q]
    BY <1>1, <1>2 DEF OrderOK
  <2> QED
    BY <2>1, PeerFacts
<1>3. CASE q = p /\ z = m
  BY <1>1, <1>3 DEF InOrder
<1> QED
  BY <1>2, <1>3, PeerFacts

\* p sets up a session with its new key a0 and the pre-key b0: what happens to the state.
SetUpBy(p, a0, b0) ==
  LET w == conv'[p][Primary]
      n == handedOut[Peer(p)] + 1
  IN  /\ conv[p][Primary].rk = <<>> /\ n \in 1 .. MaxSetups
      /\ a0 \in Keys \ Born /\ a0[2] > MaxSetups /\ a0 \in Born' /\ Born \subseteq Born'
      /\ b0 = PreKeyOf(Peer(p), n) /\ b0 \in Born /\ b0[2] <= MaxSetups
      /\ w.rk = Derive(<<>>, a0, b0) /\ w.rk # <<>> /\ w.rk[1] = {a0, b0} /\ w.dhr = b0
      /\ w.dhs = NoKey /\ w.a0 = a0 /\ w.preKey = b0 /\ w.ckr.n = 0 /\ w.cks.root = <<>>
      /\ w.flag /\ w.ctx = Len(setups) + 1 /\ w.known
      /\ \A d \in Contexts(p) \ {Primary} : conv'[p][d] = conv[p][d]
      /\ conv'[Peer(p)] = conv[Peer(p)]
      /\ setups' = Append(setups, {a0, b0})
      /\ handedOut'[Peer(p)] = n /\ handedOut'[p] = handedOut[p]
      /\ UNCHANGED <<staged, preKeys, sent, got, ordered, unsaved, reKeys, faults>>

LEMMA SetsUp ==
  ASSUME KeyInv, NEW p \in Parties, SetUp(p)
  PROVE  \E a0, b0 : SetUpBy(p, a0, b0)
<1> DEFINE q  == Peer(p)
           c  == conv[p][Primary]
           n  == handedOut[q] + 1
           b0 == PreKeyOf(q, n)
           a0 == <<p, lastKey[p] + 1>>
           w  == [Reset(c) EXCEPT !.rk = Derive(<<>>, a0, b0), !.dhr = b0, !.a0 = a0, !.preKey = b0,
                                  !.ckr = ChainOf(Derive(<<>>, a0, b0)), !.flag = TRUE,
                                  !.ctx = Len(setups) + 1, !.known = TRUE]
<1>1. /\ q \in Parties /\ q # p /\ Primary \in Contexts(p) /\ TypeOK
      /\ c \in Conversation /\ lastKey[p] \in Nat /\ MaxSetups <= lastKey[p]
      /\ a0 \in Keys \ Born /\ PreKeys(q) \subseteq Born
  BY PeerFacts, Names, ContextIs, BornFacts DEF KeyInv
<1>2. /\ c.rk = <<>> /\ handedOut[q] < MaxSetups
      /\ conv' = [conv EXCEPT ![p][Primary] = w]
      /\ setups' = Append(setups, {a0, b0})
      /\ handedOut' = [handedOut EXCEPT ![q] = n]
      /\ lastKey' = [lastKey EXCEPT ![p] = @ + 1]
      /\ UNCHANGED <<staged, preKeys, sent, got, ordered, unsaved, reKeys, faults>>
  BY DEF SetUp
<1>3. n \in 1 .. MaxSetups /\ b0 \in Born /\ b0[2] <= MaxSetups
  <2>1. n \in 1 .. MaxSetups
    <3>1. handedOut[q] \in Nat
      BY <1>1 DEF TypeOK
    <3> QED
      BY <1>2, <3>1
  <2> QED
    BY <1>1, <2>1 DEF PreKeys, PreKeyOf
<1>4. a0[2] > MaxSetups /\ a0 \in Born' /\ Born \subseteq Born'
  <2>1. \A r \in Parties : lastKey'[r] \in Nat /\ lastKey[r] <= lastKey'[r]
    <3>1. lastKey \in [Parties -> Nat]
      BY <1>1 DEF TypeOK
    <3> QED
      BY <1>2, <3>1
  <2>2. Born \subseteq Born'
    BY <2>1, BornGrows
  <2>3. lastKey'[p] = lastKey[p] + 1
    BY <1>1, <1>2 DEF TypeOK
  <2> QED
    BY <1>1, <2>2, <2>3 DEF Born
<1>5. conv'[p][Primary] = w /\ conv'[q] = conv[q]
      /\ \A d \in Contexts(p) \ {Primary} : conv'[p][d] = conv[p][d]
  BY <1>1, <1>2 DEF TypeOK
<1>6. handedOut'[q] = n /\ handedOut'[p] = handedOut[p]
  BY <1>1, <1>2 DEF TypeOK
<1>7. Derive(<<>>, a0, b0) # <<>> /\ Derive(<<>>, a0, b0)[1] = {a0, b0}
  BY DEF Derive
<1>8. /\ w.rk = Derive(<<>>, a0, b0) /\ w.dhr = b0
      /\ w.dhs = NoKey /\ w.a0 = a0 /\ w.preKey = b0 /\ w.ckr.n = 0 /\ w.cks.root = <<>>
      /\ w.flag /\ w.ctx = Len(setups) + 1 /\ w.known
  BY DEF Reset, EmptyConv, ChainOf, NoChain
<1> HIDE DEF w, a0, b0, n
<1>9. SetUpBy(p, a0, b0)
  BY <1>1, <1>2, <1>3, <1>4, <1>5, <1>6, <1>7, <1>8 DEF SetUpBy, n, b0
<1> QED
  BY <1>9

LEMMA SetUpApart ==
  ASSUME KeyInv, ApartOK, NEW p \in Parties, NEW a0, NEW b0, SetUpBy(p, a0, b0)
  PROVE  ApartOK'
<1> DEFINE q == Peer(p)
           s == {a0, b0}
           n == handedOut[q] + 1
           N == Len(setups)
<1>1. /\ q \in Parties /\ q # p /\ Peer(q) = p /\ Primary \in Contexts(p) /\ Primary \in Contexts(q)
      /\ handedOut[p] \in Nat /\ handedOut[q] \in Nat /\ setups \in Seq(SUBSET Keys) /\ N \in Nat
  BY PeerFacts, Names DEF KeyInv, TypeOK
<1>2. KnownOK(p) /\ KnownOK(q)
  BY <1>1 DEF ApartOK
<1>3. /\ setups' = Append(setups, s) /\ Len(setups') = N + 1
      /\ DOMAIN setups' = DOMAIN setups \cup {N + 1} /\ N + 1 \notin DOMAIN setups
      /\ setups'[N + 1] = s /\ \A i \in DOMAIN setups : setups'[i] = setups[i]
      /\ handedOut'[q] = n /\ handedOut'[p] = handedOut[p]
  <2>1. setups' = Append(setups, s) /\ s \in SUBSET Keys
    BY BornFacts DEF SetUpBy
  <2> QED
    BY <1>1, <2>1, AppendProperties DEF SetUpBy
<1>4. handedOut[q] > 0 => conv[p][Primary].known /\ reKeys # 0
  BY <1>2 DEF KnownOK, SetUpBy
<1>5. KnownOK(p)'
  <2>1. N + 1 = handedOut[p] + n
    BY <1>1, <1>2 DEF KnownOK
  <2>2. ASSUME NEW c \in Contexts(p)
        PROVE  conv'[p][c].ctx <= N + 1 /\ (conv'[p][c].rk # <<>> => conv'[p][c].known)
    <3>1. CASE c = Primary
      BY <1>1, <3>1 DEF SetUpBy
    <3>2. CASE c # Primary
      <4>1. conv'[p][c] = conv[p][c] /\ conv[p][c].ctx <= N /\ (conv[p][c].rk # <<>> => conv[p][c].known)
        BY <1>2, <3>2 DEF SetUpBy, KnownOK
      <4>2. conv[p][c].ctx \in Nat
        BY ContextIs DEF Conversation
      <4> QED
        BY <1>1, <4>1, <4>2
    <3> QED
      BY <3>1, <3>2
  <2>3. \A i \in 1 .. MaxSetups : i > handedOut'[p] => PreKeyOf(p, i) \in preKeys'[p]
    BY <1>2, <1>3 DEF SetUpBy, KnownOK
  <2>4. conv'[p][Primary].known /\ conv'[p][Primary].rk # <<>> /\ reKeys' = reKeys
    BY DEF SetUpBy
  <2>5. /\ reKeys = 0 => handedOut[p] <= 1
        /\ handedOut[p] <= MaxSetups
    BY <1>2 DEF KnownOK
  <2> QED
    BY <1>1, <1>3, <2>1, <2>2, <2>3, <2>4, <2>5 DEF KnownOK
<1>6. KnownOK(q)'
  <2>1. N + 1 = n + handedOut[p]
    BY <1>1, <1>2 DEF KnownOK
  <2>2. ASSUME NEW c \in Contexts(q)
        PROVE  conv'[q][c].ctx <= N + 1 /\ (conv'[q][c].rk # <<>> => conv'[q][c].known)
    <3>1. conv'[q][c] = conv[q][c] /\ conv[q][c].ctx <= N /\ (conv[q][c].rk # <<>> => conv[q][c].known)
      BY <1>2 DEF SetUpBy, KnownOK
    <3>2. conv[q][c].ctx \in Nat
      BY <1>1, ContextIs DEF Conversation
    <3> QED
      BY <1>1, <3>1, <3>2
  <2>3. \A i \in 1 .. MaxSetups : i > handedOut'[q] => PreKeyOf(q, i) \in preKeys'[q]
    <3>1. \A i \in 1 .. MaxSetups : i > handedOut[q] => PreKeyOf(q, i) \in preKeys[q]
      BY <1>2 DEF KnownOK
    <3> QED
      BY <1>1, <1>3, <3>1 DEF SetUpBy
  <2>4. /\ conv'[q] = conv[q] /\ reKeys' = reKeys
        /\ handedOut[p] > 0 => conv[q][Primary].known
        /\ reKeys = 0 => (conv[q][Primary].known => conv[q][Primary].rk # <<>>)
    BY <1>1, <1>2 DEF SetUpBy, KnownOK
  <2>6. n <= MaxSetups
    BY DEF SetUpBy
  <2>5. reKeys = 0 => n <= 1
    <3>1. reKeys = 0 => handedOut[q] = 0
      <4>1. ASSUME reKeys = 0, handedOut[q] > 0 PROVE FALSE
        <5>1. conv[p][Primary].known /\ conv[p][Primary].rk # <<>>
          BY <1>2, <4>1 DEF KnownOK
        <5> QED
          BY <5>1 DEF SetUpBy
      <4> QED
        BY <1>1, <4>1
    <3> QED
      BY <1>1, <3>1
  <2> QED
    BY <1>1, <1>3, <2>1, <2>2, <2>3, <2>4, <2>5, <2>6 DEF KnownOK
<1>7. ASSUME NEW i \in DOMAIN setups
      PROVE  /\ setups[i] \subseteq Born
             /\ \A r \in Parties : \A j \in 1 .. MaxSetups : PreKeyOf(r, j) \in setups[i] =>
                  /\ j <= handedOut[r] /\ j <= handedOut'[r]
                  /\ \A k \in setups[i] : k[2] <= MaxSetups => k = PreKeyOf(r, j)
             /\ \A j \in DOMAIN setups \ {i} : setups[i] \cap setups[j] = {}
             /\ setups[i] \cap s = {}
  <2>1. /\ setups[i] \subseteq Born
        /\ \A r \in Parties : \A j \in 1 .. MaxSetups : PreKeyOf(r, j) \in setups[i] =>
             /\ j <= handedOut[r]
             /\ \A k \in setups[i] : k[2] <= MaxSetups => k = PreKeyOf(r, j)
        /\ \A j \in DOMAIN setups \ {i} : setups[i] \cap setups[j] = {}
    BY DEF ApartOK
  <2>2. \A r \in Parties : \A j \in 1 .. MaxSetups : j <= handedOut[r] => j <= handedOut'[r]
    <3>1. \A r \in Parties : r = p \/ r = q
      BY PeerFacts
    <3>2. handedOut[p] <= handedOut'[p] /\ handedOut[q] <= handedOut'[q]
      BY <1>1, <1>3
    <3> HIDE DEF q
    <3>3. \A j \in 1 .. MaxSetups : j <= handedOut[p] => j <= handedOut'[p]
      BY <1>1, <1>3, <3>2
    <3>4. \A j \in 1 .. MaxSetups : j <= handedOut[q] => j <= handedOut'[q]
      BY <1>1, <1>3, <3>2
    <3> QED
      BY <3>1, <3>3, <3>4
  <2>3. a0 \notin setups[i]
    BY <2>1 DEF SetUpBy
  <2>4. b0 \notin setups[i]
    <3>1. b0 = PreKeyOf(q, n) /\ n \in 1 .. MaxSetups
      BY DEF SetUpBy
    <3>2. ~(n <= handedOut[q])
      BY <1>1
    <3> QED
      BY <1>1, <2>1, <3>1, <3>2
  <2> QED
    BY <2>1, <2>2, <2>3, <2>4
<1>8. /\ s \subseteq Born'
      /\ \A r \in Parties : \A j \in 1 .. MaxSetups : PreKeyOf(r, j) \in s =>
           /\ j <= handedOut'[r]
           /\ \A k \in s : k[2] <= MaxSetups => k = PreKeyOf(r, j)
  <2>1. s \subseteq Born'
    BY DEF SetUpBy
  <2>2. /\ a0[2] > MaxSetups /\ b0 = PreKeyOf(q, n) /\ a0[2] \in Nat /\ n \in Nat
    BY <1>1 DEF SetUpBy, Keys
  <2>3. ASSUME NEW r \in Parties, NEW j \in 1 .. MaxSetups, PreKeyOf(r, j) \in s
        PROVE  j <= handedOut'[r] /\ \A k \in s : k[2] <= MaxSetups => k = PreKeyOf(r, j)
    <3>1. PreKeyOf(r, j)[2] = j
      BY DEF PreKeyOf
    <3>2. PreKeyOf(r, j) # a0
      BY <2>2, <3>1
    <3>3. PreKeyOf(r, j) = b0
      BY <2>3, <3>2
    <3>4. r = q /\ j = n
      BY <2>2, <3>3 DEF PreKeyOf
    <3>5. \A k \in s : k[2] <= MaxSetups => k = b0
      BY <2>2
    <3> QED
      BY <1>1, <1>3, <3>3, <3>4, <3>5
  <2> QED
    BY <2>1, <2>3
<1>9. ASSUME NEW i \in DOMAIN setups'
      PROVE  /\ setups'[i] \subseteq Born'
             /\ \A r \in Parties : \A j \in 1 .. MaxSetups : PreKeyOf(r, j) \in setups'[i] =>
                  /\ j <= handedOut'[r]
                  /\ \A k \in setups'[i] : k[2] <= MaxSetups => k = PreKeyOf(r, j)
             /\ \A j \in DOMAIN setups' \ {i} : setups'[i] \cap setups'[j] = {}
  <2>1. Born \subseteq Born'
    BY DEF SetUpBy
  <2> HIDE DEF s, N
  <2>2. CASE i \in DOMAIN setups
    <3>1. \A j \in DOMAIN setups' \ {i} : setups'[i] \cap setups'[j] = {}
      BY <1>3, <1>7, <2>2
    <3> QED
      BY <1>3, <1>7, <2>1, <2>2, <3>1
  <2>3. CASE i = N + 1
    <3>1. \A j \in DOMAIN setups' \ {i} : setups'[i] \cap setups'[j] = {}
      BY <1>3, <1>7, <2>3
    <3> QED
      BY <1>3, <1>8, <2>3, <3>1
  <2> QED
    BY <1>3, <2>2, <2>3
<1>10. \A r \in Parties : KnownOK(r)'
  BY <1>5, <1>6, PeerFacts
<1> QED
  BY <1>9, <1>10 DEF ApartOK

----------------------------------------------------------------------------
(* The part of the invariant about each party and message.                 *)

\* p gives up its context: what happens to the state.
ReKeyBy(p) ==
  LET v == conv[p][Primary]
      w == conv'[p][Primary]
  IN  /\ v.known /\ w = Reset(v) /\ w.ctx = v.ctx /\ w.known = v.known
      /\ w.rk = <<>> /\ w.a0 = NoKey /\ w.ckr.n = 0 /\ w.cks.root = <<>>
      /\ \A d \in Contexts(p) \ {Primary} : conv'[p][d] = conv[p][d]
      /\ conv'[Peer(p)] = conv[Peer(p)] /\ reKeys' = reKeys + 1
      /\ Born' = Born
      /\ UNCHANGED <<staged, preKeys, handedOut, setups, sent, got, ordered, unsaved, faults>>

LEMMA ReKeys ==
  ASSUME KeyInv, NEW p \in Parties, ReKey(p)
  PROVE  ReKeyBy(p)
<1> DEFINE v == conv[p][Primary]
<1>1. /\ Peer(p) \in Parties /\ Peer(p) # p /\ Primary \in Contexts(p) /\ TypeOK
      /\ v \in Conversation
  BY PeerFacts, Names, ContextIs DEF KeyInv
<1>2. /\ v.known /\ conv' = [conv EXCEPT ![p][Primary] = Reset(v)] /\ reKeys' = reKeys + 1
      /\ UNCHANGED <<staged, preKeys, handedOut, lastKey, setups, sent, got, ordered, unsaved, faults>>
  BY DEF ReKey
<1>3. conv'[p][Primary] = Reset(v) /\ conv'[Peer(p)] = conv[Peer(p)]
      /\ \A d \in Contexts(p) \ {Primary} : conv'[p][d] = conv[p][d]
  BY <1>1, <1>2 DEF TypeOK
<1>4. Reset(v).ctx = v.ctx /\ Reset(v).known = v.known /\ Reset(v).ckr.n = 0
      /\ Reset(v).cks.root = <<>> /\ Reset(v).rk = <<>> /\ Reset(v).a0 = NoKey
  BY DEF Reset, EmptyConv, NoChain, ChainOf
<1>5. Born' = Born
  BY <1>2 DEF Born
<1> QED
  BY <1>2, <1>3, <1>4, <1>5 DEF ReKeyBy

\* Contexts of a party change that have not received, and nothing is sent.
LEMMA QuietHeard ==
  ASSUME NEW p \in Parties, sent' = sent, HeardOK(p),
         \A c \in Contexts(p) : conv'[p][c].ckr.n = 0 \/ conv'[p][c] = conv[p][c]
  PROVE  HeardOK(p)'
<1>1. ASSUME NEW c \in Contexts(p), conv'[p][c].ckr.n > 0
      PROVE  SentKey(sent, Peer(p), conv'[p][c].ckr.root, conv'[p][c].ckr.n - 1)
  <2>1. conv'[p][c] = conv[p][c]
    BY <1>1
  <2> QED
    BY <1>1, <2>1 DEF HeardOK
<1> QED
  BY <1>1 DEF HeardOK

LEMMA QuietBase ==
  ASSUME ForgetInv, Base, UNCHANGED <<sent, unsaved>>, ApartOK', OrderOK',
         \A p \in Parties : WritesOK(p)' /\ HeardOK(p)'
  PROVE  Base'
<1>1. \A m \in sent' : WrittenOK(m)'
  BY DEF Base, WrittenOK, SentBy
<1> QED
  BY <1>1 DEF Base

LEMMA ReKeyBase ==
  ASSUME ForgetInv, Base, NEW p \in Parties, ReKeyBy(p)
  PROVE  Base'
<1> DEFINE q == Peer(p)
<1>1. /\ q \in Parties /\ Primary \in Contexts(p) /\ Primary \in Contexts(q) /\ ApartOK
      /\ reKeys \in Nat /\ KeyInv /\ Len(setups) \in Nat
  BY PeerFacts, Names DEF ForgetInv, KeyInv, TypeOK, Base
<1>2. ApartOK'
  <2>1. KnownOK(p)
    BY <1>1 DEF ApartOK
  <2>2. conv'[p][Primary].ctx <= Len(setups)
    BY <1>1, <2>1 DEF KnownOK, ReKeyBy
  <2>3. \A r \in Parties : \A n \in 1 .. MaxSetups : n > handedOut[r] => PreKeyOf(r, n) \in preKeys'[r]
    BY <1>1 DEF ApartOK, KnownOK, ReKeyBy
  <2>4. reKeys' \in Nat /\ reKeys' # 0 /\ reKeys <= reKeys'
    BY <1>1 DEF ReKeyBy
  <2> QED
    BY <1>1, <2>2, <2>3, <2>4, StaysApart DEF ReKeyBy
<1>3. OrderOK'
  BY DEF Base, OrderOK, ReKeyBy, SentBy
<1>4. WritesOK(p)' /\ WritesOK(q)'
  <2>1. WritesOK(p) /\ WritesOK(q)
    BY <1>1 DEF Base
  <2>2. \A z \in SentBy(p) : z.mk.root # <<>>
    BY DEF ForgetInv, SaidOK, SentBy
  <2>3. WritesOK(p)'
    BY <2>1, <2>2, QuietWrites DEF ReKeyBy, Sending, InSession
  <2> QED
    BY <1>1, <2>1, <2>3, QuietWrites DEF ReKeyBy
<1>5. HeardOK(p)' /\ HeardOK(q)'
  <2>1. HeardOK(p) /\ HeardOK(q)
    BY <1>1 DEF Base
  <2>2. \A c \in Contexts(p) : conv'[p][c].ckr.n = 0 \/ conv'[p][c] = conv[p][c]
    BY DEF ReKeyBy
  <2> QED
    BY <1>1, <2>1, <2>2, QuietHeard DEF ReKeyBy
<1>6. \A r \in Parties : WritesOK(r)' /\ HeardOK(r)'
  BY <1>4, <1>5, PeerFacts
<1> QED
  BY <1>2, <1>3, <1>6, QuietBase DEF ReKeyBy

LEMMA SetUpBase ==
  ASSUME ForgetInv, Base, NEW p \in Parties, NEW a0, NEW b0, SetUpBy(p, a0, b0)
  PROVE  Base'
<1> DEFINE q == Peer(p)
<1>1. /\ q \in Parties /\ Primary \in Contexts(p) /\ Primary \in Contexts(q) /\ ApartOK /\ KeyInv
  BY PeerFacts, Names DEF ForgetInv, Base
<1>2. ApartOK'
  BY <1>1, SetUpApart
<1>3. OrderOK'
  BY DEF Base, OrderOK, SetUpBy, SentBy
<1>4. WritesOK(p)' /\ WritesOK(q)'
  <2>1. WritesOK(p) /\ WritesOK(q)
    BY <1>1 DEF Base
  <2>2. \A z \in SentBy(p) : z.mk.root # <<>> /\ z.mk.root[1] \subseteq Born
    BY MessageRoots DEF ForgetInv, SaidOK, SentBy
  <2>3. \A z \in SentBy(p) : z.mk.root # conv'[p][Primary].cks.root
                             /\ ~InSession(conv'[p][Primary], z.mk.root[1])
    BY <2>2 DEF SetUpBy, InSession
  <2>4. WritesOK(p)'
    BY <2>1, <2>3, QuietWrites DEF SetUpBy, Sending
  <2> QED
    BY <1>1, <2>1, <2>4, QuietWrites DEF SetUpBy
<1>5. HeardOK(p)' /\ HeardOK(q)'
  <2>1. HeardOK(p) /\ HeardOK(q)
    BY <1>1 DEF Base
  <2>2. \A c \in Contexts(p) : conv'[p][c].ckr.n = 0 \/ conv'[p][c] = conv[p][c]
    BY DEF SetUpBy
  <2> QED
    BY <1>1, <2>1, <2>2, QuietHeard DEF SetUpBy
<1>6. \A r \in Parties : WritesOK(r)' /\ HeardOK(r)'
  BY <1>4, <1>5, PeerFacts
<1> QED
  BY <1>2, <1>3, <1>6, QuietBase DEF SetUpBy

LEMMA SendBase ==
  ASSUME ForgetInv, OweInv, Base, NEW p \in Parties, NEW t, NEW k, SendBy(p, t, k)
  PROVE  Base'
<1> DEFINE q == Peer(p)
           u == conv'[p][Primary]
<1>1. /\ q \in Parties /\ Primary \in Contexts(p) /\ Primary \in Contexts(q) /\ ApartOK
      /\ reKeys \in Nat /\ KeyInv /\ KnownOK(p)
  BY PeerFacts, Names DEF ForgetInv, KeyInv, TypeOK, Base, ApartOK
<1>2. \A r \in Parties : WritesOK(r) /\ WritesOK(r)'
  <2>1. \A r \in Parties : WritesOK(r)
    BY DEF Base
  <2> QED
    BY <2>1, SendWrites
<1>3. \A m \in sent' : WrittenOK(m)'
  BY <1>2, SendWritten DEF Base
<1>4. /\ u.ctx = conv[p][Primary].ctx /\ u.known = conv[p][Primary].known /\ u.rk # <<>>
      /\ u.ckr = conv[p][Primary].ckr /\ conv[p][Primary].rk # <<>> /\ k.from = p
  BY Sends
<1>5. ApartOK'
  <2>1. \A r \in Parties : \A n \in 1 .. MaxSetups : n > handedOut[r] => PreKeyOf(r, n) \in preKeys'[r]
    BY <1>1 DEF ApartOK, KnownOK, SendBy
  <2>2. conv[p][Primary].ctx <= Len(setups) /\ conv[p][Primary].known
    BY <1>1, <1>4 DEF KnownOK
  <2>3. reKeys <= reKeys'
    BY <1>1 DEF SendBy
  <2> QED
    BY <1>1, <1>4, <2>1, <2>2, <2>3, StaysApart DEF SendBy
<1>6. OrderOK'
  <2> SUFFICES ASSUME ordered', NEW r \in Parties, NEW z \in got'[r], NEW y \in SentBy(z.from)',
                      y.id < z.id
               PROVE  y \in got'[r]
    BY DEF OrderOK
  <2>1. z \in got[r] /\ ordered /\ z \in sent /\ z.from \in Parties
    BY MessageRoots DEF SendBy, ForgetInv, ReadOK
  <2>2. CASE y \in SentBy(z.from)
    BY <2>1, <2>2 DEF Base, OrderOK, SendBy
  <2>3. CASE y = k /\ z.from = p
    <3>1. \A x \in SentBy(p) : x.id <= Cardinality(SentBy(p))
      BY <1>2 DEF WritesOK
    <3>2. z.id < k.id /\ k.id \in Nat
      <4>1. /\ \A x \in SentBy(p) : x.id < k.id
            /\ Cardinality(SentBy(p)) \in Nat /\ k.id = Cardinality(SentBy(p)) + 1
        BY <3>1, OneMore
      <4>2. z \in SentBy(p)
        BY <2>1, <2>3 DEF SentBy
      <4> QED
        BY <4>1, <4>2
    <3>3. z.id \in Nat
      BY <1>1, <2>1, MessageIs DEF Message
    <3> QED
      BY <2>3, <3>2, <3>3
  <2> QED
    BY <1>4, <2>2, <2>3 DEF SentBy, SendBy
<1>7. ASSUME NEW r \in Parties PROVE HeardOK(r)'
  <2>1. ASSUME NEW c \in Contexts(r), conv'[r][c].ckr.n > 0
        PROVE  SentKey(sent', Peer(r), conv'[r][c].ckr.root, conv'[r][c].ckr.n - 1)
    <3>1. conv'[r][c].ckr = conv[r][c].ckr
      <4>1. CASE r = p /\ c = Primary
        BY <1>4, <4>1
      <4>2. CASE r = p /\ c # Primary
        BY <4>2 DEF SendBy
      <4>3. CASE r = q
        BY <4>3 DEF SendBy
      <4> QED
        BY <4>1, <4>2, <4>3, PeerFacts
    <3>2. SentKey(sent, Peer(r), conv[r][c].ckr.root, conv[r][c].ckr.n - 1)
      BY <2>1, <3>1 DEF Base, HeardOK
    <3> QED
      BY <3>1, <3>2, MoreSent DEF SendBy
  <2> QED
    BY <2>1 DEF HeardOK
<1> QED
  BY <1>2, <1>3, <1>5, <1>6, <1>7 DEF Base, SendBy

LEMMA ReceiveBase ==
  ASSUME ForgetInv, NamesInv, OweInv, Base, NEW p \in Parties, NEW m \in sent, NEW x, NEW r,
         ReadBy(p, m, x, r)
  PROVE  Base'
<1>1. WrittenOK(m) /\ ApartOK /\ OrderOK /\ m.from \in Parties
      /\ \A q \in Parties : WritesOK(q) /\ HeardOK(q)
  BY MessageRoots DEF Base, ForgetInv
<1>2. ApartOK'
  BY <1>1, ReceiveApart
<1>3. OrderOK'
  BY <1>1, ReadInOrder DEF ReadBy
<1>4. \A q \in Parties : WritesOK(q)'
  BY <1>1, ReceiveWrites
<1>5. \A q \in Parties : HeardOK(q)'
  BY <1>1, ReceiveHeard
<1> QED
  BY <1>2, <1>3, <1>4, <1>5, QuietBase DEF ReadBy

\* A message is not read: what happens to the state.
RejectBy(p, m) ==
  /\ m.from # p /\ Readers(p, m) = {}
  /\ preKeys'[p] = preKeys[p] \ {m.preKey} /\ preKeys'[Peer(p)] = preKeys[Peer(p)]
  /\ ordered' = (ordered /\ InOrder(p, m)) /\ Born' = Born
  /\ UNCHANGED <<conv, staged, handedOut, setups, sent, got, unsaved, reKeys, faults>>

LEMMA Rejects ==
  ASSUME KeyInv, NEW p \in Parties, NEW m \in sent, Reject(p, m)
  PROVE  RejectBy(p, m)
<1>1. Peer(p) \in Parties /\ Peer(p) # p /\ TypeOK
  BY PeerFacts DEF KeyInv
<1>2. preKeys'[p] = preKeys[p] \ {m.preKey} /\ preKeys'[Peer(p)] = preKeys[Peer(p)]
  BY <1>1 DEF Reject, SpendPreKey, TypeOK
<1>3. Born' = Born
  BY DEF Reject, Born
<1> QED
  BY <1>2, <1>3 DEF Reject, Arrives, RejectBy

LEMMA RejectBase ==
  ASSUME ForgetInv, NamesInv, Base, NEW p \in Parties, NEW m \in sent, RejectBy(p, m)
  PROVE  Base'
<1>1. WrittenOK(m) /\ ApartOK /\ OrderOK /\ m.from \in Parties
      /\ \A q \in Parties : WritesOK(q) /\ HeardOK(q)
  BY MessageRoots DEF Base, ForgetInv
<1>2. ApartOK'
  <2>1. \A r \in Parties : \A n \in 1 .. MaxSetups : n > handedOut[r] => PreKeyOf(r, n) \in preKeys'[r]
    BY <1>1, SpareKeys DEF RejectBy
  <2>2. Primary \in Contexts(p) /\ reKeys \in Nat /\ KnownOK(p)
    BY <1>1, Names DEF ForgetInv, KeyInv, TypeOK, ApartOK
  <2>3. /\ conv[p][Primary].ctx <= Len(setups)
        /\ conv[p][Primary].rk # <<>> => conv[p][Primary].known
        /\ reKeys = 0 => (conv[p][Primary].known => conv[p][Primary].rk # <<>>)
    BY <2>2 DEF KnownOK
  <2>4. reKeys <= reKeys' /\ reKeys' \in Nat
    BY <2>2 DEF RejectBy
  <2> QED
    BY <1>1, <2>1, <2>2, <2>3, <2>4, StaysApart DEF RejectBy
<1>3. OrderOK'
  BY <1>1, ReadInOrder DEF RejectBy
<1>4. \A q \in Parties : WritesOK(q)' /\ HeardOK(q)'
  BY <1>1, QuietWrites, QuietHeard DEF RejectBy
<1> QED
  BY <1>2, <1>3, <1>4, QuietBase DEF RejectBy

----------------------------------------------------------------------------
(* Sessions that are opened, and messages that are due.                    *)

LEMMA NotStagedAndLeft ==
  ASSUME ForgetInv, NEW p \in Parties, NEW m \in sent, HasPreKey(p, m), NEW x \in Contexts(p)
  PROVE  m.mk \notin staged[p][x]
<1>1. m.mk.root # <<>> /\ m.mk.root[1] = {m.a0, m.preKey} /\ m.preKey \in preKeys[p]
  BY DEF ForgetInv, SaidOK, HasPreKey
<1> QED
  BY <1>1 DEF ForgetInv, StagedOK

LEMMA ReadTakes ==
  ASSUME ForgetInv, OweInv, NEW p \in Parties, NEW m \in sent, NEW x, NEW r,
         ReadBy(p, m, x, r), ~HasPreKey(p, m), Expects(p, x, m)
  PROVE  Takes(conv[p][x], r.conv, m, r.new, r.out, staged[p][x])
<1>1. /\ KeyInv /\ x \in Contexts(p) /\ m.from # p /\ r = DecryptInternal(p, x, m) /\ r.ok
      /\ m \notin got[p] /\ Sequel(sent, m) /\ Linked(sent, p, conv[p][x])
  BY DEF ReadBy, ForgetInv, OweInv
<1>2. ~Refused(p, conv[p][x], m)
  BY <1>1 DEF DecryptInternal, Outcome
<1> QED
  BY <1>1, <1>2, ExpectedReads

LEMMA ReadOpens ==
  ASSUME ForgetInv, OweInv, NEW p \in Parties, NEW m \in sent, NEW x, NEW r,
         ReadBy(p, m, x, r), Opening(p, m)
  PROVE  Opened(r.conv, m, r.new) /\ r.out = {}
<1>1. /\ KeyInv /\ x \in Contexts(p) /\ m.from # p /\ r = DecryptInternal(p, x, m)
      /\ Sequel(sent, m) /\ HasPreKey(p, m)
  BY DEF ReadBy, ForgetInv, OweInv, Opening
<1> QED
  BY <1>1, NotStagedAndLeft, OpeningReads

LEMMA OpeningIsReadable ==
  ASSUME ForgetInv, OweInv, NEW p \in Parties, NEW m \in sent, m.from # p, Opening(p, m)
  PROVE  Readers(p, m) # {}
<1>1. KeyInv /\ Sequel(sent, m) /\ HasPreKey(p, m)
  BY DEF ForgetInv, OweInv, Opening
<1>2. First(p, m) \in Contexts(p)
  BY <1>1, ReadersAre
<1>3. DecryptInternal(p, First(p, m), m).ok
  BY <1>1, <1>2, NotStagedAndLeft, OpeningReads
<1> QED
  BY <1>3 DEF Readers

\* The context x comes to the message with the keys it has, and does not refuse it.
Due(p, x, m) ==
  /\ Expects(p, x, m) /\ m \notin got[p] /\ ~HasPreKey(p, m)
  /\ conv[p][x].rk # <<>> /\ conv[p][x].known
  /\ conv[p][x].ctx = m.ctx \/ IsSetup(m)

LEMMA DueIsReadable ==
  ASSUME ForgetInv, OweInv, NEW p \in Parties, NEW m \in sent, m.from # p,
         Due(p, First(p, m), m)
  PROVE  Readers(p, m) # {}
<1> DEFINE x == First(p, m)
           v == conv[p][x]
<1>1. KeyInv /\ Sequel(sent, m)
  BY DEF ForgetInv, OweInv
<1>2. x \in Contexts(p)
  BY <1>1, ReadersAre
<1>3. Linked(sent, p, v) /\ v \in Conversation
  BY <1>1, <1>2, ContextIs DEF OweInv
<1>4. ~Refused(p, v, m)
  BY <1>3 DEF Due, Refused, SetupConv, Conversation
<1>5. DecryptInternal(p, x, m).ok
  BY <1>1, <1>2, <1>3, <1>4, ExpectedReads DEF Due
<1> QED
  BY <1>5 DEF Readers

\* After a message opened a session the others in its chain are expected.
LEMMA OpenedExpects ==
  ASSUME KeyInv, unsaved = {}, NEW p \in Parties, NEW m \in sent, NEW x, NEW r,
         ReadBy(p, m, x, r), Opened(r.conv, m, r.new),
         NEW z \in sent, z.mk.root = m.mk.root, z.dhs = m.dhs
  PROVE  Expects(p, x, z)'
<1>1. /\ m.mk \in ChainKey /\ z.mk \in ChainKey /\ z.mk.n \in Nat /\ m.mk.n \in Nat
      /\ conv'[p][x] = r.conv /\ staged'[p][x] = (staged[p][x] \ r.out) \cup r.new
      /\ got'[p] = got[p] \cup {m}
  BY MessageRoots, KeyRoots DEF ReadBy
<1>2. CASE z.mk.n < m.mk.n
  BY <1>1, <1>2 DEF Opened, Expects
<1>3. CASE z.mk.n = m.mk.n
  <2>1. z = m
    BY <1>1, <1>3, SameKey, OneMessage
  <2> QED
    BY <1>1, <2>1 DEF Expects
<1>4. CASE z.mk.n > m.mk.n
  <2>1. z.mk.n >= m.mk.n + 1
    BY <1>1, <1>4
  <2> QED
    BY <1>1, <2>1 DEF Opened, Expects, InChain
<1> QED
  BY <1>1, <1>2, <1>3, <1>4

\* Nobody has answered the setup, and it goes on.
CallOf(p) == {conv[p][Primary].a0, conv[p][Primary].preKey}

LEMMA CallingSends ==
  ASSUME ForgetInv, OweInv, NEW p \in Parties, NEW t, NEW k, SendBy(p, t, k), Calling(p)
  PROVE  Calling(p)' /\ k.mk.root[1] = CallOf(p) /\ IsSetup(k)
         /\ k.preKey = conv[p][Primary].preKey
<1> DEFINE c == conv[p][Primary]
           u == conv'[p][Primary]
           s == CallOf(p)
<1>1. /\ k.mk.root = u.rk /\ k.dhs = u.dhs /\ k.from = p /\ k.ctx = c.ctx /\ k.a0 = c.a0
      /\ k.preKey = (IF c.a0 = NoKey THEN NoKey ELSE c.preKey)
      /\ k.mk.root[1] = c.rk[1] /\ Sending(u)
      /\ u.dhr = c.dhr /\ u.a0 = c.a0 /\ u.preKey = c.preKey /\ u.ctx = c.ctx
      /\ ~c.flag => Sending(c) /\ u.rk = c.rk /\ u.dhs = c.dhs
      /\ c.flag => u.rk = Derive(c.rk, u.dhs, c.dhr)
  BY Sends
<1>2. /\ c.a0 # NoKey /\ c.dhr = c.preKey
      /\ \/ c.flag /\ c.dhs = NoKey /\ c.rk = Derive(<<>>, c.a0, c.preKey)
         \/ Sending(c) /\ c.rk = Derive(Derive(<<>>, c.a0, c.preKey), c.preKey, c.dhs)
      /\ \A m \in sent : m.mk.root[1] = s =>
           /\ m.from = p /\ m.a0 = c.a0 /\ m.preKey = c.preKey
           /\ m.mk.root = c.rk /\ m.dhs = c.dhs /\ m.ctx = c.ctx
  BY DEF Calling, CallOf
<1>3. c.rk[1] = s
  <2>1. Primary \in Contexts(p) /\ SpeaksOK(p)
    BY Names DEF ForgetInv
  <2> QED
    BY <1>2, <2>1 DEF SpeaksOK, CallOf
<1>4. \A m \in sent : m.dhs # NoKey
  BY MessageRoots, BornFacts DEF ForgetInv
<1>5. CallOf(p)' = s
  BY <1>1 DEF CallOf
<1>6. sent' = sent \cup {k}
  BY DEF SendBy
<1> HIDE DEF c, u, s
<1>7. Sending(u) /\ u.rk = Derive(Derive(<<>>, u.a0, u.preKey), u.preKey, u.dhs)
  <2>1. CASE c.flag
    <3>1. c.rk = Derive(<<>>, c.a0, c.preKey)
      BY <1>2, <2>1 DEF Sending
    <3>2. u.rk = Derive(Derive(<<>>, u.a0, u.preKey), u.dhs, u.preKey)
      BY <1>1, <1>2, <2>1, <3>1
    <3>3. \A rr, a, b : Derive(rr, a, b) = Derive(rr, b, a)
      BY DEF Derive
    <3> QED
      BY <1>1, <3>2, <3>3
  <2>2. CASE ~c.flag
    BY <1>1, <1>2, <2>2
  <2> QED
    BY <2>1, <2>2
<1>8. ASSUME NEW m \in sent', m.mk.root[1] = s
      PROVE  /\ m.from = p /\ m.a0 = u.a0 /\ m.preKey = u.preKey
             /\ m.mk.root = u.rk /\ m.dhs = u.dhs /\ m.ctx = u.ctx
  <2>1. CASE m = k
    BY <1>1, <1>2, <2>1
  <2>2. CASE m \in sent
    <3>1. ~c.flag
      BY <1>2, <1>4, <1>8, <2>2 DEF Sending
    <3> QED
      BY <1>1, <1>2, <1>8, <2>2, <3>1
  <2> QED
    BY <1>6, <2>1, <2>2
<1>9. Calling(p)'
  BY <1>1, <1>2, <1>5, <1>7, <1>8 DEF Calling, CallOf, u
<1> QED
  BY <1>1, <1>2, <1>3, <1>9 DEF IsSetup, s, c

LEMMA CallingStays ==
  ASSUME NEW p \in Parties, Calling(p), conv'[p][Primary] = conv[p][Primary],
         \A m \in sent' : m \in sent \/ m.mk.root[1] # CallOf(p)
  PROVE  Calling(p)' /\ CallOf(p)' = CallOf(p)
  BY DEF Calling, CallOf, Sending

LEMMA SetUpCalls ==
  ASSUME KeyInv, \A m \in sent : SaidOK(m),
         NEW p \in Parties, NEW a0, NEW b0, SetUpBy(p, a0, b0)
  PROVE  Calling(p)' /\ CallOf(p)' = {a0, b0}
<1>1. \A m \in sent : m.mk.root[1] # {a0, b0}
  BY MessageRoots DEF SetUpBy, SaidOK
<1>2. a0 # NoKey
  BY DEF SetUpBy
<1> QED
  BY <1>1, <1>2 DEF Calling, CallOf, SetUpBy

\* The messages of who is calling open the session.
LEMMA CallingOpens ==
  ASSUME KeyInv, NEW p \in Parties, Calling(p), NEW m \in sent, m.mk.root[1] = CallOf(p)
  PROVE  LET w == conv[p][Primary]
         IN  /\ m.from = p /\ IsSetup(m) /\ m.preKey = w.preKey /\ m.ctx = w.ctx
             /\ Sending(w) /\ m.mk.root = w.rk /\ m.dhs = w.dhs
             /\ \A q : w.preKey \in preKeys[q] => Opening(q, m)
<1> DEFINE w == conv[p][Primary]
<1>1. m.dhs # NoKey
  BY MessageRoots, BornFacts
<1>2. /\ w.a0 # NoKey
      /\ \/ w.flag /\ w.dhs = NoKey /\ w.rk = Derive(<<>>, w.a0, w.preKey)
         \/ Sending(w) /\ w.rk = Derive(Derive(<<>>, w.a0, w.preKey), w.preKey, w.dhs)
      /\ m.from = p /\ m.a0 = w.a0 /\ m.preKey = w.preKey
      /\ m.mk.root = w.rk /\ m.dhs = w.dhs /\ m.ctx = w.ctx
  BY DEF Calling, CallOf
<1>3. Sending(w) /\ w.rk = Derive(Derive(<<>>, w.a0, w.preKey), w.preKey, w.dhs)
  BY <1>1, <1>2
<1> QED
  BY <1>2, <1>3 DEF Opening, HasPreKey, IsSetup

----------------------------------------------------------------------------
(* One party makes all the setups.                                         *)

\* What reading leaves of the session, the context id and the setup.
LEMMA ReadSession ==
  ASSUME ForgetInv, NEW p \in Parties, NEW m \in sent, NEW x, NEW r, ReadBy(p, m, x, r)
  PROVE  LET v == conv[p][x]
             w == conv'[p][x]
         IN  /\ ~Refused(p, v, m) /\ w.known /\ w.a0 \in {v.a0, NoKey}
             /\ w.ctx \in {v.ctx, m.ctx}
             /\ HasPreKey(p, m) => w.rk = m.mk.root /\ w.ctx = m.ctx
             /\ ~HasPreKey(p, m) => /\ (w.rk # <<>> <=> v.rk # <<>>)
                                    /\ w.rk # <<>> => w.rk[1] = v.rk[1]
<1> DEFINE v == conv[p][x]
           w == conv'[p][x]
<1>1. /\ x \in Contexts(p) /\ m.from # p /\ r = DecryptInternal(p, x, m) /\ r.ok
      /\ w = r.conv /\ KeyInv
  BY DEF ReadBy, ForgetInv
<1>2. ~Refused(p, v, m)
  BY <1>1 DEF DecryptInternal, Outcome
<1>3. w.ctx = m.ctx \/ (~HasPreKey(p, m) /\ w.ctx = v.ctx)
  BY <1>1, CtxIs
<1>4. w.known
  BY <1>1, ReadsKnown
<1>5. IF HasPreKey(p, m) THEN Answers(p, w, m, r.new)
      ELSE /\ Own(v, w)
           /\ Alters(v, w) \/ StepsOn(v, w, m, r.new) \/ TurnsTo(v, w, m, r.new)
  BY <1>1, ReadHow
<1> HIDE DEF v, w
<1>6. CASE HasPreKey(p, m)
  BY <1>2, <1>3, <1>4, <1>5, <1>6 DEF Answers, v, w
<1>7. CASE ~HasPreKey(p, m)
  <2>1. (w.rk # <<>> <=> v.rk # <<>>) /\ (w.rk # <<>> => w.rk[1] = v.rk[1])
    BY <1>5, <1>7 DEF Alters, StepsOn, TurnsTo
  <2> QED
    BY <1>2, <1>3, <1>4, <1>5, <1>7, <2>1 DEF Own, v, w
<1> QED
  BY <1>6, <1>7

\* The message that goes out is expected where the contexts are joined, and those
\* that were expected still are.
LEMMA ExpectsSent ==
  ASSUME ForgetInv, OweInv, Base, NEW p \in Parties, NEW t, NEW k, SendBy(p, t, k),
         NEW d \in Contexts(Peer(p)), Joined(conv[p][Primary], conv[Peer(p)][d])
  PROVE  Joined(conv'[p][Primary], conv'[Peer(p)][d]) /\ Expects(Peer(p), d, k)'
<1>1. Peer(p) \in Parties /\ Peer(p) # p
  BY PeerFacts
<1>2. WritesOK(p) /\ HeardOK(Peer(p))
  BY <1>1 DEF Base
<1>3. /\ conv[p][Primary].rk # <<>> /\ SentAs(p, t, k) /\ conv'[p][Primary] = Used(t)
      /\ conv'[Peer(p)] = conv[Peer(p)]
  BY DEF SendBy
<1>4. Joined(t, conv[Peer(p)][d]) /\ (InChain(conv[Peer(p)][d], k) \/ NextChain(conv[Peer(p)][d], k))
  BY <1>2, <1>3, JoinedSends
<1>5. t \in Conversation
  BY <1>3, SentIs
<1>6. /\ Used(t).rk = t.rk /\ Used(t).flag = t.flag /\ Used(t).dhs = t.dhs
      /\ Used(t).dhr = t.dhr
  BY <1>5, UsedOnce
<1>7. Joined(Used(t), conv[Peer(p)][d])
  BY <1>4, <1>6 DEF Joined, Follows, Crossed, Sending
<1> QED
  BY <1>3, <1>4, <1>7 DEF Expects, InChain, NextChain, Sending

LEMMA StillExpects ==
  ASSUME ForgetInv, OweInv, NEW p \in Parties, NEW t, NEW k, SendBy(p, t, k),
         NEW q \in Parties, NEW d \in Contexts(q), NEW m, Expects(q, d, m)
  PROVE  Expects(q, d, m)'
<1>1. q = p \/ q = Peer(p)
  BY PeerFacts
<1>2. /\ staged' = staged /\ got' = got /\ conv'[Peer(p)] = conv[Peer(p)]
      /\ \A c \in Contexts(p) \ {Primary} : conv'[p][c] = conv[p][c]
  BY DEF SendBy
<1>3. CASE q = p /\ d = Primary
  <2>1. LET c == conv[p][Primary]
            u == conv'[p][Primary]
        IN  /\ u.dhr = c.dhr /\ u.ckr = c.ckr
            /\ ~c.flag => Sending(u) /\ u.rk = c.rk /\ u.dhs = c.dhs
    BY Sends
  <2> QED
    BY <1>2, <1>3, <2>1 DEF Expects, InChain, NextChain, Sending
<1>4. CASE ~(q = p /\ d = Primary)
  <2>1. conv'[q][d] = conv[q][d]
    BY <1>1, <1>2, <1>4
  <2> QED
    BY <1>2, <2>1 DEF Expects, InChain, NextChain, Sending
<1> QED
  BY <1>3, <1>4

\* A context that reads what it expects stays joined to that of the sender, and
\* still expects what it expected.
LEMMA ExpectsRead ==
  ASSUME ForgetInv, OweInv, Base, NEW p \in Parties, NEW m \in sent, NEW x, NEW r,
         ReadBy(p, m, x, r), ~HasPreKey(p, m), Expects(p, x, m),
         Joined(conv[Peer(p)][Primary], conv[p][x])
  PROVE  /\ Joined(conv'[Peer(p)][Primary], conv'[p][x])
         /\ \A z \in sent : z.from = m.from /\ Expects(p, x, z) => Expects(p, x, z)'
         /\ InSession(conv[p][x], m.mk.root[1]) => InSession(conv'[p][x], m.mk.root[1])
<1>1. /\ x \in Contexts(p) /\ m.from = Peer(p) /\ r.conv = conv'[p][x]
      /\ conv'[Peer(p)] = conv[Peer(p)] /\ Peer(p) \in Parties
  BY PeerFacts, MessageRoots DEF ReadBy, ForgetInv
<1>2. Takes(conv[p][x], r.conv, m, r.new, r.out, staged[p][x])
  BY ReadTakes
<1>3. unsaved = {} /\ WrittenOK(m) /\ WritesOK(Peer(p))
  BY <1>1 DEF Base
<1>4. Joined(conv[Peer(p)][Primary], r.conv)
  BY <1>1, <1>2, <1>3, JoinedReads
<1>5. Linked(sent, p, conv[p][x])
  BY <1>1 DEF OweInv
<1>6. \A z \in sent : z.from = m.from /\ Expects(p, x, z) => Expects(p, x, z)'
  BY <1>2, <1>3, <1>5, ExpectsOn
<1>7. m.mk.root # <<>>
  BY MessageRoots DEF ForgetInv, SaidOK
<1>8. InSession(conv[p][x], m.mk.root[1]) => InSession(r.conv, m.mk.root[1])
  BY <1>2, <1>7 DEF Takes, SameKeys, InSession
<1> QED
  BY <1>1, <1>4, <1>6, <1>8

\* Two setups have nothing in common.
LEMMA OtherSession ==
  ASSUME ApartOK, NEW s, NEW z, Made(s), Made(z), s # z
  PROVE  s \cap z = {}
<1>1. PICK i \in DOMAIN setups, j \in DOMAIN setups : setups[i] = s /\ setups[j] = z
  BY DEF Made
<1>2. i # j
  BY <1>1
<1> QED
  BY <1>1, <1>2 DEF ApartOK

\* The pre-key of a setup is not spent by messages of others.
LEMMA OtherPreKey ==
  ASSUME ForgetInv, NamesInv, Base, NEW p \in Parties, conv[p][Primary].a0 # NoKey,
         NEW m \in sent, m.mk.root[1] # CallOf(p)
  PROVE  m.preKey # conv[p][Primary].preKey
<1> DEFINE w == conv[p][Primary]
<1>1. Primary \in Contexts(p) /\ SpeaksOK(p) /\ KeyInv
  BY Names DEF ForgetInv
<1>2. w.rk # <<>> /\ w.rk[1] = CallOf(p)
  BY <1>1 DEF SpeaksOK, CallOf
<1>3. Made(CallOf(p)) /\ Made(m.mk.root[1])
  BY <1>1, <1>2 DEF NamesInv
<1>4. CallOf(p) \cap m.mk.root[1] = {}
  BY <1>3, OtherSession DEF Base
<1>5. w.preKey \in CallOf(p)
  BY DEF CallOf
<1>6. CASE IsSetup(m)
  <2>1. m.preKey \in m.mk.root[1]
    BY <1>6, SetupOf
  <2> QED
    BY <1>4, <1>5, <2>1
<1>7. CASE ~IsSetup(m)
  <2>1. m.from \in Parties /\ WrittenOK(m)
    BY <1>1, MessageRoots DEF Base
  <2>2. m.preKey = NoKey
    BY <1>7, <2>1 DEF WrittenOK, SentBy
  <2>3. w.preKey \in PreKeys(Peer(p))
    BY <1>1, ContextIs DEF ContextOK, SetupOK
  <2> QED
    BY <2>2, <2>3, PeerFacts, Names
<1> QED
  BY <1>6, <1>7

LEMMA SetUpOneSide ==
  ASSUME ForgetInv, NamesInv, Base, NEW p \in Parties, NEW a0, NEW b0, SetUpBy(p, a0, b0),
         NEW a \in Parties, handedOut'[a] = 0, handedOut[a] = 0 => OneSide(a)
  PROVE  OneSide(a)'
<1> DEFINE n == Len(setups)
<1>1. /\ Peer(p) \in Parties /\ Peer(p) # p /\ handedOut \in [Parties -> Nat]
      /\ KeyInv /\ TypeOK /\ n \in Nat /\ DOMAIN setups = 1 .. n
  <2>1. KeyInv /\ TypeOK /\ handedOut \in [Parties -> Nat]
    BY DEF ForgetInv, KeyInv, TypeOK
  <2> QED
    BY <2>1, SetupList, PeerFacts
<1>2. handedOut'[Peer(p)] \in 1 .. MaxSetups /\ handedOut'[p] = handedOut[p]
  BY DEF SetUpBy
<1>3. a = p
  <2>1. a # Peer(p)
    BY <1>2
  <2> QED
    BY <2>1, PeerFacts
<1>4. OneSide(p)
  BY <1>2, <1>3
<1>5. /\ conv'[p][Primary].rk[1] = {a0, b0} /\ conv'[p][Primary].ctx = n + 1
      /\ conv'[p][Primary].preKey = b0
      /\ \A d \in Contexts(p) \ {Primary} : conv'[p][d] = conv[p][d]
      /\ conv'[Peer(p)] = conv[Peer(p)] /\ setups' = Append(setups, {a0, b0})
      /\ UNCHANGED <<sent, preKeys, got, ordered>>
      /\ b0 = PreKeyOf(Peer(p), handedOut[Peer(p)] + 1) /\ a0 \notin Born
      /\ handedOut[Peer(p)] + 1 \in 1 .. MaxSetups
  BY DEF SetUpBy
<1>6. Len(setups') = n + 1 /\ setups'[n + 1] = {a0, b0} /\ \A i \in 1 .. n : setups'[i] = setups[i]
  BY <1>1, <1>5
<1>7. \A m \in sent : m.ctx \in 1 .. n
  BY <1>1 DEF NamesInv
<1> DEFINE v == conv[Peer(p)][Primary]
<1>8. v.ctx <= n /\ v.ctx \in Nat
  <2>1. Primary \in Contexts(Peer(p)) /\ KnownOK(Peer(p))
    BY <1>1, Names DEF Base, ApartOK
  <2> QED
    BY <1>1, <2>1, ContextIs DEF KnownOK, Conversation
<1>9. Caller(p)'
  <2>1. Caller(p)
    BY <1>4 DEF OneSide
  <2>2. \A q \in Parties : \A c \in Contexts(q) \ {Primary} : conv'[q][c] = conv[q][c]
    BY <1>5, PeerFacts
  <2>3. \A m \in SentBy(p) : m.mk.root[1] = setups[m.ctx] /\ m.ctx \in 1 .. n
    BY <1>7, <2>1 DEF Caller, SentBy
  <2>4. /\ \A q \in Parties : \A c \in Contexts(q) \ {Primary} : conv'[q][c].rk = <<>>
        /\ conv'[Peer(p)][Primary].a0 = NoKey
        /\ \A m \in SentBy(Peer(p))' : m.a0 = NoKey
    BY <1>5, <2>1, <2>2 DEF Caller, SentBy
  <2>5. /\ conv'[p][Primary].ctx = Len(setups') /\ Len(setups') > 0
        /\ conv'[p][Primary].rk[1] = setups'[Len(setups')]
    BY <1>1, <1>5, <1>6
  <2>6. \A m \in SentBy(p)' : /\ m.mk.root[1] = setups'[m.ctx]
                              /\ \A z \in SentBy(p)' : z.ctx < m.ctx => z.id < m.id
    <3>1. SentBy(p)' = SentBy(p)
      BY <1>5 DEF SentBy
    <3>2. \A m \in SentBy(p) : \A z \in SentBy(p) : z.ctx < m.ctx => z.id < m.id
      BY <2>1 DEF Caller
    <3> QED
      BY <1>6, <2>3, <3>1, <3>2
  <2> QED
    BY <2>4, <2>5, <2>6 DEF Caller
<1>10. Calling(p)'
  BY <1>1, SetUpCalls DEF ForgetInv
<1>11. b0 \in preKeys[Peer(p)]
  <2>1. KnownOK(Peer(p))
    BY <1>1 DEF Base, ApartOK
  <2>2. handedOut[Peer(p)] + 1 > handedOut[Peer(p)]
    BY <1>1
  <2> QED
    BY <1>5, <2>1, <2>2 DEF KnownOK
<1>12. ~InSession(v, {a0, b0})
  BY <1>1, <1>5, ConvRoots, Names DEF InSession
<1>13. Uncalled(p)'
  <2>1. \A m \in SentBy(Peer(p)) : m.ctx # n + 1
    BY <1>1, <1>7 DEF SentBy
  <2>2. v.ctx # n + 1
    BY <1>1, <1>8
  <2> QED
    BY <1>5, <1>6, <1>10, <1>11, <1>12, <2>1, <2>2 DEF Uncalled, SentBy, InSession
<1> QED
  BY <1>3, <1>9, <1>13 DEF OneSide

LEMMA ReKeyOneSide ==
  ASSUME ForgetInv, NEW p \in Parties, ReKeyBy(p), NEW a \in Parties, OneSide(a)
  PROVE  OneSide(a)'
<1>1. /\ Peer(p) \in Parties /\ Peer(p) # p /\ Peer(a) \in Parties /\ Peer(a) # a
      /\ p = a \/ p = Peer(a)
      /\ Peer(Peer(a)) = a
  BY PeerFacts
<1>2. LET v == conv[p][Primary]
          w == conv'[p][Primary]
      IN  /\ v.known /\ w.ctx = v.ctx /\ w.known = v.known /\ w.rk = <<>> /\ w.a0 = NoKey
          /\ \A d \in Contexts(p) \ {Primary} : conv'[p][d] = conv[p][d]
          /\ conv'[Peer(p)] = conv[Peer(p)]
          /\ UNCHANGED <<preKeys, setups, sent, got, ordered>>
  BY DEF ReKeyBy
<1>3. Caller(a)'
  <2>1. Caller(a)
    BY DEF OneSide
  <2>2. \A q \in Parties : \A c \in Contexts(q) \ {Primary} : conv'[q][c] = conv[q][c]
    BY <1>2, PeerFacts
  <2> QED
    BY <1>1, <1>2, <2>1, <2>2 DEF Caller, SentBy
<1>4. CASE p = a
  BY <1>2, <1>3, <1>4 DEF OneSide
<1>5. CASE p = Peer(a)
  <2>1. SUFFICES ASSUME conv'[a][Primary].rk # <<>>, ordered' \/ Len(setups') <= 1
                 PROVE  Uncalled(a)' \/ Called(a)'
    BY <1>3 DEF OneSide
  <2>2. conv'[a] = conv[a]
    BY <1>1, <1>2, <1>5
  <2>3. Uncalled(a) \/ Called(a)
    BY <1>2, <2>1, <2>2 DEF OneSide
  <2>4. CASE Uncalled(a)
    <3>1. Calling(a)'
      BY <1>2, <2>2, <2>4, CallingStays DEF Uncalled
    <3> QED
      BY <1>2, <1>5, <2>2, <2>4, <3>1 DEF Uncalled, InSession, SentBy
  <2>5. CASE Called(a)
    BY <1>2, <1>5, <2>5 DEF Called
  <2> QED
    BY <2>3, <2>4, <2>5
<1> QED
  BY <1>1, <1>4, <1>5

LEMMA RejectOneSide ==
  ASSUME ForgetInv, NamesInv, OweInv, Base, NEW p \in Parties, NEW m \in sent, RejectBy(p, m),
         NEW a \in Parties, OneSide(a)
  PROVE  OneSide(a)'
<1>1. /\ Peer(p) \in Parties /\ Peer(p) # p /\ Peer(a) \in Parties /\ Peer(a) # a
      /\ p = a \/ p = Peer(a)
      /\ Peer(Peer(a)) = a
  BY PeerFacts
<1>2. /\ m.from # p /\ Readers(p, m) = {}
      /\ ordered' => ordered
      /\ preKeys'[p] = preKeys[p] \ {m.preKey} /\ preKeys'[Peer(p)] = preKeys[Peer(p)]
      /\ UNCHANGED <<conv, staged, setups, sent, got>>
  BY DEF RejectBy
<1>3. Caller(a)'
  BY <1>2 DEF OneSide, Caller, SentBy
<1>4. SUFFICES ASSUME conv[a][Primary].rk # <<>>, ordered \/ Len(setups) <= 1
               PROVE  Uncalled(a)' \/ Called(a)'
  BY <1>2, <1>3 DEF OneSide
<1>5. CASE Called(a)
  BY <1>2, <1>5 DEF Called, Connected, InSession, Joined, Follows, Crossed, Sending,
                    Expects, InChain, NextChain
<1>6. CASE Uncalled(a)
  <2> DEFINE w == conv[a][Primary]
  <2>1. Calling(a) /\ w.preKey \in preKeys[Peer(a)] /\ w.a0 # NoKey /\ KeyInv
    BY <1>6 DEF Uncalled, Calling, ForgetInv
  <2>2. Calling(a)'
    BY <1>2, <2>1, CallingStays
  <2>3. w.preKey \in preKeys'[Peer(a)]
    <3>1. CASE p = a
      BY <1>2, <2>1, <3>1
    <3>2. CASE p = Peer(a)
      <4>1. m.mk.root[1] # CallOf(a)
        <5>1. SUFFICES ASSUME m.mk.root[1] = CallOf(a) PROVE FALSE
          OBVIOUS
        <5>2. Opening(p, m)
          BY <2>1, <3>2, <5>1, CallingOpens
        <5> QED
          BY <1>2, <5>2, OpeningIsReadable
      <4>2. m.preKey # w.preKey
        BY <2>1, <4>1, OtherPreKey
      <4> QED
        BY <1>2, <2>1, <3>2, <4>2
    <3> QED
      BY <1>1, <3>1, <3>2
  <2> QED
    BY <1>2, <1>6, <2>2, <2>3 DEF Uncalled, InSession, SentBy
<1>7. Uncalled(a) \/ Called(a)
  BY <1>4 DEF OneSide
<1> QED
  BY <1>5, <1>6, <1>7

\* In a joined session more is sent, by p, and expected.
LEMMA ConnectedSends ==
  ASSUME ForgetInv, NamesInv, OweInv, Base, NEW p \in Parties, NEW t, NEW k, SendBy(p, t, k),
         NEW a \in Parties, Connected(a),
         conv[p][Primary].rk[1] = setups[Len(setups)], conv[p][Primary].ctx = Len(setups)
  PROVE  Connected(a)'
<1> DEFINE n == Len(setups)
           s == setups[n]
<1>1. /\ Peer(a) \in Parties /\ Peer(a) # a /\ p \in {a, Peer(a)}
      /\ Peer(Peer(a)) = a /\ Primary \in Contexts(a) /\ Primary \in Contexts(Peer(a))
      /\ Peer(p) \in Parties /\ Peer(Peer(p)) = p /\ Primary \in Contexts(Peer(p))
      /\ Primary \in Contexts(p)
  BY PeerFacts, Names
<1>2. /\ sent' = sent \cup {k} /\ conv'[Peer(p)] = conv[Peer(p)] /\ setups' = setups
  BY DEF SendBy
<1>3. /\ k.from = p /\ k.ctx = n /\ k.mk.root[1] = s
      /\ conv'[p][Primary].rk # <<>> /\ conv'[p][Primary].rk[1] = s
      /\ conv'[p][Primary].ctx = n
  BY Sends
<1> HIDE DEF n, s
<1>4. Joined(conv[p][Primary], conv[Peer(p)][Primary])
  BY <1>1, JoinedIsMutual DEF Connected
<1>5. Joined(conv'[p][Primary], conv'[Peer(p)][Primary]) /\ Expects(Peer(p), Primary, k)'
  BY <1>1, <1>4, ExpectsSent
<1>6. Joined(conv'[a][Primary], conv'[Peer(a)][Primary])
  BY <1>1, <1>5, JoinedIsMutual
<1>7. InSession(conv'[Peer(a)][Primary], s) /\ conv'[Peer(a)][Primary].ctx = n
  BY <1>1, <1>2, <1>3 DEF Connected, InSession, n, s
<1>8. ASSUME NEW m \in sent'
      PROVE  /\ m.mk.root[1] = s <=> m.ctx = n
             /\ m.ctx = n => Expects(Peer(m.from), Primary, m)'
  <2>1. CASE m = k
    BY <1>3, <1>5, <2>1
  <2>2. CASE m \in sent
    <3>1. /\ m.mk.root[1] = s <=> m.ctx = n
          /\ m.ctx = n => Expects(Peer(m.from), Primary, m)
      BY <2>2 DEF Connected, n, s
    <3>2. Peer(m.from) \in Parties
      BY <2>2, MessageRoots, PeerFacts DEF ForgetInv
    <3>3. Primary \in Contexts(Peer(m.from))
      BY <3>2, Names
    <3> QED
      BY <3>1, <3>2, <3>3, StillExpects
  <2> QED
    BY <1>2, <2>1, <2>2
<1>9. Connected(a)' <=>
        /\ InSession(conv'[Peer(a)][Primary], s) /\ conv'[Peer(a)][Primary].ctx = n
        /\ Joined(conv'[a][Primary], conv'[Peer(a)][Primary])
        /\ \A m \in sent' : /\ m.mk.root[1] = s <=> m.ctx = n
                            /\ m.ctx = n => Expects(Peer(m.from), Primary, m)'
  BY <1>2 DEF Connected, InSession, Joined, Follows, Crossed, Sending, n, s
<1> QED
  BY <1>6, <1>7, <1>8, <1>9

LEMMA CallerSends ==
  ASSUME ForgetInv, NamesInv, OweInv, Base, NEW p \in Parties, NEW t, NEW k, SendBy(p, t, k),
         OneSide(p)
  PROVE  OneSide(p)'
<1> DEFINE n == Len(setups)
           c == conv[p][Primary]
           u == conv'[p][Primary]
<1>1. /\ Peer(p) \in Parties /\ Peer(p) # p /\ Primary \in Contexts(p)
      /\ n \in Nat /\ DOMAIN setups = 1 .. n
  BY PeerFacts, Names, SetupList
<1>2. /\ c.rk # <<>> /\ sent' = sent \cup {k} /\ conv'[Peer(p)] = conv[Peer(p)]
      /\ \A d \in Contexts(p) \ {Primary} : conv'[p][d] = conv[p][d]
      /\ UNCHANGED <<preKeys, setups, got, ordered>>
  BY DEF SendBy
<1>3. /\ k.from = p /\ k.ctx = c.ctx /\ k.a0 = c.a0 /\ k.mk.root[1] = c.rk[1]
      /\ u.rk # <<>> /\ u.rk[1] = c.rk[1] /\ u.ctx = c.ctx /\ u.preKey = c.preKey
  BY Sends
<1>4. Caller(p) /\ c.ctx = n /\ n > 0 /\ c.rk[1] = setups[n]
  BY <1>2 DEF OneSide, Caller
<1>5. SentBy(p)' = SentBy(p) \cup {k} /\ SentBy(Peer(p))' = SentBy(Peer(p))
      /\ \A x \in SentBy(p) : x.id < k.id /\ x.ctx \in 1 .. n
  <2>1. \A x \in SentBy(p) : x.id <= Cardinality(SentBy(p))
    BY DEF Base, WritesOK
  <2>2. \A x \in SentBy(p) : x.ctx \in 1 .. n
    BY <1>1 DEF NamesInv, SentBy
  <2> QED
    BY <2>1, <2>2, OneMore
<1> HIDE DEF n, c, u
<1>6. Caller(p)'
  <2>1. \A q \in Parties : \A d \in Contexts(q) \ {Primary} : conv'[q][d] = conv[q][d]
    BY <1>2, PeerFacts
  <2>2. \A q \in Parties : \A d \in Contexts(q) \ {Primary} : conv'[q][d].rk = <<>>
    BY <1>4, <2>1 DEF Caller
  <2>3. \A m \in SentBy(Peer(p))' : m.a0 = NoKey
    BY <1>4, <1>5 DEF Caller
  <2>4. \A m \in SentBy(p)' :
             /\ m.mk.root[1] = setups[m.ctx]
             /\ \A x \in SentBy(p)' : x.ctx < m.ctx => x.id < m.id
    <3>1. TAKE m \in SentBy(p)'
    <3>2. m.mk.root[1] = setups[m.ctx]
      BY <1>3, <1>4, <1>5 DEF Caller
    <3>3. \A x \in SentBy(p)' : x.ctx < m.ctx => x.id < m.id
      <4>1. TAKE x \in SentBy(p)'
      <4>2. CASE x = k
        <5>1. m.ctx <= n
          BY <1>3, <1>4, <1>5, <1>1 DEF n
        <5> QED
          BY <1>1, <1>3, <1>4, <1>5, <4>2, <5>1 DEF n
      <4>3. CASE x \in SentBy(p) /\ m = k
        BY <1>5, <4>3
      <4>4. CASE x \in SentBy(p) /\ m \in SentBy(p)
        BY <1>4, <4>4 DEF Caller
      <4> QED
        BY <1>5, <4>2, <4>3, <4>4
    <3> QED
      BY <3>2, <3>3
  <2> QED
    BY <1>2, <1>3, <1>4, <2>2, <2>3, <2>4 DEF Caller, n, c, u
<1>7. SUFFICES ASSUME ordered \/ n <= 1
               PROVE  Uncalled(p)' \/ Called(p)'
  BY <1>2, <1>6 DEF OneSide, n
<1>8. Uncalled(p) \/ Called(p)
  BY <1>2, <1>7 DEF OneSide, n, c
<1>9. CASE Uncalled(p)
  <2>1. Calling(p)'
    BY <1>9, CallingSends DEF Uncalled
  <2> QED
    BY <1>2, <1>3, <1>5, <1>9, <2>1 DEF Uncalled, c, u
<1>10. CASE Called(p)
  <2>1. CASE Connected(p)
    <3>1. Connected(p)'
      BY <1>4, <2>1, ConnectedSends DEF c, n
    <3> QED
      BY <1>2, <1>10, <3>1 DEF Called
  <2>2. CASE ~Connected(p)
    BY <1>2, <1>10, <2>2 DEF Called
  <2> QED
    BY <2>1, <2>2
<1> QED
  BY <1>8, <1>9, <1>10

LEMMA AnswererSends ==
  ASSUME ForgetInv, NamesInv, OweInv, Base, NEW a \in Parties, NEW t, NEW k,
         SendBy(Peer(a), t, k), OneSide(a)
  PROVE  OneSide(a)'
<1> DEFINE n == Len(setups)
           w == conv[a][Primary]
           v == conv[Peer(a)][Primary]
           u == conv'[Peer(a)][Primary]
<1>1. /\ Peer(a) \in Parties /\ Peer(a) # a /\ Peer(Peer(a)) = a
      /\ Primary \in Contexts(a) /\ SpeaksOK(a)
  BY PeerFacts, Names DEF ForgetInv
<1>2. /\ v.rk # <<>> /\ sent' = sent \cup {k} /\ conv'[a] = conv[a]
      /\ \A d \in Contexts(Peer(a)) \ {Primary} : conv'[Peer(a)][d] = conv[Peer(a)][d]
      /\ UNCHANGED <<preKeys, setups, got, ordered>>
  BY <1>1 DEF SendBy
<1>3. /\ k.from = Peer(a) /\ k.ctx = v.ctx /\ k.a0 = v.a0 /\ k.mk.root[1] = v.rk[1]
      /\ u.rk # <<>> /\ u.rk[1] = v.rk[1] /\ u.ctx = v.ctx /\ u.a0 = v.a0
  BY <1>1, Sends
<1>4. Caller(a)
  BY DEF OneSide
<1>5. SentBy(Peer(a))' = SentBy(Peer(a)) \cup {k} /\ SentBy(a)' = SentBy(a)
  <2>1. \A x \in SentBy(Peer(a)) : x.id <= Cardinality(SentBy(Peer(a)))
    BY <1>1 DEF Base, WritesOK
  <2> QED
    BY <1>1, <2>1, OneMore
<1> HIDE DEF n, w, v, u
<1>6. Caller(a)'
  <2>1. \A q \in Parties : \A d \in Contexts(q) \ {Primary} : conv'[q][d] = conv[q][d]
    BY <1>1, <1>2, PeerFacts
  <2>2. \A q \in Parties : \A d \in Contexts(q) \ {Primary} : conv'[q][d].rk = <<>>
    BY <1>4, <2>1 DEF Caller
  <2>3. v.a0 = NoKey
    BY <1>4 DEF Caller, v
  <2>4. \A m \in SentBy(Peer(a))' : m.a0 = NoKey
    BY <1>3, <1>4, <1>5, <2>3 DEF Caller
  <2> QED
    BY <1>2, <1>3, <1>4, <1>5, <2>2, <2>3, <2>4 DEF Caller, u
<1>7. SUFFICES ASSUME w.rk # <<>>, ordered \/ n <= 1
               PROVE  Uncalled(a)' \/ Called(a)'
  BY <1>2, <1>6 DEF OneSide, n, w
<1>8. Uncalled(a) \/ Called(a)
  BY <1>2, <1>7 DEF OneSide, n, w
<1>9. CASE Uncalled(a)
  <2>1. Calling(a) /\ v.rk[1] # setups[n] /\ v.ctx # n
    BY <1>2, <1>9 DEF Uncalled, InSession, v, n
  <2>2. setups[n] = CallOf(a)
    BY <1>1, <1>4, <1>7, <2>1 DEF Caller, Calling, SpeaksOK, CallOf, w, n
  <2>3. Calling(a)'
    BY <1>2, <1>3, <2>1, <2>2, CallingStays
  <2>4. ~InSession(u, setups[n]) /\ u.ctx # n /\ \A m \in SentBy(Peer(a))' : m.ctx # n
    BY <1>3, <1>5, <1>9, <2>1 DEF InSession, Uncalled, n
  <2> QED
    BY <1>2, <1>9, <2>3, <2>4 DEF Uncalled, u, n
<1>10. CASE Called(a)
  <2>1. Connected(a)
    BY <1>2, <1>10 DEF Called, v
  <2>2. v.rk[1] = setups[n] /\ v.ctx = n
    BY <2>1 DEF Connected, InSession, v, n
  <2>3. Connected(a)'
    BY <1>1, <2>1, <2>2, ConnectedSends DEF v, n
  <2> QED
    BY <1>2, <1>10, <2>3 DEF Called
<1> QED
  BY <1>8, <1>9, <1>10

\* In a joined session a message is read.
LEMMA ConnectedReads ==
  ASSUME ForgetInv, NamesInv, OweInv, Base, NEW p \in Parties, NEW m \in sent, NEW r,
         ReadBy(p, m, Primary, r), ~HasPreKey(p, m),
         NEW a \in Parties, Connected(a), m.ctx = Len(setups),
         conv[p][Primary].ctx = Len(setups)
  PROVE  Connected(a)'
<1> DEFINE n == Len(setups)
           s == setups[n]
<1>1. /\ Peer(a) \in Parties /\ Peer(a) # a /\ p \in {a, Peer(a)}
      /\ Peer(Peer(a)) = a /\ Primary \in Contexts(a) /\ Primary \in Contexts(Peer(a))
      /\ Peer(p) \in Parties /\ Peer(Peer(p)) = p /\ Peer(p) # p
      /\ Primary \in Contexts(p)
  BY PeerFacts, Names
<1>2. /\ m.from # p /\ sent' = sent /\ setups' = setups
      /\ conv'[Peer(p)] = conv[Peer(p)] /\ staged'[Peer(p)] = staged[Peer(p)]
      /\ got'[Peer(p)] = got[Peer(p)]
  BY DEF ReadBy
<1>3. /\ InSession(conv[Peer(a)][Primary], s) /\ conv[Peer(a)][Primary].ctx = n
      /\ Joined(conv[a][Primary], conv[Peer(a)][Primary])
      /\ \A z \in sent : /\ z.mk.root[1] = s <=> z.ctx = n
                         /\ z.ctx = n => Expects(Peer(z.from), Primary, z)
  BY DEF Connected
<1> HIDE DEF n, s
<1>4. m.from = Peer(p) /\ m.mk.root[1] = s /\ Expects(p, Primary, m)
  <2>1. m.from = Peer(p)
    BY <1>2, MessageRoots, PeerFacts DEF ForgetInv
  <2> QED
    BY <1>1, <1>3, <2>1 DEF n
<1>5. Joined(conv[Peer(p)][Primary], conv[p][Primary])
  BY <1>1, <1>3, JoinedIsMutual
<1>6. /\ Joined(conv'[Peer(p)][Primary], conv'[p][Primary])
      /\ \A z \in sent : z.from = m.from /\ Expects(p, Primary, z) => Expects(p, Primary, z)'
      /\ InSession(conv[p][Primary], m.mk.root[1]) => InSession(conv'[p][Primary], m.mk.root[1])
  BY <1>4, <1>5, ExpectsRead
<1>7. conv'[p][Primary].ctx = n
  BY ReadSession DEF n
<1>8. Joined(conv'[a][Primary], conv'[Peer(a)][Primary])
  BY <1>1, <1>6, JoinedIsMutual
<1>9. InSession(conv'[Peer(a)][Primary], s) /\ conv'[Peer(a)][Primary].ctx = n
  BY <1>1, <1>2, <1>3, <1>4, <1>6, <1>7
<1>10. ASSUME NEW z \in sent, z.ctx = n
       PROVE  Expects(Peer(z.from), Primary, z)'
  <2>1. Expects(Peer(z.from), Primary, z) /\ z.from \in Parties
    BY <1>3, <1>10, MessageRoots DEF ForgetInv
  <2>2. CASE z.from = m.from
    BY <1>1, <1>4, <1>6, <2>1, <2>2
  <2>3. CASE z.from # m.from
    <3>1. Peer(z.from) = Peer(p)
      BY <1>4, <2>1, <2>3, PeerFacts
    <3> QED
      BY <1>2, <2>1, <3>1 DEF Expects, InChain, NextChain, Sending
  <2> QED
    BY <2>2, <2>3
<1>11. Connected(a)' <=>
        /\ InSession(conv'[Peer(a)][Primary], s) /\ conv'[Peer(a)][Primary].ctx = n
        /\ Joined(conv'[a][Primary], conv'[Peer(a)][Primary])
        /\ \A z \in sent' : /\ z.mk.root[1] = s <=> z.ctx = n
                            /\ z.ctx = n => Expects(Peer(z.from), Primary, z)'
  BY <1>2 DEF Connected, InSession, Joined, Follows, Crossed, Sending, n, s
<1> QED
  BY <1>2, <1>3, <1>8, <1>9, <1>10, <1>11

\* Contexts other than the primary ones do not read if one party makes all setups.
LEMMA CallerKept ==
  ASSUME ForgetInv, NamesInv, NEW p \in Parties, NEW m \in sent, NEW x, NEW r,
         ReadBy(p, m, x, r), NEW a \in Parties, Caller(a)
  PROVE  x = Primary /\ Caller(a)'
<1> DEFINE n == Len(setups)
<1>1. /\ Peer(a) \in Parties /\ Peer(a) # a /\ p \in {a, Peer(a)} /\ Peer(Peer(a)) = a
      /\ m.from \in {a, Peer(a)} /\ Primary \in Contexts(p) /\ KeyInv
  BY PeerFacts, Names, MessageRoots DEF ForgetInv
<1>2. /\ m.from # p /\ sent' = sent /\ setups' = setups /\ conv'[Peer(p)] = conv[Peer(p)]
      /\ x = First(p, m)
      /\ \A d \in Contexts(p) \ {x} : conv'[p][d] = conv[p][d]
  BY DEF ReadBy
<1>3. p = a => m.a0 = NoKey
  BY <1>1, <1>2 DEF Caller, SentBy
<1>4. p = Peer(a) => conv[p][Primary].a0 = NoKey
  BY DEF Caller
<1>5. x = Primary
  BY <1>1, <1>2, <1>3, <1>4 DEF First, Collision, IsSetup
<1>6. \A q \in Parties : \A d \in Contexts(q) \ {Primary} : conv'[q][d] = conv[q][d]
  BY <1>2, <1>5, PeerFacts
<1>7. LET v == conv[p][Primary]
          w == conv'[p][Primary]
      IN  /\ ~Refused(p, v, m) /\ w.a0 \in {v.a0, NoKey} /\ w.ctx \in {v.ctx, m.ctx}
          /\ ~HasPreKey(p, m) => /\ (w.rk # <<>> <=> v.rk # <<>>)
                                 /\ w.rk # <<>> => w.rk[1] = v.rk[1]
  BY <1>5, ReadSession
<1>8. p = Peer(a) => conv'[p][Primary].a0 = NoKey /\ conv'[a] = conv[a]
  BY <1>1, <1>2, <1>4, <1>7
<1>9. p = a => conv'[Peer(a)] = conv[Peer(a)]
  BY <1>2
<1>10. LET w == conv'[a][Primary] IN w.rk # <<>> => w.ctx = n /\ n > 0 /\ w.rk[1] = setups[n]
  <2>1. CASE p = Peer(a)
    BY <1>8, <2>1 DEF Caller
  <2>2. CASE p = a
    <3>1. ~HasPreKey(p, m) /\ ~IsSetup(m)
      BY <1>3, <2>2 DEF HasPreKey, IsSetup
    <3>2. conv[p][Primary].ctx = 0 \/ conv[p][Primary].ctx = m.ctx
      BY <1>7, <3>1 DEF Refused, SetupConv
    <3>3. conv[a][Primary].rk # <<>> =>
            conv[a][Primary].ctx = n /\ n > 0 /\ conv[a][Primary].rk[1] = setups[n]
      BY DEF Caller
    <3> QED
      BY <1>7, <2>2, <3>1, <3>2, <3>3
  <2> QED
    BY <1>1, <2>1, <2>2
<1>11. Caller(a)'
  <2>1. \A q \in Parties : \A d \in Contexts(q) \ {Primary} : conv'[q][d].rk = <<>>
    BY <1>6 DEF Caller
  <2>2. conv'[Peer(a)][Primary].a0 = NoKey
    BY <1>1, <1>8, <1>9 DEF Caller
  <2> QED
    BY <1>2, <1>10, <2>1, <2>2 DEF Caller, SentBy
<1> QED
  BY <1>5, <1>11

\* The caller reads an answer.
LEMMA CallerReads ==
  ASSUME ForgetInv, NamesInv, OweInv, Base, NEW p \in Parties, NEW m \in sent, NEW x, NEW r,
         ReadBy(p, m, x, r), OneSide(p)
  PROVE  OneSide(p)'
<1> DEFINE n == Len(setups)
           v == conv[p][Primary]
           w == conv'[p][Primary]
<1>1. x = Primary /\ Caller(p)' /\ Caller(p)
  BY CallerKept DEF OneSide
<1>2. /\ m.from = Peer(p) /\ sent' = sent /\ setups' = setups
      /\ conv'[Peer(p)] = conv[Peer(p)] /\ got'[Peer(p)] = got[Peer(p)]
      /\ ordered' => ordered
  <2>1. KeyInv /\ m.from # p
    BY DEF ReadBy, ForgetInv
  <2>2. m.from = Peer(p)
    BY <2>1, MessageRoots, PeerFacts
  <2> QED
    BY <2>2 DEF ReadBy
<1>3. m.a0 = NoKey /\ ~HasPreKey(p, m) /\ ~IsSetup(m)
  BY <1>1, <1>2 DEF Caller, SentBy, HasPreKey, IsSetup
<1>4. SUFFICES ASSUME w.rk # <<>>, ordered \/ n <= 1
               PROVE  Uncalled(p)' \/ Called(p)'
  BY <1>1, <1>2 DEF OneSide
<1>5. ~Refused(p, v, m) /\ v.rk # <<>>
  BY <1>1, <1>3, <1>4, ReadSession
<1>6. v.ctx = n /\ n > 0
  BY <1>1, <1>5 DEF Caller
<1>7. m.ctx = n
  BY <1>3, <1>5, <1>6 DEF Refused, SetupConv
<1>8. ~Uncalled(p)
  BY <1>2, <1>7 DEF Uncalled, SentBy
<1>9. Called(p)
  BY <1>4, <1>5, <1>8 DEF OneSide
<1> HIDE DEF n, v, w
<1>10. CASE Connected(p)
  <2>1. Connected(p)'
    BY <1>1, <1>3, <1>6, <1>7, <1>10, ConnectedReads DEF n, v
  <2> QED
    BY <1>2, <1>9, <2>1 DEF Called
<1>11. CASE ~Connected(p)
  BY <1>2, <1>9, <1>11 DEF Called
<1> QED
  BY <1>10, <1>11

\* The peer of the caller reads a message of the newest setup: the first one.
LEMMA CallIsRead ==
  ASSUME ForgetInv, NamesInv, OweInv, Base, NEW a \in Parties, NEW m \in sent, NEW r,
         ReadBy(Peer(a), m, Primary, r), Caller(a), Uncalled(a),
         conv[a][Primary].rk # <<>>, m.mk.root[1] = CallOf(a)
  PROVE  Called(a)'
<1> DEFINE n == Len(setups)
           s == setups[n]
           c == conv[a][Primary]
           w == conv'[Peer(a)][Primary]
<1>1. /\ Peer(a) \in Parties /\ Peer(a) # a /\ Peer(Peer(a)) = a
      /\ Primary \in Contexts(a) /\ SpeaksOK(a) /\ KeyInv
  BY PeerFacts, Names DEF ForgetInv
<1>2. /\ Calling(a) /\ c.preKey \in preKeys[Peer(a)] /\ c.a0 # NoKey
      /\ \A z \in SentBy(Peer(a)) : z.ctx # n
  BY DEF Uncalled, Calling
<1>3. c.ctx = n /\ n > 0 /\ c.rk[1] = s /\ s = CallOf(a)
  BY <1>1, <1>2 DEF Caller, SpeaksOK, CallOf
<1>4. \A z \in sent : z.mk.root[1] = CallOf(a) =>
        /\ z.from = a /\ z.ctx = n /\ z.mk.root = c.rk /\ z.dhs = c.dhs
        /\ Sending(c) /\ Opening(Peer(a), z)
  BY <1>1, <1>2, <1>3, CallingOpens
<1>5. /\ sent' = sent /\ setups' = setups /\ conv'[a] = conv[a] /\ w = r.conv
      /\ got'[Peer(a)] = got[Peer(a)] \cup {m}
  BY <1>1 DEF ReadBy
<1>6. Opened(r.conv, m, r.new)
  BY <1>1, <1>4, ReadOpens
<1>7. /\ w.rk = m.mk.root /\ w.flag /\ w.dhr = m.dhs /\ w.ctx = n
  BY <1>4, <1>5, <1>6 DEF Opened
<1> HIDE DEF n, s, c, w
<1>8. m.mk.root # <<>>
  BY SetupOf
<1>9. \A z \in sent : z.mk.root[1] = s <=> z.ctx = n
  <2>1. TAKE z \in sent
  <2>2. z.mk.root[1] = s => z.ctx = n
    BY <1>3, <1>4
  <2>3. ASSUME z.ctx = n PROVE z.mk.root[1] = s
    <3>1. z.from \in {a, Peer(a)}
      BY <1>1, MessageRoots, PeerFacts
    <3>2. z.from = a
      BY <1>2, <2>3, <3>1 DEF SentBy
    <3> QED
      BY <2>3, <3>2 DEF Caller, SentBy, s
  <2> QED
    BY <2>2, <2>3
<1>10. ASSUME NEW z \in sent, z.ctx = n
       PROVE  Expects(Peer(z.from), Primary, z)'
  <2>1. z.mk.root = m.mk.root /\ z.dhs = m.dhs /\ z.from = a
    BY <1>3, <1>4, <1>9, <1>10
  <2>2. unsaved = {}
    BY DEF Base
  <2> QED
    BY <1>1, <1>6, <2>1, <2>2, OpenedExpects
<1>11. Joined(c, w) /\ InSession(w, s)
  BY <1>3, <1>4, <1>7, <1>8 DEF Joined, Follows, InSession
<1>12. Connected(a)' <=>
        /\ InSession(w, s) /\ w.ctx = n /\ Joined(c, w)
        /\ \A z \in sent' : /\ z.mk.root[1] = s <=> z.ctx = n
                            /\ z.ctx = n => Expects(Peer(z.from), Primary, z)'
  BY <1>5 DEF Connected, InSession, Joined, Follows, Crossed, Sending, n, s, c, w
<1>13. Connected(a)'
  BY <1>5, <1>7, <1>9, <1>10, <1>11, <1>12
<1>14. m.ctx = n
  BY <1>4
<1> QED
  BY <1>5, <1>13, <1>14 DEF Called, n

\* It reads one of a setup before.
LEMMA OldCallIsRead ==
  ASSUME ForgetInv, NamesInv, OweInv, Base, NEW a \in Parties, NEW m \in sent, NEW r,
         ReadBy(Peer(a), m, Primary, r), Caller(a), Uncalled(a),
         conv[a][Primary].rk # <<>>, m.mk.root[1] # CallOf(a)
  PROVE  Uncalled(a)'
<1> DEFINE n == Len(setups)
           s == setups[n]
           c == conv[a][Primary]
           v == conv[Peer(a)][Primary]
           w == conv'[Peer(a)][Primary]
<1>1. /\ Peer(a) \in Parties /\ Peer(a) # a /\ Peer(Peer(a)) = a
      /\ Primary \in Contexts(a) /\ SpeaksOK(a) /\ KeyInv
  BY PeerFacts, Names DEF ForgetInv
<1>2. /\ Calling(a) /\ c.preKey \in preKeys[Peer(a)] /\ c.a0 # NoKey
      /\ ~InSession(v, s) /\ v.ctx # n /\ \A z \in SentBy(Peer(a)) : z.ctx # n
  BY DEF Uncalled, Calling
<1>3. c.ctx = n /\ n > 0 /\ c.rk[1] = s /\ s = CallOf(a)
  BY <1>1, <1>2 DEF Caller, SpeaksOK, CallOf
<1>4. /\ m.from = a /\ sent' = sent /\ setups' = setups /\ conv'[a] = conv[a]
      /\ preKeys'[Peer(a)] = preKeys[Peer(a)] \ {m.preKey}
  BY <1>1, MessageRoots, PeerFacts DEF ReadBy
<1>5. m.ctx # n
  BY <1>3, <1>4 DEF Caller, SentBy
<1>6. /\ w.ctx \in {v.ctx, m.ctx}
      /\ HasPreKey(Peer(a), m) => w.rk = m.mk.root
      /\ ~HasPreKey(Peer(a), m) => /\ (w.rk # <<>> <=> v.rk # <<>>)
                                   /\ w.rk # <<>> => w.rk[1] = v.rk[1]
  BY <1>1, ReadSession
<1>7. c.preKey \in preKeys'[Peer(a)]
  <2>1. m.preKey # c.preKey
    BY <1>2, OtherPreKey
  <2> QED
    BY <1>2, <1>4, <2>1
<1>8. Calling(a)'
  BY <1>2, <1>4, CallingStays
<1> HIDE DEF n, s, c, v, w
<1>9. ~InSession(w, s) /\ w.ctx # n
  BY <1>2, <1>3, <1>5, <1>6 DEF InSession
<1> QED
  BY <1>2, <1>4, <1>7, <1>8, <1>9 DEF Uncalled, SentBy, InSession, n, s, c, w

\* It has read one of the newest setup, so it reads no others in order.
LEMMA CalledReads ==
  ASSUME ForgetInv, NamesInv, OweInv, Base, NEW a \in Parties, NEW m \in sent, NEW r,
         ReadBy(Peer(a), m, Primary, r), Caller(a), Called(a),
         conv[a][Primary].rk # <<>>, ordered' \/ Len(setups) <= 1
  PROVE  Called(a)'
<1> DEFINE n == Len(setups)
           v == conv[Peer(a)][Primary]
           w == conv'[Peer(a)][Primary]
<1>1. /\ Peer(a) \in Parties /\ Peer(a) # a /\ Peer(Peer(a)) = a
      /\ Primary \in Contexts(Peer(a)) /\ KeyInv /\ TypeOK
      /\ ReadOK(Peer(a))
      /\ n \in Nat /\ DOMAIN setups = 1 .. n
  <2>1. KeyInv /\ TypeOK /\ \A p \in Parties : ReadOK(p)
    BY DEF ForgetInv, KeyInv
  <2> QED
    BY <2>1, PeerFacts, Names, SetupList
<1>2. /\ m.from = a /\ sent' = sent /\ setups' = setups /\ conv'[a] = conv[a] /\ w = r.conv
      /\ got'[Peer(a)] = got[Peer(a)] \cup {m} /\ m \notin got[Peer(a)] /\ r.ok
      /\ r = DecryptInternal(Peer(a), Primary, m) /\ m.from # Peer(a)
      /\ ordered' = (ordered /\ InOrder(Peer(a), m))
  BY <1>1, MessageRoots, PeerFacts DEF ReadBy
<1>3. PICK g \in got[Peer(a)] : g.ctx = n
  BY DEF Called
<1>4. g \in sent /\ g.from = a /\ g.mk.root[1] \cap preKeys[Peer(a)] = {}
  BY <1>1, <1>3, MessageRoots, PeerFacts DEF ReadOK
<1>5. m.ctx \in 1 .. n
  BY <1>1 DEF NamesInv
<1>6. m.ctx = n
  <2>1. CASE n <= 1
    BY <1>1, <1>5, <2>1
  <2>2. CASE ordered'
    <3>1. SUFFICES ASSUME m.ctx < n PROVE FALSE
      BY <1>1, <1>5
    <3>2. m.id < g.id
      BY <1>2, <1>3, <1>4, <3>1 DEF Caller, SentBy
    <3>3. ordered
      BY <1>2, <2>2
    <3>4. m \in got[Peer(a)]
      BY <1>1, <1>2, <1>3, <1>4, <3>2, <3>3 DEF Base, OrderOK, SentBy
    <3> QED
      BY <1>2, <3>4
  <2> QED
    BY <2>1, <2>2
<1>7. m.mk.root[1] = g.mk.root[1]
  BY <1>2, <1>3, <1>4, <1>6 DEF Caller, SentBy
<1>8. ~HasPreKey(Peer(a), m)
  <2>1. SUFFICES ASSUME HasPreKey(Peer(a), m) PROVE FALSE
    OBVIOUS
  <2>2. m.preKey \in m.mk.root[1]
    BY <2>1, SetupOf DEF HasPreKey
  <2> QED
    BY <1>4, <1>7, <2>1, <2>2 DEF HasPreKey
<1>9. w.known /\ (w.rk # <<>> <=> v.rk # <<>>)
  <2>1. w.known
    BY <1>1, ReadSession
  <2>2. w.rk # <<>> <=> v.rk # <<>>
    BY <1>1, <1>8, ReadSession
  <2> QED
    BY <2>1, <2>2
<1>10. CASE Connected(a)
  <2>1. v.ctx = n
    BY <1>10 DEF Connected
  <2>2. Connected(a)'
    BY <1>1, <1>6, <1>8, <1>10, <2>1, ConnectedReads
  <2> QED
    BY <1>2, <1>6, <2>2 DEF Called
<1>11. CASE v.rk = <<>>
  BY <1>2, <1>6, <1>9, <1>11 DEF Called
<1> QED
  BY <1>10, <1>11 DEF Called

LEMMA ReceiveOneSide ==
  ASSUME ForgetInv, NamesInv, OweInv, Base, NEW p \in Parties, NEW m \in sent, NEW x, NEW r,
         ReadBy(p, m, x, r), NEW a \in Parties, OneSide(a)
  PROVE  OneSide(a)'
<1>1. /\ p = a \/ p = Peer(a)
      /\ Peer(a) \in Parties /\ Peer(a) # a
  BY PeerFacts
<1>2. CASE p = a
  BY <1>2, CallerReads
<1>3. CASE p = Peer(a)
  <2>1. x = Primary /\ Caller(a)' /\ Caller(a)
    BY CallerKept DEF OneSide
  <2>2. /\ setups' = setups /\ conv'[a] = conv[a]
        /\ ordered' => ordered
    BY <1>3, PeerFacts DEF ReadBy
  <2>3. SUFFICES ASSUME conv[a][Primary].rk # <<>>, ordered' \/ Len(setups) <= 1
                 PROVE  Uncalled(a)' \/ Called(a)'
    BY <2>1, <2>2 DEF OneSide
  <2>4. Uncalled(a) \/ Called(a)
    BY <2>2, <2>3 DEF OneSide
  <2>5. CASE Called(a)
    BY <1>3, <2>1, <2>3, <2>5, CalledReads
  <2>6. CASE Uncalled(a) /\ m.mk.root[1] = CallOf(a)
    BY <1>3, <2>1, <2>3, <2>6, CallIsRead
  <2>7. CASE Uncalled(a) /\ m.mk.root[1] # CallOf(a)
    BY <1>3, <2>1, <2>3, <2>7, OldCallIsRead
  <2> QED
    BY <2>4, <2>5, <2>6, <2>7
<1> QED
  BY <1>1, <1>2, <1>3

----------------------------------------------------------------------------
(* Two setups collide.                                                     *)

\* The two setups and their pre-keys.
LEMMA TwoSetups ==
  ASSUME ForgetInv, NamesInv, Base, \A p \in Parties : handedOut[p] > 0
  PROVE  /\ Greater \in Parties /\ Loser \in Parties /\ Loser # Greater
         /\ Peer(Greater) = Loser /\ Peer(Loser) = Greater
         /\ \A p \in Parties : /\ p = Greater \/ p = Loser
                               /\ FirstKey(p) \in PreKeys(p) /\ FirstKey(p) \in Contexts(p)
                               /\ FirstKey(p) # Primary /\ FirstKey(p) # NoKey
         /\ FirstKey(Greater) # FirstKey(Loser)
         /\ \A s, z : Made(s) /\ Made(z) /\ s \cap z # {} => s = z
         /\ \A s : Made(s) => ~(FirstKey(Greater) \in s /\ FirstKey(Loser) \in s)
         /\ \A m \in sent : Made(m.mk.root[1]) /\ m.mk.root # <<>>
         /\ \A p \in Parties : \A c \in Contexts(p) :
              conv[p][c].rk # <<>> => Made(conv[p][c].rk[1])
<1>1. /\ Greater \in Parties /\ Loser \in Parties /\ Loser # Greater
      /\ Peer(Greater) = Loser /\ Peer(Loser) = Greater
      /\ \A p \in Parties : p = Greater \/ p = Loser
  BY PeerFacts DEF Loser
<1>2. MaxSetups \in Nat /\ MaxSetups >= 1
  <2>1. handedOut[Greater] \in Nat /\ handedOut[Greater] > 0
    BY <1>1 DEF ForgetInv, KeyInv, TypeOK
  <2>2. KnownOK(Greater)
    BY <1>1 DEF Base, ApartOK
  <2>3. handedOut[Greater] <= MaxSetups
    BY <2>2 DEF KnownOK
  <2> QED
    BY <2>1, <2>3
<1>3. ASSUME NEW p \in Parties
      PROVE  /\ FirstKey(p) \in PreKeys(p) /\ FirstKey(p) \in Contexts(p)
             /\ FirstKey(p) # Primary /\ FirstKey(p) # NoKey
  <2>1. FirstKey(p) \in PreKeys(p)
    BY <1>2 DEF FirstKey, PreKeys
  <2> QED
    BY <2>1, Names DEF Primary
<1>4. FirstKey(Greater) # FirstKey(Loser)
  BY <1>1 DEF FirstKey, PreKeyOf
<1>5. \A s, z : Made(s) /\ Made(z) /\ s \cap z # {} => s = z
  BY OtherSession DEF Base
<1>6. ASSUME NEW s, Made(s), FirstKey(Greater) \in s, FirstKey(Loser) \in s
      PROVE  FALSE
  <2>1. PICK i \in DOMAIN setups : setups[i] = s
    BY <1>6 DEF Made
  <2>2. 1 \in 1 .. MaxSetups
    BY <1>2
  <2>3. PreKeyOf(Greater, 1) \in setups[i] =>
          \A k \in setups[i] : k[2] <= MaxSetups => k = PreKeyOf(Greater, 1)
    BY <1>1, <2>2 DEF Base, ApartOK
  <2>4. FirstKey(Loser)[2] <= MaxSetups
    BY <1>2 DEF FirstKey, PreKeyOf
  <2> QED
    BY <1>4, <1>6, <2>1, <2>3, <2>4 DEF FirstKey
<1>7. \A m \in sent : Made(m.mk.root[1]) /\ m.mk.root # <<>>
  BY SetupOf DEF NamesInv
<1>8. \A p \in Parties : \A c \in Contexts(p) :
        conv[p][c].rk # <<>> => Made(conv[p][c].rk[1])
  BY DEF NamesInv
<1> QED
  BY <1>1, <1>3, <1>4, <1>5, <1>6, <1>7, <1>8

\* Both wait for an answer: whose messages are whose.
LEMMA Calls ==
  ASSUME ForgetInv, NamesInv, Base, \A p \in Parties : handedOut[p] > 0, BothCall,
         NEW p \in Parties
  PROVE  LET w == conv[p][Primary]
         IN  /\ FirstKey(Peer(p)) \in CallOf(p) /\ w.rk # <<>> /\ w.rk[1] = CallOf(p)
             /\ w.a0 # NoKey
             /\ \A m \in OfKey(Peer(p)) :
                  /\ m.mk.root[1] = CallOf(p) /\ m.from = p /\ IsSetup(m)
                  /\ m.preKey = FirstKey(Peer(p)) /\ m.ctx = w.ctx
                  /\ Sending(w) /\ m.mk.root = w.rk /\ m.dhs = w.dhs
                  /\ \A q : FirstKey(Peer(p)) \in preKeys[q] => Opening(q, m)
<1> DEFINE w == conv[p][Primary]
<1>1. SpeaksOK(p) /\ KeyInv /\ Primary \in Contexts(p)
  BY Names DEF ForgetInv
<1>2. Calling(p) /\ w.preKey = FirstKey(Peer(p)) /\ w.a0 # NoKey
  BY DEF BothCall, Calling
<1>3. FirstKey(Peer(p)) \in CallOf(p) /\ w.rk # <<>> /\ w.rk[1] = CallOf(p)
  BY <1>1, <1>2 DEF SpeaksOK, CallOf
<1>4. \A m \in OfKey(Peer(p)) : m \in sent /\ m.mk.root[1] = CallOf(p)
  <2>1. TAKE m \in OfKey(Peer(p))
  <2>2. m \in sent /\ FirstKey(Peer(p)) \in m.mk.root[1]
    BY DEF OfKey
  <2> QED
    BY <1>1, <1>3, <2>2, TwoSetups
<1>5. \A m \in OfKey(Peer(p)) :
                  /\ m.from = p /\ IsSetup(m)
                  /\ m.preKey = FirstKey(Peer(p)) /\ m.ctx = w.ctx
                  /\ Sending(w) /\ m.mk.root = w.rk /\ m.dhs = w.dhs
                  /\ \A q : FirstKey(Peer(p)) \in preKeys[q] => Opening(q, m)
  BY <1>1, <1>2, <1>4, CallingOpens
<1> QED
  BY <1>2, <1>3, <1>4, <1>5

\* Nothing is sent, and the secondary context of the winner does not read.
LEMMA AsideStays ==
  ASSUME Aside, sent' = sent,
         conv'[Greater][FirstKey(Greater)] = conv[Greater][FirstKey(Greater)],
         staged'[Greater][FirstKey(Greater)] = staged[Greater][FirstKey(Greater)],
         got[Greater] \subseteq got'[Greater],
         OfKey(Greater) # {} /\ FirstKey(Greater) \in preKeys[Greater]
           /\ conv[Greater][FirstKey(Greater)].rk = <<>> => FirstKey(Greater) \in preKeys'[Greater]
  PROVE  Aside'
<1> DEFINE k == FirstKey(Greater)
<1>1. OfKey(Greater)' = OfKey(Greater)
  BY DEF OfKey
<1>2. ASSUME NEW m \in OfKey(Greater)
      PROVE  IF conv[Greater][k].rk = <<>> THEN Opening(Greater, m)'
             ELSE Expects(Greater, k, m)'
  <2>1. m.preKey = k /\ IF conv[Greater][k].rk = <<>> THEN Opening(Greater, m)
                        ELSE Expects(Greater, k, m)
    BY DEF Aside
  <2>2. CASE conv[Greater][k].rk = <<>>
    BY <2>1, <2>2 DEF Opening, HasPreKey, IsSetup
  <2>3. CASE conv[Greater][k].rk # <<>>
    BY <2>1, <2>3 DEF Expects, InChain, NextChain, Sending
  <2> QED
    BY <2>2, <2>3
<1> QED
  BY <1>1, <1>2 DEF Aside, IsSetup

\* It reads.
LEMMA AsideReads ==
  ASSUME ForgetInv, NamesInv, OweInv, Base, \A p \in Parties : handedOut[p] > 0, Aside,
         NEW m \in OfKey(Greater), NEW r, ReadBy(Greater, m, FirstKey(Greater), r)
  PROVE  /\ Aside'
         /\ LET y == conv[Greater][FirstKey(Greater)]
                w == conv'[Greater][FirstKey(Greater)]
            IN  IF y.rk = <<>> THEN /\ w.rk = m.mk.root /\ w.flag /\ w.dhr = m.dhs
                ELSE y.flag => w.rk = y.rk /\ w.flag /\ w.dhr = y.dhr
<1> DEFINE k == FirstKey(Greater)
           y == conv[Greater][k]
           w == conv'[Greater][k]
<1>1. /\ m \in sent /\ Greater \in Parties /\ k \in Contexts(Greater) /\ k # Primary
      /\ KeyInv /\ unsaved = {}
  BY TwoSetups DEF OfKey, ForgetInv, Base
<1>2. /\ sent' = sent /\ w = r.conv
      /\ \A z \in OfKey(Greater) : z \in sent
      /\ OfKey(Greater)' = OfKey(Greater)
  BY DEF ReadBy, OfKey
<1>3. \A z \in OfKey(Greater) :
         /\ z.from = Loser /\ IsSetup(z) /\ z.preKey = k
         /\ IF y.rk = <<>> THEN Opening(Greater, z) ELSE Expects(Greater, k, z)
         /\ \A x \in OfKey(Greater) : x.mk.root = z.mk.root
  BY DEF Aside
<1>4. \A z \in OfKey(Greater) : z.mk.root = m.mk.root /\ z.dhs = m.dhs
  <2>1. m.from \in Parties /\ WrittenOK(m)
    BY <1>1, MessageRoots DEF Base
  <2>2. \A z \in OfKey(Greater) : z \in SentBy(m.from) /\ z.mk.root = m.mk.root
    BY <1>2, <1>3 DEF SentBy
  <2> QED
    BY <2>1, <2>2 DEF WrittenOK
<1> HIDE DEF k, y, w
<1>5. CASE y.rk = <<>>
  <2>1. Opening(Greater, m)
    BY <1>3, <1>5
  <2>2. Opened(r.conv, m, r.new)
    BY <1>1, <2>1, ReadOpens DEF k
  <2>3. w.rk = m.mk.root /\ w.flag /\ w.dhr = m.dhs
    BY <1>2, <2>2 DEF Opened
  <2>4. w.rk # <<>>
    BY <1>1, <2>3, SetupOf
  <2>5. \A z \in OfKey(Greater) : Expects(Greater, k, z)'
    BY <1>1, <1>2, <1>4, <2>2, OpenedExpects DEF k
  <2>6. Aside'
    BY <1>2, <1>3, <2>4, <2>5 DEF Aside, IsSetup, k, w
  <2> QED
    BY <1>5, <2>3, <2>6 DEF k, y, w
<1>6. CASE y.rk # <<>>
  <2>1. Expects(Greater, k, m)
    BY <1>3, <1>6
  <2>2. ~HasPreKey(Greater, m)
    <3>1. SetupsOK(Greater)
      BY <1>1 DEF ForgetInv
    <3>2. y.rk[1] \cap preKeys[Greater] = {} /\ k \in y.rk[1]
      BY <1>1, <1>6, <3>1 DEF SetupsOK, y
    <3> QED
      BY <1>3, <3>2 DEF HasPreKey
  <2>3. Takes(y, r.conv, m, r.new, r.out, staged[Greater][k])
    BY <1>1, <2>1, <2>2, ReadTakes DEF k, y
  <2>4. WrittenOK(m) /\ Linked(sent, Greater, conv[Greater][k])
    BY <1>1 DEF Base, OweInv
  <2>5. \A z \in OfKey(Greater) : Expects(Greater, k, z)'
    <3>1. TAKE z \in OfKey(Greater)
    <3>2. z \in sent /\ z.from = m.from /\ Expects(Greater, k, z)
      BY <1>2, <1>3, <1>6
    <3> QED
      BY <1>1, <2>3, <2>4, <3>2, ExpectsOn DEF k, y
  <2>6. w.rk # <<>>
    BY <1>1, <1>6, <2>2, ReadSession DEF k, y, w
  <2>7. Aside'
    BY <1>2, <1>3, <2>5, <2>6 DEF Aside, IsSetup, k, w
  <2>8. y.flag => w.rk = y.rk /\ w.flag /\ w.dhr = y.dhr
    BY <1>2, <2>3 DEF Takes, SameKeys, NextChain, Sending
  <2> QED
    BY <1>6, <2>7, <2>8 DEF k, y, w
<1> QED
  BY <1>5, <1>6

\* The second party makes its setup before it read anything of the first one.
LEMMA SetUpCollides ==
  ASSUME ForgetInv, NamesInv, Base, NEW p \in Parties, NEW a0, NEW b0, SetUpBy(p, a0, b0),
         handedOut[Peer(p)] = 0 => OneSide(Peer(p)),
         ordered, reKeys = 0, \A q \in Parties : handedOut'[q] > 0
  PROVE  Collided'
<1> DEFINE a == Peer(p)
           c == conv[a][Primary]
<1>1. /\ a \in Parties /\ a # p /\ Peer(a) = p /\ KeyInv /\ TypeOK /\ SpeaksOK(a)
      /\ Primary \in Contexts(p) /\ Primary \in Contexts(a)
      /\ handedOut[p] \in Nat /\ handedOut[a] \in Nat
      /\ Greater \in Parties /\ \A q \in Parties : q = p \/ q = a
  BY PeerFacts, Names DEF ForgetInv, KeyInv, TypeOK
<1>2. /\ conv[p][Primary].rk = <<>> /\ conv'[a] = conv[a]
      /\ \A d \in Contexts(p) \ {Primary} : conv'[p][d] = conv[p][d]
      /\ handedOut'[p] = handedOut[p] /\ b0 = PreKeyOf(a, handedOut[a] + 1)
      /\ handedOut[a] + 1 \in 1 .. MaxSetups /\ conv'[p][Primary].preKey = b0
      /\ UNCHANGED <<preKeys, sent>>
      /\ UNCHANGED <<staged, got, unsaved>>
  BY DEF SetUpBy
<1>3. KnownOK(p) /\ KnownOK(a)
  BY <1>1 DEF Base, ApartOK
<1>4. handedOut[a] = 0 /\ ~conv[p][Primary].known
  BY <1>1, <1>2, <1>3 DEF KnownOK
<1>5. handedOut[p] = 1
  BY <1>1, <1>2, <1>3 DEF KnownOK
<1>6. Len(setups) = 1 /\ DOMAIN setups = {1}
  <2>1. Len(setups) = 1
    BY <1>1, <1>3, <1>4, <1>5 DEF KnownOK
  <2>2. DOMAIN setups = 1 .. Len(setups)
    BY SetupList
  <2> QED
    BY <2>1, <2>2
<1>7. c.rk # <<>>
  BY <1>1, <1>3, <1>5 DEF KnownOK
<1>8. Uncalled(a) /\ Caller(a)
  <2>1. Caller(a) /\ (Uncalled(a) \/ Called(a))
    BY <1>4, <1>7 DEF OneSide
  <2>2. ~Called(a)
    BY <1>1, <1>2, <1>4 DEF Called, Connected, InSession
  <2> QED
    BY <2>1, <2>2
<1>9. /\ Calling(a) /\ c.a0 # NoKey /\ c.preKey \in preKeys[p]
      /\ c.rk[1] = setups[1] /\ setups[1] = CallOf(a)
  <2>1. Calling(a) /\ c.a0 # NoKey /\ c.preKey \in preKeys[p]
    BY <1>1, <1>8 DEF Uncalled, Calling
  <2>2. c.rk[1] = setups[1]
    BY <1>6, <1>7, <1>8 DEF Caller
  <2> QED
    BY <1>1, <2>1, <2>2 DEF SpeaksOK, CallOf
<1> HIDE DEF c
<1>10. c.preKey = FirstKey(p)
  <2>1. c.preKey \in PreKeys(p)
    <3>1. ContextOK(Born, a, c)
      BY <1>1, ContextIs DEF c
    <3> QED
      BY <1>1, <1>9, <3>1 DEF ContextOK, SetupOK
  <2>2. PICK i \in 1 .. MaxSetups : c.preKey = PreKeyOf(p, i)
    BY <2>1 DEF PreKeys
  <2>3. c.preKey \in setups[1]
    BY <1>9 DEF CallOf, c
  <2>4. i <= handedOut[p]
    BY <1>6, <2>2, <2>3 DEF Base, ApartOK
  <2>5. i = 1
    BY <1>5, <2>2, <2>4
  <2> QED
    BY <2>2, <2>5 DEF FirstKey
<1>11. b0 = FirstKey(a) /\ 1 \in 1 .. MaxSetups
  BY <1>2, <1>4 DEF FirstKey
<1>12. FirstKey(a) \notin setups[1]
  <2>1. PreKeyOf(a, 1) \in setups[1] => 1 <= handedOut[a]
    BY <1>1, <1>6, <1>11 DEF Base, ApartOK
  <2> QED
    BY <1>4, <2>1 DEF FirstKey
<1>13. ASSUME NEW m \in sent
       PROVE  m.from = a /\ m.mk.root[1] = CallOf(a) /\ FirstKey(p) \in m.mk.root[1]
              /\ FirstKey(a) \notin m.mk.root[1]
  <2>1. m.ctx = 1 /\ m.from \in Parties
    BY <1>1, <1>6, MessageRoots DEF NamesInv
  <2>2. m.from = a
    BY <1>1, <1>6, <1>8, <2>1 DEF Uncalled, SentBy
  <2>3. m.mk.root[1] = setups[1]
    BY <1>8, <2>1, <2>2 DEF Caller, SentBy
  <2>4. c.preKey \in CallOf(a)
    BY DEF CallOf, c
  <2> QED
    BY <1>9, <1>10, <1>12, <2>2, <2>3, <2>4
<1>14. Calling(p)' /\ Calling(a)'
  <2>1. Calling(p)'
    BY <1>1, SetUpCalls DEF ForgetInv
  <2>2. Calling(a)'
    BY <1>1, <1>2, <1>9, CallingStays
  <2> QED
    BY <2>1, <2>2
<1>15. OfKey(p)' = sent /\ OfKey(a)' = {}
  BY <1>2, <1>13 DEF OfKey
<1>16. \/ p = Greater /\ Loser = a
       \/ a = Greater /\ Loser = p
  BY <1>1 DEF Loser
<1>17. FirstKey(p) \in preKeys'[p] /\ FirstKey(a) \in preKeys'[a]
  <2>1. PreKeyOf(a, 1) \in preKeys[a]
    BY <1>3, <1>4, <1>11 DEF KnownOK
  <2> QED
    BY <1>2, <1>9, <1>10, <2>1 DEF FirstKey
<1>18. conv'[Greater][FirstKey(Greater)].rk = <<>>
  <2>1. FirstKey(Greater) \in Contexts(Greater) \ {Primary}
    <3>1. FirstKey(Greater) \in PreKeys(Greater)
      BY <1>11 DEF FirstKey, PreKeys
    <3> QED
      BY <1>1, <3>1, Names DEF Primary
  <2>2. conv'[Greater][FirstKey(Greater)] = conv[Greater][FirstKey(Greater)]
    BY <1>1, <1>2, <2>1
  <2> QED
    BY <1>1, <1>8, <2>1, <2>2 DEF Caller
<1>19. Aside'
  <2>1. CASE a = Greater
    BY <1>15, <2>1 DEF Aside
  <2>2. CASE p = Greater
    <3>1. ASSUME NEW m \in sent
          PROVE  /\ m.from = Loser /\ IsSetup(m) /\ m.preKey = FirstKey(Greater)
                 /\ Opening(Greater, m)' /\ m.mk.root = c.rk
      <4>1. m.from = Loser
        BY <1>1, <1>13, <1>16, <2>2
      <4>2. /\ IsSetup(m) /\ m.preKey = c.preKey /\ m.mk.root = c.rk
            /\ Opening(p, m)
        BY <1>1, <1>9, <1>13, CallingOpens DEF c
      <4>3. Opening(p, m)'
        BY <1>2, <4>2 DEF Opening, HasPreKey, IsSetup
      <4> QED
        BY <1>10, <2>2, <4>1, <4>2, <4>3
    <3> QED
      BY <1>15, <1>18, <2>2, <3>1 DEF Aside, IsSetup
  <2> QED
    BY <1>16, <2>1, <2>2
<1>20. BothCall'
  <2>1. conv'[a][Primary].preKey = FirstKey(p) /\ conv'[p][Primary].preKey = FirstKey(a)
    BY <1>2, <1>10, <1>11 DEF c
  <2>2. \A q \in Parties : Calling(q)' /\ conv'[q][Primary].preKey = FirstKey(Peer(q))
    <3>1. ASSUME NEW q \in Parties
          PROVE  Calling(q)' /\ conv'[q][Primary].preKey = FirstKey(Peer(q))
      <4>1. CASE q = p
        BY <1>14, <2>1, <4>1
      <4>2. CASE q = a
        BY <1>1, <1>14, <2>1, <4>2
      <4> QED
        BY <1>1, <4>1, <4>2
    <3> QED
      BY <3>1
  <2>3. FirstKey(Loser) \in preKeys'[Loser] /\ FirstKey(Greater) \in preKeys'[Greater]
    BY <1>16, <1>17
  <2> QED
    BY <1>18, <2>2, <2>3 DEF BothCall, Follows, Sending
<1>21. sent' \subseteq OfKey(Greater)' \cup OfKey(Loser)'
  BY <1>2, <1>15, <1>16
<1> QED
  BY <1>19, <1>20, <1>21 DEF Collided

LEMMA RejectCollided ==
  ASSUME ForgetInv, NamesInv, OweInv, Base, \A q \in Parties : handedOut[q] > 0, Collided,
         NEW p \in Parties, NEW m \in sent, RejectBy(p, m)
  PROVE  Collided'
<1>1. /\ Greater \in Parties /\ Loser \in Parties /\ Loser # Greater
      /\ Peer(Greater) = Loser /\ Peer(Loser) = Greater
      /\ p = Greater \/ p = Loser
  BY TwoSetups
<1>2. /\ m.from # p /\ Readers(p, m) = {}
      /\ preKeys'[p] = preKeys[p] \ {m.preKey} /\ preKeys'[Peer(p)] = preKeys[Peer(p)]
      /\ UNCHANGED <<conv, staged, sent, got>>
  BY DEF RejectBy
<1>3. \A k : IsSetup(m) /\ m.preKey = k => k \in m.mk.root[1]
  BY SetupOf
<1>4. ~IsSetup(m) => m.preKey = NoKey
  <2>1. m.from \in Parties /\ WrittenOK(m)
    BY MessageRoots DEF Base, ForgetInv
  <2> QED
    BY <2>1 DEF WrittenOK, SentBy
<1>5. FirstKey(Greater) # NoKey /\ FirstKey(Loser) # NoKey
  BY <1>1, TwoSetups
<1>6. FirstKey(Greater) \in preKeys[Greater] /\ conv[Greater][FirstKey(Greater)].rk = <<>>
        => FirstKey(Greater) \in preKeys'[Greater]
  <2>1. CASE p = Loser
    BY <1>1, <1>2, <2>1
  <2>2. CASE p = Greater
    <3>1. ASSUME conv[Greater][FirstKey(Greater)].rk = <<>>, m.preKey = FirstKey(Greater)
          PROVE  FALSE
      <4>1. m \in OfKey(Greater)
        BY <1>3, <1>4, <1>5, <3>1 DEF OfKey
      <4>2. Opening(Greater, m)
        BY <3>1, <4>1 DEF Collided, Aside
      <4> QED
        BY <1>1, <1>2, <2>2, <4>2, OpeningIsReadable
    <3> QED
      BY <1>2, <2>2, <3>1
  <2> QED
    BY <1>1, <2>1, <2>2
<1>7. BothCall /\ FirstKey(Loser) \in preKeys[Loser] => FirstKey(Loser) \in preKeys'[Loser]
  <2>1. CASE p = Greater
    BY <1>1, <1>2, <2>1
  <2>2. CASE p = Loser
    <3>1. ASSUME BothCall, m.preKey = FirstKey(Loser), FirstKey(Loser) \in preKeys[Loser]
          PROVE  FALSE
      <4>1. m \in OfKey(Loser)
        BY <1>3, <1>4, <1>5, <3>1 DEF OfKey
      <4>2. Opening(Loser, m)
        BY <1>1, <3>1, <4>1, Calls
      <4> QED
        BY <1>1, <1>2, <2>2, <4>2, OpeningIsReadable
    <3> QED
      BY <1>2, <2>2, <3>1
  <2> QED
    BY <1>1, <2>1, <2>2
<1>8. Aside'
  BY <1>2, <1>6, AsideStays DEF Collided
<1>9. BothCall => BothCall'
  <2>1. SUFFICES ASSUME BothCall PROVE BothCall'
    OBVIOUS
  <2>2. \A q \in Parties : Calling(q)'
    BY <1>2, <2>1, CallingStays DEF BothCall
  <2> QED
    BY <1>2, <1>6, <1>7, <2>1, <2>2 DEF BothCall, Follows, Sending
<1>10. CameOver => CameOver'
  BY <1>2 DEF CameOver, InSession, Joined, Follows, Crossed, Sending, OfKey, Expects,
              InChain, NextChain
<1> QED
  BY <1>2, <1>8, <1>9, <1>10 DEF Collided, OfKey

\* A message goes out that is not for the secondary context of the winner.
LEMMA AsideWaits ==
  ASSUME ForgetInv, NamesInv, OweInv, Base, \A q \in Parties : handedOut[q] > 0, Aside,
         NEW p \in Parties, NEW t, NEW k, SendBy(p, t, k), FirstKey(Greater) \notin k.mk.root[1]
  PROVE  Aside' /\ OfKey(Greater)' = OfKey(Greater)
<1> DEFINE key == FirstKey(Greater)
<1>1. Greater \in Parties /\ key \in Contexts(Greater) /\ key # Primary
  BY TwoSetups
<1>2. sent' = sent \cup {k} /\ preKeys' = preKeys
  BY DEF SendBy
<1>3. OfKey(Greater)' = OfKey(Greater)
  BY <1>2 DEF OfKey
<1>4. conv'[Greater][key] = conv[Greater][key]
  <2>1. Greater = p \/ Greater = Peer(p)
    BY <1>1, PeerFacts
  <2> QED
    BY <1>1, <2>1 DEF SendBy
<1>5. ASSUME NEW m \in OfKey(Greater)
      PROVE  IF conv[Greater][key].rk = <<>> THEN Opening(Greater, m)'
             ELSE Expects(Greater, key, m)'
  <2>1. IF conv[Greater][key].rk = <<>> THEN Opening(Greater, m) ELSE Expects(Greater, key, m)
    BY DEF Aside
  <2>2. CASE conv[Greater][key].rk = <<>>
    BY <1>2, <2>1, <2>2 DEF Opening, HasPreKey, IsSetup
  <2>3. CASE conv[Greater][key].rk # <<>>
    BY <1>1, <2>1, <2>3, StillExpects
  <2> QED
    BY <2>2, <2>3
<1> QED
  BY <1>3, <1>4, <1>5 DEF Aside, IsSetup

\* The loser goes on with its call.
LEMMA AsideSends ==
  ASSUME ForgetInv, NamesInv, OweInv, Base, \A q \in Parties : handedOut[q] > 0, Aside, BothCall,
         NEW t, NEW k, SendBy(Loser, t, k)
  PROVE  /\ Aside'
         /\ Follows(conv[Loser][Primary], conv[Greater][FirstKey(Greater)]) =>
              Follows(conv'[Loser][Primary], conv'[Greater][FirstKey(Greater)])
<1> DEFINE key == FirstKey(Greater)
           c == conv[Loser][Primary]
           u == conv'[Loser][Primary]
           y == conv[Greater][key]
<1>1. /\ Greater \in Parties /\ Loser \in Parties /\ Loser # Greater
      /\ Peer(Greater) = Loser /\ Peer(Loser) = Greater
      /\ key \in Contexts(Greater) /\ key # Primary /\ key # NoKey
  BY TwoSetups
<1>2. sent' = sent \cup {k} /\ preKeys' = preKeys /\ conv'[Greater] = conv[Greater]
  BY <1>1 DEF SendBy
<1>3. /\ Calling(Loser)' /\ k.mk.root[1] = CallOf(Loser) /\ IsSetup(k) /\ k.preKey = c.preKey
  BY <1>1, CallingSends DEF BothCall
<1>4. /\ key \in CallOf(Loser) /\ c.preKey = key /\ k.from = Loser
      /\ c.rk # <<>> /\ c.rk[1] = CallOf(Loser)
      /\ \A m \in OfKey(Greater) : m.mk.root[1] = CallOf(Loser)
  BY <1>1, Calls, Sends DEF BothCall
<1>5. /\ u.a0 = c.a0 /\ u.preKey = c.preKey /\ Sending(u) /\ u.dhs # NoKey
      /\ u.a0 # NoKey
  <2>1. u.a0 = c.a0 /\ u.preKey = c.preKey /\ Sending(u)
    BY <1>1, Sends
  <2>2. u.dhs = k.dhs /\ t \in Conversation /\ Sending(t) /\ k.dhs = t.dhs
    BY <1>1, Sends, SentIs DEF SendBy
  <2>3. u.dhs # NoKey
    <3>1. /\ ~c.flag => Sending(c) /\ u.dhs = c.dhs
          /\ c.flag => u.dhs \in Keys \ Born
      BY <1>1, Sends
    <3>2. ContextOK(Born, Loser, c)
      BY <1>1, ContextIs, Names DEF ForgetInv
    <3> QED
      BY <3>1, <3>2 DEF ContextOK
  <2>4. c.a0 # NoKey
    BY <1>1 DEF BothCall, Calling
  <2> QED
    BY <2>1, <2>3, <2>4
<1>6. OfKey(Greater)' = OfKey(Greater) \cup {k}
  BY <1>2, <1>3, <1>4 DEF OfKey
<1>7. /\ u.rk = Derive(Derive(<<>>, u.a0, u.preKey), u.preKey, u.dhs)
      /\ \A m \in OfKey(Greater)' :
           /\ m.from = Loser /\ m.a0 = u.a0 /\ m.preKey = key
           /\ m.mk.root = u.rk /\ m.dhs = u.dhs
  <2>1. CallOf(Loser) = {u.a0, u.preKey}
    BY <1>5 DEF CallOf
  <2>2. \A m \in OfKey(Greater)' : m \in sent' /\ m.mk.root[1] = {u.a0, u.preKey}
    BY <1>3, <1>4, <1>6, <2>1 DEF OfKey
  <2>3. /\ (u.flag /\ u.dhs = NoKey) \/ u.rk = Derive(Derive(<<>>, u.a0, u.preKey), u.preKey, u.dhs)
        /\ \A m \in sent' : m.mk.root[1] = {u.a0, u.preKey} =>
             /\ m.from = Loser /\ m.a0 = u.a0 /\ m.preKey = u.preKey
             /\ m.mk.root = u.rk /\ m.dhs = u.dhs
    BY <1>3 DEF Calling
  <2> QED
    BY <1>4, <1>5, <2>2, <2>3
<1>8. /\ Follows(c, y) => Follows(u, y)
      /\ Follows(c, y) => Expects(Greater, key, k)'
  <2>1. ASSUME Follows(c, y) PROVE Follows(u, y) /\ Expects(Greater, key, k)'
    <3>1. Joined(conv[Loser][Primary], conv[Peer(Loser)][key])
      BY <1>1, <2>1 DEF Joined
    <3>2. Expects(Greater, key, k)'
      BY <1>1, <3>1, ExpectsSent
    <3>3. SentAs(Loser, t, k) /\ u = Used(t)
      BY DEF SendBy
    <3>4. WritesOK(Loser) /\ HeardOK(Greater)
      BY <1>1 DEF Base
    <3>5. Follows(t, y)
      BY <1>1, <1>4, <2>1, <3>1, <3>3, <3>4, JoinedSends
    <3>6. t \in Conversation
      BY <1>1, <1>4, <3>3, SentIs
    <3>7. u.rk = t.rk /\ u.flag = t.flag /\ u.dhs = t.dhs
      BY <3>3, <3>6, UsedOnce
    <3> QED
      BY <3>2, <3>5, <3>7 DEF Follows, Sending
  <2> QED
    BY <2>1
<1> HIDE DEF key, c, u, y
<1>9. ASSUME NEW m \in OfKey(Greater)'
      PROVE  IF y.rk = <<>> THEN Opening(Greater, m)' ELSE Expects(Greater, key, m)'
  <2>1. CASE y.rk = <<>>
    <3>1. key \in preKeys[Greater]
      BY <2>1 DEF BothCall, Follows, Sending, y, key
    <3>2. m.a0 # NoKey /\ m.preKey \in preKeys'[Greater]
      BY <1>2, <1>5, <1>7, <3>1
    <3>3. m.mk.root = Derive(Derive(<<>>, m.a0, m.preKey), m.preKey, m.dhs)
      BY <1>4, <1>5, <1>7
    <3> QED
      BY <2>1, <3>2, <3>3 DEF Opening, HasPreKey, IsSetup
  <2>2. CASE y.rk # <<>>
    <3>1. Follows(c, y)
      BY <2>2 DEF BothCall, y, c, key
    <3>2. CASE m = k
      BY <1>8, <2>2, <3>1, <3>2
    <3>3. CASE m \in OfKey(Greater)
      <4>1. Expects(Greater, key, m)
        BY <2>2, <3>3 DEF Aside, y, key
      <4>2. Expects(Greater, key, m)'
        BY <1>1, <4>1, StillExpects
      <4> QED
        BY <2>2, <4>2
    <3> QED
      BY <1>6, <3>2, <3>3
  <2> QED
    BY <2>1, <2>2
<1>10. Aside'
  BY <1>2, <1>5, <1>7, <1>9 DEF Aside, IsSetup, y, key
<1> QED
  BY <1>2, <1>8, <1>10 DEF c, u, y, key

LEMMA BothCallSends ==
  ASSUME ForgetInv, NamesInv, OweInv, Base, \A q \in Parties : handedOut[q] > 0, Aside, BothCall,
         NEW p \in Parties, NEW t, NEW k, SendBy(p, t, k)
  PROVE  Aside' /\ BothCall' /\ FirstKey(Peer(p)) \in k.mk.root[1]
<1> DEFINE y == conv[Greater][FirstKey(Greater)]
<1>1. /\ Greater \in Parties /\ Loser \in Parties /\ Loser # Greater
      /\ Peer(Greater) = Loser /\ Peer(Loser) = Greater
      /\ p = Greater \/ p = Loser
      /\ Peer(p) \in Parties /\ Peer(p) # p
      /\ FirstKey(Greater) \in Contexts(Greater) /\ FirstKey(Greater) # Primary
  BY TwoSetups, PeerFacts
<1>2. /\ sent' = sent \cup {k} /\ preKeys' = preKeys /\ conv'[Peer(p)] = conv[Peer(p)]
      /\ \A d \in Contexts(p) \ {Primary} : conv'[p][d] = conv[p][d]
  BY DEF SendBy
<1>3. /\ Calling(p)' /\ k.mk.root[1] = CallOf(p) /\ FirstKey(Peer(p)) \in CallOf(p)
      /\ Made(CallOf(p)) /\ conv'[p][Primary].preKey = FirstKey(Peer(p))
  <2>1. Calling(p)' /\ k.mk.root[1] = CallOf(p)
    BY CallingSends DEF BothCall
  <2>2. /\ FirstKey(Peer(p)) \in CallOf(p) /\ conv[p][Primary].rk # <<>>
        /\ conv[p][Primary].rk[1] = CallOf(p)
    BY Calls
  <2>3. Made(CallOf(p))
    BY <2>2, Names DEF NamesInv
  <2>4. conv'[p][Primary].preKey = FirstKey(Peer(p))
    BY Sends DEF BothCall
  <2> QED
    BY <2>1, <2>2, <2>3, <2>4
<1>4. FirstKey(p) \notin k.mk.root[1]
  <2>1. ~(FirstKey(Greater) \in CallOf(p) /\ FirstKey(Loser) \in CallOf(p))
    BY <1>3, TwoSetups
  <2> QED
    BY <1>1, <1>3, <2>1
<1>5. Calling(Peer(p))'
  <2>1. FirstKey(p) \in CallOf(Peer(p))
    BY <1>1, Calls, PeerFacts
  <2>2. Calling(Peer(p))
    BY <1>1 DEF BothCall
  <2> QED
    BY <1>1, <1>2, <1>4, <2>1, <2>2, CallingStays
<1>6. \A q \in Parties : Calling(q)' /\ conv'[q][Primary].preKey = FirstKey(Peer(q))
  <2>1. \A q \in Parties : q = p \/ q = Peer(p)
    BY PeerFacts
  <2>2. conv'[Peer(p)][Primary].preKey = FirstKey(Peer(Peer(p)))
    BY <1>1, <1>2 DEF BothCall
  <2> QED
    BY <1>3, <1>5, <2>1, <2>2
<1>7. CASE p = Greater
  <2>1. Aside'
    BY <1>4, <1>7, AsideWaits
  <2>2. conv'[Greater][FirstKey(Greater)] = y /\ conv'[Loser] = conv[Loser]
    BY <1>1, <1>2, <1>7
  <2>3. BothCall'
    BY <1>2, <1>6, <2>2 DEF BothCall, Follows, Sending
  <2> QED
    BY <1>3, <2>1, <2>3
<1>8. CASE p = Loser
  <2>1. /\ Aside'
        /\ Follows(conv[Loser][Primary], y) =>
             Follows(conv'[Loser][Primary], conv'[Greater][FirstKey(Greater)])
    BY <1>8, AsideSends
  <2>2. conv'[Greater] = conv[Greater]
    BY <1>1, <1>2, <1>8
  <2>3. BothCall'
    BY <1>2, <1>6, <2>1, <2>2 DEF BothCall, Follows, Sending
  <2> QED
    BY <1>3, <2>1, <2>3
<1> QED
  BY <1>1, <1>7, <1>8

\* Both are in the winner's session, and one of them sends.
LEMMA CameOverSends ==
  ASSUME ForgetInv, NamesInv, OweInv, Base, \A q \in Parties : handedOut[q] > 0, Aside, CameOver,
         NEW p \in Parties, NEW t, NEW k, SendBy(p, t, k)
  PROVE  Aside' /\ CameOver' /\ FirstKey(Loser) \in k.mk.root[1]
<1> DEFINE w == conv[Greater][Primary]
           v == conv[Loser][Primary]
           s == w.rk[1]
<1>1. /\ Greater \in Parties /\ Loser \in Parties /\ Loser # Greater
      /\ Peer(Greater) = Loser /\ Peer(Loser) = Greater
      /\ p = Greater \/ p = Loser
      /\ Primary \in Contexts(Greater) /\ Primary \in Contexts(Loser)
      /\ Primary \in Contexts(Peer(p))
      /\ Peer(p) \in Parties
  BY TwoSetups, PeerFacts, Names
<1>2. /\ sent' = sent \cup {k} /\ conv'[Peer(p)] = conv[Peer(p)] /\ UNCHANGED got
  BY DEF SendBy
<1>3. /\ w.rk # <<>> /\ FirstKey(Loser) \in s /\ InSession(v, s)
      /\ w.ctx = v.ctx /\ v.a0 = NoKey /\ Joined(w, v)
      /\ \A m \in OfKey(Loser) :
           /\ m.mk.root[1] = s /\ m.ctx = w.ctx /\ Expects(Peer(m.from), Primary, m)
           /\ m.from = Loser =>
                m.a0 = NoKey /\ \A x \in OfKey(Greater) : x.id < m.id
      /\ w.a0 # NoKey \/ OfKey(Greater) \subseteq got[Greater]
  BY DEF CameOver
<1>4. LET c == conv[p][Primary]
          u == conv'[p][Primary]
      IN  /\ k.from = p /\ k.ctx = c.ctx /\ k.a0 = c.a0 /\ k.mk.root[1] = c.rk[1]
          /\ u.rk # <<>> /\ u.rk[1] = c.rk[1] /\ u.ctx = c.ctx /\ u.a0 = c.a0
  BY Sends
<1>5. /\ conv[p][Primary].rk[1] = s /\ conv[p][Primary].ctx = w.ctx
      /\ p = Loser => conv[p][Primary].a0 = NoKey
  BY <1>1, <1>3 DEF InSession
<1>6. k.mk.root[1] = s /\ k.ctx = w.ctx /\ (p = Loser => k.a0 = NoKey)
  BY <1>4, <1>5
<1>7. FirstKey(Greater) \notin s
  BY <1>1, <1>3, TwoSetups
<1>8. Aside' /\ OfKey(Greater)' = OfKey(Greater)
  BY <1>6, <1>7, AsideWaits
<1>9. OfKey(Loser)' = OfKey(Loser) \cup {k}
  BY <1>2, <1>3, <1>6 DEF OfKey
<1>10. Joined(conv[p][Primary], conv[Peer(p)][Primary])
  BY <1>1, <1>3, JoinedIsMutual
<1>11. /\ Joined(conv'[p][Primary], conv'[Peer(p)][Primary])
       /\ Expects(Peer(p), Primary, k)'
  BY <1>1, <1>10, ExpectsSent
<1>12. Joined(conv'[Greater][Primary], conv'[Loser][Primary])
  BY <1>1, <1>11, JoinedIsMutual
<1>13. /\ conv'[Greater][Primary].rk # <<>> /\ conv'[Greater][Primary].rk[1] = s
       /\ InSession(conv'[Loser][Primary], s)
       /\ conv'[Greater][Primary].ctx = w.ctx /\ conv'[Loser][Primary].ctx = w.ctx
       /\ conv'[Loser][Primary].a0 = NoKey
       /\ conv'[Greater][Primary].a0 = w.a0
  <2>1. CASE p = Greater
    BY <1>1, <1>2, <1>3, <1>4, <2>1 DEF InSession
  <2>2. CASE p = Loser
    BY <1>1, <1>2, <1>3, <1>4, <2>2 DEF InSession
  <2> QED
    BY <1>1, <2>1, <2>2
<1> HIDE DEF w, v, s
<1>14. ASSUME NEW m \in OfKey(Loser)'
       PROVE  /\ m.mk.root[1] = s /\ m.ctx = w.ctx /\ Expects(Peer(m.from), Primary, m)'
              /\ m.from = Loser =>
                   m.a0 = NoKey /\ \A x \in OfKey(Greater)' : x.id < m.id
  <2>1. CASE m = k
    <3>1. p = Loser => \A x \in OfKey(Greater) : x.id < k.id
      <4>1. SUFFICES ASSUME p = Loser, NEW x \in OfKey(Greater) PROVE x.id < k.id
        OBVIOUS
      <4>2. x \in SentBy(p)
        BY <4>1 DEF Aside, OfKey, SentBy
      <4>3. \A z \in SentBy(p) : z.id <= Cardinality(SentBy(p))
        BY DEF Base, WritesOK
      <4> QED
        BY <4>2, <4>3, OneMore
    <3> QED
      BY <1>4, <1>6, <1>8, <1>11, <2>1, <3>1
  <2>2. CASE m \in OfKey(Loser)
    <3>1. m \in sent /\ Peer(m.from) \in Parties
      BY <2>2, MessageRoots, PeerFacts DEF OfKey, ForgetInv
    <3>2. Primary \in Contexts(Peer(m.from)) /\ Expects(Peer(m.from), Primary, m)
      BY <1>3, <2>2, <3>1, Names
    <3>3. Expects(Peer(m.from), Primary, m)'
      BY <3>1, <3>2, StillExpects
    <3> QED
      BY <1>3, <1>8, <2>2, <3>3
  <2> QED
    BY <1>9, <2>1, <2>2
<1>15. CameOver' <=>
         /\ conv'[Greater][Primary].rk # <<>>
         /\ FirstKey(Loser) \in conv'[Greater][Primary].rk[1]
         /\ InSession(conv'[Loser][Primary], conv'[Greater][Primary].rk[1])
         /\ conv'[Greater][Primary].ctx = conv'[Loser][Primary].ctx
         /\ conv'[Loser][Primary].a0 = NoKey
         /\ Joined(conv'[Greater][Primary], conv'[Loser][Primary])
         /\ \A m \in OfKey(Loser)' :
              /\ m.mk.root[1] = conv'[Greater][Primary].rk[1]
              /\ m.ctx = conv'[Greater][Primary].ctx
              /\ Expects(Peer(m.from), Primary, m)'
              /\ m.from = Loser =>
                   m.a0 = NoKey /\ \A x \in OfKey(Greater)' : x.id < m.id
         /\ conv'[Greater][Primary].a0 # NoKey \/ OfKey(Greater)' \subseteq got'[Greater]
  BY DEF CameOver, InSession, Joined, Follows, Crossed, Sending
<1>16. conv'[Greater][Primary].a0 # NoKey \/ OfKey(Greater)' \subseteq got'[Greater]
  BY <1>2, <1>3, <1>8, <1>13
<1>17. CameOver'
  BY <1>3, <1>12, <1>13, <1>14, <1>15, <1>16
<1> QED
  BY <1>3, <1>6, <1>8, <1>17

LEMMA SendCollided ==
  ASSUME ForgetInv, NamesInv, OweInv, Base, \A q \in Parties : handedOut[q] > 0, Collided,
         NEW p \in Parties, NEW t, NEW k, SendBy(p, t, k)
  PROVE  Collided'
<1>1. /\ p = Greater \/ p = Loser
      /\ Peer(Greater) = Loser /\ Peer(Loser) = Greater
  BY TwoSetups
<1>2. sent' = sent \cup {k} /\ sent \subseteq OfKey(Greater) \cup OfKey(Loser) /\ Aside
  BY DEF SendBy, Collided
<1>3. BothCall => Aside' /\ BothCall' /\ FirstKey(Peer(p)) \in k.mk.root[1]
  BY <1>2, BothCallSends
<1>4. CameOver => Aside' /\ CameOver' /\ FirstKey(Loser) \in k.mk.root[1]
  BY <1>2, CameOverSends
<1>5. BothCall \/ CameOver
  BY DEF Collided
<1>6. k \in OfKey(Greater)' \/ k \in OfKey(Loser)'
  BY <1>1, <1>2, <1>3, <1>4, <1>5 DEF OfKey
<1>7. sent' \subseteq OfKey(Greater)' \cup OfKey(Loser)'
  BY <1>2, <1>6 DEF OfKey
<1> QED
  BY <1>3, <1>4, <1>5, <1>7 DEF Collided

\* The winner reads a message of the loser's call with its secondary context.
LEMMA WinnerAnswers ==
  ASSUME ForgetInv, NamesInv, OweInv, Base, \A q \in Parties : handedOut[q] > 0, Aside, BothCall,
         NEW m \in sent, m \in OfKey(Greater) \cup OfKey(Loser),
         NEW x, NEW r, ReadBy(Greater, m, x, r)
  PROVE  Aside' /\ BothCall'
<1> DEFINE key == FirstKey(Greater)
           v == conv[Loser][Primary]
           y == conv[Greater][key]
           u == conv'[Greater][key]
<1>1. /\ Greater \in Parties /\ Loser \in Parties /\ Loser # Greater
      /\ Peer(Greater) = Loser /\ Peer(Loser) = Greater
      /\ key \in Contexts(Greater) /\ key # Primary /\ Primary \in Contexts(Greater)
      /\ \A q \in Parties : q = Greater \/ q = Loser
  BY TwoSetups, Names
<1>2. /\ m.from # Greater /\ x = First(Greater, m) /\ sent' = sent
      /\ conv'[Loser] = conv[Loser] /\ preKeys'[Loser] = preKeys[Loser]
      /\ \A d \in Contexts(Greater) \ {x} : conv'[Greater][d] = conv[Greater][d]
  BY <1>1 DEF ReadBy
<1>3. m \in OfKey(Greater)
  BY <1>1, <1>2, Calls
<1>4. x = key
  <2>1. IsSetup(m) /\ m.preKey = key
    BY <1>3 DEF Aside
  <2>2. conv[Greater][Primary].a0 # NoKey
    BY <1>1, Calls
  <2> QED
    BY <1>2, <2>1, <2>2 DEF First, Collision
<1>5. /\ Aside'
      /\ IF y.rk = <<>> THEN /\ u.rk = m.mk.root /\ u.flag /\ u.dhr = m.dhs
         ELSE y.flag => u.rk = y.rk /\ u.flag /\ u.dhr = y.dhr
  BY <1>3, <1>4, AsideReads
<1>6. Sending(v) /\ m.mk.root = v.rk /\ m.dhs = v.dhs
  BY <1>1, <1>3, Calls
<1>7. Follows(v, u)
  <2>1. CASE y.rk = <<>>
    BY <1>5, <1>6, <2>1 DEF Follows
  <2>2. CASE y.rk # <<>>
    <3>1. Follows(v, y)
      BY <2>2 DEF BothCall
    <3> QED
      BY <1>5, <2>2, <3>1 DEF Follows
  <2> QED
    BY <2>1, <2>2
<1>8. \A q \in Parties : conv'[q][Primary] = conv[q][Primary]
  BY <1>1, <1>2, <1>4
<1>9. \A q \in Parties : Calling(q)' /\ conv'[q][Primary].preKey = FirstKey(Peer(q))
  <2>1. \A q \in Parties : Calling(q) /\ conv[q][Primary].preKey = FirstKey(Peer(q))
    BY DEF BothCall
  <2>2. \A q \in Parties : Calling(q)'
    BY <1>2, <1>8, <2>1, CallingStays
  <2> QED
    BY <1>8, <2>1, <2>2
<1>10. FirstKey(Loser) \in preKeys'[Loser]
  BY <1>2 DEF BothCall
<1>11. Follows(v, u) => Follows(conv[Loser][Primary], conv[Greater][FirstKey(Greater)])'
  BY <1>2 DEF Follows, Sending
<1>12. BothCall'
  BY <1>7, <1>9, <1>10, <1>11 DEF BothCall
<1> QED
  BY <1>5, <1>12

\* The loser reads one of the winner's call and comes over.
LEMMA LoserComesOver ==
  ASSUME ForgetInv, NamesInv, OweInv, Base, \A q \in Parties : handedOut[q] > 0, Aside, BothCall,
         NEW m \in sent, m \in OfKey(Greater) \cup OfKey(Loser),
         NEW x, NEW r, ReadBy(Loser, m, x, r)
  PROVE  Aside' /\ CameOver'
<1> DEFINE w == conv[Greater][Primary]
           u == conv'[Loser][Primary]
<1>1. /\ Greater \in Parties /\ Loser \in Parties /\ Loser # Greater
      /\ Peer(Greater) = Loser /\ Peer(Loser) = Greater
      /\ Primary \in Contexts(Loser) /\ KeyInv /\ unsaved = {}
  BY TwoSetups, Names DEF ForgetInv, Base
<1>2. /\ m.from # Loser /\ x = First(Loser, m) /\ sent' = sent
      /\ conv'[Greater] = conv[Greater] /\ preKeys'[Greater] = preKeys[Greater]
      /\ staged'[Greater] = staged[Greater] /\ got'[Greater] = got[Greater]
      /\ conv'[Loser][x] = r.conv
  BY <1>1 DEF ReadBy
<1>3. x = Primary
  BY <1>1, <1>2 DEF First, Collision
<1>4. m \in OfKey(Loser)
  BY <1>1, <1>2 DEF Aside
<1>5. /\ w.rk # <<>> /\ w.rk[1] = CallOf(Greater) /\ w.a0 # NoKey
      /\ FirstKey(Loser) \in CallOf(Greater)
      /\ \A z \in OfKey(Loser) :
           /\ z.mk.root[1] = CallOf(Greater) /\ z.from = Greater /\ z.ctx = w.ctx
           /\ Sending(w) /\ z.mk.root = w.rk /\ z.dhs = w.dhs
  BY <1>1, Calls
<1>6. Opening(Loser, m)
  BY <1>1, <1>4, Calls DEF BothCall
<1>7. Opened(r.conv, m, r.new)
  BY <1>1, <1>6, ReadOpens
<1>8. /\ u.rk = w.rk /\ u.flag /\ u.dhr = w.dhs /\ u.ctx = w.ctx /\ u.a0 = NoKey
  BY <1>2, <1>3, <1>4, <1>5, <1>7 DEF Opened
<1>9. \A z \in OfKey(Loser) : Expects(Peer(z.from), Primary, z)'
  <2>1. TAKE z \in OfKey(Loser)
  <2>2. z \in sent /\ z.mk.root = m.mk.root /\ z.dhs = m.dhs /\ Peer(z.from) = Loser
    BY <1>1, <1>4, <1>5 DEF OfKey
  <2>3. Expects(Loser, x, z)'
    BY <1>1, <1>7, <2>2, OpenedExpects
  <2> QED
    BY <1>3, <2>2, <2>3
<1> HIDE DEF w, u
<1>10. Joined(w, u) /\ InSession(u, w.rk[1])
  BY <1>4, <1>5, <1>8 DEF Joined, Follows, InSession
<1>11. OfKey(Loser)' = OfKey(Loser)
  BY <1>2 DEF OfKey
<1>12. CameOver' <=>
         /\ w.rk # <<>> /\ FirstKey(Loser) \in w.rk[1] /\ InSession(u, w.rk[1])
         /\ w.ctx = u.ctx /\ u.a0 = NoKey /\ Joined(w, u)
         /\ \A z \in OfKey(Loser) :
              /\ z.mk.root[1] = w.rk[1] /\ z.ctx = w.ctx /\ Expects(Peer(z.from), Primary, z)'
              /\ z.from = Loser =>
                   z.a0 = NoKey /\ \A k \in OfKey(Greater)' : k.id < z.id
         /\ w.a0 # NoKey \/ OfKey(Greater)' \subseteq got'[Greater]
  BY <1>2, <1>11 DEF CameOver, InSession, Joined, Follows, Crossed, Sending, w, u
<1>13. CameOver'
  BY <1>1, <1>5, <1>8, <1>9, <1>10, <1>12
<1>14. Aside'
  BY <1>2, AsideStays
<1> QED
  BY <1>13, <1>14

\* In the winner's session both read as usual.
LEMMA CameOverReads ==
  ASSUME ForgetInv, NamesInv, OweInv, Base, \A q \in Parties : handedOut[q] > 0, Aside, CameOver,
         NEW p \in Parties, NEW m \in OfKey(Loser), NEW r, ReadBy(p, m, Primary, r),
         p = Greater => InOrder(p, m)
  PROVE  CameOver'
<1> DEFINE w == conv[Greater][Primary]
           v == conv[Loser][Primary]
           s == w.rk[1]
           w1 == conv'[Greater][Primary]
           v1 == conv'[Loser][Primary]
<1>1. /\ Greater \in Parties /\ Loser \in Parties /\ Loser # Greater
      /\ Peer(Greater) = Loser /\ Peer(Loser) = Greater
      /\ p = Greater \/ p = Loser
      /\ Primary \in Contexts(p)
      /\ m \in sent /\ KeyInv /\ SetupsOK(p)
      /\ Peer(p) \in Parties /\ Peer(p) # p
  BY TwoSetups, PeerFacts, Names DEF OfKey, ForgetInv
<1>2. /\ m.from # p /\ sent' = sent /\ conv'[Peer(p)] = conv[Peer(p)]
      /\ staged'[Peer(p)] = staged[Peer(p)] /\ got'[Peer(p)] = got[Peer(p)]
      /\ got'[p] = got[p] \cup {m}
  BY DEF ReadBy
<1>3. /\ w.rk # <<>> /\ FirstKey(Loser) \in s /\ InSession(v, s)
      /\ w.ctx = v.ctx /\ v.a0 = NoKey /\ Joined(w, v)
      /\ \A z \in OfKey(Loser) :
           /\ z.mk.root[1] = s /\ z.ctx = w.ctx /\ Expects(Peer(z.from), Primary, z)
           /\ z.from = Loser =>
                z.a0 = NoKey /\ \A k \in OfKey(Greater) : k.id < z.id
      /\ w.a0 # NoKey \/ OfKey(Greater) \subseteq got[Greater]
  BY DEF CameOver
<1>4. m.from = Peer(p) /\ m.mk.root[1] = s /\ m.ctx = w.ctx /\ Expects(p, Primary, m)
  <2>1. m.from = Peer(p)
    BY <1>1, <1>2, MessageRoots, PeerFacts
  <2> QED
    BY <1>1, <1>3, <2>1
<1>5. InSession(conv[p][Primary], s) /\ conv[p][Primary].ctx = w.ctx
  BY <1>1, <1>3 DEF InSession
<1>6. ~HasPreKey(p, m)
  <2>1. s \cap preKeys[p] = {}
    BY <1>1, <1>5 DEF SetupsOK, InSession
  <2>2. IsSetup(m) => m.preKey \in s
    BY <1>1, <1>4, SetupOf
  <2> QED
    BY <2>1, <2>2 DEF HasPreKey
<1>7. Joined(conv[Peer(p)][Primary], conv[p][Primary])
  BY <1>1, <1>3, JoinedIsMutual
<1>8. /\ Joined(conv'[Peer(p)][Primary], conv'[p][Primary])
      /\ \A z \in sent : z.from = m.from /\ Expects(p, Primary, z) => Expects(p, Primary, z)'
      /\ InSession(conv[p][Primary], m.mk.root[1]) => InSession(conv'[p][Primary], m.mk.root[1])
  BY <1>1, <1>4, <1>6, <1>7, ExpectsRead
<1>9. /\ conv'[p][Primary].ctx = w.ctx
      /\ conv'[p][Primary].a0 \in {conv[p][Primary].a0, NoKey}
  BY <1>1, <1>4, <1>5, ReadSession
<1>10. Joined(w1, v1)
  BY <1>1, <1>8, JoinedIsMutual
<1>11. InSession(w1, s) /\ InSession(v1, s) /\ w1.ctx = w.ctx /\ v1.ctx = w.ctx /\ v1.a0 = NoKey
  <2>1. InSession(conv'[p][Primary], s)
    BY <1>4, <1>5, <1>8
  <2>2. CASE p = Greater
    BY <1>1, <1>2, <1>3, <1>9, <2>1, <2>2
  <2>3. CASE p = Loser
    <3>1. InSession(w1, s)
      BY <1>1, <1>2, <1>3, <2>3 DEF InSession
    <3> QED
      BY <1>1, <1>2, <1>3, <1>9, <2>1, <2>3, <3>1
  <2> QED
    BY <1>1, <2>2, <2>3
<1>12. \A z \in OfKey(Loser) : Expects(Peer(z.from), Primary, z)'
  <2>1. TAKE z \in OfKey(Loser)
  <2>2. Expects(Peer(z.from), Primary, z) /\ z \in sent /\ z.from \in Parties
    BY <1>1, <1>3, MessageRoots DEF OfKey
  <2>3. CASE z.from = Peer(p)
    BY <1>1, <1>4, <1>8, <2>2, <2>3, PeerFacts
  <2>4. CASE z.from = p
    BY <1>2, <2>2, <2>4 DEF Expects, InChain, NextChain, Sending
  <2> QED
    BY <2>2, <2>3, <2>4, PeerFacts
<1>13. OfKey(Loser)' = OfKey(Loser) /\ OfKey(Greater)' = OfKey(Greater)
  BY <1>2 DEF OfKey
<1>14. w1.a0 # NoKey \/ OfKey(Greater) \subseteq got'[Greater]
  <2>1. CASE p = Loser
    BY <1>1, <1>2, <1>3, <2>1
  <2>2. CASE p = Greater
    <3>1. SUFFICES ASSUME NEW k \in OfKey(Greater) PROVE k \in got'[Greater]
      OBVIOUS
    <3>2. k \in SentBy(m.from) /\ k.id < m.id
      BY <1>1, <1>3, <1>4, <2>2 DEF Aside, OfKey, SentBy
    <3> QED
      BY <1>2, <2>2, <3>2 DEF InOrder
  <2> QED
    BY <1>1, <2>1, <2>2
<1> HIDE DEF w, v, s, w1, v1
<1>15. CameOver' <=>
         /\ w1.rk # <<>> /\ FirstKey(Loser) \in w1.rk[1] /\ InSession(v1, w1.rk[1])
         /\ w1.ctx = v1.ctx /\ v1.a0 = NoKey /\ Joined(w1, v1)
         /\ \A z \in OfKey(Loser) :
              /\ z.mk.root[1] = w1.rk[1] /\ z.ctx = w1.ctx /\ Expects(Peer(z.from), Primary, z)'
              /\ z.from = Loser =>
                   z.a0 = NoKey /\ \A k \in OfKey(Greater) : k.id < z.id
         /\ w1.a0 # NoKey \/ OfKey(Greater) \subseteq got'[Greater]
  BY <1>13 DEF CameOver, InSession, Joined, Follows, Crossed, Sending, w1, v1
<1>16. w1.rk # <<>> /\ w1.rk[1] = s
  BY <1>11 DEF InSession
<1> QED
  BY <1>3, <1>10, <1>11, <1>12, <1>14, <1>15, <1>16

LEMMA ReceiveCollided ==
  ASSUME ForgetInv, NamesInv, OweInv, Base, \A q \in Parties : handedOut[q] > 0, Collided,
         NEW p \in Parties, NEW m \in sent, NEW x, NEW r, ReadBy(p, m, x, r), ordered'
  PROVE  Collided'
<1>1. /\ Greater \in Parties /\ Loser \in Parties /\ Loser # Greater
      /\ Peer(Greater) = Loser /\ Peer(Loser) = Greater
      /\ p = Greater \/ p = Loser
      /\ FirstKey(Greater) # Primary /\ FirstKey(Greater) \in Contexts(Greater)
      /\ Primary \in Contexts(Greater)
      /\ FirstKey(Greater) # NoKey
  BY TwoSetups, Names
<1>2. /\ m.from # p /\ sent' = sent /\ x = First(p, m) /\ InOrder(p, m) /\ m \notin got[p]
      /\ conv'[Peer(p)] = conv[Peer(p)] /\ staged'[Peer(p)] = staged[Peer(p)]
      /\ got'[Peer(p)] = got[Peer(p)] /\ got'[p] = got[p] \cup {m}
      /\ preKeys'[p] = preKeys[p] \ {m.preKey} /\ preKeys'[Peer(p)] = preKeys[Peer(p)]
      /\ \A d \in Contexts(p) \ {x} : conv'[p][d] = conv[p][d] /\ staged'[p][d] = staged[p][d]
  BY DEF ReadBy
<1>3. m \in OfKey(Greater) \cup OfKey(Loser) /\ Aside
  BY DEF Collided
<1>4. ASSUME BothCall PROVE Aside' /\ (BothCall' \/ CameOver')
  BY <1>1, <1>3, <1>4, WinnerAnswers, LoserComesOver
<1>5. ASSUME CameOver PROVE Aside' /\ CameOver'
  <2>1. CASE p = Loser
    <3>1. x = Primary
      BY <1>1, <1>2, <2>1 DEF First, Collision
    <3>2. m \in OfKey(Loser)
      BY <1>2, <1>3, <2>1 DEF Aside
    <3>3. CameOver'
      BY <1>1, <1>2, <1>3, <1>5, <2>1, <3>1, <3>2, CameOverReads
    <3>4. Aside'
      BY <1>1, <1>2, <1>3, <2>1, AsideStays
    <3> QED
      BY <3>3, <3>4
  <2>2. CASE p = Greater /\ m \in OfKey(Loser)
    <3>1. m.a0 = NoKey /\ m.preKey = NoKey
      <4>1. m.from = Loser
        BY <1>1, <1>2, <2>2, MessageRoots, PeerFacts DEF ForgetInv
      <4>2. m.a0 = NoKey
        BY <1>5, <2>2, <4>1 DEF CameOver
      <4>3. WrittenOK(m)
        BY DEF Base
      <4> QED
        BY <4>2, <4>3 DEF WrittenOK, SentBy, IsSetup
    <3>2. x = Primary
      BY <1>2, <3>1 DEF First, Collision, IsSetup
    <3>3. CameOver'
      BY <1>1, <1>2, <1>3, <1>5, <2>2, <3>2, CameOverReads
    <3>4. Aside'
      BY <1>1, <1>2, <1>3, <2>2, <3>1, <3>2, AsideStays
    <3> QED
      BY <3>3, <3>4
  <2>3. CASE p = Greater /\ m \in OfKey(Greater)
    <3>1. conv[Greater][Primary].a0 # NoKey
      BY <1>2, <1>5, <2>3 DEF CameOver
    <3>2. x = FirstKey(Greater)
      BY <1>2, <1>3, <2>3, <3>1 DEF First, Collision, Aside
    <3>3. Aside'
      BY <1>3, <2>3, <3>2, AsideReads
    <3>4. /\ \A q \in Parties : conv'[q][Primary] = conv[q][Primary]
          /\ \A q \in Parties : staged'[q][Primary] = staged[q][Primary]
          /\ \A q \in Parties : got[q] \subseteq got'[q]
      BY <1>1, <1>2, <2>3, <3>2, PeerFacts
    <3>5. \A z \in OfKey(Loser) : Expects(Peer(z.from), Primary, z)'
      <4>1. TAKE z \in OfKey(Loser)
      <4>2. Expects(Peer(z.from), Primary, z) /\ Peer(z.from) \in Parties
        BY <1>5, MessageRoots, PeerFacts DEF CameOver, OfKey, ForgetInv
      <4> DEFINE u == Peer(z.from)
      <4>3. /\ conv'[u][Primary] = conv[u][Primary] /\ staged'[u][Primary] = staged[u][Primary]
            /\ got[u] \subseteq got'[u]
        BY <3>4, <4>2
      <4> HIDE DEF u
      <4>4. Expects(u, Primary, z) => Expects(u, Primary, z)'
        BY <4>3 DEF Expects
      <4> QED
        BY <4>2, <4>4 DEF u
    <3>6. OfKey(Loser)' = OfKey(Loser) /\ OfKey(Greater)' = OfKey(Greater)
      BY <1>2 DEF OfKey
    <3>7. CameOver'
      <4>1. /\ conv'[Greater][Primary] = conv[Greater][Primary]
            /\ conv'[Loser][Primary] = conv[Loser][Primary]
            /\ got[Greater] \subseteq got'[Greater]
        BY <1>1, <3>4
      <4> QED
        BY <1>5, <3>1, <3>5, <3>6, <4>1 DEF CameOver
    <3> QED
      BY <3>3, <3>7
  <2> QED
    BY <1>1, <1>3, <2>1, <2>2, <2>3
<1>6. sent' \subseteq OfKey(Greater)' \cup OfKey(Loser)'
  BY <1>2 DEF Collided, OfKey
<1> QED
  BY <1>4, <1>5, <1>6 DEF Collided

----------------------------------------------------------------------------
(* The invariant holds of all steps.                                       *)

LEMMA InitRead == Init => ReadInv
<1> SUFFICES ASSUME Init PROVE ReadInv
  OBVIOUS
<1>1. PICK e : e = EmptyConv
  OBVIOUS
<1>2. /\ \A p \in Parties : \A c \in Contexts(p) : conv[p][c] = e
      /\ sent = {} /\ setups = <<>> /\ unsaved = {} /\ reKeys = 0
      /\ \A p \in Parties : /\ handedOut[p] = 0 /\ got[p] = {} /\ lastKey[p] = MaxSetups
                            /\ preKeys[p] = {PreKeyOf(p, n) : n \in 1 .. MaxSetups}
  BY <1>1 DEF Init
<1>3. /\ e.rk = <<>> /\ ~e.flag /\ e.cks.n = 0 /\ e.ckr.n = 0 /\ e.a0 = NoKey
      /\ e.ns = 0 /\ e.ctx = 0 /\ ~e.known
  BY <1>1 DEF EmptyConv, NoChain, ChainOf
<1>4. \A p : SentBy(p) = {}
  BY <1>2 DEF SentBy
<1>5. \A p \in Parties : Peer(p) \in Parties /\ Peer(p) # p /\ Primary \in Contexts(p)
  BY PeerFacts, Names
<1>6. Len(setups) = 0 /\ DOMAIN setups = {} /\ MaxSetups \in Nat
  BY <1>2
<1>7. \A p \in Parties : KnownOK(p)
  BY <1>2, <1>3, <1>5, <1>6 DEF KnownOK
<1>8. ApartOK
  BY <1>6, <1>7 DEF ApartOK
<1>9. \A p \in Parties : WritesOK(p) /\ HeardOK(p)
  BY <1>2, <1>3, <1>4, <1>5 DEF WritesOK, HeardOK
<1>10. Base
  BY <1>2, <1>8, <1>9 DEF Base, OrderOK
<1>11. \A a \in Parties : OneSide(a)
  <2> SUFFICES ASSUME NEW a \in Parties PROVE OneSide(a)
    OBVIOUS
  <2>1. conv[a][Primary] = e /\ conv[Peer(a)][Primary] = e
    BY <1>2, <1>5
  <2>2. Caller(a)
    BY <1>2, <1>3, <1>4, <2>1 DEF Caller
  <2> QED
    BY <1>3, <2>1, <2>2 DEF OneSide
<1>12. ~\A p \in Parties : handedOut[p] > 0
  BY <1>2
<1> QED
  BY <1>10, <1>11, <1>12 DEF ReadInv

LEMMA StaysRead ==
  ASSUME ReadInv, UNCHANGED vars
  PROVE  ReadInv'
<1>1. /\ conv' = conv /\ staged' = staged /\ preKeys' = preKeys /\ handedOut' = handedOut
      /\ lastKey' = lastKey /\ setups' = setups /\ sent' = sent /\ got' = got
      /\ ordered' = ordered /\ unsaved' = unsaved /\ reKeys' = reKeys /\ faults' = faults
  BY DEF vars
<1>2. \A p : SentBy(p)' = SentBy(p) /\ OfKey(p)' = OfKey(p)
  BY <1>1 DEF SentBy, OfKey
<1>3. Born' = Born
  BY <1>1 DEF Born
<1>4. \A p \in Parties : KnownOK(p)' <=> KnownOK(p)
  BY <1>1 DEF KnownOK
<1>5. ApartOK' <=> ApartOK
  BY <1>1, <1>3, <1>4 DEF ApartOK
<1>6. OrderOK' <=> OrderOK
  BY <1>1, <1>2 DEF OrderOK
<1>7. \A p \in Parties : WritesOK(p)' <=> WritesOK(p)
  BY <1>1, <1>2 DEF WritesOK
<1>8. \A p \in Parties : HeardOK(p)' <=> HeardOK(p)
  BY <1>1 DEF HeardOK
<1>9. \A m : WrittenOK(m)' <=> WrittenOK(m)
  BY <1>1, <1>2 DEF WrittenOK
<1>10. Base' <=> Base
  BY <1>1, <1>5, <1>6, <1>7, <1>8, <1>9 DEF Base
<1>11. \A p, c, m : Expects(p, c, m)' <=> Expects(p, c, m)
  BY <1>1 DEF Expects
<1>12. \A p : Calling(p)' <=> Calling(p)
  BY <1>1 DEF Calling
<1>13. \A a : Uncalled(a)' <=> Uncalled(a)
  BY <1>1, <1>2, <1>12 DEF Uncalled
<1>14. \A a : Connected(a)' <=> Connected(a)
  BY <1>1, <1>11 DEF Connected
<1>15. \A a : Caller(a)' <=> Caller(a)
  BY <1>1, <1>2 DEF Caller
<1>16. \A a : Called(a)' <=> Called(a)
  BY <1>1, <1>14 DEF Called
<1>17. \A a : OneSide(a)' <=> OneSide(a)
  BY <1>1, <1>13, <1>15, <1>16 DEF OneSide
<1>18. \A p, m : Opening(p, m)' <=> Opening(p, m)
  BY <1>1 DEF Opening, HasPreKey
<1>19. Aside' <=> Aside
  BY <1>1, <1>2, <1>11, <1>18 DEF Aside
<1>20. BothCall' <=> BothCall
  BY <1>1, <1>12 DEF BothCall
<1>21. CameOver' <=> CameOver
  BY <1>1, <1>2, <1>11 DEF CameOver
<1>22. Collided' <=> Collided
  BY <1>1, <1>2, <1>19, <1>20, <1>21 DEF Collided
<1> QED
  BY <1>1, <1>10, <1>17, <1>22 DEF ReadInv

LEMMA NextRead ==
  ForgetInv /\ NamesInv /\ OweInv /\ ReadInv /\ [Next]_vars => ReadInv'
<1> SUFFICES ASSUME ForgetInv, NamesInv, OweInv, ReadInv, [Next]_vars, faults' = 0
             PROVE  ReadInv'
  BY DEF ReadInv
<1>1. /\ KeyInv /\ faults \in Nat /\ reKeys \in Nat /\ handedOut \in [Parties -> Nat]
  BY DEF ForgetInv, KeyInv, TypeOK
<1>2. ASSUME NEW p \in Parties, SetUp(p) PROVE ReadInv'
  <2>1. PICK a0, b0 : SetUpBy(p, a0, b0)
    BY <1>1, <1>2, SetsUp
  <2>2. ordered' = ordered /\ reKeys' = reKeys /\ faults' = faults
    BY <1>2 DEF SetUp
  <2>3. /\ Base /\ \A a \in Parties : handedOut[a] = 0 => OneSide(a)
    BY <2>2 DEF ReadInv
  <2>4. Base'
    BY <2>1, <2>3, SetUpBase
  <2>5. ASSUME NEW a \in Parties, handedOut'[a] = 0 PROVE OneSide(a)'
    BY <2>1, <2>3, <2>5, SetUpOneSide
  <2>6. ASSUME ordered', reKeys' = 0, \A q \in Parties : handedOut'[q] > 0
        PROVE  Collided'
    <3>1. handedOut[Peer(p)] = 0 => OneSide(Peer(p))
      BY <2>3, PeerFacts
    <3> QED
      BY <2>1, <2>2, <2>3, <2>6, <3>1, SetUpCollides
  <2> QED
    BY <2>4, <2>5, <2>6 DEF ReadInv
<1>3. ASSUME NEW p \in Parties, ReKey(p) PROVE ReadInv'
  <2>1. ReKeyBy(p)
    BY <1>1, <1>3, ReKeys
  <2>2. handedOut' = handedOut /\ reKeys' = reKeys + 1 /\ faults' = faults
    BY <1>3 DEF ReKey
  <2>3. /\ Base /\ \A a \in Parties : handedOut[a] = 0 => OneSide(a)
    BY <2>2 DEF ReadInv
  <2>4. Base'
    BY <2>1, <2>3, ReKeyBase
  <2>5. ASSUME NEW a \in Parties, handedOut'[a] = 0 PROVE OneSide(a)'
    BY <2>1, <2>2, <2>3, <2>5, ReKeyOneSide
  <2>6. reKeys' # 0
    BY <1>1, <2>2
  <2> QED
    BY <2>4, <2>5, <2>6 DEF ReadInv
<1>4. ASSUME NEW p \in Parties, Send(p) PROVE ReadInv'
  <2>1. PICK t, k : SendBy(p, t, k)
    BY <1>1, <1>4, SentOut
  <2>2. handedOut' = handedOut /\ reKeys' = reKeys /\ ordered' = ordered /\ faults' = faults
    BY <1>4 DEF Send
  <2>3. /\ Base /\ \A a \in Parties : handedOut[a] = 0 => OneSide(a)
    BY <2>2 DEF ReadInv
  <2>4. Base'
    BY <2>1, <2>3, SendBase
  <2>5. ASSUME NEW a \in Parties, handedOut'[a] = 0 PROVE OneSide(a)'
    <3>1. OneSide(a)
      BY <2>2, <2>3, <2>5
    <3>2. CASE p = a
      BY <2>1, <2>3, <3>1, <3>2, CallerSends
    <3>3. CASE p # a
      <4>1. p = Peer(a)
        BY <3>3, PeerFacts
      <4> QED
        BY <2>1, <2>3, <3>1, <4>1, AnswererSends
    <3> QED
      BY <3>2, <3>3
  <2>6. ASSUME ordered', reKeys' = 0, \A q \in Parties : handedOut'[q] > 0
        PROVE  Collided'
    <3>1. Collided /\ \A q \in Parties : handedOut[q] > 0
      BY <2>2, <2>6 DEF ReadInv
    <3> QED
      BY <2>1, <2>3, <3>1, SendCollided
  <2> QED
    BY <2>4, <2>5, <2>6 DEF ReadInv
<1>5. ASSUME NEW p \in Parties, NEW m \in sent, Receive(p, m) PROVE ReadInv'
  <2>1. PICK x, r : ReadBy(p, m, x, r)
    BY <1>5, ReceivedBy
  <2>2. /\ handedOut' = handedOut /\ reKeys' = reKeys /\ faults' = faults
        /\ ordered' => ordered
    BY <1>5 DEF Receive, Arrives
  <2>3. /\ Base /\ \A a \in Parties : handedOut[a] = 0 => OneSide(a)
    BY <2>2 DEF ReadInv
  <2>4. Base'
    BY <2>1, <2>3, ReceiveBase
  <2>5. ASSUME NEW a \in Parties, handedOut'[a] = 0 PROVE OneSide(a)'
    BY <2>1, <2>2, <2>3, <2>5, ReceiveOneSide
  <2>6. ASSUME ordered', reKeys' = 0, \A q \in Parties : handedOut'[q] > 0
        PROVE  Collided'
    <3>1. Collided /\ \A q \in Parties : handedOut[q] > 0
      BY <2>2, <2>6 DEF ReadInv
    <3> QED
      BY <2>1, <2>3, <2>6, <3>1, ReceiveCollided
  <2> QED
    BY <2>4, <2>5, <2>6 DEF ReadInv
<1>6. ASSUME NEW p \in Parties, NEW m \in sent, Reject(p, m) PROVE ReadInv'
  <2>1. RejectBy(p, m)
    BY <1>1, <1>6, Rejects
  <2>2. /\ handedOut' = handedOut /\ reKeys' = reKeys /\ faults' = faults
        /\ ordered' => ordered
    BY <1>6 DEF Reject, Arrives
  <2>3. /\ Base /\ \A a \in Parties : handedOut[a] = 0 => OneSide(a)
    BY <2>2 DEF ReadInv
  <2>4. Base'
    BY <2>1, <2>3, RejectBase
  <2>5. ASSUME NEW a \in Parties, handedOut'[a] = 0 PROVE OneSide(a)'
    BY <2>1, <2>2, <2>3, <2>5, RejectOneSide
  <2>6. ASSUME ordered', reKeys' = 0, \A q \in Parties : handedOut'[q] > 0
        PROVE  Collided'
    <3>1. Collided /\ \A q \in Parties : handedOut[q] > 0
      BY <2>2, <2>6 DEF ReadInv
    <3> QED
      BY <2>1, <2>3, <3>1, RejectCollided
  <2> QED
    BY <2>4, <2>5, <2>6 DEF ReadInv
<1>7. ASSUME NEW p \in Parties, SendNotStored(p) PROVE FALSE
  <2>1. faults' = faults + 1
    BY <1>7 DEF SendNotStored
  <2> QED
    BY <1>1, <2>1
<1>8. ASSUME NEW p \in Parties, NEW m \in sent, ReceiveNotStored(p, m) PROVE FALSE
  <2>1. faults' = faults + 1
    BY <1>8 DEF ReceiveNotStored
  <2> QED
    BY <1>1, <2>1
<1>9. CASE UNCHANGED vars
  BY <1>9, StaysRead
<1> QED
  BY <1>2, <1>3, <1>4, <1>5, <1>6, <1>7, <1>8, <1>9 DEF Next

LEMMA AlwaysRead == Spec => []ReadInv
<1>1. Forgetting => ForgetInv
  BY DEF Forgetting
<1> QED
  BY <1>1, InitRead, NextRead, AlwaysForgets, AlwaysNames, AlwaysOwes, PTL DEF Spec

----------------------------------------------------------------------------
(* The invariant says that unread messages can be read.                    *)

\* The pre-key of a session that a context is in is spent.
LEMMA SpentPreKey ==
  ASSUME ForgetInv, NamesInv, NEW p \in Parties, NEW c \in Contexts(p), NEW m \in sent,
         InSession(conv[p][c], m.mk.root[1])
  PROVE  ~HasPreKey(p, m)
<1>1. conv[p][c].rk # <<>> /\ conv[p][c].rk[1] = m.mk.root[1]
  BY DEF InSession
<1>2. m.mk.root[1] \cap preKeys[p] = {}
  BY <1>1 DEF ForgetInv, SetupsOK
<1>3. IsSetup(m) => m.mk.root[1] = {m.a0, m.preKey}
  BY SetupOf
<1> QED
  BY <1>2, <1>3 DEF HasPreKey

LEMMA FirstIsPrimary ==
  ASSUME NEW p, NEW m, conv[p][Primary].a0 = NoKey \/ m.a0 = NoKey \/ p # Greater
  PROVE  First(p, m) = Primary
  BY DEF First, Collision, IsSetup

\* Party p reads a message of the session its primary context is in.
LEMMA InSessionReads ==
  ASSUME ForgetInv, NamesInv, OweInv, Base, NEW p \in Parties, NEW m \in sent, m.from # p,
         m \notin got[p], First(p, m) = Primary, InSession(conv[p][Primary], m.mk.root[1]),
         conv[p][Primary].ctx = m.ctx, Expects(p, Primary, m)
  PROVE  Readable(p, m)
<1>1. Primary \in Contexts(p) /\ conv[p][Primary].rk # <<>>
  BY Names DEF InSession
<1>2. ~HasPreKey(p, m)
  BY <1>1, SpentPreKey
<1>3. KnownOK(p)
  BY DEF Base, ApartOK
<1>4. conv[p][Primary].known
  BY <1>1, <1>3 DEF KnownOK
<1>5. Due(p, First(p, m), m)
  BY <1>1, <1>2, <1>4 DEF Due
<1> QED
  BY <1>5, DueIsReadable DEF Readable

\* One party makes all setups.
LEMMA OneSideReads ==
  ASSUME ForgetInv, NamesInv, OweInv, Base, NEW a \in Parties, handedOut[a] = 0, OneSide(a),
         Settled, ordered \/ Len(setups) <= 1,
         NEW p \in Parties, NEW m \in sent, m.from # p, m \notin got[p], m.ctx = Len(setups)
  PROVE  Readable(p, m)
<1> DEFINE q == Peer(a)
           w == conv[a][Primary]
           v == conv[q][Primary]
           n == Len(setups)
<1>1. /\ q \in Parties /\ q # a /\ Peer(q) = a /\ Peer(p) \in Parties
      /\ \A z \in Parties : z = a \/ z = q
      /\ Primary \in Contexts(a) /\ Primary \in Contexts(q)
  BY PeerFacts, Names
<1>2. m.ctx \in DOMAIN setups /\ m.from \in Parties /\ m.mk.root # <<>>
  BY SetupOf
<1>3. n \in Nat /\ n > 0
  <2>1. setups \in Seq(SUBSET Keys)
    BY DEF ForgetInv, KeyInv, TypeOK
  <2>2. n \in Nat /\ DOMAIN setups = 1 .. n
    BY <2>1, LenProperties
  <2> QED
    BY <1>2, <2>2
<1>4. KnownOK(a) /\ handedOut[q] \in Nat
  BY <1>1 DEF Base, ApartOK, ForgetInv, KeyInv, TypeOK
<1>5. n = handedOut[a] + handedOut[q] /\ (handedOut[q] > 0 => w.known)
  BY <1>4 DEF KnownOK
<1>6. w.rk # <<>>
  BY <1>3, <1>4, <1>5 DEF Settled
<1>7. Caller(a) /\ (Uncalled(a) \/ Called(a))
  BY <1>6 DEF OneSide
<1>8. /\ w.ctx = n /\ w.rk[1] = setups[n] /\ v.a0 = NoKey
      /\ \A z \in SentBy(q) : z.a0 = NoKey
      /\ \A z \in SentBy(a) : z.mk.root[1] = setups[z.ctx]
  BY <1>6, <1>7 DEF Caller
<1>9. CASE Uncalled(a)
  <2>1. Calling(a) /\ w.preKey \in preKeys[q] /\ \A z \in SentBy(q) : z.ctx # n
    BY <1>9 DEF Uncalled
  <2>2. m.from = a /\ p = q /\ m \in SentBy(a)
    BY <1>1, <1>2, <2>1 DEF SentBy
  <2>3. w.rk[1] = CallOf(a)
    BY <2>1 DEF Calling, ForgetInv, SpeaksOK, CallOf
  <2>4. m.mk.root[1] = CallOf(a)
    BY <1>8, <2>2, <2>3
  <2>5. Opening(p, m)
    BY <2>1, <2>2, <2>4, CallingOpens DEF ForgetInv
  <2> QED
    BY <2>5, OpeningIsReadable DEF Readable
<1>10. CASE Called(a)
  <2>1. Connected(a)
    BY <1>1, <1>10 DEF Called, Settled
  <2>2. /\ InSession(v, setups[n]) /\ v.ctx = n
        /\ m.mk.root[1] = setups[n] /\ Expects(Peer(m.from), Primary, m)
    BY <2>1 DEF Connected
  <2>3. Peer(m.from) = p
    BY <1>1, <1>2
  <2>4. InSession(conv[p][Primary], m.mk.root[1]) /\ conv[p][Primary].ctx = m.ctx
    BY <1>1, <1>6, <1>8, <2>2 DEF InSession
  <2>5. conv[p][Primary].a0 = NoKey \/ m.a0 = NoKey
    BY <1>1, <1>2, <1>8 DEF SentBy
  <2> QED
    BY <2>2, <2>3, <2>4, <2>5, FirstIsPrimary, InSessionReads
<1> QED
  BY <1>7, <1>9, <1>10

\* Both have made one.
LEMMA CollidedReads ==
  ASSUME ForgetInv, NamesInv, OweInv, Base, \A q \in Parties : handedOut[q] > 0, Collided,
         NEW p \in Parties, NEW m \in sent, m.from # p, m \notin got[p]
  PROVE  Readable(p, m)
<1> DEFINE k == FirstKey(Greater)
           w == conv[Greater][Primary]
           v == conv[Loser][Primary]
           y == conv[Greater][k]
<1>1. /\ Greater \in Parties /\ Loser \in Parties /\ Loser # Greater
      /\ Peer(Greater) = Loser /\ Peer(Loser) = Greater
      /\ k \in Contexts(Greater) /\ k # Primary
      /\ \A q \in Parties : q = Greater \/ q = Loser
  BY TwoSetups
<1>2. m.from \in Parties /\ Peer(m.from) = p /\ (m.from = Loser <=> p = Greater)
      /\ (m.from = Greater <=> p = Loser)
  BY <1>1, SetupOf
<1>3. CASE m \in OfKey(Greater)
  <2>1. /\ m.from = Loser /\ IsSetup(m) /\ m.preKey = k
        /\ IF y.rk = <<>> THEN Opening(Greater, m) ELSE Expects(Greater, k, m)
    BY <1>3 DEF Collided, Aside
  <2>2. CASE y.rk = <<>>
    BY <1>2, <2>1, <2>2, OpeningIsReadable DEF Readable
  <2>3. CASE y.rk # <<>>
    <3>1. w.a0 # NoKey
      <4>1. CASE BothCall
        BY <1>1, <4>1, Calls
      <4>2. CASE CameOver
        BY <1>2, <1>3, <2>1, <4>2 DEF CameOver
      <4> QED
        BY <4>1, <4>2 DEF Collided
    <3>2. First(p, m) = k
      BY <1>2, <2>1, <3>1 DEF First, Collision
    <3>3. ~HasPreKey(Greater, m)
      <4>1. k \in y.rk[1] /\ y.rk[1] \cap preKeys[Greater] = {}
        BY <1>1, <2>3 DEF ForgetInv, SetupsOK
      <4> QED
        BY <2>1, <4>1 DEF HasPreKey
    <3>4. KnownOK(Greater)
      BY <1>1 DEF Base, ApartOK
    <3>5. y.known
      BY <1>1, <2>3, <3>4 DEF KnownOK
    <3>6. Due(p, First(p, m), m)
      BY <1>2, <2>1, <2>3, <3>2, <3>3, <3>5 DEF Due
    <3> QED
      BY <3>6, DueIsReadable DEF Readable
  <2> QED
    BY <2>2, <2>3
<1>4. CASE m \in OfKey(Loser)
  <2>1. CASE BothCall
    <3>1. m.from = Greater /\ (FirstKey(Loser) \in preKeys[Loser] => Opening(Loser, m))
      BY <1>1, <1>4, <2>1, Calls
    <3>2. Opening(p, m)
      BY <1>2, <2>1, <3>1 DEF BothCall
    <3> QED
      BY <3>2, OpeningIsReadable DEF Readable
  <2>2. CASE CameOver
    <3>1. /\ w.rk # <<>> /\ InSession(v, w.rk[1]) /\ w.ctx = v.ctx /\ v.a0 = NoKey
          /\ m.mk.root[1] = w.rk[1] /\ m.ctx = w.ctx /\ Expects(Peer(m.from), Primary, m)
          /\ m.from = Loser => m.a0 = NoKey
      BY <1>4, <2>2 DEF CameOver
    <3>2. InSession(conv[p][Primary], m.mk.root[1]) /\ conv[p][Primary].ctx = m.ctx
      BY <1>1, <3>1 DEF InSession
    <3>3. First(p, m) = Primary
      BY <1>2, <3>1, FirstIsPrimary
    <3> QED
      BY <1>2, <3>1, <3>2, <3>3, InSessionReads
  <2> QED
    BY <2>1, <2>2 DEF Collided
<1> QED
  BY <1>3, <1>4 DEF Collided

\* A message that was not read can be read whenever it comes, whatever was read
\* before it, lost or late: after a second setup as long as messages come in order,
\* after a re-keying as long as one party does all the setups and has done the
\* newest one, and if no context failed to be stored.
THEOREM UnreadReadable == Spec => []UnreadIsReadable
<1>1. ForgetInv /\ NamesInv /\ OweInv /\ ReadInv => UnreadIsReadable
  <2> SUFFICES ASSUME ForgetInv, NamesInv, OweInv, ReadInv, faults = 0,
                      NEW p \in Parties, NEW m \in Unread(p),
                      Len(setups) > 1 => ordered /\ InOrder(p, m),
                      reKeys > 0 => Settled /\ OneSided /\ m.ctx = Len(setups)
               PROVE  Readable(p, m)
    BY DEF UnreadIsReadable
  <2>1. m \in sent /\ m.from # p /\ m \notin got[p]
    BY DEF Unread
  <2>2. /\ Base /\ \A a \in Parties : handedOut[a] = 0 => OneSide(a)
        /\ ordered /\ reKeys = 0 /\ (\A q \in Parties : handedOut[q] > 0) => Collided
    BY DEF ReadInv
  <2>3. \A q \in Parties : KnownOK(q) /\ handedOut[q] \in Nat
    BY <2>2 DEF Base, ApartOK, ForgetInv, KeyInv, TypeOK
  <2>4. reKeys \in Nat /\ m.ctx \in DOMAIN setups /\ setups \in Seq(SUBSET Keys)
    BY <2>1, SetupOf DEF ForgetInv, KeyInv, TypeOK
  <2>5. m.ctx \in 1 .. Len(setups) /\ Len(setups) \in Nat
    BY <2>4, LenProperties
  <2>6. CASE \E a \in Parties : handedOut[a] = 0
    <3>1. PICK a \in Parties : handedOut[a] = 0
      BY <2>6
    <3>2. Peer(a) \in Parties /\ Peer(Peer(a)) = a
      BY PeerFacts
    <3>3. Settled /\ m.ctx = Len(setups)
      <4>1. CASE reKeys = 0
        <5>1. Settled
          BY <2>3, <4>1 DEF Settled, KnownOK
        <5>2. Len(setups) = handedOut[Peer(a)] + handedOut[a] /\ handedOut[Peer(a)] <= 1
          BY <2>3, <3>2, <4>1 DEF KnownOK
        <5>3. m.ctx = Len(setups)
          BY <2>3, <2>5, <3>1, <3>2, <5>2
        <5> QED
          BY <5>1, <5>3
      <4> QED
        BY <2>4, <4>1
    <3>4. ordered \/ Len(setups) <= 1
      BY <2>5
    <3> QED
      BY <2>1, <2>2, <3>1, <3>3, <3>4, OneSideReads
  <2>7. CASE \A q \in Parties : handedOut[q] # 0
    <3>1. \A q \in Parties : handedOut[q] > 0
      BY <2>3, <2>7
    <3>2. reKeys = 0
      BY <2>4, <2>7 DEF OneSided
    <3>3. Len(setups) > 1
      <4>1. Len(setups) = handedOut[p] + handedOut[Peer(p)]
        BY <2>3 DEF KnownOK
      <4>2. Peer(p) \in Parties
        BY PeerFacts
      <4> QED
        BY <2>3, <3>1, <4>1, <4>2
    <3>4. Collided
      BY <2>2, <3>1, <3>2, <3>3
    <3> QED
      BY <2>1, <2>2, <3>1, <3>4, CollidedReads
  <2> QED
    BY <2>6, <2>7
<1>2. Forgetting => ForgetInv
  BY DEF Forgetting
<1> QED
  BY <1>1, <1>2, AlwaysForgets, AlwaysNames, AlwaysOwes, AlwaysRead, PTL
============================================================================
