------------------------ MODULE ZinaCommands_proofs ------------------------
(* Theorems about ZinaCommands, for any number of threads, devices, messages *)
(* and calls.                                                              *)
EXTENDS ZinaCommands, FiniteSetTheorems, SequenceTheorems, TLAPS

USE ConstantsAssumption

----------------------------------------------------------------------------
(* Sequences of commands.                                                  *)

LEMMA RangeOf ==
  ASSUME NEW S, NEW q \in Seq(S)
  PROVE  Range(q) \subseteq S /\ \A x \in Range(q) : \E i \in DOMAIN q : q[i] = x
  BY LenProperties, ElementOfSeq DEF Range

\* What is left when the first command has been taken.
LEMMA TailOf ==
  ASSUME NEW S, NEW q \in Seq(S), q # <<>>
  PROVE  /\ Head(q) \in S /\ Tail(q) \in Seq(S)
         /\ Head(q) \in Range(q) /\ Range(q) = {Head(q)} \cup Range(Tail(q))
         /\ Unique(q) => /\ Unique(Tail(q))
                         /\ \A m \in Range(Tail(q)) :
                              Head(q).call # None => m.call # Head(q).call
<1> DEFINE t == Tail(q)
           n == Len(q)
<1>1. n \in Nat /\ n > 0 /\ DOMAIN q = 1 .. n
  BY LenProperties, EmptySeq
<1>2. /\ Head(q) \in S /\ t \in Seq(S) /\ Len(t) = n - 1
      /\ \A i \in 1 .. n - 1 : t[i] = q[i + 1]
  BY HeadTailProperties
<1>3. DOMAIN t = 1 .. n - 1
  BY <1>2, LenProperties
<1>4. Head(q) = q[1]
  BY <1>1
<1> HIDE DEF t, n
<1>5. Head(q) \in Range(q) /\ Range(q) = {Head(q)} \cup Range(t)
  <2>1. \A i \in 1 .. n : i = 1 \/ (i - 1 \in 1 .. n - 1 /\ q[i] = t[i - 1])
    BY <1>1, <1>2
  <2>2. \A i \in 1 .. n - 1 : i + 1 \in 1 .. n /\ t[i] = q[i + 1]
    BY <1>1, <1>2
  <2>3. 1 \in 1 .. n
    BY <1>1
  <2>4. ASSUME NEW i \in 1 .. n PROVE q[i] = q[1] \/ q[i] \in Range(t)
    BY <1>3, <2>1 DEF Range
  <2>5. ASSUME NEW i \in 1 .. n - 1 PROVE t[i] \in Range(q)
    BY <1>1, <2>2 DEF Range
  <2>6. q[1] \in Range(q)
    BY <1>1, <2>3 DEF Range
  <2>7. Range(q) = {q[i] : i \in 1 .. n} /\ Range(t) = {t[i] : i \in 1 .. n - 1}
    BY <1>1, <1>3 DEF Range
  <2> QED
    BY <1>4, <2>4, <2>5, <2>6, <2>7
<1>6. ASSUME Unique(q)
      PROVE  /\ Unique(t)
             /\ \A m \in Range(t) : Head(q).call # None => m.call # Head(q).call
  <2>1. \A i \in 1 .. n - 1 : i + 1 \in 1 .. n /\ t[i] = q[i + 1] /\ i + 1 # 1
    BY <1>1, <1>2
  <2>2. Unique(t)
    <3> SUFFICES ASSUME NEW i \in 1 .. n - 1, NEW j \in 1 .. n - 1,
                        t[i].call # None, t[j].call = t[i].call
                 PROVE  i = j
      BY <1>3 DEF Unique
    <3>1. /\ i + 1 \in DOMAIN q /\ j + 1 \in DOMAIN q
          /\ q[i + 1].call # None /\ q[j + 1].call = q[i + 1].call
      <4>1. /\ i + 1 \in 1 .. n /\ t[i] = q[i + 1]
            /\ j + 1 \in 1 .. n /\ t[j] = q[j + 1]
        BY <2>1
      <4> QED
        BY <1>1, <4>1
    <3>2. i + 1 = j + 1
      BY <1>6, <3>1 DEF Unique
    <3> QED
      BY <3>2, <1>1
  <2>3. ASSUME NEW i \in 1 .. n - 1, Head(q).call # None PROVE t[i].call # Head(q).call
    <3>1. 1 \in 1 .. n
      BY <1>1
    <3> QED
      BY <1>1, <1>4, <1>6, <2>1, <2>3, <3>1 DEF Unique
  <2> QED
    BY <1>3, <2>2, <2>3 DEF Range
<1> QED
  BY <1>2, <1>5, <1>6 DEF t

\* Commands that are put at the end.
LEMMA ConcatOf ==
  ASSUME NEW S, NEW q \in Seq(S), NEW s \in Seq(S)
  PROVE  /\ q \o s \in Seq(S) /\ Range(q \o s) = Range(q) \cup Range(s)
         /\ (/\ Unique(q) /\ Unique(s)
             /\ \A x \in Range(q), y \in Range(s) : x.call # None => y.call # x.call)
            => Unique(q \o s)
<1> DEFINE r == q \o s
           a == Len(q)
           b == Len(s)
<1>1. a \in Nat /\ b \in Nat /\ DOMAIN q = 1 .. a /\ DOMAIN s = 1 .. b
  BY LenProperties
<1>2. /\ r \in Seq(S) /\ Len(r) = a + b
      /\ \A i \in 1 .. a + b : r[i] = IF i <= a THEN q[i] ELSE s[i - a]
  BY ConcatProperties
<1>3. DOMAIN r = 1 .. a + b
  BY <1>2, LenProperties
<1> HIDE DEF r, a, b
<1>4. \A i \in 1 .. a + b : \/ i \in 1 .. a /\ r[i] = q[i]
                            \/ i - a \in 1 .. b /\ r[i] = s[i - a]
  BY <1>1, <1>2
<1>5. /\ \A i \in 1 .. a : i \in 1 .. a + b /\ r[i] = q[i]
      /\ \A i \in 1 .. b : i + a \in 1 .. a + b /\ r[i + a] = s[i]
  BY <1>1, <1>2
<1>6. Range(r) = Range(q) \cup Range(s)
  BY RangeConcatenation DEF r
<1>7. ASSUME Unique(q), Unique(s),
             \A x \in Range(q), y \in Range(s) : x.call # None => y.call # x.call
      PROVE  Unique(r)
  <2> SUFFICES ASSUME NEW i \in 1 .. a + b, NEW j \in 1 .. a + b,
                      r[i].call # None, r[j].call = r[i].call
               PROVE  i = j
    BY <1>3 DEF Unique
  <2>1. CASE i \in 1 .. a /\ r[i] = q[i] /\ j \in 1 .. a /\ r[j] = q[j]
    BY <1>1, <1>7, <2>1 DEF Unique
  <2>2. CASE i - a \in 1 .. b /\ r[i] = s[i - a] /\ j - a \in 1 .. b /\ r[j] = s[j - a]
    <3>1. i - a = j - a
      BY <1>1, <1>7, <2>2 DEF Unique
    <3> QED
      BY <3>1, <1>1
  <2>3. CASE i \in 1 .. a /\ r[i] = q[i] /\ j - a \in 1 .. b /\ r[j] = s[j - a]
    BY <1>1, <1>7, <2>3 DEF Range
  <2>4. CASE j \in 1 .. a /\ r[j] = q[j] /\ i - a \in 1 .. b /\ r[i] = s[i - a]
    BY <1>1, <1>7, <2>4 DEF Range
  <2> QED
    BY <1>4, <2>1, <2>2, <2>3, <2>4
<1> QED
  BY <1>2, <1>6, <1>7 DEF r

LEMMA AppendOf ==
  ASSUME NEW S, NEW q \in Seq(S), NEW m \in S
  PROVE  /\ Append(q, m) \in Seq(S) /\ Append(q, m) # <<>>
         /\ Range(Append(q, m)) = Range(q) \cup {m}
         /\ (Unique(q) /\ \A x \in Range(q) : m.call # None => x.call # m.call)
            => Unique(Append(q, m))
<1>1. Append(q, m) = q \o <<m>> /\ Append(q, m) # <<>>
  BY AppendIsConcat, AppendProperties
<1>2. <<m>> \in Seq(S) /\ Range(<<m>>) = {m} /\ Unique(<<m>>)
  BY DEF Range, Unique
<1>3. /\ q \o <<m>> \in Seq(S) /\ Range(q \o <<m>>) = Range(q) \cup Range(<<m>>)
      /\ (/\ Unique(q) /\ Unique(<<m>>)
          /\ \A x \in Range(q), y \in Range(<<m>>) : x.call # None => y.call # x.call)
            => Unique(q \o <<m>>)
  BY <1>2, ConcatOf
<1>4. ASSUME \A x \in Range(q) : m.call # None => x.call # m.call,
             NEW x \in Range(q), NEW y \in Range(<<m>>), x.call # None
      PROVE  y.call # x.call
  BY <1>2, <1>4
<1> QED
  BY <1>1, <1>2, <1>3, <1>4

\* Commands that carry no call.
LEMMA UniqueWithout ==
  ASSUME NEW q, \A x \in Range(q) : x.call = None
  PROVE  Unique(q)
  BY DEF Unique, Range

\* A list of the elements of a set of devices.
LEMMA OrdersOf ==
  ASSUME NEW S, IsFiniteSet(S), NEW s \in Orders(S)
  PROVE  s \in Seq(S) /\ Range(s) \subseteq S /\ Len(s) \in Nat /\ DOMAIN s = 1 .. Len(s)
<1>1. Cardinality(S) \in Nat
  BY FS_CardinalityType
<1>2. s \in [1 .. Cardinality(S) -> S]
  BY DEF Orders
<1>3. s \in Seq(S)
  BY <1>1, <1>2
<1> QED
  BY <1>3, LenProperties, RangeOf

----------------------------------------------------------------------------
(* The invariant in two parts: callers, and what becomes of messages.      *)

CallTypes ==
    /\ pc \in [Callers -> {"idle", "entering", "locked", "waiting", "awake"}]
    /\ call \in [Callers -> CallIds \cup {None}] /\ done \in [Kinds -> BOOLEAN]
    /\ finished \subseteq CallIds /\ returned \subseteq CallIds

WorldTypes ==
    /\ server \subseteq Devices /\ conv \in [Devices -> {"none", "empty", "session"}]
    /\ prepared \subseteq Command /\ queue \in Seq(Command) /\ qpc \in {"idle", "reset"}
    /\ handed \subseteq Command /\ sent \subseteq MessageId /\ reported \subseteq MessageId
    /\ removed \subseteq Devices /\ refused \subseteq Devices /\ listed \subseteq Devices
    /\ sends \in Nat /\ calls \in Nat /\ changes \in Nat /\ failures \in Nat

CallsInv == CallTypes /\ LocksOK /\ FlagsOK /\ CallsOK /\ ReturnMeansRun
MessagesInv ==
    WorldTypes /\ CommandsOK /\ ForKnownOK /\ SilentOnlyIfRemoved /\ EmptyIsTemporary

LEMMA Parts ==
  /\ CommandsInv <=> CallsInv /\ MessagesInv
  /\ CommandsInv' <=> CallsInv' /\ MessagesInv'
  BY DEF CommandsInv, CallsInv, MessagesInv, TypeOK, CallTypes, WorldTypes

LEMMA CallFacts ==
  /\ None \notin CallIds
  /\ \A cl \in CallIds : cl[1] \in Kinds /\ cl[3] \in Devices \cup {None}
  BY DEF CallIds

LEMMA QueuedIs == Queued = Range(queue) /\ Queued' = Range(queue')
  BY DEF Queued, Range

----------------------------------------------------------------------------
(* Callers.                                                                *)

\* A step that leaves the callers alone and neither doubles nor makes a call.
LEMMA CallStays ==
  ASSUME CallsInv, UNCHANGED callVars, Unique(queue'),
         \A m \in Queued' : m.call # None => \E x \in Queued : x.call = m.call
  PROVE  CallsInv'
<1> USE DEF callVars
<1>1. CallTypes' /\ ReturnMeansRun'
  BY DEF CallsInv, CallTypes, ReturnMeansRun
<1>2. LocksOK'
  BY DEF CallsInv, LocksOK, Inside
<1>3. FlagsOK'
  BY DEF CallsInv, FlagsOK, Inside
<1>4. \A cl : Awaited(cl) => Awaited(cl)'
  BY DEF Awaited, Waiting
<1>5. CallsOK'
  BY <1>4 DEF CallsInv, CallsOK
<1> QED
  BY <1>1, <1>2, <1>3, <1>5 DEF CallsInv

\* ActionCallback: the call ends, and its command is not in the queue any more.
LEMMA CallEnds ==
  ASSUME CallsInv, NEW cl \in CallIds, Awaited(cl), ActionCallback(cl), Unique(queue'),
         \A m \in Queued' : m.call # None =>
             m.call # cl /\ m.call \in CallIds /\ \E x \in Queued : x.call = m.call
  PROVE  CallsInv'
<1> USE CallFacts
<1>1. /\ done' = [done EXCEPT ![cl[1]] = TRUE] /\ finished' = finished \cup {cl}
      /\ call' = call /\ returned' = returned
      /\ \/ \E c \in Callers : pc[c] = "waiting" /\ pc' = [pc EXCEPT ![c] = "awake"]
         \/ pc' = pc
  BY DEF ActionCallback
<1>2. /\ pc \in [Callers -> {"idle", "entering", "locked", "waiting", "awake"}]
      /\ call \in [Callers -> CallIds \cup {None}] /\ done \in [Kinds -> BOOLEAN]
      /\ finished \subseteq CallIds /\ returned \subseteq CallIds
  BY DEF CallsInv, CallTypes
<1>3. /\ pc' \in [Callers -> {"idle", "entering", "locked", "waiting", "awake"}]
      /\ \A c \in Callers : /\ pc'[c] = "idle" <=> pc[c] = "idle"
                            /\ pc'[c] = "locked" <=> pc[c] = "locked"
                            /\ Inside(c)' <=> Inside(c)
                            /\ Waiting(c)' <=> Waiting(c)
  <2>1. CASE pc' = pc
    BY <1>2, <2>1 DEF Inside, Waiting
  <2>2. CASE \E c \in Callers : pc[c] = "waiting" /\ pc' = [pc EXCEPT ![c] = "awake"]
    <3>1. PICK c \in Callers : pc[c] = "waiting" /\ pc' = [pc EXCEPT ![c] = "awake"]
      BY <2>2
    <3>2. pc'[c] = "awake" /\ \A x \in Callers : x # c => pc'[x] = pc[x]
      BY <1>2, <3>1
    <3> QED
      BY <1>2, <3>1, <3>2 DEF Inside, Waiting
  <2> QED
    BY <1>1, <2>1, <2>2
<1>4. /\ done' \in [Kinds -> BOOLEAN]
      /\ done'[cl[1]] /\ \A k \in Kinds : k # cl[1] => done'[k] = done[k]
  BY <1>1, <1>2
<1>5. CallTypes'
  BY <1>1, <1>2, <1>3, <1>4 DEF CallTypes
<1>6. PICK w \in Callers : Waiting(w) /\ Inside(w) /\ call[w] = cl
  BY DEF Awaited, Waiting, Inside
<1>7. \A c \in Callers : Inside(c) => call[c] \in CallIds
  BY DEF CallsInv, LocksOK, Inside
\* Who holds the lock of this kind is the one who waits.
<1>8. ASSUME NEW c \in Callers, Inside(c), call[c][1] = cl[1]
      PROVE  c = w
  BY <1>6, <1>8 DEF CallsInv, LocksOK
<1>9. LocksOK'
  BY <1>1, <1>3 DEF CallsInv, LocksOK
<1>10. FlagsOK'
  <2>1. ASSUME NEW c \in Callers, pc'[c] = "locked" PROVE ~done'[call'[c][1]]
    <3>1. pc[c] = "locked" /\ Inside(c) /\ ~Waiting(c) /\ ~done[call[c][1]]
      BY <1>3, <2>1 DEF Inside, Waiting, CallsInv, FlagsOK
    <3>2. call[c][1] \in Kinds /\ call[c][1] # cl[1]
      BY <1>6, <1>7, <1>8, <3>1
    <3> QED
      BY <1>1, <1>4, <3>1, <3>2
  <2>2. ASSUME NEW c \in Callers, Inside(c)', done'[call'[c][1]]
        PROVE  call'[c] \in finished'
    <3>1. Inside(c) /\ call[c][1] \in Kinds
      BY <1>3, <1>7, <2>2
    <3>2. CASE call[c][1] = cl[1]
      BY <1>1, <1>6, <1>8, <3>1, <3>2
    <3>3. CASE call[c][1] # cl[1]
      <4>1. done[call[c][1]]
        BY <1>1, <1>4, <2>2, <3>1, <3>3
      <4> QED
        BY <1>1, <3>1, <4>1 DEF CallsInv, FlagsOK
    <3> QED
      BY <3>2, <3>3
  <2> QED
    BY <2>1, <2>2 DEF FlagsOK
<1>11. ASSUME NEW m \in Queued', m.call # None PROVE Awaited(m.call)'
  <2>1. m.call # cl /\ m.call \in CallIds /\ Awaited(m.call)
    BY <1>11 DEF CallsInv, CallsOK
  <2>2. PICK v \in Callers : Waiting(v) /\ Inside(v) /\ call[v] = m.call
    BY <2>1 DEF Awaited, Waiting, Inside
  <2>3. m.call[1] # cl[1]
    BY <1>6, <1>8, <2>1, <2>2
  <2>4. ~done'[m.call[1]]
    BY <1>4, <2>1, <2>3 DEF Awaited
  <2>5. Waiting(v)' /\ call'[v] = m.call
    BY <1>1, <1>3, <2>2
  <2> QED
    BY <2>4, <2>5 DEF Awaited
<1>12. CallsOK'
  BY <1>11 DEF CallsOK
<1>13. ReturnMeansRun'
  BY <1>1 DEF CallsInv, ReturnMeansRun
<1> QED
  BY <1>5, <1>9, <1>10, <1>12, <1>13 DEF CallsInv

\* What the thread of the run queue finds, and what stays when it is done.
LEMMA Taken ==
  ASSUME CallsInv, WorldTypes, queue # <<>>
  PROVE  /\ First \in Command /\ First \in Queued
         /\ Tail(queue) \in Seq(Command) /\ Queued = {First} \cup Range(Tail(queue))
         /\ Unique(Tail(queue))
         /\ \A m \in Range(Tail(queue)) : First.call # None => m.call # First.call
         /\ First.call # None => First.call \in CallIds /\ Awaited(First.call)
<1>1. queue \in Seq(Command) /\ Unique(queue)
  BY DEF WorldTypes, CallsInv, CallsOK
<1>2. /\ First \in Command /\ Tail(queue) \in Seq(Command)
      /\ First \in Range(queue) /\ Range(queue) = {First} \cup Range(Tail(queue))
      /\ Unique(queue) => /\ Unique(Tail(queue))
                          /\ \A m \in Range(Tail(queue)) :
                               First.call # None => m.call # First.call
  BY <1>1, TailOf DEF First
<1>3. First.call # None => First.call \in CallIds
  BY <1>2 DEF Command
<1>4. First.call # None => Awaited(First.call)
  BY <1>2, QueuedIs DEF CallsInv, CallsOK
<1> QED
  BY <1>1, <1>2, <1>3, <1>4, QueuedIs

LEMMA DoneCalls ==
  ASSUME CallsInv, WorldTypes, queue # <<>>, queue' = Tail(queue), ActionCallback(First.call)
  PROVE  CallsInv'
<1>1. Queued' = Range(Tail(queue))
  BY QueuedIs
<1>2. \A m \in Range(Tail(queue)) : m \in Command /\ m \in Queued
  BY Taken, RangeOf
<1>3. CASE First.call = None
  <2>1. UNCHANGED callVars
    BY <1>3 DEF ActionCallback
  <2> QED
    BY <1>1, <1>2, <2>1, Taken, CallStays
<1>4. CASE First.call # None
  <2>1. \A m \in Queued' : m.call # None =>
           m.call # First.call /\ m.call \in CallIds /\ \E x \in Queued : x.call = m.call
    BY <1>1, <1>2, <1>4, Taken DEF Command
  <2> QED
    BY <1>4, <2>1, Taken, CallEnds
<1> QED
  BY <1>3, <1>4

\* What a caller changes of itself, and that the others stay where they are.
LEMMA CallInv ==
  ASSUME CallsInv, WorldTypes, NEW c \in Callers, NEW k \in Kinds,
         NEW d \in Devices \cup {None}, Call(c, k, d)
  PROVE  CallsInv'
<1> USE CallFacts
<1>1. /\ pc[c] = "idle" /\ calls \in Nat
      /\ call' = [call EXCEPT ![c] = <<k, calls + 1, d>>]
      /\ pc' = [pc EXCEPT ![c] = "entering"]
      /\ UNCHANGED <<queue, done, finished, returned>>
  BY DEF Call, WorldTypes
<1>2. <<k, calls + 1, d>> \in CallIds
  BY <1>1 DEF CallIds
<1>3. CallTypes'
  BY <1>1, <1>2 DEF CallsInv, CallTypes
<1>4. /\ pc'[c] = "entering" /\ call'[c] \in CallIds
      /\ \A x \in Callers : x # c => pc'[x] = pc[x] /\ call'[x] = call[x]
  BY <1>1, <1>2 DEF CallsInv, CallTypes
<1>5. \A x \in Callers : /\ Inside(x)' => Inside(x) /\ x # c
                         /\ Waiting(x) => Waiting(x)' /\ x # c
  BY <1>1, <1>4 DEF Inside, Waiting
<1>6. LocksOK'
  <2>1. \A x \in Callers : pc'[x] # "idle" => call'[x] \in CallIds
    BY <1>4 DEF CallsInv, LocksOK
  <2>2. \A x, y \in Callers :
          Inside(x)' /\ Inside(y)' /\ call'[x][1] = call'[y][1] => x = y
    BY <1>4, <1>5 DEF CallsInv, LocksOK
  <2> QED
    BY <2>1, <2>2 DEF LocksOK
<1>7. FlagsOK'
  <2>1. \A x \in Callers : pc'[x] = "locked" => ~done'[call'[x][1]]
    BY <1>1, <1>4 DEF CallsInv, FlagsOK
  <2>2. \A x \in Callers : Inside(x)' /\ done'[call'[x][1]] => call'[x] \in finished'
    BY <1>1, <1>4, <1>5 DEF CallsInv, FlagsOK
  <2> QED
    BY <2>1, <2>2 DEF FlagsOK
<1>8. \A cl : Awaited(cl) => Awaited(cl)'
  BY <1>1, <1>4, <1>5 DEF Awaited
<1>9. CallsOK'
  BY <1>1, <1>8 DEF CallsInv, CallsOK, Queued
<1>10. ReturnMeansRun'
  BY <1>1 DEF CallsInv, ReturnMeansRun
<1> QED
  BY <1>3, <1>6, <1>7, <1>9, <1>10 DEF CallsInv

LEMMA LockInv ==
  ASSUME CallsInv, NEW c \in Callers, Lock(c)
  PROVE  CallsInv'
<1> USE CallFacts
<1> DEFINE k == call[c][1]
<1>1. /\ pc[c] = "entering" /\ \A x \in Callers : ~Holds(x, k)
      /\ pc' = [pc EXCEPT ![c] = "locked"] /\ done' = [done EXCEPT ![k] = FALSE]
      /\ UNCHANGED <<queue, call, finished, returned>>
  BY DEF Lock
<1>2. call[c] \in CallIds /\ k \in Kinds
  BY <1>1 DEF CallsInv, LocksOK
<1>3. CallTypes'
  BY <1>1 DEF CallsInv, CallTypes
<1>4. /\ pc'[c] = "locked" /\ \A x \in Callers : x # c => pc'[x] = pc[x]
      /\ ~done'[k] /\ \A j \in Kinds : j # k => done'[j] = done[j]
  BY <1>1, <1>2 DEF CallsInv, CallTypes
<1>5. \A x \in Callers : /\ x # c /\ Inside(x)' => Inside(x) /\ call[x][1] # k
                         /\ Waiting(x) => Waiting(x)' /\ x # c
  BY <1>1, <1>4 DEF Inside, Waiting, Holds
<1>6. LocksOK'
  <2>1. \A x \in Callers : pc'[x] # "idle" => call'[x] \in CallIds
    BY <1>1, <1>2, <1>4 DEF CallsInv, LocksOK
  <2>2. \A x, y \in Callers :
          Inside(x)' /\ Inside(y)' /\ call'[x][1] = call'[y][1] => x = y
    BY <1>1, <1>4, <1>5 DEF CallsInv, LocksOK
  <2> QED
    BY <2>1, <2>2 DEF LocksOK
<1>7. \A x \in Callers : x # c /\ Inside(x)' => call[x][1] \in Kinds
  BY <1>5 DEF CallsInv, LocksOK, Inside
<1>8. FlagsOK'
  <2>1. \A x \in Callers : pc'[x] = "locked" => ~done'[call'[x][1]]
    BY <1>1, <1>4, <1>5, <1>7 DEF CallsInv, FlagsOK, Inside
  <2>2. \A x \in Callers : Inside(x)' /\ done'[call'[x][1]] => call'[x] \in finished'
    BY <1>1, <1>4, <1>5, <1>7 DEF CallsInv, FlagsOK
  <2> QED
    BY <2>1, <2>2 DEF FlagsOK
<1>9. \A cl \in CallIds : Awaited(cl) => Awaited(cl)'
  BY <1>1, <1>4, <1>5 DEF Awaited, Inside, Waiting
<1>10. \A m \in Queued : m.call # None => m.call \in CallIds
  <2> SUFFICES ASSUME NEW m \in Queued, m.call # None PROVE m.call \in CallIds
    OBVIOUS
  <2>1. PICK x \in Callers : Waiting(x) /\ call[x] = m.call
    BY DEF CallsInv, CallsOK, Awaited
  <2> QED
    BY <2>1 DEF CallsInv, LocksOK, Waiting
<1>11. CallsOK'
  BY <1>1, <1>9, <1>10 DEF CallsInv, CallsOK, Queued
<1>12. ReturnMeansRun'
  BY <1>1 DEF CallsInv, ReturnMeansRun
<1> QED
  BY <1>3, <1>6, <1>8, <1>11, <1>12 DEF CallsInv

\* A step of a caller between its locked and its waiting state.
LEMMA WaitInv ==
  ASSUME CallsInv, NEW c \in Callers, Inside(c), ~done[call[c][1]],
         NEW s \in {"waiting", "awake"}, pc' = [pc EXCEPT ![c] = s],
         UNCHANGED <<call, done, finished, returned>>
  PROVE  /\ CallTypes' /\ LocksOK' /\ FlagsOK' /\ ReturnMeansRun'
         /\ \A cl : Awaited(cl) => Awaited(cl)'
         /\ Awaited(call[c])'
<1>1. /\ pc'[c] = s /\ \A x \in Callers : x # c => pc'[x] = pc[x]
  BY DEF CallsInv, CallTypes
<1>2. /\ Waiting(c)' /\ \A x \in Callers : /\ Inside(x)' <=> Inside(x)
                                           /\ Waiting(x) => Waiting(x)'
                                           /\ pc'[x] = "idle" <=> pc[x] = "idle"
                                           /\ pc'[x] = "locked" => pc[x] = "locked"
  BY <1>1 DEF Inside, Waiting
<1>3. CallTypes' /\ ReturnMeansRun'
  BY DEF CallsInv, CallTypes, ReturnMeansRun
<1>4. LocksOK'
  BY <1>2 DEF CallsInv, LocksOK
<1>5. FlagsOK'
  BY <1>2 DEF CallsInv, FlagsOK
<1>6. \A cl : Awaited(cl) => Awaited(cl)'
  BY <1>2 DEF Awaited
<1>7. Awaited(call[c])'
  BY <1>2 DEF Awaited
<1> QED
  BY <1>3, <1>4, <1>5, <1>6, <1>7

LEMMA EnqueueInv ==
  ASSUME CallsInv, WorldTypes, NEW c \in Callers, Enqueue(c)
  PROVE  CallsInv' /\ queue' \in Seq(Command)
<1> USE CallFacts
<1>1. /\ pc[c] = "locked" /\ Inside(c) /\ ~Waiting(c) /\ ~done[call[c][1]]
      /\ call[c] \in CallIds
  BY DEF Enqueue, Inside, Waiting, CallsInv, FlagsOK, LocksOK
<1>2. /\ queue' = Append(queue, CommandOf(call[c]))
      /\ pc' = [pc EXCEPT ![c] = "waiting"]
      /\ UNCHANGED <<call, done, finished, returned>>
  BY <1>1 DEF Enqueue
<1>3. CommandOf(call[c]) \in Command /\ CommandOf(call[c]).call = call[c]
  BY <1>1 DEF CommandOf, Command
<1>4. \A x \in Range(queue) : x.call # call[c]
  <2> SUFFICES ASSUME NEW x \in Queued, x.call = call[c] PROVE FALSE
    BY QueuedIs
  <2>1. PICK v \in Callers : Waiting(v) /\ Inside(v) /\ call[v] = call[c]
    BY <1>1 DEF CallsInv, CallsOK, Awaited, Waiting, Inside
  <2> QED
    BY <1>1, <2>1 DEF CallsInv, LocksOK
<1>5. /\ queue' \in Seq(Command) /\ Range(queue') = Range(queue) \cup {CommandOf(call[c])}
      /\ Unique(queue')
  <2>1. queue \in Seq(Command) /\ Unique(queue)
    BY DEF WorldTypes, CallsInv, CallsOK
  <2> QED
    BY <1>2, <1>3, <1>4, <2>1, AppendOf
<1>6. /\ CallTypes' /\ LocksOK' /\ FlagsOK' /\ ReturnMeansRun'
      /\ \A cl : Awaited(cl) => Awaited(cl)'
      /\ Awaited(call[c])'
  BY <1>1, <1>2, WaitInv
<1>7. CallsOK'
  <2> SUFFICES ASSUME NEW m \in Queued', m.call # None PROVE Awaited(m.call)'
    BY <1>5 DEF CallsOK
  <2>1. m \in Queued \/ m = CommandOf(call[c])
    BY <1>5, QueuedIs
  <2>2. m \in Queued => Awaited(m.call)
    BY DEF CallsInv, CallsOK
  <2>3. m = CommandOf(call[c]) => m.call = call'[c]
    BY <1>2, <1>3
  <2>4. m.call = call'[c] => Awaited(m.call)'
    BY <1>6 DEF Awaited
  <2> QED
    BY <1>6, <2>1, <2>2, <2>3, <2>4
<1> QED
  BY <1>5, <1>6, <1>7 DEF CallsInv

LEMMA WakeInv ==
  ASSUME CallsInv, NEW c \in Callers, Wake(c)
  PROVE  CallsInv'
<1>1. pc[c] = "awake" /\ Inside(c) /\ Waiting(c)
  BY DEF Wake, Inside, Waiting
<1>2. CASE ~done[call[c][1]]
  <2>1. /\ pc' = [pc EXCEPT ![c] = "waiting"]
        /\ UNCHANGED <<call, done, finished, returned, queue>>
    BY <1>2 DEF Wake
  <2>2. /\ CallTypes' /\ LocksOK' /\ FlagsOK' /\ ReturnMeansRun'
        /\ \A cl : Awaited(cl) => Awaited(cl)'
    BY <1>1, <1>2, <2>1, WaitInv
  <2>3. CallsOK'
    BY <2>1, <2>2 DEF CallsInv, CallsOK, Queued
  <2> QED
    BY <2>2, <2>3 DEF CallsInv
<1>3. CASE done[call[c][1]]
  <2>1. /\ pc' = [pc EXCEPT ![c] = "idle"] /\ returned' = returned \cup {call[c]}
        /\ UNCHANGED <<call, done, finished, queue>>
    BY <1>3 DEF Wake
  <2>2. call[c] \in finished /\ call[c] \in CallIds
    BY <1>1, <1>3 DEF CallsInv, FlagsOK, LocksOK
  <2>3. pc'[c] = "idle" /\ \A x \in Callers : x # c => pc'[x] = pc[x]
    BY <2>1 DEF CallsInv, CallTypes
  <2>4. \A x \in Callers : /\ Inside(x)' => Inside(x)
                           /\ pc'[x] # "idle" => pc[x] # "idle"
                           /\ pc'[x] = "locked" => pc[x] = "locked"
                           /\ Waiting(x) /\ x # c => Waiting(x)'
    BY <2>3 DEF Inside, Waiting
  <2>5. CallTypes' /\ ReturnMeansRun'
    BY <2>1, <2>2 DEF CallsInv, CallTypes, ReturnMeansRun
  <2>6. LocksOK'
    BY <2>1, <2>4 DEF CallsInv, LocksOK
  <2>7. FlagsOK'
    BY <2>1, <2>4 DEF CallsInv, FlagsOK
  <2>8. \A cl : Awaited(cl) => Awaited(cl)'
    BY <1>3, <2>1, <2>4 DEF Awaited
  <2>9. CallsOK'
    BY <2>1, <2>8 DEF CallsInv, CallsOK, Queued
  <2> QED
    BY <2>5, <2>6, <2>7, <2>9 DEF CallsInv
<1> QED
  BY <1>2, <1>3

LEMMA SpuriousInv ==
  ASSUME CallsInv, NEW c \in Callers, WakeSpuriously(c)
  PROVE  CallsInv'
<1>1. /\ pc[c] = "waiting" /\ pc' = [pc EXCEPT ![c] = "awake"]
      /\ UNCHANGED <<call, done, finished, returned, queue>>
  BY DEF WakeSpuriously
<1>2. pc'[c] = "awake" /\ \A x \in Callers : x # c => pc'[x] = pc[x]
  BY <1>1 DEF CallsInv, CallTypes
<1>3. \A x \in Callers : /\ Inside(x)' <=> Inside(x)
                         /\ Waiting(x)' <=> Waiting(x)
                         /\ pc'[x] = "idle" <=> pc[x] = "idle"
                         /\ pc'[x] = "locked" <=> pc[x] = "locked"
  BY <1>1, <1>2 DEF Inside, Waiting
<1>4. CallTypes' /\ ReturnMeansRun'
  BY <1>1 DEF CallsInv, CallTypes, ReturnMeansRun
<1>5. LocksOK'
  BY <1>1, <1>3 DEF CallsInv, LocksOK
<1>6. FlagsOK'
  BY <1>1, <1>3 DEF CallsInv, FlagsOK
<1>7. \A cl : Awaited(cl) => Awaited(cl)'
  BY <1>1, <1>3 DEF Awaited
<1>8. CallsOK'
  BY <1>1, <1>7 DEF CallsInv, CallsOK, Queued
<1> QED
  BY <1>4, <1>5, <1>6, <1>8 DEF CallsInv

----------------------------------------------------------------------------
(* What becomes of messages.                                               *)

\* A step of the app or of the transport: the queue may grow at its end.
LEMMA Grown ==
  ASSUME MessagesInv, WorldTypes', IsFiniteSet(prepared'),
         UNCHANGED <<conv, qpc, sent, reported, removed, refused>>,
         queue # <<>> => queue' # <<>> /\ Head(queue') = Head(queue),
         Queued \subseteq Queued',
         \A m \in Queued' \ Queued :
             /\ m.cmd \in {"SendMessage", "ReceivedRawData"} => m.dev \in Devices
             /\ m.new => m.cmd = "SendMessage"
             /\ m.cmd = "SendMessage" /\ ~m.new => conv[m.dev] # "none" \/ m.dev \in removed,
         \A m \in prepared' \cup handed' : m \in prepared \cup handed \/
             (m.cmd = "SendMessage" /\ m.id # None /\ m.dev \in Devices /\ m.call = None),
         \A m \in prepared' : m \in prepared \/
             (m.new \/ conv[m.dev] # "none" \/ m.dev \in removed),
         handed' \subseteq handed \cup Queued'
  PROVE  MessagesInv'
<1>1. CommandsOK'
  <2>1. qpc' = "reset" => queue' # <<>> /\ Head(queue').cmd = "ReKeyDevice"
    BY DEF MessagesInv, CommandsOK, First
  <2>2. \A m \in Queued' : /\ m.cmd \in {"SendMessage", "ReceivedRawData"} => m.dev \in Devices
                           /\ m.new => m.cmd = "SendMessage"
    BY DEF MessagesInv, CommandsOK
  <2>3. \A m \in prepared' \cup handed' :
          m.cmd = "SendMessage" /\ m.id # None /\ m.dev \in Devices /\ m.call = None
    BY DEF MessagesInv, CommandsOK
  <2> QED
    BY <2>1, <2>2, <2>3 DEF CommandsOK, First
<1>2. ForKnownOK'
  <2> SUFFICES ASSUME NEW m \in prepared' \cup Queued', m.cmd = "SendMessage", ~m.new
               PROVE  conv[m.dev] # "none" \/ m.dev \in removed
    BY DEF ForKnownOK
  <2> QED
    BY DEF MessagesInv, ForKnownOK
<1>3. SilentOnlyIfRemoved'
  <2> SUFFICES ASSUME NEW m \in handed'
               PROVE  m \in Queued' \/ m.id \in sent \cup reported \/ m.dev \in removed
    BY DEF SilentOnlyIfRemoved, Answered
  <2> QED
    BY DEF MessagesInv, SilentOnlyIfRemoved, Answered
<1>4. EmptyIsTemporary'
  <2> SUFFICES ASSUME NEW d \in Devices, conv[d] = "empty"
               PROVE  \/ \E m \in Queued' : m.dev = d /\ m.new
                      \/ qpc = "reset" /\ Head(queue').dev = d
                      \/ d \in refused
    BY DEF EmptyIsTemporary, First
  <2>1. qpc = "reset" => queue # <<>>
    BY DEF MessagesInv, CommandsOK
  <2> QED
    BY <2>1 DEF MessagesInv, EmptyIsTemporary, First
<1> QED
  BY <1>1, <1>2, <1>3, <1>4 DEF MessagesInv

LEMMA Unmoved ==
  ASSUME MessagesInv, WorldTypes',
         UNCHANGED <<conv, prepared, queue, qpc, handed, sent, reported, removed, refused>>
  PROVE  MessagesInv'
<1>1. Queued' = Queued /\ IsFiniteSet(prepared')
  BY DEF Queued, MessagesInv, CommandsOK
<1> QED
  BY <1>1, Grown

\* The thread of the run queue is done with the first command: other commands stay,
\* new ones are pings; no conversation goes without a trace; who waited for the
\* command has an answer; an empty conversation has another reason to be so.
LEMMA Handled ==
  ASSUME CallsInv, MessagesInv, WorldTypes', queue # <<>>, qpc' = "idle",
         UNCHANGED <<prepared, handed>>,
         Range(Tail(queue)) \subseteq Queued',
         \A m \in Queued' : m \in Range(Tail(queue)) \/
             (m.cmd = "SendMessage" /\ m.new /\ m.dev \in Devices),
         sent \subseteq sent', reported \subseteq reported', removed \subseteq removed',
         \A d \in Devices : conv'[d] = "none" => conv[d] = "none" \/ d \in removed',
         First \in handed => First.id \in sent' \cup reported' \/ First.dev \in removed',
         \A d \in Devices : conv'[d] = "empty" =>
             \/ d \in refused'
             \/ \E m \in Queued' : m.dev = d /\ m.new
             \/ conv[d] = "empty" /\ d \notin refused /\
                (First.dev = d => ~First.new /\ qpc = "idle")
  PROVE  MessagesInv'
<1>1. Queued = {First} \cup Range(Tail(queue))
  BY Taken DEF MessagesInv
<1>2. CommandsOK'
  <2>1. \A m \in Queued' : /\ m.cmd \in {"SendMessage", "ReceivedRawData"} => m.dev \in Devices
                           /\ m.new => m.cmd = "SendMessage"
    BY <1>1 DEF MessagesInv, CommandsOK
  <2> QED
    BY <2>1 DEF MessagesInv, CommandsOK
<1>3. ForKnownOK'
  <2> SUFFICES ASSUME NEW m \in prepared' \cup Queued', m.cmd = "SendMessage", ~m.new
               PROVE  conv'[m.dev] # "none" \/ m.dev \in removed'
    BY DEF ForKnownOK
  <2>1. m \in prepared \cup Queued
    BY <1>1
  <2>2. m.dev \in Devices /\ (conv[m.dev] # "none" \/ m.dev \in removed)
    BY <2>1 DEF MessagesInv, ForKnownOK, CommandsOK
  <2> QED
    BY <2>2
<1>4. SilentOnlyIfRemoved'
  <2> SUFFICES ASSUME NEW m \in handed
               PROVE  m \in Queued' \/ m.id \in sent' \cup reported' \/ m.dev \in removed'
    BY DEF SilentOnlyIfRemoved, Answered
  <2>1. m \in Queued \/ m.id \in sent \cup reported \/ m.dev \in removed
    BY DEF MessagesInv, SilentOnlyIfRemoved, Answered
  <2> QED
    BY <1>1, <2>1
<1>5. EmptyIsTemporary'
  <2> SUFFICES ASSUME NEW d \in Devices, conv'[d] = "empty"
               PROVE  (\E m \in Queued' : m.dev = d /\ m.new) \/ d \in refused'
    BY DEF EmptyIsTemporary
  <2> SUFFICES ASSUME conv[d] = "empty", d \notin refused,
                      First.dev = d => ~First.new /\ qpc = "idle"
               PROVE  \E m \in Queued' : m.dev = d /\ m.new
    OBVIOUS
  <2>1. PICK m \in Queued : m.dev = d /\ m.new
    BY DEF MessagesInv, EmptyIsTemporary
  <2>2. m \in Range(Tail(queue))
    BY <1>1, <2>1
  <2> QED
    BY <2>1, <2>2
<1> QED
  BY <1>2, <1>3, <1>4, <1>5 DEF MessagesInv

----------------------------------------------------------------------------
(* The actions of the app and of the world.                                *)

LEMMA CallSame ==
  ASSUME CallsInv, UNCHANGED callVars, queue' = queue
  PROVE  CallsInv'
<1>1. Unique(queue') /\ Queued' = Queued
  BY DEF CallsInv, CallsOK, Queued
<1> QED
  BY <1>1, CallStays

LEMMA PrepareInv ==
  ASSUME CommandsInv, Prepare
  PROVE  CommandsInv'
<1> DEFINE to == IF Known # {} THEN Known ELSE server
           new == Known = {}
           made == {Message(<<sends + 1, d>>, d, new) : d \in to}
<1>1. CallsInv /\ MessagesInv /\ WorldTypes
  BY Parts DEF MessagesInv
<1>2. /\ prepared' = prepared \cup made /\ sends' = sends + 1
      /\ UNCHANGED <<server, conv, queue, qpc, callVars, msgVars, devVars, calls, changes,
                     failures>>
  BY DEF Prepare
<1>3. to \subseteq Devices /\ sends \in Nat
  BY <1>1 DEF WorldTypes, Known
<1>4. ASSUME NEW d \in to
      PROVE  LET m == Message(<<sends + 1, d>>, d, new)
             IN  /\ m \in Command /\ m.cmd = "SendMessage" /\ m.id # None
                 /\ m.dev \in Devices /\ m.call = None
                 /\ m.new \/ conv[m.dev] # "none"
  <2>1. <<sends + 1, d>> \in MessageId /\ <<sends + 1, d>> # None
    BY <1>3 DEF MessageId
  <2>2. new \in BOOLEAN /\ (new \/ conv[d] # "none")
    BY DEF Known
  <2> HIDE DEF new
  <2> QED
    BY <1>3, <2>1, <2>2 DEF Message, Command
<1>5. IsFiniteSet(made)
  <2>1. IsFiniteSet(to)
    BY <1>3, FS_Subset
  <2> DEFINE f == [d \in to |-> Message(<<sends + 1, d>>, d, new)]
  <2>2. f \in Surjection(to, made)
    BY DEF Surjection
  <2> HIDE DEF f, made, to
  <2> QED
    BY <2>1, <2>2, FS_Surjection
<1>6. \A m \in made : /\ m \in Command /\ m.cmd = "SendMessage" /\ m.id # None
                      /\ m.dev \in Devices /\ m.call = None
                      /\ m.new \/ conv[m.dev] # "none"
  BY <1>4
<1> HIDE DEF made, new, to
<1>7. CallsInv'
  BY <1>1, <1>2, CallSame
<1>8. WorldTypes'
  BY <1>1, <1>2, <1>6 DEF WorldTypes, msgVars, devVars
<1>9. IsFiniteSet(prepared')
  BY <1>1, <1>2, <1>5, FS_Union DEF MessagesInv, CommandsOK
<1>10. MessagesInv'
  <2>1. Queued' = Queued /\ handed' = handed
    BY <1>2 DEF Queued, msgVars
  <2>2. UNCHANGED <<conv, qpc, sent, reported, removed, refused>>
    BY <1>2 DEF msgVars, devVars
  <2> QED
    BY <1>1, <1>2, <1>6, <1>8, <1>9, <2>1, <2>2, Grown
<1> QED
  BY <1>7, <1>10, Parts

\* The elements of a finite set in some order: all of them.
LEMMA AllOf ==
  ASSUME NEW S, IsFiniteSet(S), NEW s \in Orders(S)
  PROVE  Range(s) = S
<1> DEFINE n == Cardinality(S)
<1>1. n \in Nat
  BY FS_CardinalityType
<1>2. s \in Injection(1 .. n, S)
  BY DEF Orders, Injection, IsInjective
<1>3. Cardinality(1 .. n) = n
  BY <1>1, FS_Interval
<1> HIDE DEF n
<1>4. s \in Surjection(1 .. n, S)
  BY <1>2, <1>3, FS_Injection DEF n
<1> QED
  BY <1>4 DEF Surjection, Range

LEMMA DoSendInv ==
  ASSUME CommandsInv, NEW n \in 1 .. sends, DoSend(n)
  PROVE  CommandsInv'
<1> DEFINE S == PreparedBy(n)
<1>1. CallsInv /\ MessagesInv /\ WorldTypes
  BY Parts DEF MessagesInv
<1>2. PICK s \in Orders(S) : queue' = queue \o s
  BY DEF DoSend
<1>3. /\ prepared' = prepared \ S /\ handed' = handed \cup S
      /\ UNCHANGED <<server, conv, qpc, callVars, sent, reported, devVars, sends, calls,
                     changes, failures>>
  BY DEF DoSend
<1>4. /\ S \subseteq prepared /\ S \subseteq Command /\ IsFiniteSet(S)
      /\ IsFiniteSet(prepared')
      /\ \A m \in S : m.cmd = "SendMessage" /\ m.dev \in Devices /\ m.call = None
  <2>1. S \subseteq prepared
    BY DEF PreparedBy
  <2>2. IsFiniteSet(prepared)
    BY <1>1 DEF MessagesInv, CommandsOK
  <2>3. IsFiniteSet(S) /\ IsFiniteSet(prepared')
    BY <1>3, <2>1, <2>2, FS_Subset
  <2> QED
    BY <1>1, <2>1, <2>3 DEF MessagesInv, WorldTypes, CommandsOK
<1> HIDE DEF S
<1>5. s \in Seq(Command) /\ Range(s) = S /\ Unique(s)
  <2>1. s \in Seq(S) /\ Range(s) = S
    BY <1>4, OrdersOf, AllOf
  <2>2. s \in Seq(Command)
    BY <1>4, <2>1, SeqMonotonic
  <2> QED
    BY <1>4, <2>1, <2>2, UniqueWithout
<1>6. /\ queue' \in Seq(Command) /\ Range(queue') = Range(queue) \cup S
      /\ Unique(queue')
  <2>1. queue \in Seq(Command) /\ Unique(queue)
    BY <1>1 DEF WorldTypes, CallsInv, CallsOK
  <2> QED
    BY <1>2, <1>4, <1>5, <2>1, ConcatOf
<1>7. Queued' = Queued \cup S
  BY <1>6, QueuedIs
<1>8. CallsInv'
  BY <1>1, <1>3, <1>4, <1>6, <1>7, CallStays
<1>9. WorldTypes'
  BY <1>1, <1>3, <1>4, <1>6 DEF WorldTypes, devVars
<1>10. queue # <<>> => queue' # <<>> /\ Head(queue') = Head(queue)
  <2>1. queue \in Seq(Command)
    BY <1>1 DEF WorldTypes
  <2> QED
    BY <1>2, <1>5, <2>1, ConcatProperties, EmptySeq, LenProperties
<1>11. MessagesInv'
  <2>1. UNCHANGED <<conv, qpc, sent, reported, removed, refused>>
    BY <1>3 DEF devVars
  <2>2. \A m \in S : ~m.new => conv[m.dev] # "none" \/ m.dev \in removed
    BY <1>1, <1>4 DEF MessagesInv, ForKnownOK
  <2> QED
    BY <1>1, <1>3, <1>4, <1>7, <1>9, <1>10, <2>1, <2>2, Grown
<1> QED
  BY <1>8, <1>11, Parts

LEMMA RemovePreparedInv ==
  ASSUME CommandsInv, NEW n \in 1 .. sends, RemovePrepared(n)
  PROVE  CommandsInv'
<1>1. CallsInv /\ MessagesInv /\ WorldTypes
  BY Parts DEF MessagesInv
<1>2. /\ prepared' = prepared \ PreparedBy(n)
      /\ UNCHANGED <<server, conv, queue, qpc, callVars, msgVars, devVars, sends, calls,
                     changes, failures>>
  BY DEF RemovePrepared
<1>3. CallsInv'
  BY <1>1, <1>2, CallSame
<1>4. WorldTypes'
  BY <1>1, <1>2 DEF WorldTypes, msgVars, devVars
<1>5. IsFiniteSet(prepared')
  BY <1>1, <1>2, FS_Subset DEF MessagesInv, CommandsOK
<1>6. Queued' = Queued /\ UNCHANGED <<conv, qpc, handed, sent, reported, removed, refused>>
  BY <1>2 DEF Queued, msgVars, devVars
<1>7. MessagesInv'
  BY <1>1, <1>2, <1>4, <1>5, <1>6, Grown
<1> QED
  BY <1>3, <1>7, Parts

LEMMA CallerInv ==
  ASSUME CommandsInv, NEW c \in Callers,
         \/ \E k \in Kinds, d \in Devices \cup {None} : Call(c, k, d)
         \/ Lock(c) \/ Enqueue(c) \/ Wake(c) \/ WakeSpuriously(c)
  PROVE  CommandsInv'
<1>1. CallsInv /\ MessagesInv /\ WorldTypes
  BY Parts DEF MessagesInv
<1>2. CallsInv' /\ queue' \in Seq(Command)
  <2>1. ASSUME NEW k \in Kinds, NEW d \in Devices \cup {None}, Call(c, k, d)
        PROVE  CallsInv' /\ queue' \in Seq(Command)
    BY <1>1, <2>1, CallInv DEF Call, WorldTypes
  <2>2. CASE Lock(c)
    BY <1>1, <2>2, LockInv DEF Lock, WorldTypes
  <2>3. CASE Enqueue(c)
    BY <1>1, <2>3, EnqueueInv
  <2>4. CASE Wake(c)
    BY <1>1, <2>4, WakeInv DEF Wake, WorldTypes
  <2>5. CASE WakeSpuriously(c)
    BY <1>1, <2>5, SpuriousInv DEF WakeSpuriously, WorldTypes
  <2> QED
    BY <2>1, <2>2, <2>3, <2>4, <2>5
<1>3. /\ UNCHANGED <<server, conv, prepared, qpc, msgVars, devVars, sends, changes, failures>>
      /\ calls' \in Nat
  BY <1>1 DEF Call, Lock, Enqueue, Wake, WakeSpuriously, WorldTypes
<1>4. WorldTypes'
  BY <1>1, <1>2, <1>3 DEF WorldTypes, msgVars, devVars
<1>5. UNCHANGED <<conv, prepared, qpc, handed, sent, reported, removed, refused>>
  BY <1>3 DEF msgVars, devVars
<1>6. CASE queue' = queue
  BY <1>1, <1>4, <1>5, <1>6, Unmoved, <1>2, Parts
<1>7. CASE Enqueue(c)
  <2>1. queue \in Seq(Command) /\ queue' = Append(queue, CommandOf(call[c]))
    BY <1>1, <1>7 DEF Enqueue, WorldTypes
  <2>2. CommandOf(call[c]) \in Command
    <3>1. call[c] \in CallIds
      BY <1>1, <1>7 DEF Enqueue, CallsInv, LocksOK
    <3> QED
      BY <3>1, CallFacts DEF CommandOf, Command
  <2>3. Queued' = Queued \cup {CommandOf(call[c])}
    BY <2>1, <2>2, AppendOf, QueuedIs
  <2>4. CommandOf(call[c]).cmd \in {"ReScanUserDevices", "ReKeyDevice"} /\ ~CommandOf(call[c]).new
    BY DEF CommandOf
  <2>5. queue # <<>> => queue' # <<>> /\ Head(queue') = Head(queue)
    BY <2>1, <2>2, AppendProperties, EmptySeq, LenProperties
  <2>6. IsFiniteSet(prepared')
    BY <1>1, <1>5 DEF MessagesInv, CommandsOK
  <2>7. MessagesInv'
    BY <1>1, <1>4, <1>5, <2>3, <2>4, <2>5, <2>6, Grown
  <2> QED
    BY <1>2, <2>7, Parts
<1>8. queue' = queue \/ Enqueue(c)
  BY DEF Call, Lock, Wake, WakeSpuriously
<1> QED
  BY <1>6, <1>7, <1>8

LEMMA DevicesChangeInv ==
  ASSUME CommandsInv, NEW d \in Devices, DevicesChange(d)
  PROVE  CommandsInv'
<1>1. CallsInv /\ MessagesInv /\ WorldTypes
  BY Parts DEF MessagesInv
<1>2. /\ server' \subseteq Devices /\ changes' \in Nat
      /\ UNCHANGED <<conv, prepared, queue, qpc, callVars, msgVars, devVars, sends, calls,
                     failures>>
  BY <1>1 DEF DevicesChange, Change, WorldTypes
<1>3. CallsInv'
  BY <1>1, <1>2, CallSame
<1>4. WorldTypes'
  BY <1>1, <1>2 DEF WorldTypes, msgVars, devVars
<1>5. UNCHANGED <<conv, prepared, queue, qpc, handed, sent, reported, removed, refused>>
  BY <1>2 DEF msgVars, devVars
<1> QED
  BY <1>1, <1>3, <1>4, <1>5, Unmoved, Parts

LEMMA ArriveInv ==
  ASSUME CommandsInv, NEW d \in Devices, Arrive(d)
  PROVE  CommandsInv'
<1> DEFINE r == [cmd |-> "ReceivedRawData", id |-> None, dev |-> d, new |-> FALSE,
                 call |-> None]
<1>1. CallsInv /\ MessagesInv /\ WorldTypes
  BY Parts DEF MessagesInv
<1>2. /\ queue' = Append(queue, r) /\ changes' \in Nat
      /\ UNCHANGED <<server, conv, prepared, qpc, callVars, msgVars, devVars, sends, calls,
                     failures>>
  BY <1>1 DEF Arrive, Change, WorldTypes
<1>3. r \in Command /\ r.cmd = "ReceivedRawData" /\ r.dev \in Devices /\ ~r.new /\ r.call = None
  BY DEF Command
<1> HIDE DEF r
<1>4. queue \in Seq(Command) /\ Unique(queue)
  BY <1>1 DEF WorldTypes, CallsInv, CallsOK
<1>5. queue' \in Seq(Command) /\ Unique(queue') /\ Queued' = Queued \cup {r}
  BY <1>2, <1>3, <1>4, AppendOf, QueuedIs
<1>6. CallsInv'
  BY <1>1, <1>2, <1>3, <1>5, CallStays
<1>7. WorldTypes'
  BY <1>1, <1>2, <1>5 DEF WorldTypes, msgVars, devVars
<1>8. queue # <<>> => queue' # <<>> /\ Head(queue') = Head(queue)
  BY <1>2, <1>3, <1>4, AppendProperties, EmptySeq, LenProperties
<1>9. UNCHANGED <<conv, prepared, qpc, handed, sent, reported, removed, refused>>
  BY <1>2 DEF msgVars, devVars
<1>10. IsFiniteSet(prepared')
  BY <1>1, <1>9 DEF MessagesInv, CommandsOK
<1>11. MessagesInv'
  BY <1>1, <1>3, <1>5, <1>7, <1>8, <1>9, <1>10, Grown
<1> QED
  BY <1>6, <1>11, Parts

----------------------------------------------------------------------------
(* The thread of the run queue.                                            *)

LEMMA FirstIs ==
  ASSUME CommandsInv, queue # <<>>
  PROVE  /\ CallsInv /\ MessagesInv /\ WorldTypes
         /\ First \in Command /\ Tail(queue) \in Seq(Command)
         /\ First.cmd \in {"SendMessage", "ReceivedRawData"} => First.dev \in Devices
         /\ First.new => First.cmd = "SendMessage"
         /\ AppOnly(First.id) \subseteq MessageId
         /\ First \in handed =>
              First.cmd = "SendMessage" /\ AppOnly(First.id) = {First.id}
         /\ \A m \in Range(Tail(queue)) : m \in Queued /\ m \in Command
<1>1. CallsInv /\ MessagesInv /\ WorldTypes
  BY Parts DEF MessagesInv
<1>2. /\ First \in Command /\ First \in Queued /\ Tail(queue) \in Seq(Command)
      /\ Queued = {First} \cup Range(Tail(queue))
  BY <1>1, Taken
<1>3. AppOnly(First.id) \subseteq MessageId
  BY <1>2 DEF AppOnly, Command
<1>4. First \in handed => First.cmd = "SendMessage" /\ AppOnly(First.id) = {First.id}
  BY <1>1 DEF MessagesInv, CommandsOK, AppOnly
<1> QED
  BY <1>1, <1>2, <1>3, <1>4, RangeOf DEF MessagesInv, CommandsOK

\* A message of the app: its device is known, but for one that was deleted.
LEMMA SendExistingInv ==
  ASSUME CommandsInv, SendExisting
  PROVE  CommandsInv'
<1>1. /\ queue # <<>> /\ qpc = "idle" /\ First.cmd = "SendMessage"
      /\ ~First.new \/ conv[First.dev] = "session"
      /\ Encrypt(First.dev, First.id) /\ ActionCallback(First.call)
      /\ queue' = Tail(queue)
      /\ UNCHANGED <<server, conv, prepared, qpc, handed, devVars, sends, calls, changes,
                     failures>>
  BY DEF SendExisting, Turn
<1>2. CallsInv' /\ Queued' = Range(Tail(queue))
  BY <1>1, FirstIs, DoneCalls, QueuedIs
<1>3. WorldTypes'
  BY <1>1, FirstIs DEF WorldTypes, devVars, Encrypt
<1>4. First \in handed => First.id \in sent' \cup reported' \/ First.dev \in removed'
  <2> SUFFICES ASSUME First \in handed
               PROVE  First.id \in sent' \cup reported' \/ First.dev \in removed'
    OBVIOUS
  <2>1. conv[First.dev] = "session" => First.id \in sent'
    BY <1>1, FirstIs DEF Encrypt
  <2>2. conv[First.dev] = "empty" => First.id \in reported'
    BY <1>1, FirstIs DEF Encrypt
  <2>3. conv[First.dev] = "none" => First.dev \in removed
    BY <1>1, FirstIs, Taken DEF MessagesInv, ForKnownOK
  <2>4. conv[First.dev] \in {"none", "empty", "session"}
    BY <1>1, FirstIs DEF WorldTypes
  <2> QED
    BY <1>1, <2>1, <2>2, <2>3, <2>4 DEF devVars
<1>5. sent \subseteq sent' /\ reported \subseteq reported'
  BY <1>1 DEF Encrypt
<1>6. \A d \in Devices : conv[d] = "empty" /\ First.dev = d => ~First.new
  BY <1>1
<1>7. UNCHANGED <<conv, prepared, qpc, handed, removed, refused>>
  BY <1>1 DEF devVars
<1>8. \A d \in Devices : conv'[d] = "empty" =>
          d \in refused' \/ (conv[d] = "empty" /\ d \notin refused /\
                             (First.dev = d => ~First.new /\ qpc = "idle"))
  BY <1>1, <1>6, <1>7
<1>9. MessagesInv'
  BY <1>1, <1>2, <1>3, <1>4, <1>5, <1>7, <1>8, FirstIs, Handled
<1> QED
  BY <1>2, <1>9, Parts

LEMMA SendNewUserInv ==
  ASSUME CommandsInv, SendNewUser
  PROVE  CommandsInv'
<1>1. /\ queue # <<>> /\ qpc = "idle" /\ First.cmd = "SendMessage"
      /\ conv' = [conv EXCEPT ![First.dev] = "session"]
      /\ refused' = refused \ {First.dev}
      /\ sent' = sent \cup AppOnly(First.id)
      /\ ActionCallback(First.call) /\ queue' = Tail(queue)
      /\ UNCHANGED <<server, prepared, qpc, handed, reported, removed, listed, sends,
                     calls, changes, failures>>
  BY DEF SendNewUser, SendNew, Turn
<1>2. CallsInv' /\ Queued' = Range(Tail(queue))
  BY <1>1, FirstIs, DoneCalls, QueuedIs
<1>3. First.dev \in Devices /\ conv \in [Devices -> {"none", "empty", "session"}]
  BY <1>1, FirstIs DEF WorldTypes
<1>4. /\ conv' \in [Devices -> {"none", "empty", "session"}]
      /\ conv'[First.dev] = "session" /\ \A d \in Devices : d # First.dev => conv'[d] = conv[d]
  BY <1>1, <1>3
<1>5. WorldTypes'
  BY <1>1, <1>4, FirstIs DEF WorldTypes
<1>6. First \in handed => First.id \in sent'
  BY <1>1, FirstIs
<1>7. \A d \in Devices : conv'[d] = "none" => conv[d] = "none"
  BY <1>4
<1>8. \A d \in Devices : conv'[d] = "empty" =>
          d \in refused' \/ (conv[d] = "empty" /\ d \notin refused /\ First.dev # d)
  BY <1>1, <1>4
<1>9. MessagesInv'
  BY <1>1, <1>2, <1>5, <1>6, <1>7, <1>8, FirstIs, Handled
<1> QED
  BY <1>2, <1>9, Parts

LEMMA SendNoBundleInv ==
  ASSUME CommandsInv, SendNoBundle
  PROVE  CommandsInv'
<1>1. /\ queue # <<>> /\ qpc = "idle" /\ First.cmd = "SendMessage"
      /\ refused' = refused \cup {First.dev} /\ listed' = listed \ {First.dev}
      /\ reported' = reported \cup AppOnly(First.id)
      /\ ActionCallback(First.call) /\ queue' = Tail(queue)
      /\ UNCHANGED <<server, conv, prepared, qpc, handed, sent, removed, sends, calls, changes>>
      /\ failures' = failures \/ failures' = failures + 1
  BY DEF SendNoBundle, SendNew, Turn, Fail
<1>2. CallsInv' /\ Queued' = Range(Tail(queue))
  BY <1>1, FirstIs, DoneCalls, QueuedIs
<1>3. First.dev \in Devices
  BY <1>1, FirstIs
<1>4. WorldTypes'
  BY <1>1, <1>3, FirstIs DEF WorldTypes
<1>5. First \in handed => First.id \in reported'
  BY <1>1, FirstIs
<1>6. \A d \in Devices : conv'[d] = "empty" =>
          d \in refused' \/ (conv[d] = "empty" /\ d \notin refused /\ First.dev # d)
  BY <1>1
<1>7. MessagesInv'
  BY <1>1, <1>2, <1>4, <1>5, <1>6, FirstIs, Handled
<1> QED
  BY <1>2, <1>7, Parts

\* Deleting conversations leaves a trace in `removed'.
LEMMA DeleteIs ==
  ASSUME WorldTypes, NEW S, S \subseteq Devices, Delete(S)
  PROVE  /\ conv' \in [Devices -> {"none", "empty", "session"}]
         /\ removed \subseteq removed' /\ removed' \subseteq Devices
         /\ \A d \in Devices : /\ d \in S => conv'[d] = "none"
                               /\ d \notin S => conv'[d] = conv[d]
                               /\ conv'[d] = "none" => conv[d] = "none" \/ d \in removed'
  BY DEF Delete, WorldTypes, Known

\* The pings of a re-scan, and the queue with them.
LEMMA PingsAre ==
  ASSUME CommandsInv, queue # <<>>, NEW new \in Orders(NewOnes), NEW last \in server,
         queue' = Tail(queue) \o Append(Pings(new), Ping(last, First.call))
  PROVE  /\ queue' \in Seq(Command) /\ Unique(queue')
         /\ Range(Tail(queue)) \subseteq Queued'
         /\ \A m \in Queued' : m \in Range(Tail(queue)) \/
              (/\ m.cmd = "SendMessage" /\ m.new /\ m.dev \in Devices
               /\ m.call \in {None, First.call})
<1> DEFINE p == Pings(new)
           q == Ping(last, First.call)
           t == Tail(queue)
<1>1. CallsInv /\ WorldTypes /\ t \in Seq(Command) /\ First \in Command
  BY FirstIs
<1>2. NewOnes \subseteq Devices /\ IsFiniteSet(NewOnes) /\ last \in Devices
  BY <1>1, FS_Subset DEF NewOnes, WorldTypes
<1>3. new \in Seq(NewOnes) /\ Len(new) \in Nat /\ \A i \in 1 .. Len(new) : new[i] \in Devices
  BY <1>2, OrdersOf, ElementOfSeq
<1>4. \A i \in 1 .. Len(new) : Ping(new[i], None) \in Command
  BY <1>3 DEF Ping, Command
<1>5. /\ p \in Seq(Command) /\ DOMAIN p = 1 .. Len(new)
      /\ \A i \in 1 .. Len(new) : p[i] = Ping(new[i], None)
  BY <1>3, <1>4, IsASeq DEF Pings
<1>6. \A m \in Range(p) : /\ m.cmd = "SendMessage" /\ m.new /\ m.dev \in Devices
                          /\ m.call = None
  BY <1>3, <1>5 DEF Range, Ping
<1>7. q \in Command /\ q.cmd = "SendMessage" /\ q.new /\ q.dev \in Devices
      /\ q.call = First.call
  BY <1>1, <1>2 DEF Ping, Command
<1> HIDE DEF p, q, t
<1>8. Unique(p)
  BY <1>6, UniqueWithout
<1>9. /\ Append(p, q) \in Seq(Command) /\ Range(Append(p, q)) = Range(p) \cup {q}
      /\ Unique(Append(p, q))
  BY <1>5, <1>6, <1>7, <1>8, AppendOf
<1>10. \A x \in Range(t), y \in Range(Append(p, q)) : x.call # None => y.call # x.call
  BY <1>1, <1>6, <1>7, <1>9, Taken DEF t
<1>11. /\ queue' \in Seq(Command) /\ Range(queue') = Range(t) \cup Range(Append(p, q))
       /\ Unique(queue')
  <2>1. queue' = t \o Append(p, q)
    BY DEF t, p, q
  <2> DEFINE s == Append(p, q)
  <2>2. Unique(t) /\ t \in Seq(Command) /\ s \in Seq(Command) /\ Unique(s)
    BY <1>1, <1>9, Taken DEF t
  <2>3. \A x \in Range(t), y \in Range(s) : x.call # None => y.call # x.call
    BY <1>10
  <2> HIDE DEF s
  <2>4. t \o s \in Seq(Command) /\ Range(t \o s) = Range(t) \cup Range(s) /\ Unique(t \o s)
    BY <2>2, <2>3, ConcatOf
  <2> QED
    BY <2>1, <2>4 DEF s
<1> QED
  BY <1>6, <1>7, <1>9, <1>11, QueuedIs DEF t

LEMMA RescanInv ==
  ASSUME CommandsInv, Rescan
  PROVE  CommandsInv'
<1> DEFINE t == Tail(queue)
<1>1. /\ queue # <<>> /\ qpc = "idle" /\ First.cmd = "ReScanUserDevices"
      /\ Delete(Known \ server) /\ listed' = server
      /\ UNCHANGED <<server, prepared, qpc, msgVars, refused, sends, calls, changes, failures>>
  BY DEF Rescan, Turn
<1>2. PICK new \in Orders(NewOnes), last \in server :
        IF new = <<>>
        THEN queue' = Tail(queue) /\ ActionCallback(First.call)
        ELSE /\ queue' = Tail(queue) \o Append(Pings(new), Ping(last, First.call))
             /\ UNCHANGED callVars
  BY DEF Rescan
<1>3. /\ CallsInv' /\ queue' \in Seq(Command) /\ Range(t) \subseteq Queued'
      /\ \A m \in Queued' : m \in Range(t) \/
           (m.cmd = "SendMessage" /\ m.new /\ m.dev \in Devices)
  <2>1. CASE new = <<>>
    BY <1>1, <1>2, <2>1, FirstIs, DoneCalls, QueuedIs
  <2>2. CASE new # <<>>
    <3>1. /\ queue' = Tail(queue) \o Append(Pings(new), Ping(last, First.call))
          /\ UNCHANGED callVars
      BY <1>2, <2>2
    <3>2. /\ queue' \in Seq(Command) /\ Unique(queue')
          /\ Range(t) \subseteq Queued'
          /\ \A m \in Queued' : m \in Range(t) \/
               (/\ m.cmd = "SendMessage" /\ m.new /\ m.dev \in Devices
                /\ m.call \in {None, First.call})
      BY <1>1, <3>1, PingsAre
    <3>3. \A m \in Queued' : m.call # None => \E x \in Queued : x.call = m.call
      BY <1>1, <3>2, FirstIs, Taken
    <3>4. CallsInv'
      BY <1>1, <3>1, <3>2, <3>3, FirstIs, CallStays
    <3> QED
      BY <3>2, <3>4
  <2> QED
    BY <2>1, <2>2
<1>4. /\ conv' \in [Devices -> {"none", "empty", "session"}]
      /\ removed \subseteq removed' /\ removed' \subseteq Devices
      /\ \A d \in Devices : /\ d \in Known \ server => conv'[d] = "none"
                            /\ d \notin Known \ server => conv'[d] = conv[d]
                            /\ conv'[d] = "none" => conv[d] = "none" \/ d \in removed'
  <2>1. Known \ server \subseteq Devices
    BY DEF Known
  <2> QED
    BY <1>1, <2>1, FirstIs, DeleteIs
<1>5. WorldTypes'
  BY <1>1, <1>3, <1>4, FirstIs DEF WorldTypes, msgVars
<1>6. First \notin handed /\ ~First.new
  BY <1>1, FirstIs
<1>7. UNCHANGED <<prepared, qpc, handed, sent, reported, refused>>
  BY <1>1 DEF msgVars
<1>8. \A d \in Devices : conv'[d] = "empty" =>
          d \in refused' \/ (conv[d] = "empty" /\ d \notin refused /\
                             (First.dev = d => ~First.new /\ qpc = "idle"))
  BY <1>1, <1>4, <1>6
<1>9. MessagesInv'
  BY <1>1, <1>3, <1>4, <1>5, <1>6, <1>7, <1>8, FirstIs, Handled
<1> QED
  BY <1>3, <1>9, Parts

\* A command that ends without any message or conversation.
LEMMA QuietEnd ==
  ASSUME CommandsInv, queue # <<>>, qpc = "idle", queue' = Tail(queue),
         ActionCallback(First.call), First.cmd # "SendMessage",
         listed' \subseteq Devices, failures' \in Nat,
         UNCHANGED <<server, conv, prepared, qpc, msgVars, removed, refused, sends, calls,
                     changes>>
  PROVE  CommandsInv'
<1>1. CallsInv' /\ Queued' = Range(Tail(queue))
  BY FirstIs, DoneCalls, QueuedIs
<1>2. WorldTypes'
  BY FirstIs DEF WorldTypes, msgVars
<1>3. First \notin handed /\ ~First.new
  BY FirstIs
<1>4. UNCHANGED <<handed, sent, reported>>
  BY DEF msgVars
<1>5. MessagesInv'
  BY <1>1, <1>2, <1>3, <1>4, FirstIs, Handled
<1> QED
  BY <1>1, <1>5, Parts

LEMMA QuietEndsInv ==
  ASSUME CommandsInv, RescanFails \/ ReKeyUnknown
  PROVE  CommandsInv'
<1>1. queue # <<>> /\ qpc = "idle" /\ First.cmd # "SendMessage"
  BY DEF RescanFails, ReKeyUnknown, Turn
<1>2. failures \in Nat /\ listed \subseteq Devices
  BY <1>1, FirstIs DEF WorldTypes
<1>3. CASE RescanFails
  <2>1. failures' \in Nat /\ listed' \subseteq Devices
    BY <1>2, <1>3 DEF RescanFails, Fail
  <2> QED
    BY <1>1, <1>3, <2>1, QuietEnd DEF RescanFails
<1>4. CASE ReKeyUnknown
  BY <1>1, <1>2, <1>4, QuietEnd DEF ReKeyUnknown, devVars
<1> QED
  BY <1>3, <1>4

LEMMA ReKeyResetInv ==
  ASSUME CommandsInv, ReKeyReset
  PROVE  CommandsInv'
<1>1. /\ queue # <<>> /\ First.cmd = "ReKeyDevice" /\ First.dev \in Known
      /\ conv' = [conv EXCEPT ![First.dev] = "empty"] /\ qpc' = "reset"
      /\ UNCHANGED <<server, prepared, queue, callVars, msgVars, devVars, sends, calls,
                     changes, failures>>
  BY DEF ReKeyReset, Turn
<1>2. CallsInv'
  BY <1>1, FirstIs, CallSame
<1>3. conv \in [Devices -> {"none", "empty", "session"}] /\ First.dev \in Devices
  BY <1>1, FirstIs DEF WorldTypes, Known
<1>4. /\ conv' \in [Devices -> {"none", "empty", "session"}]
      /\ conv'[First.dev] = "empty" /\ \A d \in Devices : d # First.dev => conv'[d] = conv[d]
  BY <1>1, <1>3
<1>5. WorldTypes'
  BY <1>1, <1>4, FirstIs DEF WorldTypes, msgVars, devVars
<1>6. First' = First /\ Queued' = Queued
  BY <1>1 DEF First, Queued
<1>7. UNCHANGED <<prepared, handed, sent, reported, removed, refused>>
  BY <1>1 DEF msgVars, devVars
<1>8. CommandsOK'
  BY <1>1, <1>6, <1>7, FirstIs DEF MessagesInv, CommandsOK
<1>9. ForKnownOK'
  <2> SUFFICES ASSUME NEW m \in prepared \cup Queued, m.cmd = "SendMessage", ~m.new
               PROVE  conv'[m.dev] # "none" \/ m.dev \in removed
    BY <1>6, <1>7 DEF ForKnownOK
  <2>1. m.dev \in Devices /\ (conv[m.dev] # "none" \/ m.dev \in removed)
    BY <1>1, FirstIs DEF MessagesInv, ForKnownOK, CommandsOK
  <2> QED
    BY <1>4, <2>1
<1>10. SilentOnlyIfRemoved'
  BY <1>1, <1>6, <1>7, FirstIs DEF MessagesInv, SilentOnlyIfRemoved, Answered
<1>11. EmptyIsTemporary'
  <2> SUFFICES ASSUME NEW d \in Devices, conv'[d] = "empty"
               PROVE  \/ \E m \in Queued : m.dev = d /\ m.new
                      \/ First.dev = d
                      \/ d \in refused
    BY <1>1, <1>6, <1>7 DEF EmptyIsTemporary
  <2> QED
    BY <1>1, <1>4, FirstIs DEF MessagesInv, EmptyIsTemporary
<1>12. MessagesInv'
  BY <1>5, <1>8, <1>9, <1>10, <1>11 DEF MessagesInv
<1> QED
  BY <1>2, <1>12, Parts

LEMMA InReset ==
  ASSUME CommandsInv, qpc = "reset"
  PROVE  queue # <<>> /\ First.cmd = "ReKeyDevice" /\ First \notin handed /\ ~First.new
<1>1. queue # <<>> /\ First.cmd = "ReKeyDevice"
  BY DEF CommandsInv, CommandsOK
<1> QED
  BY <1>1, FirstIs

LEMMA ReKeyPingInv ==
  ASSUME CommandsInv, ReKeyPing
  PROVE  CommandsInv'
<1> DEFINE p == Ping(First.dev, First.call)
<1>1. /\ First.dev \in server /\ queue' = Append(Tail(queue), p) /\ qpc' = "idle"
      /\ UNCHANGED <<server, conv, prepared, callVars, msgVars, devVars, sends, calls,
                     changes, failures>>
      /\ queue # <<>> /\ First \notin handed
  BY InReset DEF ReKeyPing
<1>2. First.dev \in Devices
  BY <1>1, FirstIs DEF WorldTypes
<1>3. /\ p \in Command /\ p.cmd = "SendMessage" /\ p.new /\ p.dev = First.dev
      /\ p.call = First.call
  BY <1>1, <1>2, FirstIs DEF Ping, Command
<1> HIDE DEF p
<1>4. /\ queue' \in Seq(Command) /\ Unique(queue')
      /\ Queued' = Range(Tail(queue)) \cup {p}
  <2> DEFINE t == Tail(queue)
  <2>1. /\ t \in Seq(Command) /\ Unique(t)
        /\ \A x \in Range(t) : p.call # None => x.call # p.call
    BY <1>1, <1>3, FirstIs, Taken
  <2>2. queue' = Append(t, p)
    BY <1>1 DEF p
  <2> HIDE DEF t
  <2>3. queue' \in Seq(Command) /\ Unique(queue') /\ Range(queue') = Range(t) \cup {p}
    BY <1>3, <2>1, <2>2, AppendOf
  <2> QED
    BY <2>3, QueuedIs DEF t
<1>5. \A m \in Queued' : m.call # None => \E x \in Queued : x.call = m.call
  BY <1>1, <1>3, <1>4, FirstIs, Taken
<1>6. CallsInv'
  BY <1>1, <1>4, <1>5, FirstIs, CallStays
<1>7. WorldTypes'
  BY <1>1, <1>4, FirstIs DEF WorldTypes, msgVars, devVars
<1>8. UNCHANGED <<conv, prepared, handed, sent, reported, removed, refused>>
  BY <1>1 DEF msgVars, devVars
<1>9. \A d \in Devices : conv'[d] = "empty" =>
          \/ d \in refused'
          \/ \E m \in Queued' : m.dev = d /\ m.new
          \/ conv[d] = "empty" /\ d \notin refused /\ First.dev # d
  BY <1>3, <1>4, <1>8
<1>10. MessagesInv'
  BY <1>1, <1>2, <1>3, <1>4, <1>7, <1>8, <1>9, FirstIs, Handled
<1> QED
  BY <1>6, <1>10, Parts

LEMMA ReKeyDeleteInv ==
  ASSUME CommandsInv, ReKeyDelete
  PROVE  CommandsInv'
<1>1. /\ queue # <<>> /\ First \notin handed
      /\ listed' = listed \ removed'
      /\ queue' = Tail(queue) /\ qpc' = "idle" /\ ActionCallback(First.call)
      /\ UNCHANGED <<server, prepared, msgVars, refused, sends, calls, changes>>
  BY InReset DEF ReKeyDelete
<1>2. CallsInv' /\ Queued' = Range(Tail(queue))
  BY <1>1, FirstIs, DoneCalls, QueuedIs
\* The device of the command is among those that are deleted, if it is one at all.
<1>3. PICK S \in SUBSET Devices : Delete(S) /\ (First.dev \in Devices => First.dev \in S)
  <2>1. CASE Delete(Devices)
    BY <2>1
  <2>2. CASE Delete({First.dev})
    <3>1. CASE First.dev \in Devices
      BY <2>2, <3>1
    <3>2. CASE First.dev \notin Devices
      <4>1. Delete({})
        BY <2>2, <3>2 DEF Delete, Known
      <4> QED
        BY <3>2, <4>1
    <3> QED
      BY <3>1, <3>2
  <2> QED
    BY <2>1, <2>2 DEF ReKeyDelete
<1>4. failures' \in Nat
  <2>1. failures \in Nat
    BY <1>1, FirstIs DEF WorldTypes
  <2> QED
    BY <2>1 DEF ReKeyDelete, Fail
<1>5. /\ conv' \in [Devices -> {"none", "empty", "session"}]
      /\ removed \subseteq removed' /\ removed' \subseteq Devices
      /\ \A d \in Devices : /\ d \in S => conv'[d] = "none"
                            /\ d \notin S => conv'[d] = conv[d]
                            /\ conv'[d] = "none" => conv[d] = "none" \/ d \in removed'
  BY <1>1, <1>3, FirstIs, DeleteIs
<1>6. WorldTypes'
  BY <1>1, <1>4, <1>5, FirstIs DEF WorldTypes, msgVars
<1>7. UNCHANGED <<prepared, handed, sent, reported, refused>>
  BY <1>1 DEF msgVars
<1>8. \A d \in Devices : conv'[d] = "empty" =>
          d \in refused' \/ (conv[d] = "empty" /\ d \notin refused /\ First.dev # d)
  BY <1>3, <1>5, <1>7
<1>9. MessagesInv'
  BY <1>1, <1>2, <1>5, <1>6, <1>7, <1>8, FirstIs, Handled
<1> QED
  BY <1>2, <1>9, Parts

LEMMA RunReceiveInv ==
  ASSUME CommandsInv, RunReceive
  PROVE  CommandsInv'
<1>1. /\ queue # <<>> /\ qpc = "idle" /\ First.cmd = "ReceivedRawData"
      /\ conv' = [conv EXCEPT ![First.dev] = "session"]
      /\ refused' = refused \ {First.dev} /\ queue' = Tail(queue)
      /\ UNCHANGED <<server, prepared, qpc, callVars, msgVars, removed, listed, sends,
                     calls, changes, failures>>
  BY DEF RunReceive, Turn
<1>2. Queued' = Range(Tail(queue)) /\ First \notin handed
  BY <1>1, FirstIs, QueuedIs
<1>3. CallsInv'
  BY <1>1, <1>2, FirstIs, Taken, CallStays
<1>4. First.dev \in Devices /\ conv \in [Devices -> {"none", "empty", "session"}]
  BY <1>1, FirstIs DEF WorldTypes
<1>5. /\ conv' \in [Devices -> {"none", "empty", "session"}]
      /\ conv'[First.dev] = "session" /\ \A d \in Devices : d # First.dev => conv'[d] = conv[d]
  BY <1>1, <1>4
<1>6. WorldTypes'
  BY <1>1, <1>5, FirstIs DEF WorldTypes, msgVars
<1>7. \A d \in Devices : conv'[d] = "none" => conv[d] = "none"
  BY <1>5
<1>8. \A d \in Devices : conv'[d] = "empty" =>
          d \in refused' \/ (conv[d] = "empty" /\ d \notin refused /\ First.dev # d)
  BY <1>1, <1>5
<1>9. UNCHANGED <<prepared, qpc, handed, sent, reported, removed>>
  BY <1>1 DEF msgVars
<1>10. MessagesInv'
  BY <1>1, <1>2, <1>6, <1>7, <1>8, <1>9, FirstIs, Handled
<1> QED
  BY <1>3, <1>10, Parts

----------------------------------------------------------------------------
(* The theorems.                                                           *)

LEMMA InitInv == Init => CommandsInv
<1> SUFFICES ASSUME Init PROVE CommandsInv
  OBVIOUS
<1>1. /\ prepared = {} /\ queue = <<>> /\ qpc = "idle" /\ handed = {} /\ returned = {}
      /\ pc = [c \in Callers |-> "idle"] /\ server \subseteq Devices
      /\ \A d \in Devices : conv[d] # "empty"
      /\ conv \in [Devices -> {"none", "empty", "session"}]
  BY DEF Init
<1>2. Queued = {} /\ Unique(queue)
  BY <1>1 DEF Queued, Unique
<1>3. CallTypes
  BY DEF Init, CallTypes
<1>4. WorldTypes
  BY <1>1 DEF Init, WorldTypes
<1>5. CallsInv
  BY <1>1, <1>2, <1>3 DEF CallsInv, LocksOK, FlagsOK, CallsOK, ReturnMeansRun, Inside
<1>6. IsFiniteSet(prepared)
  BY <1>1, FS_EmptySet
<1>7. MessagesInv
  BY <1>1, <1>2, <1>4, <1>6 DEF MessagesInv, CommandsOK, ForKnownOK, SilentOnlyIfRemoved,
     EmptyIsTemporary
<1> QED
  BY <1>5, <1>7, Parts

LEMMA StutterInv == CommandsInv /\ UNCHANGED vars => CommandsInv'
<1> SUFFICES ASSUME CommandsInv, UNCHANGED vars PROVE CommandsInv'
  OBVIOUS
<1>1. UNCHANGED <<server, conv, prepared, queue, qpc, callVars, msgVars, devVars, sends,
                  calls, changes, failures>>
  BY DEF vars
<1>2. CallsInv /\ MessagesInv /\ WorldTypes
  BY Parts DEF MessagesInv
<1>3. CallsInv'
  BY <1>1, <1>2, CallSame
<1>4. WorldTypes' /\ UNCHANGED <<handed, sent, reported, removed, refused>>
  BY <1>1, <1>2 DEF WorldTypes, msgVars, devVars
<1>5. MessagesInv'
  BY <1>1, <1>2, <1>4, Unmoved
<1> QED
  BY <1>3, <1>5, Parts

LEMMA NextInv == CommandsInv /\ [Next]_vars => CommandsInv'
<1> SUFFICES ASSUME CommandsInv, [Next]_vars PROVE CommandsInv'
  OBVIOUS
<1>1. CASE Prepare
  BY <1>1, PrepareInv
<1>2. CASE \E n \in 1 .. sends : DoSend(n) \/ RemovePrepared(n)
  BY <1>2, DoSendInv, RemovePreparedInv
<1>3. ASSUME NEW c \in Scanners, Call(c, "scan", None) PROVE CommandsInv'
  BY <1>3, CallerInv DEF Callers, Kinds
<1>4. ASSUME NEW c \in Keyers, NEW d \in Devices, Call(c, "key", d) PROVE CommandsInv'
  BY <1>4, CallerInv DEF Callers, Kinds
<1>5. ASSUME NEW c \in Callers, CallerStep(c) \/ WakeSpuriously(c) PROVE CommandsInv'
  BY <1>5, CallerInv DEF CallerStep
<1>6. CASE QueueStep
  <2>1. CASE SendExisting
    BY <2>1, SendExistingInv
  <2>2. CASE SendNewUser
    BY <2>2, SendNewUserInv
  <2>3. CASE SendNoBundle
    BY <2>3, SendNoBundleInv
  <2>4. CASE Rescan
    BY <2>4, RescanInv
  <2>5. CASE RescanFails \/ ReKeyUnknown
    BY <2>5, QuietEndsInv
  <2>6. CASE ReKeyReset
    BY <2>6, ReKeyResetInv
  <2>7. CASE ReKeyPing
    BY <2>7, ReKeyPingInv
  <2>8. CASE ReKeyDelete
    BY <2>8, ReKeyDeleteInv
  <2>9. CASE RunReceive
    BY <2>9, RunReceiveInv
  <2> QED
    BY <1>6, <2>1, <2>2, <2>3, <2>4, <2>5, <2>6, <2>7, <2>8, <2>9 DEF QueueStep
<1>7. ASSUME NEW d \in Devices, DevicesChange(d) \/ Arrive(d) PROVE CommandsInv'
  BY <1>7, DevicesChangeInv, ArriveInv
<1>8. CASE UNCHANGED vars
  BY <1>8, StutterInv
<1> QED
  BY <1>1, <1>2, <1>3, <1>4, <1>5, <1>6, <1>7, <1>8 DEF Next

LEMMA Inductive == Spec => []CommandsInv
<1>1. Init => CommandsInv
  BY InitInv
<1>2. CommandsInv /\ [Next]_vars => CommandsInv'
  BY NextInv
<1> QED
  BY <1>1, <1>2, PTL DEF Spec

\* Types of queue, conversations and callers (the run queue and its clients).
THEOREM TypeCorrect == Spec => []TypeOK
<1>1. CommandsInv => TypeOK
  BY DEF CommandsInv
<1> QED
  BY <1>1, Inductive, PTL

\* rescanUserDevices and reKeyDevice return after their own command, for any number
\* of threads that share the two flags and the condition variable, and whatever wakes
\* them.
THEOREM CallsReturnAfterRun == Spec => []ReturnMeansRun
<1>1. CommandsInv => ReturnMeansRun
  BY DEF CommandsInv
<1> QED
  BY <1>1, Inductive, PTL

\* A message handed to the run queue is sent or reported, unless the conversation of
\* its device was deleted in between (sendMessageExisting).
THEOREM MessagesAreAnswered == Spec => []SilentOnlyIfRemoved
<1>1. CommandsInv => SilentOnlyIfRemoved
  BY DEF CommandsInv
<1> QED
  BY <1>1, Inductive, PTL

\* A conversation emptied by a re-keying gets a ping that sets it up again, however
\* commands are queued, or the server refused the device (reKeyDeviceCommand).
THEOREM EmptyGetsSession == Spec => []EmptyIsTemporary
<1>1. CommandsInv => EmptyIsTemporary
  BY DEF CommandsInv
<1> QED
  BY <1>1, Inductive, PTL

----------------------------------------------------------------------------
(* Re-scans.                                                               *)

\* Commands are added behind the others, the conversations stay.
LEMMA ScanGrown ==
  ASSUME WorldTypes, ScansOK, NEW s \in Seq(Command), queue' = queue \o s,
         \A m \in Range(s) : CarriesOK(m) /\ ~EndsScan(m),
         listed' \subseteq listed,
         \A d \in listed' : conv[d] # "none" => conv'[d] # "none"
  PROVE  ScansOK'
<1>1. /\ queue \in Seq(Command) /\ Len(queue) \in Nat /\ Len(s) \in Nat
      /\ DOMAIN queue = 1 .. Len(queue) /\ DOMAIN s = 1 .. Len(s)
      /\ DOMAIN queue' = 1 .. Len(queue) + Len(s)
      /\ \A i \in 1 .. Len(queue) + Len(s) :
           queue'[i] = IF i <= Len(queue) THEN queue[i] ELSE s[i - Len(queue)]
  BY ConcatProperties, LenProperties DEF WorldTypes
<1>2. ASSUME NEW m \in Queued' PROVE CarriesOK(m)
  <2>1. m \in Range(queue) \/ m \in Range(s)
    BY <1>1, ConcatOf, QueuedIs
  <2> QED
    BY <2>1, QueuedIs DEF ScansOK
<1>3. ASSUME NEW n \in DOMAIN queue', EndsScan(queue'[n]), NEW d \in listed',
             conv'[d] = "none"
      PROVE  Connects(queue', n, d)
  <2>1. n \in DOMAIN queue /\ queue'[n] = queue[n]
    <3>1. CASE n > Len(queue)
      <4>1. n - Len(queue) \in 1 .. Len(s) /\ queue'[n] = s[n - Len(queue)]
        BY <1>1, <3>1
      <4>2. queue'[n] \in Range(s)
        BY <1>1, <4>1 DEF Range
      <4> QED
        BY <1>3, <4>2
    <3>2. CASE n <= Len(queue)
      BY <1>1, <3>2
    <3> QED
      BY <1>1, <3>1, <3>2
  <2>2. Connects(queue, n, d)
    BY <1>3, <2>1 DEF ScansOK
  <2>3. PICK i \in DOMAIN queue : i <= n /\ queue[i].new /\ queue[i].dev = d
    BY <2>2 DEF Connects
  <2>4. i \in DOMAIN queue' /\ queue'[i] = queue[i]
    BY <1>1
  <2> QED
    BY <2>3, <2>4 DEF Connects
<1>4. (ScansOK)' <=>
        /\ \A m \in Queued' : CarriesOK(m)
        /\ \A n \in DOMAIN queue' : EndsScan(queue'[n]) =>
             \A d \in listed' : conv'[d] # "none" \/ Connects(queue', n, d)
  BY DEF ScansOK
<1> QED
  BY <1>2, <1>3, <1>4

\* The first command is handled: if it was to connect a device, it has, or the device
\* is not asked for any more.
LEMMA ScanHandled ==
  ASSUME WorldTypes, ScansOK, queue # <<>>, NEW s \in Seq(Command),
         queue' = Tail(queue) \o s,
         \A m \in Range(s) : CarriesOK(m) /\ ~EndsScan(m),
         listed' \subseteq listed,
         \A d \in listed' :
             conv[d] # "none" \/ (First.new /\ First.dev = d) => conv'[d] # "none"
  PROVE  ScansOK'
<1> DEFINE t == Tail(queue)
<1>1. /\ queue \in Seq(Command) /\ Len(queue) \in Nat /\ Len(s) \in Nat /\ Len(queue) > 0
      /\ DOMAIN queue = 1 .. Len(queue) /\ DOMAIN s = 1 .. Len(s)
      /\ First = queue[1]
      /\ t \in Seq(Command) /\ Len(t) = Len(queue) - 1
      /\ \A i \in 1 .. Len(queue) - 1 : t[i] = queue[i + 1]
  BY HeadTailProperties, LenProperties, EmptySeq DEF WorldTypes, First
<1> HIDE DEF t
<1>2. /\ DOMAIN queue' = 1 .. Len(t) + Len(s)
      /\ \A i \in 1 .. Len(t) + Len(s) :
           queue'[i] = IF i <= Len(t) THEN t[i] ELSE s[i - Len(t)]
  BY <1>1, ConcatProperties, LenProperties DEF t
<1>3. ASSUME NEW m \in Queued' PROVE CarriesOK(m)
  <2>1. m \in Range(t) \/ m \in Range(s)
    <3>1. queue' = t \o s
      BY DEF t
    <3>2. Range(t \o s) = Range(t) \cup Range(s)
      BY <1>1, ConcatOf
    <3> QED
      BY <3>1, <3>2, QueuedIs
  <2>2. Range(t) \subseteq Queued
    BY TailOf, QueuedIs DEF t, WorldTypes
  <2> QED
    BY <2>1, <2>2 DEF ScansOK
<1>4. ASSUME NEW n \in DOMAIN queue', EndsScan(queue'[n]), NEW d \in listed',
             conv'[d] = "none"
      PROVE  Connects(queue', n, d)
  <2>1. n + 1 \in DOMAIN queue /\ queue'[n] = queue[n + 1]
    <3>1. CASE n > Len(t)
      <4>1. n - Len(t) \in 1 .. Len(s) /\ queue'[n] = s[n - Len(t)]
        BY <1>1, <1>2, <3>1
      <4>2. queue'[n] \in Range(s)
        BY <1>1, <4>1 DEF Range
      <4> QED
        BY <1>4, <4>2
    <3>2. CASE n <= Len(t)
      BY <1>1, <1>2, <3>2
    <3> QED
      BY <1>1, <1>2, <3>1, <3>2
  <2>2. Connects(queue, n + 1, d)
    BY <1>4, <2>1 DEF ScansOK
  <2>3. PICK i \in DOMAIN queue : i <= n + 1 /\ queue[i].new /\ queue[i].dev = d
    BY <2>2 DEF Connects
  <2>4. i # 1
    BY <1>1, <1>4, <2>3
  <2>5. i - 1 \in DOMAIN queue' /\ i - 1 <= n /\ queue'[i - 1] = queue[i]
    <3>1. i - 1 \in 1 .. Len(queue) - 1 /\ i - 1 <= n
      BY <1>1, <1>2, <2>3, <2>4
    <3>2. t[i - 1] = queue[(i - 1) + 1] /\ (i - 1) + 1 = i
      BY <1>1, <3>1
    <3> QED
      BY <1>1, <1>2, <3>1, <3>2
  <2> QED
    BY <2>3, <2>5 DEF Connects
<1>5. (ScansOK)' <=>
        /\ \A m \in Queued' : CarriesOK(m)
        /\ \A n \in DOMAIN queue' : EndsScan(queue'[n]) =>
             \A d \in listed' : conv'[d] # "none" \/ Connects(queue', n, d)
  BY DEF ScansOK
<1> QED
  BY <1>3, <1>4, <1>5

\* ... and nothing is added.
LEMMA ScanTaken ==
  ASSUME WorldTypes, ScansOK, queue # <<>>, queue' = Tail(queue),
         listed' \subseteq listed,
         \A d \in listed' :
             conv[d] # "none" \/ (First.new /\ First.dev = d) => conv'[d] # "none"
  PROVE  ScansOK'
<1>1. <<>> \in Seq(Command) /\ Range(<<>>) = {}
  BY DEF Range
<1>2. queue' = Tail(queue) \o <<>>
  <2>1. Tail(queue) \in Seq(Command)
    BY TailOf DEF WorldTypes
  <2> QED
    BY <2>1, ConcatEmptySeq
<1> QED
  BY <1>1, <1>2, ScanHandled

\* Neither queue nor list change.
LEMMA ScanSame ==
  ASSUME ScansOK, UNCHANGED <<queue, listed>>,
         \A d \in listed : conv[d] # "none" => conv'[d] # "none"
  PROVE  ScansOK'
<1>1. (ScansOK)' <=>
        /\ \A m \in Queued' : CarriesOK(m)
        /\ \A n \in DOMAIN queue : EndsScan(queue[n]) =>
             \A d \in listed : conv'[d] # "none" \/ Connects(queue, n, d)
  BY DEF ScansOK
<1>2. Queued' = Queued
  BY DEF Queued
<1> QED
  BY <1>1, <1>2 DEF ScansOK

\* Only the call of the first command comes to its end.
LEMMA Finishes ==
  ASSUME ActionCallback(First.call)
  PROVE  finished' \ finished \subseteq {First.call} \ {None}
<1>1. CASE First.call = None
  BY <1>1 DEF ActionCallback, callVars
<1>2. CASE First.call # None
  BY <1>2 DEF ActionCallback
<1> QED
  BY <1>1, <1>2

\* While a re-scan runs no ping of another one is there, as its caller has the lock.
LEMMA OneScan ==
  ASSUME CommandsInv, ScansOK, queue # <<>>, First.cmd = "ReScanUserDevices"
  PROVE  \A m \in Range(Tail(queue)) : ~EndsScan(m)
<1> SUFFICES ASSUME NEW m \in Range(Tail(queue)), EndsScan(m) PROVE FALSE
  OBVIOUS
<1>1. CallsInv /\ WorldTypes
  BY FirstIs
<1>2. First \in Queued /\ m \in Queued
  BY <1>1, Taken
<1>3. First.call # None /\ First.call[1] = "scan"
  BY <1>2 DEF ScansOK, CarriesOK
<1>4. m.call # None /\ m.call[1] = "scan" /\ m.call # First.call
  BY <1>1, <1>3, Taken DEF EndsScan
<1>5. Awaited(First.call) /\ Awaited(m.call)
  BY <1>1, <1>2, <1>3, <1>4 DEF CallsInv, CallsOK
<1>6. PICK c \in Callers : Waiting(c) /\ call[c] = First.call
  BY <1>5 DEF Awaited
<1>7. PICK x \in Callers : Waiting(x) /\ call[x] = m.call
  BY <1>5 DEF Awaited
<1>8. c = x
  BY <1>1, <1>3, <1>4, <1>6, <1>7 DEF CallsInv, LocksOK, Inside, Waiting
<1> QED
  BY <1>4, <1>6, <1>7, <1>8

\* What the re-scan promises about a step.
Connected == \A cl \in finished' \ finished :
                 cl[1] = "scan" => \A d \in listed' : conv'[d] # "none"

\* The first command is handled and ends its call: if that was a re-scan, the first
\* command is its last ping.
LEMMA ScanEnds ==
  ASSUME CommandsInv, ScansOK, queue # <<>>, ActionCallback(First.call),
         First.cmd # "ReScanUserDevices", listed' \subseteq listed,
         \A d \in listed' :
             conv[d] # "none" \/ (First.new /\ First.dev = d) => conv'[d] # "none"
  PROVE  Connected
<1> SUFFICES ASSUME First.call # None, First.call[1] = "scan", NEW d \in listed'
             PROVE  conv'[d] # "none"
  BY Finishes DEF Connected
<1>1. /\ CallsInv /\ WorldTypes /\ First \in Queued
      /\ First = queue[1] /\ 1 \in DOMAIN queue
  BY FirstIs, Taken, LenProperties, EmptySeq DEF First, WorldTypes
<1>2. EndsScan(queue[1])
  BY <1>1 DEF ScansOK, CarriesOK, EndsScan
<1>3. CASE conv[d] # "none"
  BY <1>3
<1>4. CASE conv[d] = "none"
  <2>1. Connects(queue, 1, d)
    BY <1>1, <1>2, <1>4 DEF ScansOK
  <2>2. PICK i \in DOMAIN queue : i <= 1 /\ queue[i].new /\ queue[i].dev = d
    BY <2>1 DEF Connects
  <2>3. i = 1
    BY <1>1, <2>2, LenProperties DEF WorldTypes
  <2> QED
    BY <1>1, <2>2, <2>3
<1> QED
  BY <1>3, <1>4

\* No call ends.
LEMMA NoneEnds ==
  ASSUME finished' = finished
  PROVE  Connected
  BY DEF Connected

LEMMA SameScan ==
  ASSUME ScansOK, UNCHANGED <<queue, conv, listed, finished>>
  PROVE  ScansOK' /\ Connected
  BY ScanSame, NoneEnds

\* A command that does not end a re-scan is queued.
LEMMA QueuedScan ==
  ASSUME WorldTypes, ScansOK, NEW m \in Command, queue' = Append(queue, m),
         CarriesOK(m), ~EndsScan(m), UNCHANGED <<conv, listed, finished>>
  PROVE  ScansOK' /\ Connected
<1>1. <<m>> \in Seq(Command) /\ Range(<<m>>) = {m}
  BY DEF Range
<1>2. queue' = queue \o <<m>>
  BY AppendIsConcat DEF WorldTypes
<1> QED
  BY <1>1, <1>2, ScanGrown, NoneEnds

LEMMA DoSendScan ==
  ASSUME CommandsInv, ScansOK, NEW n \in 1 .. sends, DoSend(n)
  PROVE  ScansOK' /\ Connected
<1>1. PICK s \in Orders(PreparedBy(n)) : queue' = queue \o s
  BY DEF DoSend
<1>2. WorldTypes /\ CommandsOK
  BY Parts DEF MessagesInv
<1>3. PreparedBy(n) \subseteq prepared /\ IsFiniteSet(PreparedBy(n))
  BY <1>2, FS_Subset DEF PreparedBy, CommandsOK
<1>4. s \in Seq(PreparedBy(n)) /\ Range(s) \subseteq PreparedBy(n)
  BY <1>3, OrdersOf
<1>5. s \in Seq(Command)
  <2>1. PreparedBy(n) \subseteq Command
    BY <1>2, <1>3 DEF WorldTypes
  <2> QED
    BY <1>4, <2>1, SeqMonotonic
<1>6. \A m \in Range(s) : CarriesOK(m) /\ ~EndsScan(m)
  BY <1>2, <1>3, <1>4 DEF CommandsOK, CarriesOK, EndsScan
<1>7. UNCHANGED <<conv, listed, finished>>
  BY DEF DoSend, devVars, callVars
<1> QED
  BY <1>1, <1>2, <1>5, <1>6, <1>7, ScanGrown, NoneEnds

LEMMA EnqueueScan ==
  ASSUME CommandsInv, ScansOK, NEW c \in Callers, Enqueue(c)
  PROVE  ScansOK' /\ Connected
<1>1. /\ queue' = Append(queue, CommandOf(call[c]))
      /\ UNCHANGED <<conv, listed, finished>> /\ pc[c] = "locked"
  BY DEF Enqueue, devVars
<1>2. WorldTypes /\ CallsInv
  BY Parts DEF MessagesInv
<1>3. call[c] \in CallIds
  BY <1>1, <1>2 DEF CallsInv, LocksOK
<1> DEFINE m == CommandOf(call[c])
<1>4. call[c] # None /\ call[c][1] \in {"scan", "key"} /\ call[c][3] \in Devices \cup {None}
  BY <1>3, CallFacts DEF Kinds
<1>5. m \in Command
  BY <1>3, <1>4 DEF CommandOf, Command
<1>6. CarriesOK(m) /\ ~EndsScan(m)
  BY <1>4 DEF CommandOf, CarriesOK, EndsScan
<1> HIDE DEF m
<1>7. queue' = Append(queue, m)
  BY <1>1 DEF m
<1> QED
  BY <1>1, <1>2, <1>5, <1>6, <1>7, QueuedScan

LEMMA ArriveScan ==
  ASSUME CommandsInv, ScansOK, NEW d \in Devices, Arrive(d)
  PROVE  ScansOK' /\ Connected
<1> DEFINE m == [cmd |-> "ReceivedRawData", id |-> None, dev |-> d, new |-> FALSE,
                 call |-> None]
<1>1. queue' = Append(queue, m) /\ UNCHANGED <<conv, listed, finished>>
  BY DEF Arrive, devVars, callVars
<1>2. WorldTypes
  BY Parts DEF MessagesInv
<1>3. m \in Command /\ CarriesOK(m) /\ ~EndsScan(m)
  BY DEF Command, CarriesOK, EndsScan
<1> HIDE DEF m
<1> QED
  BY <1>1, <1>2, <1>3, QueuedScan

LEMMA SendScan ==
  ASSUME CommandsInv, ScansOK, SendExisting \/ SendNewUser \/ SendNoBundle
  PROVE  ScansOK' /\ Connected
<1>1. /\ queue # <<>> /\ queue' = Tail(queue) /\ ActionCallback(First.call)
      /\ First.cmd = "SendMessage"
  BY DEF SendExisting, SendNewUser, SendNoBundle, SendNew, Turn
<1>2. /\ WorldTypes /\ First.dev \in Devices /\ listed \subseteq Devices
      /\ conv \in [Devices -> {"none", "empty", "session"}]
  BY <1>1, FirstIs DEF WorldTypes
<1>3. /\ listed' \subseteq listed
      /\ \A d \in listed' :
           conv[d] # "none" \/ (First.new /\ First.dev = d) => conv'[d] # "none"
  <2>1. CASE SendExisting
    BY <2>1 DEF SendExisting, devVars
  <2>2. CASE SendNewUser
    BY <1>2, <2>2 DEF SendNewUser
  <2>3. CASE SendNoBundle
    BY <2>3 DEF SendNoBundle
  <2> QED
    BY <2>1, <2>2, <2>3
<1> QED
  BY <1>1, <1>2, <1>3, ScanTaken, ScanEnds

LEMMA RescanScan ==
  ASSUME CommandsInv, ScansOK, Rescan
  PROVE  ScansOK' /\ Connected
<1> DEFINE t == Tail(queue)
<1>1. /\ queue # <<>> /\ First.cmd = "ReScanUserDevices"
      /\ Delete(Known \ server) /\ listed' = server
  BY DEF Rescan, Turn
<1>2. PICK new \in Orders(NewOnes), last \in server :
        IF new = <<>>
        THEN queue' = Tail(queue) /\ ActionCallback(First.call)
        ELSE /\ queue' = Tail(queue) \o Append(Pings(new), Ping(last, First.call))
             /\ UNCHANGED callVars
  BY DEF Rescan
<1>3. WorldTypes /\ t \in Seq(Command) /\ server \subseteq Devices
  BY <1>1, FirstIs DEF WorldTypes
<1>4. \A d \in server : conv[d] # "none" => conv'[d] # "none"
  BY <1>1, <1>3 DEF Delete
<1>5. \A m \in Range(t) : CarriesOK(m) /\ ~EndsScan(m)
  <2>1. \A m \in Range(t) : m \in Queued
    BY <1>1, FirstIs
  <2> QED
    BY <1>1, <2>1, OneScan DEF ScansOK
<1>6. NewOnes \subseteq Devices /\ IsFiniteSet(NewOnes)
  BY <1>3, FS_Subset DEF NewOnes
<1>7. new \in Seq(NewOnes) /\ Range(new) = NewOnes /\ Len(new) \in Nat
  BY <1>6, OrdersOf, AllOf
<1>8. (ScansOK)' <=>
        /\ \A m \in Queued' : CarriesOK(m)
        /\ \A n \in DOMAIN queue' : EndsScan(queue'[n]) =>
             \A d \in listed' : conv'[d] # "none" \/ Connects(queue', n, d)
  BY DEF ScansOK
<1>9. CASE new = <<>>
  <2>1. queue' = t /\ ActionCallback(First.call)
    BY <1>2, <1>9
  <2>2. NewOnes = {}
    BY <1>7, <1>9 DEF Range
  <2>3. \A d \in listed' : conv'[d] # "none"
    BY <1>1, <1>4, <2>2 DEF NewOnes
  <2>4. \A n \in DOMAIN queue' : queue'[n] \in Queued'
    BY DEF Queued
  <2>5. Queued' = Range(t)
    BY <2>1, QueuedIs
  <2> QED
    BY <1>5, <1>8, <2>3, <2>4, <2>5 DEF Connected
<1>10. CASE new # <<>>
  <2> DEFINE p == Pings(new)
             q == Ping(last, First.call)
             s == Append(p, q)
  <2>1. queue' = t \o s /\ finished' = finished
    BY <1>2, <1>10 DEF callVars
  <2>2. First \in Command /\ First \in Queued /\ last \in Devices
    BY <1>1, <1>3, FirstIs, Taken
  <2>3. \A i \in 1 .. Len(new) : new[i] \in NewOnes /\ new[i] \in Devices
    BY <1>6, <1>7, ElementOfSeq
  <2>4. \A i \in 1 .. Len(new) : Ping(new[i], None) \in Command
    BY <2>3 DEF Ping, Command
  <2>5. /\ p \in Seq(Command) /\ Len(p) = Len(new) /\ DOMAIN p = 1 .. Len(new)
        /\ \A i \in 1 .. Len(new) : p[i] = Ping(new[i], None)
    BY <1>7, <2>4, IsASeq, LenProperties DEF Pings
  <2>6. \A m \in Range(p) : CarriesOK(m) /\ ~EndsScan(m)
    BY <2>5 DEF Range, Ping, CarriesOK, EndsScan
  <2>7. q \in Command /\ CarriesOK(q)
    BY <2>2 DEF Ping, Command, CarriesOK
  <2> HIDE DEF p, q, t
  <2>8. /\ s \in Seq(Command) /\ Len(s) = Len(new) + 1 /\ Range(s) = Range(p) \cup {q}
        /\ \A i \in 1 .. Len(new) : s[i] = p[i]
    BY <1>7, <2>5, <2>7, AppendOf, AppendProperties
  <2> HIDE DEF s
  <2>9. /\ Len(t) \in Nat /\ DOMAIN queue' = 1 .. Len(t) + Len(new) + 1
        /\ \A i \in 1 .. Len(t) + Len(new) + 1 :
             queue'[i] = IF i <= Len(t) THEN t[i] ELSE s[i - Len(t)]
    <3>1. /\ t \o s \in Seq(Command) /\ Len(t \o s) = Len(t) + Len(s)
          /\ \A i \in 1 .. Len(t) + Len(s) :
               (t \o s)[i] = IF i <= Len(t) THEN t[i] ELSE s[i - Len(t)]
      <4>1. t \in Seq(Command) /\ s \in Seq(Command)
        BY <1>3, <2>8
      <4> QED
        BY <4>1, ConcatProperties
    <3>2. Len(t) \in Nat /\ DOMAIN (t \o s) = 1 .. Len(t) + Len(s)
      BY <1>3, <3>1, LenProperties
    <3> QED
      BY <1>7, <2>1, <2>8, <3>1, <3>2
  <2>10. \A m \in Queued' : CarriesOK(m)
    <3>1. Queued' = Range(t) \cup Range(s)
      BY <1>3, <2>1, <2>8, ConcatOf, QueuedIs
    <3> QED
      BY <1>5, <2>6, <2>7, <2>8, <3>1
  <2>11. ASSUME NEW n \in DOMAIN queue', EndsScan(queue'[n]), NEW d \in listed',
                conv'[d] = "none"
         PROVE  Connects(queue', n, d)
    <3>1. n = Len(t) + Len(new) + 1
      <4>1. CASE n <= Len(t)
        <5>1. queue'[n] = t[n] /\ n \in DOMAIN t
          BY <1>3, <1>7, <2>9, <4>1, LenProperties
        <5> QED
          BY <1>5, <2>11, <5>1 DEF Range
      <4>2. CASE n > Len(t) /\ n <= Len(t) + Len(new)
        <5>1. n - Len(t) \in 1 .. Len(new) /\ queue'[n] = p[n - Len(t)]
          BY <1>7, <2>8, <2>9, <4>2
        <5> QED
          BY <2>5, <2>6, <2>11, <5>1 DEF Range
      <4> QED
        BY <1>7, <2>9, <4>1, <4>2
    <3>2. d \in NewOnes
      BY <1>1, <1>4, <2>11 DEF NewOnes
    <3>3. PICK i \in 1 .. Len(new) : new[i] = d
      BY <1>7, <3>2, LenProperties DEF Range
    <3>4. /\ Len(t) + i \in DOMAIN queue' /\ Len(t) + i <= n
          /\ queue'[Len(t) + i] = s[i]
      <4>1. Len(t) + i \in 1 .. Len(t) + Len(new) + 1 /\ ~(Len(t) + i <= Len(t))
            /\ (Len(t) + i) - Len(t) = i
        BY <1>7, <2>9
      <4> QED
        BY <1>7, <2>9, <3>1, <4>1
    <3>5. s[i].new /\ s[i].dev = d
      <4>1. s[i] = Ping(d, None)
        BY <2>5, <2>8, <3>3
      <4> QED
        BY <4>1 DEF Ping
    <3> QED
      BY <3>4, <3>5 DEF Connects
  <2> QED
    BY <1>8, <2>1, <2>10, <2>11, NoneEnds
<1> QED
  BY <1>9, <1>10

LEMMA RescanFailsScan ==
  ASSUME CommandsInv, ScansOK, RescanFails
  PROVE  ScansOK' /\ Connected
<1>1. /\ queue # <<>> /\ queue' = Tail(queue) /\ listed' = {}
  BY DEF RescanFails, Turn
<1>2. WorldTypes
  BY <1>1, FirstIs
<1> QED
  BY <1>1, <1>2, ScanTaken DEF Connected

LEMMA ReKeyScan ==
  ASSUME CommandsInv, ScansOK, ReKeyReset \/ ReKeyUnknown \/ ReKeyPing \/ ReKeyDelete
  PROVE  ScansOK' /\ Connected
<1>1. /\ queue # <<>> /\ First.cmd = "ReKeyDevice" /\ WorldTypes /\ ~First.new
      /\ First \in Command /\ First \in Queued /\ conv \in [Devices -> {"none", "empty", "session"}]
      /\ listed \subseteq Devices
  <2>1. queue # <<>> /\ First.cmd = "ReKeyDevice"
    BY InReset DEF ReKeyReset, ReKeyUnknown, ReKeyPing, ReKeyDelete, Turn
  <2> QED
    BY <2>1, FirstIs, Taken DEF WorldTypes
<1>2. CASE ReKeyReset
  <2>1. UNCHANGED <<queue, listed, finished>> /\ conv' = [conv EXCEPT ![First.dev] = "empty"]
    BY <1>2 DEF ReKeyReset, devVars, callVars
  <2>2. \A d \in listed : conv[d] # "none" => conv'[d] # "none"
    BY <1>1, <2>1
  <2> QED
    BY <2>1, <2>2, ScanSame, NoneEnds
<1>3. CASE ReKeyUnknown
  BY <1>1, <1>3, ScanTaken, ScanEnds DEF ReKeyUnknown, devVars
<1>4. CASE ReKeyPing
  <2> DEFINE p == Ping(First.dev, First.call)
             s == <<p>>
  <2>1. /\ queue' = Append(Tail(queue), p) /\ First.dev \in server
        /\ UNCHANGED <<conv, listed, finished>>
    BY <1>4 DEF ReKeyPing, devVars, callVars
  <2>2. p \in Command
    BY <1>1, <2>1 DEF Ping, Command, WorldTypes
  <2>3. CarriesOK(p) /\ ~EndsScan(p)
    <3>1. First.call # None => First.call[1] = "key"
      BY <1>1 DEF ScansOK, CarriesOK
    <3> QED
      BY <3>1 DEF Ping, CarriesOK, EndsScan
  <2> HIDE DEF p
  <2>4. s \in Seq(Command) /\ Range(s) = {p}
    BY <2>2 DEF Range
  <2>5. queue' = Tail(queue) \o s
    <3>1. Tail(queue) \in Seq(Command)
      BY <1>1, FirstIs
    <3> QED
      BY <2>1, <2>2, <3>1, AppendIsConcat
  <2> HIDE DEF s
  <2> QED
    BY <1>1, <2>1, <2>3, <2>4, <2>5, ScanHandled, NoneEnds
<1>5. CASE ReKeyDelete
  <2>1. /\ queue' = Tail(queue) /\ ActionCallback(First.call)
        /\ listed' = listed \ removed'
    BY <1>5 DEF ReKeyDelete
  <2>2. PICK S : Delete(S)
    BY <1>5 DEF ReKeyDelete
  <2>3. \A d \in listed' : conv[d] # "none" => conv'[d] # "none"
    BY <1>1, <2>1, <2>2 DEF Delete, Known
  <2> QED
    BY <1>1, <2>1, <2>3, ScanTaken, ScanEnds
<1> QED
  BY <1>2, <1>3, <1>4, <1>5

LEMMA RunReceiveScan ==
  ASSUME CommandsInv, ScansOK, RunReceive
  PROVE  ScansOK' /\ Connected
<1>1. /\ queue # <<>> /\ First.cmd = "ReceivedRawData" /\ queue' = Tail(queue)
      /\ conv' = [conv EXCEPT ![First.dev] = "session"]
      /\ UNCHANGED <<listed, finished>>
  BY DEF RunReceive, Turn, callVars
<1>2. /\ WorldTypes /\ ~First.new /\ First.dev \in Devices /\ listed \subseteq Devices
      /\ conv \in [Devices -> {"none", "empty", "session"}]
  BY <1>1, FirstIs DEF WorldTypes
<1>3. \A d \in listed' : conv[d] # "none" => conv'[d] # "none"
  BY <1>1, <1>2
<1> QED
  BY <1>1, <1>2, <1>3, ScanTaken, NoneEnds

LEMMA NextScan == CommandsInv /\ ScansOK /\ [Next]_vars => ScansOK' /\ Connected
<1> SUFFICES ASSUME CommandsInv, ScansOK, [Next]_vars PROVE ScansOK' /\ Connected
  OBVIOUS
<1>1. CASE Prepare
  BY <1>1, SameScan DEF Prepare, devVars, callVars
<1>2. ASSUME NEW n \in 1 .. sends, DoSend(n) \/ RemovePrepared(n)
      PROVE  ScansOK' /\ Connected
  BY <1>2, DoSendScan, SameScan DEF RemovePrepared, devVars, callVars
<1>3. ASSUME NEW c \in Callers, NEW k, NEW d, Call(c, k, d) PROVE ScansOK' /\ Connected
  BY <1>3, SameScan DEF Call, devVars
<1>4. ASSUME NEW c \in Callers, CallerStep(c) \/ WakeSpuriously(c)
      PROVE  ScansOK' /\ Connected
  <2>1. CASE Enqueue(c)
    BY <2>1, EnqueueScan
  <2>2. CASE Lock(c) \/ Wake(c) \/ WakeSpuriously(c)
    BY <2>2, SameScan DEF Lock, Wake, WakeSpuriously, devVars
  <2> QED
    BY <1>4, <2>1, <2>2 DEF CallerStep
<1>5. CASE QueueStep
  BY <1>5, SendScan, RescanScan, RescanFailsScan, ReKeyScan, RunReceiveScan DEF QueueStep
<1>6. ASSUME NEW d \in Devices, DevicesChange(d) \/ Arrive(d) PROVE ScansOK' /\ Connected
  BY <1>6, ArriveScan, SameScan DEF DevicesChange, devVars, callVars
<1>7. CASE UNCHANGED vars
  BY <1>7, SameScan DEF vars, devVars, callVars
<1> QED
  BY <1>1, <1>2, <1>3, <1>4, <1>5, <1>6, <1>7 DEF Next, Callers

\* When a re-scan ends, the devices it found have a conversation, but for those whose
\* setup failed or that a command deleted again, for any number of devices, messages and
\* calls in the run queue (rescanUserDevicesCommand).
THEOREM RescansConnect == Spec => RescanConnects
<1>1. Init => ScansOK
  BY DEF Init, ScansOK, Queued
<1>2. CommandsInv /\ ScansOK /\ [Next]_vars => ScansOK'
  BY NextScan
<1>3. CommandsInv /\ ScansOK /\ [Next]_vars =>
        [\A cl \in finished' \ finished :
           cl[1] = "scan" => \A d \in listed' : conv'[d] # "none"]_vars
  BY NextScan DEF Connected
<1> QED
  BY <1>1, <1>2, <1>3, Inductive, PTL DEF Spec, RescanConnects
=============================================================================
