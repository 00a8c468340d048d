---------------------- MODULE ZinaGroupUpdate_proofs ----------------------
(* Theorems about ZinaGroupUpdate, for any number of groups, members and   *)
(* threads, and every bound.                                               *)
EXTENDS ZinaGroupUpdate, SequenceTheorems, TLAPS

USE ConstantsAssumption

----------------------------------------------------------------------------
(* The operators on change sets, letters and replies.                      *)

Items == MemberItem \cup {None}

LEMMA ItemTypes ==
  ASSUME NEW item \in Items, NEW S \in SUBSET Users, NEW id \in Ids, NEW u
  PROVE  /\ Join(item, S) \in Items /\ Without(item, u) \in Items
         /\ Stamp(item, id) \in Items /\ Who(item) \in SUBSET Users
         /\ [who |-> S, id |-> id] \in Items
<1>1. NoId \in Ids
  BY DEF Ids
<1>2. CASE item = None
  BY <1>1, <1>2 DEF Items, MemberItem, Join, Without, Stamp, Who
<1>3. CASE item # None
  <2>1. item \in MemberItem
    BY <1>3 DEF Items
  <2> QED
    BY <2>1, <1>3 DEF Items, MemberItem, Join, Without, Stamp, Who
<1> QED
  BY <1>2, <1>3

LEMMA SetFields ==
  ASSUME NEW c \in ChangeSets
  PROVE  c.name \in NameItem \cup {None} /\ c.add \in Items /\ c.rm \in Items
  BY DEF ChangeSets, Items

LEMMA SetOf ==
  ASSUME NEW n \in NameItem \cup {None}, NEW a \in Items, NEW r \in Items
  PROVE  [name |-> n, add |-> a, rm |-> r] \in ChangeSets
  BY DEF ChangeSets, Items

LEMMA SetExcept ==
  ASSUME NEW c \in ChangeSets, NEW n \in NameItem \cup {None}, NEW a \in Items, NEW r \in Items
  PROVE  /\ [c EXCEPT !.name = n] \in ChangeSets
         /\ [c EXCEPT !.add = a] \in ChangeSets
         /\ [c EXCEPT !.rm = r] \in ChangeSets
         /\ [c EXCEPT !.add = a, !.rm = r] \in ChangeSets
         /\ [c EXCEPT !.rm = r, !.add = a] \in ChangeSets
  BY DEF ChangeSets, Items

LEMMA EmptyType == EmptyChange \in ChangeSets
  BY DEF EmptyChange, ChangeSets

LEMMA CurrentType ==
  ASSUME MemoryType, NEW g \in Groups
  PROVE  Current(g) \in ChangeSets
  BY EmptyType DEF MemoryType, Current

LEMMA WithNameType ==
  ASSUME TablesType, NEW c \in ChangeSets, NEW g \in Groups, NEW id \in Ids
  PROVE  WithName(c, g, id) \in ChangeSets
<1>1. [v |-> name[g], clk |-> clock[g], id |-> id] \in NameItem
  BY DEF TablesType, NameItem
<1>2. CASE c.add # None /\ c.name = None
  BY <1>1, <1>2, SetExcept, SetFields DEF WithName
<1>3. CASE ~(c.add # None /\ c.name = None)
  BY <1>3 DEF WithName
<1> QED
  BY <1>2, <1>3

LEMMA ClockedType ==
  ASSUME TablesType, NEW c \in ChangeSets, NEW g \in Groups, NEW id \in Ids
  PROVE  Clocked(c, g, id) \in ChangeSets
<1>1. CASE c.name = None
  BY <1>1 DEF Clocked
<1>2. CASE c.name # None
  <2>1. c.name \in NameItem /\ clock[g] + 1 \in Nat
    BY <1>2, SetFields DEF TablesType
  <2>2. Clocked(c, g, id) = [c EXCEPT !.name = [v |-> c.name.v, clk |-> clock[g] + 1, id |-> id]]
    BY <1>2 DEF Clocked
  <2>3. [v |-> c.name.v, clk |-> clock[g] + 1, id |-> id] \in NameItem
    BY <2>1 DEF NameItem
  <2>4. c.add \in Items /\ c.rm \in Items
    BY SetFields
  <2>5. [c EXCEPT !.name = [v |-> c.name.v, clk |-> clock[g] + 1, id |-> id]] \in ChangeSets
    BY <2>3, <2>4, SetExcept
  <2> QED
    BY <2>2, <2>5
<1> QED
  BY <1>1, <1>2

LEMMA OwedType ==
  ASSUME MemoryType, NEW g \in Groups, NEW p, NEW type \in {"add", "rm"}
  PROVE  OwedUsers(g, p, type) \in SUBSET Users
<1> SUFFICES ASSUME NEW x \in pending, Who(x.set[type]) # {}
             PROVE  Who(x.set[type]) \in SUBSET Users
  BY DEF OwedUsers, Owed, PendingOf
<1>1. x.set \in ChangeSets
  BY DEF MemoryType
<1>2. x.set[type] \in Items
  BY <1>1 DEF ChangeSets, Items
<1>3. 0 \in Ids
  BY DEF Ids
<1> QED
  BY <1>2, <1>3, ItemTypes

LEMMA CollapsedType ==
  ASSUME TypeOK, NEW g \in Groups, NEW p, current[g] # None
  PROVE  Collapsed(g, p) \in ChangeSets
<1>1. current[g] \in ChangeSets /\ uid \in Ids
  BY DEF TypeOK, MemoryType
<1>2. /\ OwedUsers(g, p, "add") \in SUBSET Users
      /\ OwedUsers(g, p, "rm") \in SUBSET Users
  BY OwedType DEF TypeOK
<1>3. /\ Join(current[g].add, OwedUsers(g, p, "add")) \in Items
      /\ Join(current[g].rm, OwedUsers(g, p, "rm")) \in Items
  BY <1>1, <1>2, SetFields, ItemTypes
<1> DEFINE a == Join(current[g].add, OwedUsers(g, p, "add"))
           r == Join(current[g].rm, OwedUsers(g, p, "rm"))
           c == [current[g] EXCEPT !.add = a, !.rm = r]
<1>4. c \in ChangeSets
  BY <1>1, <1>3, SetExcept, SetFields
<1>5. Collapsed(g, p) = WithName(c, g, uid)
  BY DEF Collapsed
<1> QED
  BY <1>1, <1>4, <1>5, WithNameType DEF TypeOK

LEMMA PostType ==
  ASSUME NetType, NEW p \in Peers, NEW g \in Groups, NEW c \in ChangeSets \cup {None},
         Post(p, Letter(g, c))
  PROVE  /\ net' \in [Peers -> Seq(Letterings)]
         /\ net' = [net EXCEPT ![p] = Append(net[p], [group |-> g, set |-> c])]
  BY AppendProperties DEF NetType, Letterings, Post, Letter

\* Gone takes one message out and keeps the others in their order.
LEMMA GoneProperties ==
  ASSUME NEW S, NEW s \in Seq(S), NEW k \in 1 .. Len(s)
  PROVE  /\ Gone(s, k) \in Seq(S) /\ Len(Gone(s, k)) = Len(s) - 1
         /\ \A i \in 1 .. Len(s) - 1 : Gone(s, k)[i] = IF i < k THEN s[i] ELSE s[i + 1]
<1>1. /\ SubSeq(s, 1, k - 1) \in Seq(S) /\ Len(SubSeq(s, 1, k - 1)) = k - 1
      /\ \A i \in 1 .. k - 1 : SubSeq(s, 1, k - 1)[i] = s[i]
  <2>1. \A i \in 1 .. k - 1 : s[i] \in S
    BY ElementOfSeq
  <2> QED
    BY <2>1, SubSeqProperties, LenProperties, SMTT(30)
<1>2. /\ SubSeq(s, k + 1, Len(s)) \in Seq(S) /\ Len(SubSeq(s, k + 1, Len(s))) = Len(s) - k
      /\ \A i \in 1 .. Len(s) - k : SubSeq(s, k + 1, Len(s))[i] = s[k + i]
  <2>1. \A i \in k + 1 .. Len(s) : s[i] \in S
    BY ElementOfSeq
  <2> QED
    BY <2>1, SubSeqProperties, LenProperties, SMTT(30)
<1> DEFINE a == SubSeq(s, 1, k - 1)
           b == SubSeq(s, k + 1, Len(s))
<1> HIDE DEF a, b
<1>3. /\ a \o b \in Seq(S) /\ Len(a \o b) = Len(a) + Len(b)
      /\ \A i \in 1 .. Len(a) + Len(b) : (a \o b)[i] = IF i <= Len(a) THEN a[i] ELSE b[i - Len(a)]
  BY <1>1, <1>2, ConcatProperties DEF a, b
<1>4. Gone(s, k) = a \o b
  BY DEF Gone, a, b
<1>5. Len(s) \in Nat
  BY LenProperties
<1>6. Len(a) = k - 1 /\ Len(b) = Len(s) - k
  BY <1>1, <1>2 DEF a, b
<1>7. ASSUME NEW i \in 1 .. Len(s) - 1
      PROVE  (a \o b)[i] = IF i < k THEN s[i] ELSE s[i + 1]
  <2>1. CASE i < k
    BY <2>1, <1>1, <1>3, <1>5, <1>6 DEF a
  <2>2. CASE ~(i < k)
    <3>1. (a \o b)[i] = b[i - (k - 1)] /\ i - (k - 1) \in 1 .. Len(s) - k
      BY <2>2, <1>3, <1>5, <1>6
    <3>2. b[i - (k - 1)] = s[k + (i - (k - 1))]
      BY <3>1, <1>2 DEF b
    <3>3. k + (i - (k - 1)) = i + 1
      BY <1>5
    <3> QED
      BY <2>2, <3>1, <3>2, <3>3
  <2> QED
    BY <2>1, <2>2
<1>8. Len(a \o b) = Len(s) - 1
  BY <1>3, <1>5, <1>6
<1> QED
  BY <1>3, <1>4, <1>7, <1>8

LEMMA RowTypes ==
  ASSUME NEW g \in Groups, NEW p \in Peers, NEW id \in Ids, NEW y \in Types
  PROVE  Row(g, p, id, y) \in RowType
  BY DEF Row, RowType

LEMMA AwaitedType ==
  ASSUME TypeOK, NEW g \in Groups, NEW p \in Peers, NEW c
  PROVE  Awaited(g, p, c) \subseteq RowType
<1>1. rows \subseteq RowType /\ uid \in Ids
  BY DEF TypeOK, TablesType, MemoryType
<1>2. {Row(g, p, uid, y) : y \in Present(c)} \subseteq RowType
  BY <1>1, RowTypes DEF Present
<1> QED
  BY <1>1, <1>2 DEF Awaited

----------------------------------------------------------------------------
(* What the app does to a current change set: of an update that is there   *)
(* it keeps the update id, a new one has none.  It removes peers only.     *)

KeepsIds(c, b) ==
    /\ c.name # None => c.name.id = NoId \/ (b.name # None /\ c.name.id = b.name.id)
    /\ c.add # None => c.add.id = NoId \/ (b.add # None /\ c.add.id = b.add.id)
    /\ c.rm # None => c.rm.id = NoId \/ (b.rm # None /\ c.rm.id = b.rm.id)
    /\ Who(c.rm) \subseteq Who(b.rm) \cup Peers
EditStep(g, c) ==
    /\ Edit(g, c) /\ (c # None => KeepsIds(c, Current(g)))
    /\ made' \in SUBSET Groups /\ names' \in Nat
    /\ UNCHANGED <<lastId, outside, stale, quit>>

EditsOf(g) ==
    \/ SetGroupName(g) \/ CreateNewGroup(g) \/ Revoke(g) \/ CancelGroupChangeSet(g)
    \/ \E u \in Peers : AddUser(g, u) \/ RemoveUser(g, u)

\* Of a list of members too.
ItemKept(i, j) == i # None => i.id = NoId \/ (j # None /\ i.id = j.id)

LEMMA ItemEdits ==
  ASSUME NEW j \in Items, NEW u, NEW S \in SUBSET Users
  PROVE  /\ ItemKept(Without(j, u), j) /\ ItemKept(Join(j, S), j) /\ ItemKept(j, j)
         /\ Who(Without(j, u)) \subseteq Who(j)
         /\ Who(Join(j, S)) = Who(j) \cup S
<1>1. CASE j = None
  <2>1. S # {} => [who |-> S, id |-> NoId] \in MemberItem
    BY DEF MemberItem, Ids, Users
  <2>2. S # {} => [who |-> S, id |-> NoId] # None
    BY <2>1, NoneAssumption
  <2> QED
    BY <1>1, <2>2 DEF ItemKept, Without, Join, Who
<1>2. CASE j # None
  <2>1. j \in MemberItem
    BY <1>2 DEF Items
  <2>2. [j EXCEPT !.who = @ \ {u}] \in MemberItem /\ [j EXCEPT !.who = @ \cup S] \in MemberItem
    BY <2>1 DEF MemberItem, Users
  <2>3. [j EXCEPT !.who = @ \ {u}] # None /\ [j EXCEPT !.who = @ \cup S] # None
    BY <2>2, NoneAssumption
  <2> QED
    BY <1>2, <2>1, <2>3 DEF ItemKept, Without, Join, Who, MemberItem
<1> QED
  BY <1>1, <1>2

LEMMA IdsKept ==
  ASSUME NEW b \in ChangeSets, NEW u, NEW S \in SUBSET Peers, NEW n,
         n # None => n.id = NoId \/ (b.name # None /\ n.id = b.name.id)
  PROVE  /\ KeepsIds([b EXCEPT !.rm = Without(@, u), !.add = Join(@, S)], b)
         /\ KeepsIds([b EXCEPT !.add = Without(@, u), !.rm = Join(@, S)], b)
         /\ KeepsIds([b EXCEPT !.add = Without(@, u)], b)
         /\ KeepsIds([b EXCEPT !.rm = Without(@, u)], b)
         /\ KeepsIds([b EXCEPT !.name = n], b)
<1> DEFINE w == Without(b.rm, u)
           j == Join(b.rm, S)
           v == Without(b.add, u)
           i == Join(b.add, S)
<1>1. b.add \in Items /\ b.rm \in Items
  BY SetFields
<1>2. /\ ItemKept(w, b.rm) /\ Who(w) \subseteq Who(b.rm)
      /\ ItemKept(j, b.rm) /\ Who(j) \subseteq Who(b.rm) \cup Peers
      /\ ItemKept(v, b.add) /\ ItemKept(i, b.add)
  <2>1. S \in SUBSET Users
    BY DEF Users
  <2> QED
    BY <1>1, <2>1, ItemEdits
<1> HIDE DEF w, j, v, i
<1>3. KeepsIds([b EXCEPT !.rm = w, !.add = i], b)
  BY <1>2 DEF KeepsIds, ItemKept, ChangeSets
<1>4. KeepsIds([b EXCEPT !.add = v, !.rm = j], b)
  BY <1>2 DEF KeepsIds, ItemKept, ChangeSets
<1>5. KeepsIds([b EXCEPT !.add = v], b)
  BY <1>2 DEF KeepsIds, ItemKept, ChangeSets
<1>6. KeepsIds([b EXCEPT !.rm = w], b)
  BY <1>2 DEF KeepsIds, ItemKept, ChangeSets
<1>7. KeepsIds([b EXCEPT !.name = n], b)
  BY DEF KeepsIds, ChangeSets
<1> QED
  BY <1>3, <1>4, <1>5, <1>6, <1>7 DEF w, j, v, i

LEMMA EditCases ==
  ASSUME TypeOK, NEW g \in Groups, EditsOf(g)
  PROVE  \E c \in ChangeSets \cup {None} : EditStep(g, c)
<1> DEFINE b == Current(g)
<1>1. b \in ChangeSets /\ names \in Nat /\ made \subseteq Groups
  BY CurrentType DEF TypeOK, HistType
<1>2. b.name \in NameItem \cup {None} /\ b.add \in Items /\ b.rm \in Items
  BY <1>1, SetFields
<1> HIDE DEF b
<1>3. Me \in Users /\ Peers \subseteq Users /\ NoId \in Ids /\ 0 \in Ids
  BY DEF Users, Ids
<1>4. ASSUME SetGroupName(g) PROVE \E c \in ChangeSets \cup {None} : EditStep(g, c)
  <2> DEFINE n == IF b.name = None THEN [v |-> names + 1, clk |-> 0, id |-> NoId]
                                   ELSE [b.name EXCEPT !.v = names + 1]
             c == [b EXCEPT !.name = n]
  <2>1. names + 1 \in Versions
    BY <1>4, <1>1 DEF SetGroupName, Versions
  <2>2. n \in NameItem
    BY <2>1, <1>2, <1>3 DEF NameItem
  <2>3. n.id = NoId \/ (b.name # None /\ n.id = b.name.id)
    BY <1>2 DEF NameItem
  <2>4. c \in ChangeSets
    BY <2>2, <1>1, <1>2, SetExcept
  <2>5. KeepsIds(c, b)
    <3> HIDE DEF n
    <3> QED
      BY <2>3, <1>1, IdsKept
  <2>6. Edit(g, c)
    BY <1>4 DEF SetGroupName, b
  <2>7. EditStep(g, c)
    BY <1>4, <1>1, <2>5, <2>6 DEF SetGroupName, EditStep, b
  <2> QED
    BY <2>4, <2>7
<1>5. ASSUME NEW c, Edits(g, c), made' \in SUBSET Groups, c \in ChangeSets \cup {None},
             c # None => KeepsIds(c, b)
      PROVE  \E d \in ChangeSets \cup {None} : EditStep(g, d)
  BY <1>5, <1>1 DEF Edits, EditStep, b
<1>6. CASE CreateNewGroup(g)
  <2> DEFINE c == [EmptyChange EXCEPT !.add = [who |-> {Me}, id |-> NoId]]
  <2>1. c \in ChangeSets
    BY <1>3, EmptyType, SetExcept, SetFields, ItemTypes
  <2>2. KeepsIds(c, b)
    BY DEF KeepsIds, EmptyChange, Who
  <2> HIDE DEF c
  <2>3. Edits(g, c) /\ made' \in SUBSET Groups
    BY <1>6, <1>1 DEF CreateNewGroup, c
  <2> QED
    BY <1>5, <2>1, <2>2, <2>3
<1>7. ASSUME NEW u \in Peers, AddUser(g, u) \/ RemoveUser(g, u)
      PROVE  \E c \in ChangeSets \cup {None} : EditStep(g, c)
  <2> DEFINE c == [b EXCEPT !.rm = Without(@, u), !.add = Join(@, {u})]
             d == [b EXCEPT !.add = Without(@, u), !.rm = Join(@, {u})]
  <2>1. {u} \in SUBSET Users /\ {u} \in SUBSET Peers
    BY <1>3
  <2>2. c \in ChangeSets /\ d \in ChangeSets
    BY <2>1, <1>1, <1>2, <1>3, SetExcept, ItemTypes
  <2>3. KeepsIds(c, b) /\ KeepsIds(d, b)
    BY <2>1, <1>1, IdsKept
  <2> HIDE DEF c, d
  <2>4. (Edits(g, c) \/ Edits(g, d)) /\ made' \in SUBSET Groups
    BY <1>7, <1>1 DEF AddUser, RemoveUser, b, c, d
  <2> QED
    BY <1>5, <2>2, <2>3, <2>4
<1>8. CASE Revoke(g)
  <2> DEFINE c == [b EXCEPT !.name = None]
             d(u) == [b EXCEPT !.add = Without(@, u)]
             e(u) == [b EXCEPT !.rm = Without(@, u)]
  <2>1. c \in ChangeSets /\ KeepsIds(c, b)
    BY <1>1, <1>2, SetExcept, IdsKept
  <2>2. ASSUME NEW u \in Peers
        PROVE  d(u) \in ChangeSets /\ KeepsIds(d(u), b) /\ e(u) \in ChangeSets /\ KeepsIds(e(u), b)
    BY <1>1, <1>2, <1>3, SetExcept, ItemTypes, IdsKept
  <2>3. \/ Edits(g, c)
        \/ \E u \in Peers : Edits(g, d(u)) \/ Edits(g, e(u))
    BY <1>8 DEF Revoke, b
  <2>4. made' \in SUBSET Groups
    BY <1>8, <1>1 DEF Revoke
  <2> HIDE DEF c, d, e
  <2> QED
    BY <1>5, <2>1, <2>2, <2>3, <2>4
<1>9. CASE CancelGroupChangeSet(g)
  BY <1>9, <1>1, <1>5 DEF CancelGroupChangeSet
<1> QED
  BY <1>4, <1>6, <1>7, <1>8, <1>9 DEF EditsOf

----------------------------------------------------------------------------
(* Types.                                                                  *)

LEMMA TypeInit == Init => TypeOK
<1> SUFFICES ASSUME Init PROVE TypeOK
  OBVIOUS
<1>1. Me \in Users /\ 0 \in Versions /\ 0 \in Ids
  BY DEF Users, Versions, Ids
<1>2. net \in [Peers -> Seq(Letterings)]
  BY DEF Init
<1>3. TablesType
  BY <1>1 DEF Init, TablesType, Users
<1>4. MemoryType /\ ThreadsType
  BY <1>1 DEF Init, MemoryType, ThreadsType
<1>5. list \in [Peers -> [Groups -> SUBSET Users]] /\ knows \in [Peers -> SUBSET Groups]
  BY <1>3 DEF Init, TablesType
<1>6. /\ shown \in [Peers -> [Groups -> Versions]]
      /\ since \in [Peers -> [Groups -> Nat]]
      /\ asked \in [Peers -> SUBSET Groups]
  BY <1>3 DEF Init, TablesType
<1>7. NetType /\ HistType
  BY <1>2 DEF Init, NetType, HistType
<1> QED
  BY <1>3, <1>4, <1>5, <1>6, <1>7 DEF TypeOK, PeersType

LEMMA PrepareType ==
  ASSUME TypeOK, NEW t \in Threads, Prepare(t)
  PROVE  TypeOK'
<1> DEFINE g   == grp[t]
           id  == lastId + 1
           c   == Clocked(current[g], g, id)
           all == members[g] \cup (IF exists[g] THEN {} ELSE {Me}) \cup Who(c.add)
           n   == WithName(c, g, id)
           d   == [name |-> n.name,
                   add  |-> IF c.add = None THEN None ELSE [who |-> all, id |-> id],
                   rm   |-> Stamp(c.rm, id)]
<1>1. g \in Groups /\ id \in Ids /\ id \in Nat /\ current[g] \in ChangeSets
  BY DEF Prepare, TypeOK, ThreadsType, HistType, MemoryType, Ids
<1>2. c \in ChangeSets
  BY <1>1, ClockedType DEF TypeOK
<1> HIDE DEF id
<1>3. n \in ChangeSets
  <2> HIDE DEF c
  <2> QED
    BY <1>1, <1>2, WithNameType DEF TypeOK
<1>4. /\ c.name \in NameItem \cup {None} /\ c.add \in Items /\ c.rm \in Items
      /\ n.name \in NameItem \cup {None}
  <2> HIDE DEF c, n
  <2> QED
    BY <1>2, <1>3, SetFields
<1>5. Who(c.add) \in SUBSET Users /\ Stamp(c.rm, id) \in Items /\ Who(c.rm) \in SUBSET Users
  <2> HIDE DEF c
  <2> QED
    BY <1>1, <1>4, ItemTypes
<1>6. all \in SUBSET Users
  <2> HIDE DEF c
  <2>1. members[g] \in SUBSET Users /\ Me \in Users
    BY <1>1 DEF TypeOK, TablesType, Users
  <2> QED
    BY <2>1, <1>5
<1>7. d \in ChangeSets
  <2> HIDE DEF c, n, all
  <2>1. [who |-> all, id |-> id] \in Items
    BY <1>1, <1>4, <1>6, ItemTypes
  <2>2. (IF c.add = None THEN None ELSE [who |-> all, id |-> id]) \in Items
    BY <2>1 DEF Items
  <2> QED
    BY <2>2, <1>4, <1>5, SetOf
<1>8. /\ exists' = [exists EXCEPT ![g] = TRUE]
      /\ IF c.name = None THEN UNCHANGED <<name, clock>>
         ELSE /\ name' = [name EXCEPT ![g] = c.name.v]
              /\ clock' = [clock EXCEPT ![g] = c.name.clk]
      /\ members' = [members EXCEPT ![g] = all \ (Who(c.rm) \ {Me})]
      /\ current' = [current EXCEPT ![g] = d]
      /\ inProgress' = TRUE /\ uid' = id /\ lastId' = id
      /\ outside' = outside \cup ({g} \X Who(c.rm)) /\ stale' = stale
      /\ pc' = [pc EXCEPT ![t] = "list"]
      /\ UNCHANGED <<rows, pending, call, grp, todo, net, back, peers, made, names, quit, torn>>
  BY DEF Prepare, id
<1> HIDE DEF c, n, all, d, g
<1>9. TablesType'
  BY <1>1, <1>4, <1>6, <1>8 DEF TypeOK, TablesType, NameItem
<1>10. MemoryType'
  BY <1>1, <1>7, <1>8 DEF TypeOK, MemoryType
<1>11. ThreadsType' /\ NetType' /\ PeersType'
  BY <1>8 DEF TypeOK, ThreadsType, NetType, PeersType, peers
<1>12. HistType'
  BY <1>1, <1>5, <1>8 DEF TypeOK, HistType
<1> QED
  BY <1>9, <1>10, <1>11, <1>12 DEF TypeOK

LEMMA PrepareFailsType ==
  ASSUME TypeOK, NEW t \in Threads, PrepareFails(t)
  PROVE  TypeOK'
<1>1. /\ grp[t] \in Groups /\ lastId + 1 \in Ids /\ lastId + 1 \in Nat
      /\ current[grp[t]] \in ChangeSets /\ Me \in Users
  BY DEF PrepareFails, TypeOK, ThreadsType, HistType, MemoryType, Ids, Users
<1>2. Clocked(current[grp[t]], grp[t], lastId + 1) \in ChangeSets
  BY <1>1, ClockedType DEF TypeOK
<1>3. TablesType'
  <2>1. \/ UNCHANGED <<exists, members>>
        \/ /\ exists' = [exists EXCEPT ![grp[t]] = TRUE]
           /\ \E m \in {members[grp[t]], {Me}} : members' = [members EXCEPT ![grp[t]] = m]
    BY DEF PrepareFails
  <2>2. members[grp[t]] \in SUBSET Users /\ {Me} \in SUBSET Users
    BY <1>1 DEF TypeOK, TablesType
  <2>3. exists' \in [Groups -> BOOLEAN]
    BY <1>1, <2>1 DEF TypeOK, TablesType
  <2>4. members' \in [Groups -> SUBSET Users]
    BY <1>1, <2>1, <2>2 DEF TypeOK, TablesType
  <2> QED
    BY <2>3, <2>4 DEF PrepareFails, TypeOK, TablesType
<1>4. current' \in [Groups -> ChangeSets \cup {None}]
  BY <1>1, <1>2 DEF PrepareFails, TypeOK, MemoryType
<1>5. MemoryType'
  BY <1>1, <1>4 DEF PrepareFails, TypeOK, MemoryType
<1>6. ThreadsType' /\ NetType' /\ PeersType'
  BY DEF PrepareFails, Over, TypeOK, ThreadsType, NetType, PeersType, peers
<1>7. HistType'
  BY <1>1 DEF PrepareFails, TypeOK, HistType
<1> QED
  BY <1>3, <1>5, <1>6, <1>7 DEF TypeOK

\* One message goes to one device of a member; the rest is left as it is.
LEMMA DeviceType ==
  ASSUME TypeOK, NEW g \in Groups, NEW p \in Peers, Device(g, p)
  PROVE  /\ TablesType' /\ MemoryType' /\ HistType'
         /\ net' \in [Peers -> Seq(Letterings)]
<1>1. torn' \subseteq Groups
  BY DEF Device, Astray, TypeOK, HistType
<1>2. HistType'
  <2>1. Contrary(g, p) \subseteq Users
    <3>1. OwedUsers(g, p, "add") \in SUBSET Users
      BY OwedType DEF TypeOK
    <3>2. members[g] \in SUBSET Users
      BY DEF TypeOK, TablesType
    <3> QED
      BY <3>1, <3>2 DEF Contrary
  <2>2. stale' \subseteq stale \cup ({g} \X Users) /\ outside' \subseteq outside \cup ({g} \X Users)
    BY <2>1 DEF Device, Users
  <2> QED
    BY <1>1, <2>2 DEF Device, TypeOK, HistType
<1>3. CASE DeviceSet(g, p)
  <2> DEFINE c == Collapsed(g, p)
  <2>1. c \in ChangeSets
    BY <1>3, CollapsedType DEF DeviceSet
  <2>2. /\ current' = [current EXCEPT ![g] = c] /\ rows' = Awaited(g, p, c)
        /\ Post(p, Letter(g, c))
        /\ UNCHANGED <<exists, members, name, clock, pending, inProgress, uid>>
    BY <1>3 DEF DeviceSet
  <2> HIDE DEF c
  <2>3. rows' \subseteq RowType
    BY <2>2, AwaitedType
  <2>4. net' \in [Peers -> Seq(Letterings)]
    BY <2>1, <2>2, PostType DEF TypeOK
  <2> QED
    BY <2>1, <2>2, <2>3, <2>4, <1>2 DEF TypeOK, TablesType, MemoryType
<1>4. CASE DevicePlain(g, p)
  <2>1. \E c \in ChangeSets \cup {None} : Post(p, Letter(g, c))
    BY <1>4 DEF DevicePlain, PendingOf, TypeOK, MemoryType
  <2>2. net' \in [Peers -> Seq(Letterings)]
    BY <2>1, PostType DEF TypeOK
  <2> QED
    BY <1>4, <2>2, <1>2 DEF DevicePlain, TypeOK, TablesType, MemoryType, tables, memory
<1>5. CASE DeviceInconsistent(g)
  BY <1>5, <1>2 DEF DeviceInconsistent, TypeOK, TablesType, MemoryType, NetType, tables, memory
<1> QED
  BY <1>3, <1>4, <1>5 DEF Device

LEMMA ForgetType ==
  ASSUME TypeOK, NEW g \in Groups, Forget(g)
  PROVE  TablesType' /\ MemoryType' /\ HistType'
<1>1. 0 \in Versions
  BY DEF Versions
<1>2. rows' \subseteq RowType /\ pending' \subseteq pending
  BY DEF Forget, TypeOK, TablesType
<1> QED
  BY <1>1, <1>2 DEF Forget, TypeOK, TablesType, MemoryType, HistType

LEMMA ArrivesType ==
  ASSUME TypeOK, NEW p \in Peers, NEW k \in DOMAIN net[p], Arrives(p, k)
  PROVE  /\ TablesType' /\ MemoryType' /\ ThreadsType' /\ HistType'
         /\ net' \in [Peers -> Seq(Letterings)]
         /\ k \in 1 .. Len(net[p]) /\ net[p] \in Seq(Letterings) /\ net[p][k] \in Letterings
<1>1. net[p] \in Seq(Letterings)
  BY DEF TypeOK, NetType
<1>2. k \in 1 .. Len(net[p])
  BY <1>1
<1>3. net[p][k] \in Letterings
  BY <1>1, <1>2, ElementOfSeq
<1>4. Gone(net[p], k) \in Seq(Letterings)
  BY <1>1, <1>2, GoneProperties
<1>5. net' \in [Peers -> Seq(Letterings)]
  BY <1>4 DEF Arrives, TypeOK, NetType
<1>6. TablesType' /\ MemoryType' /\ ThreadsType' /\ HistType'
  BY DEF Arrives, tables, memory, threads, hist, TypeOK, TablesType, MemoryType, ThreadsType, HistType
<1> QED
  BY <1>1, <1>2, <1>3, <1>5, <1>6

\* One entry of a table of a peer is written.
LEMMA PeerExcept ==
  ASSUME NEW S, NEW f \in [Peers -> [Groups -> S]], NEW p \in Peers, NEW g \in Groups, NEW v \in S
  PROVE  /\ [f EXCEPT ![p][g] = v] \in [Peers -> [Groups -> S]]
         /\ \A q \in Peers, h \in Groups :
              [f EXCEPT ![p][g] = v][q][h] = IF q = p /\ h = g THEN v ELSE f[q][h]
<1>1. [f[p] EXCEPT ![g] = v] \in [Groups -> S]
  OBVIOUS
<1> QED
  BY <1>1

LEMMA PeerChangeType ==
  ASSUME TypeOK, NEW p \in Peers, NEW k \in DOMAIN net[p], PeerChange(p, k)
  PROVE  TypeOK'
<1> DEFINE g == net[p][k].group
           c == net[p][k].set
           new == g \notin knows[p]
           newer == c.name # None /\ c.name.clk > since[p][g]
           acks == {[id |-> c[y].id, type |-> y] : y \in
                     {y \in Present(c) : y = "name" \/ Who(c.add) \cup Who(c.rm) # {}}}
<1>1. Arrives(p, k) /\ c # None
  BY DEF PeerChange
<1>2. /\ TablesType' /\ MemoryType' /\ ThreadsType' /\ HistType'
      /\ net' \in [Peers -> Seq(Letterings)] /\ net[p][k] \in Letterings
  BY <1>1, ArrivesType
<1>3. g \in Groups /\ c \in ChangeSets
  BY <1>1, <1>2 DEF Letterings
<1>4. c.name \in NameItem \cup {None} /\ c.add \in Items /\ c.rm \in Items
  BY <1>3, SetFields
<1>5. 0 \in Ids
  BY DEF Ids
<1>6. Who(c.add) \in SUBSET Users /\ Who(c.rm) \in SUBSET Users
  BY <1>4, <1>5, ItemTypes
<1>7. acks \in SUBSET [id : Ids, type : Types]
  <2> SUFFICES ASSUME NEW y \in Present(c) PROVE [id |-> c[y].id, type |-> y] \in [id : Ids, type : Types]
    OBVIOUS
  <2>1. y \in Types /\ c[y] # None
    BY DEF Present
  <2>2. c[y].id \in Ids
    BY <2>1, <1>4 DEF Types, Items, NameItem, MemberItem
  <2> QED
    BY <2>1, <2>2
<1>8. /\ knows' = [knows EXCEPT ![p] = @ \cup {g}]
      /\ shown' = IF newer \/ (new /\ c.name # None)
                  THEN [shown EXCEPT ![p][g] = c.name.v] ELSE shown
      /\ since' = IF newer THEN [since EXCEPT ![p][g] = c.name.clk] ELSE since
      /\ list' = [list EXCEPT ![p][g] =
                    (@ \cup (IF new THEN {p} ELSE {}) \cup Who(c.add)) \ Who(c.rm)]
      /\ back' = IF acks = {} THEN back ELSE back \cup {Reply(p, g, acks)}
      /\ UNCHANGED asked
  BY DEF PeerChange
<1> HIDE DEF g, c, acks
<1>9. back' \subseteq Replies
  BY <1>3, <1>7, <1>8 DEF Reply, Replies, TypeOK, NetType
<1>10. knows' \in [Peers -> SUBSET Groups] /\ asked' \in [Peers -> SUBSET Groups]
  BY <1>3, <1>8 DEF TypeOK, PeersType
<1>11. list' \in [Peers -> [Groups -> SUBSET Users]]
  <2>1. p \in Users
    BY DEF Users
  <2> DEFINE l == (list[p][g] \cup (IF new THEN {p} ELSE {}) \cup Who(c.add)) \ Who(c.rm)
  <2>2. l \in SUBSET Users
    BY <2>1, <1>3, <1>6 DEF TypeOK, PeersType
  <2>3. list' = [list EXCEPT ![p][g] = l]
    BY <1>8
  <2> HIDE DEF l
  <2> QED
    BY <2>2, <2>3, <1>3 DEF TypeOK, PeersType
<1> DEFINE v == c.name.v
           clk == c.name.clk
<1>a. c.name # None => v \in Versions /\ clk \in Nat
  BY <1>4 DEF NameItem
<1>b. /\ shown' = shown \/ (c.name # None /\ shown' = [shown EXCEPT ![p][g] = v])
      /\ since' = since \/ (c.name # None /\ since' = [since EXCEPT ![p][g] = clk])
  BY <1>8
<1> HIDE DEF v, clk
<1>c. shown \in [Peers -> [Groups -> Versions]] /\ since \in [Peers -> [Groups -> Nat]]
  BY DEF TypeOK, PeersType
<1>12. shown' \in [Peers -> [Groups -> Versions]]
  <2>1. CASE shown' = shown
    BY <2>1, <1>c
  <2>2. CASE c.name # None /\ shown' = [shown EXCEPT ![p][g] = v]
    <3>1. v \in Versions
      BY <2>2, <1>a
    <3>2. [shown EXCEPT ![p][g] = v] \in [Peers -> [Groups -> Versions]]
      BY <3>1, <1>3, <1>c, PeerExcept
    <3> QED
      BY <3>2, <2>2
  <2> QED
    BY <2>1, <2>2, <1>b
<1>13. since' \in [Peers -> [Groups -> Nat]]
  <2>1. CASE since' = since
    BY <2>1, <1>c
  <2>2. CASE c.name # None /\ since' = [since EXCEPT ![p][g] = clk]
    <3>1. clk \in Nat
      BY <2>2, <1>a
    <3>2. [since EXCEPT ![p][g] = clk] \in [Peers -> [Groups -> Nat]]
      BY <3>1, <1>3, <1>c, PeerExcept
    <3> QED
      BY <3>2, <2>2
  <2> QED
    BY <2>1, <2>2, <1>b
<1> QED
  BY <1>2, <1>9, <1>10, <1>11, <1>12, <1>13 DEF TypeOK, NetType, PeersType

LEMMA PeerUnknownType ==
  ASSUME TypeOK, NEW p \in Peers, NEW k \in DOMAIN net[p], PeerUnknown(p, k)
  PROVE  TypeOK'
<1>1. Arrives(p, k)
  BY DEF PeerUnknown
<1>2. /\ TablesType' /\ MemoryType' /\ ThreadsType' /\ HistType'
      /\ net' \in [Peers -> Seq(Letterings)] /\ net[p][k] \in Letterings
  BY <1>1, ArrivesType
<1>3. net[p][k].group \in Groups
  BY <1>2 DEF Letterings
<1>4. Reply(p, net[p][k].group, {}) \in Replies
  BY <1>3 DEF Reply, Replies
<1>5. back' \subseteq Replies
  BY <1>4 DEF PeerUnknown, TypeOK, NetType
<1>6. PeersType'
  <2>1. asked' \in [Peers -> SUBSET Groups]
    <3>1. asked \in [Peers -> SUBSET Groups]
      BY DEF TypeOK, PeersType
    <3>2. \/ asked' = asked
          \/ asked' = [asked EXCEPT ![p] = @ \cup {net[p][k].group}]
      BY DEF PeerUnknown
    <3> QED
      BY <1>3, <3>1, <3>2
  <2> QED
    BY <2>1 DEF PeerUnknown, TypeOK, PeersType
<1> QED
  BY <1>2, <1>5, <1>6 DEF TypeOK, NetType

LEMMA HelloType ==
  ASSUME TypeOK, NEW g \in Groups, NEW p \in Peers, Hello(g, p)
  PROVE  TypeOK'
<1> DEFINE id == lastId + 1
           a == [EmptyChange EXCEPT !.add = [who |-> members[g], id |-> id]]
           c == WithName(a, g, id)
<1>1. id \in Ids /\ id \in Nat /\ members[g] \in SUBSET Users
  BY DEF TypeOK, TablesType, HistType, Ids
<1>2. [who |-> members[g], id |-> id] \in Items
  BY <1>1 DEF Items, MemberItem
<1>3. a \in ChangeSets
  BY <1>2, EmptyType, SetExcept, SetFields
<1>4. c \in ChangeSets
  <2> HIDE DEF a, id
  <2> QED
    BY <1>1, <1>3, WithNameType DEF TypeOK
<1>5. /\ lastId' = id /\ rows' = rows \cup {Row(g, p, id, y) : y \in Present(c)}
      /\ Post(p, Letter(g, c))
      /\ UNCHANGED <<exists, members, name, clock, memory, threads, back, peers,
                     made, names, outside, stale, quit, torn>>
  BY DEF Hello
<1> HIDE DEF c, id
<1>6. rows' \subseteq RowType
  <2>1. {Row(g, p, id, y) : y \in Present(c)} \subseteq RowType
    BY <1>1, RowTypes DEF Present
  <2> QED
    BY <2>1, <1>5 DEF TypeOK, TablesType
<1>7. net' \in [Peers -> Seq(Letterings)]
  BY <1>4, <1>5, PostType DEF TypeOK
<1> QED
  BY <1>1, <1>5, <1>6, <1>7 DEF TypeOK, TablesType, MemoryType, ThreadsType, NetType, PeersType,
                                HistType, memory, threads, peers

\* The steps, one kind after the other.
LEMMA Steps ==
  ASSUME Next
  PROVE  \/ \E g \in Groups : EditsOf(g) \/ SiblingLeaves(g)
         \/ \E g \in Groups, t \in Threads : LeaveGroup(t, g)
         \/ \E g \in Groups, t \in Threads : \E c \in {"all", "one"} : SendGroupMessage(t, g, c)
         \/ \E g \in Groups, t \in Threads, p \in Peers : SendGroupCommandToMember(t, g, p)
         \/ \E g \in Groups, p \in Peers : Hello(g, p)
         \/ \E t \in Threads : Thread(t)
         \/ \E a \in back : TakeAcks(a) \/ TakeRequest(a)
         \/ \E p \in Peers : \E k \in DOMAIN net[p] : Peer(p, k)
         \/ Lose \/ Crash
<1>1. CASE App
  BY <1>1 DEF App, EditsOf
<1>2. CASE QueueThread
  BY <1>2 DEF QueueThread
<1> QED
  BY <1>1, <1>2 DEF Next

LEMMA TypeStep == TypeOK /\ [Next]_vars => TypeOK'
<1> SUFFICES ASSUME TypeOK, [Next]_vars PROVE TypeOK'
  OBVIOUS
<1> USE DEF TypeOK
<1>1. CASE UNCHANGED vars
  BY <1>1 DEF vars, tables, memory, threads, peers, hist, TablesType, MemoryType, ThreadsType,
              NetType, PeersType, HistType
<1>2. ASSUME NEW g \in Groups, EditsOf(g) PROVE TypeOK'
  <2>1. PICK c \in ChangeSets \cup {None} : EditStep(g, c)
    BY <1>2, EditCases
  <2>2. MemoryType'
    BY <2>1 DEF EditStep, Edit, MemoryType
  <2>3. TablesType' /\ ThreadsType' /\ NetType' /\ PeersType'
    BY <2>1 DEF EditStep, Edit, tables, threads, peers, TablesType, ThreadsType, NetType, PeersType
  <2>4. HistType'
    BY <2>1 DEF EditStep, Edit, HistType
  <2> QED
    BY <2>2, <2>3, <2>4
<1>3. ASSUME NEW g \in Groups, SiblingLeaves(g) PROVE TypeOK'
  <2>1. TablesType' /\ MemoryType' /\ HistType'
    BY <1>3, ForgetType DEF SiblingLeaves
  <2> QED
    BY <1>3, <2>1 DEF SiblingLeaves, threads, peers, ThreadsType, NetType, PeersType
<1>4. ASSUME NEW g \in Groups, NEW t \in Threads, LeaveGroup(t, g) PROVE TypeOK'
  <2>1. [EmptyChange EXCEPT !.rm = [who |-> {Me}, id |-> NoId]] \in ChangeSets
    <3>1. [who |-> {Me}, id |-> NoId] \in Items
      BY DEF Items, MemberItem, Users, Ids
    <3> QED
      BY <3>1, EmptyType, SetExcept, SetFields
  <2>2. MemoryType'
    BY <1>4, <2>1 DEF LeaveGroup, MemoryType
  <2>3. TablesType' /\ NetType' /\ PeersType'
    BY <1>4 DEF LeaveGroup, tables, peers, TablesType, NetType, PeersType
  <2>4. ThreadsType' /\ HistType'
    BY <1>4 DEF LeaveGroup, ThreadsType, HistType
  <2> QED
    BY <2>2, <2>3, <2>4
<1>5. ASSUME NEW g \in Groups, NEW t \in Threads, NEW c \in {"all", "one"},
             SendGroupMessage(t, g, c)
      PROVE  TypeOK'
  BY <1>5 DEF SendGroupMessage, tables, memory, peers, hist, TablesType, MemoryType, ThreadsType,
              NetType, PeersType, HistType
<1>6. ASSUME NEW g \in Groups, NEW t \in Threads, NEW p \in Peers, SendGroupCommandToMember(t, g, p)
      PROVE  TypeOK'
  <2>1. /\ TablesType' /\ MemoryType' /\ HistType' /\ net' \in [Peers -> Seq(Letterings)]
    BY <1>6, DeviceType DEF SendGroupCommandToMember
  <2> QED
    BY <1>6, <2>1 DEF SendGroupCommandToMember, threads, peers, ThreadsType, NetType, PeersType
<1>7. ASSUME NEW g \in Groups, NEW p \in Peers, Hello(g, p) PROVE TypeOK'
  BY <1>7, HelloType
<1>8. ASSUME NEW t \in Threads, Thread(t) PROVE TypeOK'
  <2>g. grp[t] \in Groups
    BY DEF ThreadsType
  <2>1. CASE PrepareNothing(t)
    BY <2>1 DEF PrepareNothing, Over, tables, memory, peers, hist, TablesType, MemoryType,
                ThreadsType, NetType, PeersType, HistType
  <2>2. CASE Prepare(t)
    BY <2>2, PrepareType
  <2>3. CASE PrepareFails(t)
    BY <2>3, PrepareFailsType
  <2>4. CASE ListMembers(t)
    <3>1. members[grp[t]] \ {Me} \in SUBSET Peers
      BY <2>g DEF TablesType, Users
    <3>2. pc' \in [Threads -> {"idle", "prepare", "list", "send", "leave", "stuck"}]
      BY <2>4 DEF ListMembers, Over, ThreadsType
    <3>3. todo' \in [Threads -> SUBSET Peers]
      BY <2>4, <3>1 DEF ListMembers, ThreadsType
    <3> QED
      BY <2>4, <3>2, <3>3 DEF ListMembers, tables, memory, peers, hist, TablesType,
                         MemoryType, ThreadsType, NetType, PeersType, HistType
  <2>5. CASE ListOne(t)
    <3>1. net' \in [Peers -> Seq(Letterings)]
      BY <2>5, <2>g, PostType DEF ListOne, NetType
    <3>2. pc' \in [Threads -> {"idle", "prepare", "list", "send", "leave", "stuck"}]
      BY <2>5 DEF ListOne, ThreadsType
    <3>3. todo' \in [Threads -> SUBSET Peers]
      BY <2>5 DEF ListOne, ThreadsType
    <3>4. torn' \subseteq Groups
      BY <2>5, <2>g DEF ListOne, HistType
    <3> QED
      BY <2>5, <3>1, <3>2, <3>3, <3>4 DEF ListOne, tables, memory, peers, TablesType, MemoryType,
                                    ThreadsType, NetType, PeersType, HistType
  <2>6. ASSUME NEW p \in Peers, SendToMember(t, p) PROVE TypeOK'
    <3>1. /\ TablesType' /\ MemoryType' /\ HistType' /\ net' \in [Peers -> Seq(Letterings)]
      BY <2>6, <2>g, DeviceType DEF SendToMember
    <3> QED
      BY <2>6, <3>1 DEF SendToMember, peers, ThreadsType, NetType, PeersType
  <2>7. CASE SendBlocks(t)
    BY <2>7 DEF SendBlocks, tables, memory, peers, hist, TablesType, MemoryType, ThreadsType,
                NetType, PeersType, HistType
  <2>8. CASE SendDone(t)
    <3>1. 0 \in Ids
      BY DEF Ids
    <3>2. current' \in [Groups -> ChangeSets \cup {None}] /\ inProgress' \in BOOLEAN /\ uid' \in Ids
      BY <2>8, <2>g, <3>1 DEF SendDone, memory, MemoryType
    <3>3. pending' \subseteq [id : Ids, group : Groups, set : ChangeSets]
      <4>1. current[grp[t]] # None =>
              [id |-> uid, group |-> grp[t], set |-> current[grp[t]]]
                \in [id : Ids, group : Groups, set : ChangeSets]
        BY <2>g DEF MemoryType
      <4>2. pending' \subseteq pending \cup {[id |-> uid, group |-> grp[t], set |-> current[grp[t]]]}
        BY <2>8 DEF SendDone, memory, PendingOf
      <4>3. current[grp[t]] = None => pending' \subseteq pending
        BY <2>8 DEF SendDone, memory, PendingOf
      <4> QED
        BY <4>1, <4>2, <4>3 DEF MemoryType
    <3>4. pc' \in [Threads -> {"idle", "prepare", "list", "send", "leave", "stuck"}]
      BY <2>8 DEF SendDone, Over, ThreadsType
    <3>5. torn' \subseteq Groups
      BY <2>8, <2>g DEF SendDone, Cut, Astray, ThreadsType, HistType
    <3> QED
      BY <2>8, <3>2, <3>3, <3>4, <3>5 DEF SendDone, tables, peers, TablesType, MemoryType,
           ThreadsType, NetType, PeersType, HistType
  <2>9. CASE ProcessLeaveGroup(t)
    <3>1. TablesType' /\ MemoryType' /\ HistType'
      BY <2>9, <2>g, ForgetType DEF ProcessLeaveGroup
    <3> QED
      BY <2>9, <3>1 DEF ProcessLeaveGroup, peers, ThreadsType, NetType, PeersType
  <2> QED
    BY <1>8, <2>1, <2>2, <2>3, <2>4, <2>5, <2>6, <2>7, <2>8, <2>9 DEF Thread
<1>9. ASSUME NEW a \in back, TakeAcks(a) PROVE TypeOK'
  <2>1. rows' \subseteq rows /\ pending' \subseteq pending /\ back' \subseteq back
    BY <1>9 DEF TakeAcks
  <2> QED
    BY <1>9, <2>1 DEF TakeAcks, threads, peers, hist, TablesType, MemoryType, ThreadsType,
                      NetType, PeersType, HistType
<1>10. ASSUME NEW a \in back, TakeRequest(a) PROVE TypeOK'
  <2>1. a.group \in Groups /\ a.from \in Users
    BY DEF NetType, Replies, Users
  <2>2. members' \in [Groups -> SUBSET Users] /\ quit' \subseteq Groups \X Users
    BY <1>10, <2>1 DEF TakeRequest, TablesType, HistType
  <2>3. back' \subseteq back
    BY <1>10 DEF TakeRequest
  <2> QED
    BY <1>10, <2>2, <2>3 DEF TakeRequest, memory, threads, peers, TablesType, MemoryType,
                             ThreadsType, NetType, PeersType, HistType
<1>11. ASSUME NEW p \in Peers, NEW k \in DOMAIN net[p], Peer(p, k) PROVE TypeOK'
  <2>1. CASE PeerMessage(p, k)
    <3>1. /\ TablesType' /\ MemoryType' /\ ThreadsType' /\ HistType'
          /\ net' \in [Peers -> Seq(Letterings)]
      BY <2>1, ArrivesType DEF PeerMessage
    <3> QED
      BY <2>1, <3>1 DEF PeerMessage, peers, NetType, PeersType
  <2> QED
    BY <1>11, <2>1, PeerChangeType, PeerUnknownType DEF Peer
<1>12. CASE Lose
  <2>1. net' \in [Peers -> Seq(Letterings)]
    <3>1. CASE UNCHANGED net
      BY <3>1 DEF NetType
    <3>2. ASSUME NEW p \in Peers, NEW k \in DOMAIN net[p], net' = [net EXCEPT ![p] = Gone(@, k)]
          PROVE  net' \in [Peers -> Seq(Letterings)]
      <4>1. net[p] \in Seq(Letterings) /\ k \in 1 .. Len(net[p])
        BY DEF NetType
      <4>2. Gone(net[p], k) \in Seq(Letterings)
        BY <4>1, GoneProperties
      <4> QED
        BY <3>2, <4>2 DEF NetType
    <3> QED
      BY <1>12, <3>1, <3>2 DEF Lose
  <2>2. back' \subseteq back
    BY <1>12 DEF Lose
  <2> QED
    BY <1>12, <2>1, <2>2 DEF Lose, tables, memory, threads, peers, hist, TablesType, MemoryType,
                             ThreadsType, NetType, PeersType, HistType
<1>13. CASE Crash
  <2>1. MemoryType'
    BY <1>13 DEF Crash, MemoryType, Ids
  <2>2. ThreadsType'
    BY <1>13 DEF Crash, ThreadsType
  <2>3. HistType'
    BY <1>13 DEF Crash, ThreadsType, HistType
  <2> QED
    BY <1>13, <2>1, <2>2, <2>3 DEF Crash, tables, peers, TablesType, NetType, PeersType
<1> QED
  BY <1>1, <1>2, <1>3, <1>4, <1>5, <1>6, <1>7, <1>8, <1>9, <1>10, <1>11, <1>12, <1>13, Steps

\* The tables, sets, messages and peers have their types.
THEOREM TypeCorrect == Spec => []TypeOK
  BY TypeInit, TypeStep, PTL DEF Spec

----------------------------------------------------------------------------
(* What is on its way.                                                     *)

LEMMA SetsType ==
  ASSUME TypeOK, NEW g \in Groups
  PROVE  Sets(g) \subseteq ChangeSets \cup {None}
<1>1. \A x \in PendingOf(g) : x.set \in ChangeSets
  BY DEF TypeOK, MemoryType, PendingOf
<1>2. ASSUME NEW p \in Peers, NEW k \in DOMAIN net[p]
      PROVE  net[p][k].set \in ChangeSets \cup {None}
  <2>1. net[p] \in Seq(Letterings)
    BY DEF TypeOK, NetType
  <2>2. net[p][k] \in Letterings
    BY <2>1, ElementOfSeq
  <2> QED
    BY <2>2 DEF Letterings
<1> QED
  BY <1>1, <1>2 DEF Sets, Letters

LEMMA SetsSame ==
  ASSUME NEW g \in Groups, UNCHANGED net, pending' \subseteq pending
  PROVE  Sets(g)' \subseteq Sets(g)
  BY DEF Sets, Letters, PendingOf

LEMMA SetsPosted ==
  ASSUME TypeOK, NEW p \in Peers, NEW h \in Groups, NEW c \in ChangeSets \cup {None},
         Post(p, Letter(h, c)), UNCHANGED pending, NEW g \in Groups, NEW x \in Sets(g)'
  PROVE  x \in Sets(g) \/ (g = h /\ x = c)
<1>1. net' = [net EXCEPT ![p] = Append(net[p], [group |-> h, set |-> c])]
  BY PostType DEF TypeOK
<1>2. CASE \E y \in pending : y.group = g /\ x = y.set
  BY <1>2 DEF Sets, PendingOf
<1>3. ASSUME NEW q \in Peers, NEW k \in DOMAIN net'[q], net'[q][k].group = g, x = net'[q][k].set
      PROVE  x \in Sets(g) \/ (g = h /\ x = c)
  <2>1. CASE q # p
    <3>1. net'[q] = net[q]
      BY <2>1, <1>1 DEF TypeOK, NetType
    <3> QED
      BY <3>1, <1>3 DEF Sets, Letters
  <2>2. CASE q = p
    <3> DEFINE l == [group |-> h, set |-> c]
    <3>1. net[p] \in Seq(Letterings) /\ l \in Letterings
      BY DEF TypeOK, NetType, Letterings
    <3>2. net'[q] = Append(net[p], l)
      BY <2>2, <1>1 DEF TypeOK, NetType
    <3> HIDE DEF l
    <3>3. /\ DOMAIN net[p] = 1 .. Len(net[p]) /\ DOMAIN net'[q] = 1 .. Len(net[p]) + 1
          /\ \A i \in 1 .. Len(net[p]) : net'[q][i] = net[p][i]
          /\ net'[q][Len(net[p]) + 1] = l
      BY <3>1, <3>2, AppendProperties, LenProperties
    <3>4. CASE k = Len(net[p]) + 1
      BY <3>3, <3>4, <1>3 DEF l
    <3>5. CASE k # Len(net[p]) + 1
      <4>1. k \in DOMAIN net[p] /\ net'[q][k] = net[p][k]
        BY <3>1, <3>3, <3>5, LenProperties
      <4> QED
        BY <4>1, <1>3 DEF Sets, Letters
    <3> QED
      BY <3>4, <3>5
  <2> QED
    BY <2>1, <2>2
<1>4. \/ \E y \in pending : y.group = g /\ x = y.set
      \/ \E q \in Peers : \E k \in DOMAIN net'[q] : net'[q][k].group = g /\ x = net'[q][k].set
  BY DEF Sets, Letters, PendingOf
<1> QED
  BY <1>2, <1>3, <1>4

LEMMA SetsGone ==
  ASSUME TypeOK, NEW p \in Peers, NEW j \in DOMAIN net[p],
         net' = [net EXCEPT ![p] = Gone(@, j)], UNCHANGED pending, NEW g \in Groups
  PROVE  Sets(g)' \subseteq Sets(g)
<1> SUFFICES ASSUME NEW x \in Sets(g)' PROVE x \in Sets(g)
  OBVIOUS
<1>1. CASE \E y \in pending : y.group = g /\ x = y.set
  BY <1>1 DEF Sets, PendingOf
<1>2. ASSUME NEW q \in Peers, NEW k \in DOMAIN net'[q], net'[q][k].group = g, x = net'[q][k].set
      PROVE  x \in Sets(g)
  <2>1. CASE q # p
    <3>1. net'[q] = net[q]
      BY <2>1 DEF TypeOK, NetType
    <3> QED
      BY <3>1, <1>2 DEF Sets, Letters
  <2>2. CASE q = p
    <3>1. net[p] \in Seq(Letterings) /\ j \in 1 .. Len(net[p])
      <4>1. net[p] \in Seq(Letterings)
        BY DEF TypeOK, NetType
      <4> QED
        BY <4>1, LenProperties
    <3>2. net'[q] = Gone(net[p], j)
      BY <2>2 DEF TypeOK, NetType
    <3>3. /\ net'[q] \in Seq(Letterings) /\ Len(net'[q]) = Len(net[p]) - 1
          /\ \A i \in 1 .. Len(net[p]) - 1 :
               net'[q][i] = IF i < j THEN net[p][i] ELSE net[p][i + 1]
      <4>1. /\ Gone(net[p], j) \in Seq(Letterings) /\ Len(Gone(net[p], j)) = Len(net[p]) - 1
            /\ \A i \in 1 .. Len(net[p]) - 1 :
                 Gone(net[p], j)[i] = IF i < j THEN net[p][i] ELSE net[p][i + 1]
        BY <3>1, GoneProperties
      <4> QED
        BY <3>2, <4>1
    <3>4. k \in 1 .. Len(net[p]) - 1 /\ Len(net[p]) \in Nat
      BY <3>1, <3>3, LenProperties
    <3>5. \E i \in 1 .. Len(net[p]) : net'[q][k] = net[p][i]
      <4>1. k \in 1 .. Len(net[p]) /\ k + 1 \in 1 .. Len(net[p])
        BY <3>4
      <4>2. net'[q][k] = IF k < j THEN net[p][k] ELSE net[p][k + 1]
        BY <3>3, <3>4
      <4> QED
        BY <4>1, <4>2
    <3>6. DOMAIN net[p] = 1 .. Len(net[p])
      BY <3>1, LenProperties
    <3> QED
      BY <3>5, <3>6, <1>2 DEF Sets, Letters
  <2> QED
    BY <2>1, <2>2
<1>3. \/ \E y \in pending : y.group = g /\ x = y.set
      \/ \E q \in Peers : \E k \in DOMAIN net'[q] : net'[q][k].group = g /\ x = net'[q][k].set
  BY DEF Sets, Letters, PendingOf
<1> QED
  BY <1>1, <1>2, <1>3

----------------------------------------------------------------------------
(* Steps that leave the name of a group as it is.                          *)

IsName(c, g) == Named(c) => c.name.clk = clock[g] /\ c.name.v = name[g]

Steady(g) ==
    /\ name'[g] = name[g] /\ clock'[g] = clock[g]
    /\ \A c \in Sets(g)' : c \in Sets(g) \/ IsName(c, g)
    /\ Prepared(g)' => Prepared(g) /\ uid' = uid /\ IsName(current'[g], g)
    /\ \A p \in Peers :
         /\ UpToDate(g, p) => UpToDate(g, p)'
         /\ since'[p][g] <= clock[g] /\ (since'[p][g] = clock[g] => shown'[p][g] = name[g])
    /\ \A a \in back' : \A id \in Ids :
         a.group = g /\ [id |-> id, type |-> "name"] \in a.acks
           => a \in back \/ UpToDate(g, a.from)' \/ ~Fresh(g, a.from, id)

LEMMA SteadyFresh ==
  ASSUME NEW g \in Groups, Steady(g), NEW p \in Peers, NEW id \in Ids, Fresh(g, p, id)
  PROVE  Fresh(g, p, id)'
<1>1. ASSUME NEW c \in Sets(g)', Named(c), c.name.id = id PROVE c.name.clk = clock'[g]
  BY <1>1 DEF Steady, IsName, Fresh
<1>2. ASSUME NEW a \in back', a.group = g, a.from = p, [id |-> id, type |-> "name"] \in a.acks
      PROVE  UpToDate(g, p)'
  <2>1. a \in back \/ UpToDate(g, p)'
    BY <1>2 DEF Steady
  <2>2. a \in back => UpToDate(g, p)
    BY <1>2 DEF Fresh
  <2> QED
    BY <2>1, <2>2 DEF Steady
<1>3. (\A c \in Sets(g) : Named(c) /\ c.name.id = id => c.name.clk = clock[g])'
  BY <1>1 DEF Named
<1> QED
  BY <1>2, <1>3 DEF Fresh

LEMMA SteadyKeeps ==
  ASSUME TypeOK, TypeOK', NEW g \in Groups, Steady(g), NamesKnown(g), UpdateFresh(g)
  PROVE  NamesKnown(g)' /\ UpdateFresh(g)'
<1>1. ASSUME NEW c \in Sets(g)', Named(c)
      PROVE  c.name.clk <= clock'[g] /\ (c.name.clk = clock'[g] => c.name.v = name'[g])
  <2>1. CASE c \in Sets(g)
    BY <1>1, <2>1 DEF Steady, NamesKnown
  <2>2. CASE IsName(c, g)
    BY <1>1, <2>2 DEF Steady, IsName, TypeOK, TablesType
  <2> QED
    BY <2>1, <2>2 DEF Steady
<1>2. (\A c \in Sets(g) : Named(c) =>
          c.name.clk <= clock[g] /\ (c.name.clk = clock[g] => c.name.v = name[g]))'
  BY <1>1 DEF Named
<1>3. NamesKnown(g)'
  <2>1. (Prepared(g) /\ Named(current[g]) =>
           current[g].name.clk = clock[g] /\ current[g].name.v = name[g])'
    BY DEF Steady, IsName, Named
  <2>2. (\A p \in Peers :
           since[p][g] <= clock[g] /\ (since[p][g] = clock[g] => shown[p][g] = name[g]))'
    BY DEF Steady
  <2> QED
    BY <1>2, <2>1, <2>2 DEF NamesKnown
<1>4. UpdateFresh(g)'
  <2> SUFFICES ASSUME Prepared(g)', NEW p \in Peers PROVE Fresh(g, p, uid)'
    BY DEF UpdateFresh
  <2>1. PICK id \in Ids : id = uid
    BY DEF TypeOK, MemoryType
  <2>2. Fresh(g, p, id) /\ uid' = id
    BY <2>1 DEF Steady, UpdateFresh
  <2>3. Fresh(g, p, id)'
    BY <2>2, SteadyFresh
  <2> QED
    BY <2>2, <2>3 DEF Fresh
<1> QED
  BY <1>3, <1>4

\* ... and no sending, no row and no member gets lost.
Carried(g) ==
    /\ Steady(g) /\ IdsStamped(g)'
    /\ exists'[g] = exists[g] /\ members'[g] \subseteq members[g]
    /\ \A p \in Peers \cap members'[g] : Sending(g, p) => Sending(g, p)' \/ RowKept(g, p)'
    /\ \A p \in Peers : \A id \in Ids :
         Row(g, p, id, "name") \in rows /\ Fresh(g, p, id)
           => Row(g, p, id, "name") \in rows' \/ UpToDate(g, p) \/ RowKept(g, p)'

LEMMA GroupKept ==
  ASSUME TypeOK, TypeOK', NEW g \in Groups, GroupInv(g), Carried(g), lastId <= lastId'
  PROVE  GroupInv(g)'
<1>1. NamesKnown(g)' /\ UpdateFresh(g)'
  BY SteadyKeeps DEF GroupInv, Carried
<1>2. Reached(g)'
  <2> SUFFICES ASSUME NEW p \in members'[g] \ {Me}
               PROVE  UpToDate(g, p)' \/ Sending(g, p)' \/ RowKept(g, p)'
    BY DEF Reached, GroupInv, Carried
  <2>1. p \in Peers /\ p \in members[g]
    BY DEF Carried, TypeOK, TablesType, Users
  <2>2. UpToDate(g, p) \/ Sending(g, p) \/ RowKept(g, p)
    BY <2>1 DEF GroupInv, Reached, Carried
  <2>3. CASE UpToDate(g, p)
    BY <2>1, <2>3 DEF Carried, Steady
  <2>4. CASE Sending(g, p)
    BY <2>1, <2>4 DEF Carried
  <2>5. CASE RowKept(g, p)
    <3>1. PICK id \in NoId .. lastId : Row(g, p, id, "name") \in rows /\ Fresh(g, p, id)
      BY <2>5 DEF RowKept
    <3>2. id \in Ids /\ id \in NoId .. lastId'
      BY <3>1 DEF Ids, NoId, TypeOK, HistType
    <3>3. Fresh(g, p, id)'
      BY <2>1, <3>1, <3>2, SteadyFresh DEF Carried
    <3>4. \/ Row(g, p, id, "name") \in rows' \/ UpToDate(g, p) \/ RowKept(g, p)'
      BY <2>1, <3>1, <3>2 DEF Carried
    <3>5. CASE Row(g, p, id, "name") \in rows'
      BY <3>2, <3>3, <3>5 DEF RowKept, Row
    <3> QED
      BY <2>3, <3>4, <3>5
  <2> QED
    BY <2>2, <2>3, <2>4, <2>5
<1> QED
  BY <1>1, <1>2 DEF GroupInv, Carried

\* What most steps do to a group: nothing new is sent, and a set that is
\* prepared was so before.
Quiet(g) ==
    /\ name'[g] = name[g] /\ clock'[g] = clock[g]
    /\ \A c \in Sets(g)' : c \in Sets(g) \/ ~Named(c)
    /\ Prepared(g)' => Prepared(g) /\ uid' = uid /\ current'[g] = current[g]
    /\ UNCHANGED <<knows, shown, since>>
    /\ \A a \in back' : a \in back \/ a.acks = {}

LEMMA QuietSteady ==
  ASSUME NEW g \in Groups, NamesKnown(g), Quiet(g)
  PROVE  Steady(g)
<1>1. \A p \in Peers : UpToDate(g, p) => UpToDate(g, p)'
  BY DEF UpToDate, Quiet
<1>2. Prepared(g)' => IsName(current'[g], g)
  BY DEF Quiet, NamesKnown, IsName
<1>3. \A p \in Peers :
        since'[p][g] <= clock[g] /\ (since'[p][g] = clock[g] => shown'[p][g] = name[g])
  BY DEF Quiet, NamesKnown
<1> QED
  BY <1>1, <1>2, <1>3 DEF Quiet, Steady, IsName

----------------------------------------------------------------------------
(* Update ids.                                                             *)

CurrentUsed(g) ==
    current[g] # None => /\ current[g].name # None => Used(current[g].name.id)
                         /\ current[g].rm # None => Used(current[g].rm.id)

LEMMA UsedStep ==
  ASSUME TypeOK, TypeOK', IdsUsed, lastId <= lastId', uid' <= lastId',
         \A g \in Groups : \A c \in Sets(g)' :
           c \in Sets(g) \/ (Named(c) => c.name.id <= lastId'),
         \A g \in Groups : current'[g] = current[g] \/ CurrentUsed(g)',
         \A a \in back' : a \in back
            \/ \A k \in a.acks : k.type = "name" => k.id <= lastId'
  PROVE  IdsUsed'
<1>1. lastId \in Nat /\ lastId' \in Nat
  BY DEF TypeOK, HistType
<1>2. ASSUME NEW g \in Groups, NEW c \in Sets(g)', Named(c) PROVE c.name.id <= lastId'
  <2>1. CASE c \in Sets(g)
    <3>1. c.name.id <= lastId
      BY <1>2, <2>1 DEF IdsUsed, Used
    <3>2. c \in ChangeSets
      BY <1>2, <2>1, SetsType DEF Named
    <3>3. c.name.id \in Int
      BY <1>2, <3>2, SetFields DEF Named, NameItem, Ids, NoId
    <3> QED
      BY <1>1, <3>1, <3>3
  <2> QED
    BY <1>2, <2>1
<1>3. ASSUME NEW g \in Groups PROVE CurrentUsed(g)'
  <2>1. CASE current'[g] = current[g] /\ current[g] # None
    <3>1. current[g] \in ChangeSets
      BY <2>1 DEF TypeOK, MemoryType
    <3>2. /\ current[g].name # None => current[g].name.id \in Int
          /\ current[g].rm # None => current[g].rm.id \in Int
      BY <3>1, SetFields DEF NameItem, Items, MemberItem, Ids, NoId
    <3>3. /\ current[g].name # None => current[g].name.id <= lastId
          /\ current[g].rm # None => current[g].rm.id <= lastId
      BY <2>1 DEF IdsUsed, Used, Named
    <3> QED
      BY <1>1, <2>1, <3>2, <3>3 DEF CurrentUsed, Used
  <2> QED
    BY <2>1 DEF CurrentUsed
<1>4. ASSUME NEW a \in back', NEW k \in a.acks, k.type = "name" PROVE k.id <= lastId'
  <2>1. CASE a \in back
    <3>1. k.id <= lastId
      BY <1>4, <2>1 DEF IdsUsed, Used
    <3>2. k.id \in Int
      BY <2>1 DEF TypeOK, NetType, Replies, Ids, NoId
    <3> QED
      BY <1>1, <3>1, <3>2
  <2> QED
    BY <1>4, <2>1
<1>5. (\A g \in Groups : \A c \in Sets(g) \cup {current[g]} : Named(c) => Used(c.name.id))'
  BY <1>2, <1>3 DEF Named, Used, CurrentUsed
<1>6. (\A g \in Groups :
         current[g] # None /\ current[g].rm # None => Used(current[g].rm.id))'
  BY <1>3 DEF CurrentUsed
<1> QED
  BY <1>1, <1>4, <1>5, <1>6 DEF IdsUsed, Used

\* A step that keeps the ids and every group it does not tear.
LEMMA AckStep ==
  ASSUME TypeOK, TypeOK', AckInv, lastId <= lastId', uid' <= lastId',
         torn \subseteq torn', UnknownIsOld',
         \A g \in Groups : \A c \in Sets(g)' :
           c \in Sets(g) \/ (Named(c) => c.name.id <= lastId'),
         \A g \in Groups : current'[g] = current[g] \/ CurrentUsed(g)',
         \A a \in back' : a \in back
            \/ \A k \in a.acks : k.type = "name" => k.id <= lastId',
         \A g \in Groups \ torn' : GroupInv(g) => Carried(g)
  PROVE  AckInv'
<1>1. IdsUsed'
  BY UsedStep DEF AckInv
<1>2. \A g \in Groups \ torn' : GroupInv(g)'
  BY GroupKept DEF AckInv
<1> QED
  BY <1>1, <1>2 DEF AckInv

\* ... and sends nothing new.
LEMMA QuietStep ==
  ASSUME TypeOK, TypeOK', AckInv, torn \subseteq torn', lastId' = lastId, uid' \in {uid, 0},
         UNCHANGED <<knows, shown, since>>,
         \A g \in Groups : \A c \in Sets(g)' : c \in Sets(g) \/ ~Named(c),
         \A g \in Groups : current'[g] \in {current[g], None},
         \A a \in back' : a \in back \/ a.acks = {},
         \A g \in Groups \ torn' :
           /\ name'[g] = name[g] /\ clock'[g] = clock[g]
           /\ Prepared(g)' => Prepared(g) /\ uid' = uid /\ current'[g] = current[g]
           /\ exists'[g] = exists[g] /\ members'[g] \subseteq members[g]
           /\ \A p \in Peers \cap members[g] : Sending(g, p) => Sending(g, p)'
           /\ \A p \in Peers : \A id \in Ids :
                Row(g, p, id, "name") \in rows /\ Fresh(g, p, id)
                  => Row(g, p, id, "name") \in rows' \/ UpToDate(g, p)
  PROVE  AckInv'
<1>1. lastId <= lastId' /\ uid' <= lastId'
  BY DEF AckInv, IdsUsed, Used, TypeOK, HistType
<1>2. UnknownIsOld'
  BY DEF AckInv, UnknownIsOld
<1>3. \A g \in Groups : current'[g] = current[g] \/ CurrentUsed(g)'
  BY DEF CurrentUsed
<1>4. ASSUME NEW g \in Groups \ torn', GroupInv(g) PROVE Carried(g)
  <2>1. Quiet(g)
    BY <1>4 DEF Quiet
  <2>2. Steady(g)
    BY <1>4, <2>1, QuietSteady DEF GroupInv
  <2>3. IdsStamped(g)'
    BY <1>4 DEF GroupInv, IdsStamped
  <2> QED
    BY <2>2, <2>3 DEF Carried
<1> QED
  BY <1>1, <1>2, <1>3, <1>4, AckStep

----------------------------------------------------------------------------
(* The steps that send no new set.                                         *)

LEMMA EditAck ==
  ASSUME TypeOK, TypeOK', AckInv, NEW g \in Groups, NEW c \in ChangeSets \cup {None}, EditStep(g, c)
  PROVE  AckInv'
<1>1. /\ current' = [current EXCEPT ![g] = c]
      /\ torn' = IF inProgress THEN torn \cup {g} ELSE torn
      /\ UNCHANGED <<exists, members, name, clock, rows, pending, inProgress, uid, pc, call, grp,
                     todo, net, back, knows, shown, since, lastId>>
  BY DEF EditStep, Edit, tables, threads, peers
<1>2. /\ current'[g] = c
      /\ \A h \in Groups : h # g => current'[h] = current[h]
  BY <1>1 DEF TypeOK, MemoryType
<1>3. lastId <= lastId' /\ uid' <= lastId' /\ torn \subseteq torn' /\ 0 <= lastId
  BY <1>1 DEF AckInv, IdsUsed, Used, TypeOK, HistType
<1>4. UnknownIsOld'
  BY <1>1 DEF AckInv, UnknownIsOld
<1>5. \A h \in Groups : Sets(h)' \subseteq Sets(h)
  BY <1>1, SetsSame
<1>6. CurrentUsed(g)'
  <2>1. current[g] # None => CurrentUsed(g)
    BY DEF AckInv, IdsUsed, CurrentUsed, Named
  <2>2. c # None => KeepsIds(c, Current(g))
    BY DEF EditStep
  <2>3. NoId <= lastId
    BY <1>3 DEF NoId, TypeOK, HistType
  <2>4. current[g] = None => Current(g) = EmptyChange
    BY DEF Current
  <2>5. current[g] # None => Current(g) = current[g]
    BY DEF Current
  <2> QED
    BY <1>1, <1>2, <2>1, <2>2, <2>3, <2>4, <2>5 DEF CurrentUsed, KeepsIds, EmptyChange, Used
<1>7. ASSUME NEW h \in Groups \ torn', GroupInv(h) PROVE Carried(h)
  <2>1. h = g => ~inProgress
    BY <1>1
  <2>2. ~inProgress => ~Prepared(h) /\ ~Prepared(h)'
    BY <1>1 DEF Prepared
  <2>3. h # g => (Prepared(h)' => Prepared(h))
    BY <1>1, <1>2 DEF Prepared, Stamped
  <2>4. h # g => (Prepared(h) => Prepared(h)')
    BY <1>1, <1>2 DEF Prepared, Stamped
  <2>5. Quiet(h)
    BY <1>1, <1>2, <1>5, <2>1, <2>2, <2>3 DEF Quiet
  <2>6. Steady(h)
    BY <1>7, <2>5, QuietSteady DEF GroupInv
  <2>7. IdsStamped(h)'
    <3>1. CASE h # g
      BY <1>2, <1>7, <3>1 DEF GroupInv, IdsStamped
    <3>2. CASE h = g
      <4>1. c # None => KeepsIds(c, Current(g))
        BY DEF EditStep
      <4>2. NoId # 0
        BY DEF NoId
      <4>3. IdsStamped(g)
        BY <1>7, <3>2 DEF GroupInv
      <4> QED
        BY <1>2, <3>2, <4>1, <4>2, <4>3 DEF IdsStamped, KeepsIds, Current, EmptyChange
    <3> QED
      BY <3>1, <3>2
  <2>8. ASSUME NEW p \in Peers, Sending(h, p) PROVE Sending(h, p)'
    <3>1. h # g /\ Prepared(h)'
      BY <2>1, <2>2, <2>4, <2>8 DEF Sending
    <3> QED
      BY <1>1, <1>2, <2>8, <3>1 DEF Sending, ToSend, Named
  <2> QED
    BY <1>1, <2>6, <2>7, <2>8 DEF Carried
<1> QED
  BY <1>1, <1>2, <1>3, <1>4, <1>5, <1>6, <1>7, AckStep

LEMMA LeaveAck ==
  ASSUME TypeOK, TypeOK', AckInv, NEW g \in Groups, NEW t \in Threads, LeaveGroup(t, g)
  PROVE  AckInv'
<1>1. /\ current' = [current EXCEPT ![g] = [EmptyChange EXCEPT !.rm = [who |-> {Me}, id |-> NoId]]]
      /\ pc[t] = "idle" /\ pc' = [pc EXCEPT ![t] = "prepare"]
      /\ grp' = [grp EXCEPT ![t] = g] /\ torn' = torn \cup {g}
      /\ UNCHANGED <<exists, members, name, clock, rows, pending, inProgress, uid,
                     todo, net, back, knows, shown, since, lastId>>
  BY DEF LeaveGroup, Idle, tables, peers
<1>2. /\ current'[g] = [name |-> None, add |-> None, rm |-> [who |-> {Me}, id |-> NoId]]
      /\ \A h \in Groups : h # g => current'[h] = current[h]
  BY <1>1 DEF TypeOK, MemoryType, EmptyChange
<1>3. lastId <= lastId' /\ uid' <= lastId' /\ torn \subseteq torn' /\ NoId <= lastId
  BY <1>1 DEF AckInv, IdsUsed, Used, TypeOK, HistType, NoId
<1>4. UnknownIsOld'
  BY <1>1 DEF AckInv, UnknownIsOld
<1>5. \A h \in Groups : Sets(h)' \subseteq Sets(h)
  BY <1>1, SetsSame
<1>6. CurrentUsed(g)'
  BY <1>1, <1>2, <1>3 DEF CurrentUsed, Used
<1>7. ASSUME NEW h \in Groups \ torn', GroupInv(h) PROVE Carried(h)
  <2>1. h # g
    BY <1>1
  <2>2. /\ Prepared(h)' => Prepared(h)
        /\ Prepared(h) => Prepared(h)'
    BY <1>1, <1>2, <2>1 DEF Prepared, Stamped
  <2>3. Quiet(h)
    BY <1>1, <1>2, <1>5, <2>1, <2>2 DEF Quiet
  <2>4. Steady(h)
    BY <1>7, <2>3, QuietSteady DEF GroupInv
  <2>5. IdsStamped(h)'
    BY <1>2, <1>7, <2>1 DEF GroupInv, IdsStamped
  <2>6. ASSUME NEW p \in Peers, ToSend(h, p) PROVE ToSend(h, p)'
    <3>1. PICK u \in Threads : grp[u] = h /\ (pc[u] = "list" \/ (pc[u] = "send" /\ p \in todo[u]))
      BY <2>6 DEF ToSend
    <3>2. u # t
      BY <1>1, <3>1
    <3> QED
      BY <1>1, <3>1, <3>2 DEF ToSend, TypeOK, ThreadsType
  <2>7. ASSUME NEW p \in Peers, Sending(h, p) PROVE Sending(h, p)'
    BY <1>2, <2>1, <2>2, <2>6, <2>7 DEF Sending, Named
  <2> QED
    BY <1>1, <2>4, <2>5, <2>7 DEF Carried
<1> QED
  BY <1>1, <1>2, <1>3, <1>4, <1>5, <1>6, <1>7, AckStep

\* Steps that leave the sets and messages alone.
LEMMA IdleAck ==
  ASSUME TypeOK, TypeOK', AckInv, torn \subseteq torn',
         UNCHANGED <<exists, members, name, clock, rows, current, pending, inProgress, uid,
                     back, knows, shown, since, lastId>>,
         \A g \in Groups : \A c \in Sets(g)' : c \in Sets(g) \/ ~Named(c),
         \A g \in Groups \ torn' : \A p \in Peers \cap members[g] : Sending(g, p) => ToSend(g, p)'
  PROVE  AckInv'
<1>1. \A g \in Groups : Prepared(g)' <=> Prepared(g)
  BY DEF Prepared, Stamped
<1>2. \A g \in Groups \ torn' : \A p \in Peers \cap members[g] : Sending(g, p) => Sending(g, p)'
  BY <1>1 DEF Sending, Named
<1> QED
  BY <1>1, <1>2, QuietStep

\* A thread that is not sending takes a step of its own.
LEMMA ToSendKept ==
  ASSUME TypeOK, NEW t \in Threads, NEW g \in Groups, NEW p \in Peers, ToSend(g, p),
         pc[t] \notin {"list", "send"},
         \A u \in Threads \ {t} : pc'[u] = pc[u] /\ grp'[u] = grp[u] /\ todo'[u] = todo[u]
  PROVE  ToSend(g, p)'
<1>1. PICK u \in Threads : grp[u] = g /\ (pc[u] = "list" \/ (pc[u] = "send" /\ p \in todo[u]))
  BY DEF ToSend
<1>2. u # t
  BY <1>1
<1> QED
  BY <1>1, <1>2 DEF ToSend

LEMMA ThreadAck ==
  ASSUME TypeOK, TypeOK', AckInv, NEW t \in Threads,
         \/ \E g \in Groups, c \in {"all", "one"} : SendGroupMessage(t, g, c)
         \/ PrepareNothing(t) \/ ListMembers(t) \/ ListOne(t) \/ SendBlocks(t)
  PROVE  AckInv'
<1>1. CASE \E g \in Groups, c \in {"all", "one"} : SendGroupMessage(t, g, c)
  <2>1. /\ pc[t] = "idle" /\ torn' = torn
        /\ \A u \in Threads \ {t} : pc'[u] = pc[u] /\ grp'[u] = grp[u] /\ todo'[u] = todo[u]
        /\ UNCHANGED <<exists, members, name, clock, rows, current, pending, inProgress, uid,
                       net, back, knows, shown, since, lastId>>
    BY <1>1 DEF SendGroupMessage, Idle, tables, memory, peers, hist, TypeOK, ThreadsType
  <2>2. \A g \in Groups : Sets(g)' \subseteq Sets(g)
    BY <2>1, SetsSame
  <2>3. \A g \in Groups, p \in Peers : Sending(g, p) => ToSend(g, p)'
    BY <2>1, ToSendKept DEF Sending
  <2> QED
    BY <2>1, <2>2, <2>3, IdleAck
<1>2. CASE PrepareNothing(t)
  <2>1. /\ pc[t] = "prepare" /\ torn' = torn
        /\ \A u \in Threads \ {t} : pc'[u] = pc[u] /\ grp'[u] = grp[u] /\ todo'[u] = todo[u]
        /\ UNCHANGED <<exists, members, name, clock, rows, current, pending, inProgress, uid,
                       net, back, knows, shown, since, lastId>>
    BY <1>2 DEF PrepareNothing, Preparing, tables, memory, peers, hist, TypeOK, ThreadsType
  <2>2. \A g \in Groups : Sets(g)' \subseteq Sets(g)
    BY <2>1, SetsSame
  <2>3. \A g \in Groups, p \in Peers : Sending(g, p) => ToSend(g, p)'
    BY <2>1, ToSendKept DEF Sending
  <2> QED
    BY <2>1, <2>2, <2>3, IdleAck
<1>3. CASE ListMembers(t)
  <2>1. /\ torn' = torn /\ grp' = grp
        /\ \A u \in Threads \ {t} : pc'[u] = pc[u] /\ todo'[u] = todo[u]
        /\ UNCHANGED <<exists, members, name, clock, rows, current, pending, inProgress, uid,
                       net, back, knows, shown, since, lastId>>
    BY <1>3 DEF ListMembers, tables, memory, peers, hist, TypeOK, ThreadsType
  <2>2. \A g \in Groups : Sets(g)' \subseteq Sets(g)
    BY <2>1, SetsSame
  <2>3. ASSUME NEW g \in Groups \ torn', NEW p \in Peers \cap members[g], Sending(g, p)
        PROVE  ToSend(g, p)'
    <3>1. exists[g]
      BY <2>1 DEF AckInv, GroupInv, Reached
    <3>2. PICK u \in Threads : grp[u] = g /\ (pc[u] = "list" \/ (pc[u] = "send" /\ p \in todo[u]))
      BY <2>3 DEF Sending, ToSend
    <3>3. CASE u # t
      BY <2>1, <3>2, <3>3 DEF ToSend
    <3>4. CASE u = t
      <4>1. pc[t] = "list" /\ grp[t] = g
        BY <1>3, <3>2, <3>4 DEF ListMembers
      <4>2. pc'[t] = "send" /\ p \in todo'[t]
        BY <1>3, <3>1, <4>1 DEF ListMembers, TypeOK, ThreadsType
      <4> QED
        BY <2>1, <4>1, <4>2 DEF ToSend
    <3> QED
      BY <3>3, <3>4
  <2> QED
    BY <2>1, <2>2, <2>3, IdleAck
<1>4. CASE ListOne(t)
  <2>1. /\ torn' = torn \/ torn' = torn \cup {grp[t]}
        /\ grp' = grp /\ pc[t] = "list"
        /\ \A u \in Threads \ {t} : pc'[u] = pc[u] /\ todo'[u] = todo[u]
        /\ UNCHANGED <<exists, members, name, clock, rows, current, pending, inProgress, uid,
                       back, knows, shown, since, lastId>>
    BY <1>4 DEF ListOne, tables, memory, peers, TypeOK, ThreadsType
  <2>2. ASSUME NEW g \in Groups, NEW c \in Sets(g)' PROVE c \in Sets(g) \/ ~Named(c)
    <3>1. grp[t] \in Groups
      BY DEF TypeOK, ThreadsType
    <3>2. net' = net \/ \E p \in Peers : Post(p, Letter(grp[t], None))
      BY <1>4 DEF ListOne
    <3>3. UNCHANGED net => Sets(g)' \subseteq Sets(g)
      BY <2>1, SetsSame
    <3> QED
      BY <2>1, <2>2, <3>1, <3>2, <3>3, SetsPosted DEF Named
  <2>3. ASSUME NEW g \in Groups \ torn', NEW p \in Peers \cap members[g], Sending(g, p)
        PROVE  ToSend(g, p)'
    <3>1. exists[g] /\ inProgress
      BY <2>1, <2>3 DEF AckInv, GroupInv, Reached, Sending, Prepared
    <3>2. PICK u \in Threads : grp[u] = g /\ (pc[u] = "list" \/ (pc[u] = "send" /\ p \in todo[u]))
      BY <2>3 DEF Sending, ToSend
    <3>3. u # t
      BY <1>4, <3>1, <3>2 DEF ListOne
    <3> QED
      BY <2>1, <3>2, <3>3 DEF ToSend
  <2>4. torn \subseteq torn'
    BY <2>1
  <2> QED
    BY <2>1, <2>2, <2>3, <2>4, IdleAck
<1>5. CASE SendBlocks(t)
  <2>1. /\ pc[t] = "send" /\ current[grp[t]] = EmptyChange /\ torn' = torn
        /\ \A u \in Threads \ {t} : pc'[u] = pc[u] /\ grp'[u] = grp[u] /\ todo'[u] = todo[u]
        /\ UNCHANGED <<exists, members, name, clock, rows, current, pending, inProgress, uid,
                       net, back, knows, shown, since, lastId>>
    BY <1>5 DEF SendBlocks, tables, memory, peers, hist, TypeOK, ThreadsType
  <2>2. \A g \in Groups : Sets(g)' \subseteq Sets(g)
    BY <2>1, SetsSame
  <2>3. ASSUME NEW g \in Groups, NEW p \in Peers, Sending(g, p) PROVE ToSend(g, p)'
    <3>1. PICK u \in Threads : grp[u] = g /\ (pc[u] = "list" \/ (pc[u] = "send" /\ p \in todo[u]))
      BY <2>3 DEF Sending, ToSend
    <3>2. u # t
      BY <2>1, <2>3, <3>1 DEF Sending, Named, EmptyChange
    <3> QED
      BY <2>1, <3>1, <3>2 DEF ToSend
  <2> QED
    BY <2>1, <2>2, <2>3, IdleAck
<1> QED
  BY <1>1, <1>2, <1>3, <1>4, <1>5

LEMMA ForgetAck ==
  ASSUME TypeOK, TypeOK', AckInv, NEW g \in Groups, Forget(g), UNCHANGED <<net, back, peers>>,
         \A h \in Groups, p \in Peers : ToSend(h, p) => ToSend(h, p)'
  PROVE  AckInv'
<1>1. /\ torn' = torn \cup {g} /\ pending' \subseteq pending
      /\ UNCHANGED <<current, inProgress, uid, lastId, knows, shown, since, net, back>>
      /\ rows' = {r \in rows : r.group # g}
  BY DEF Forget, peers
<1>2. ASSUME NEW h \in Groups \ torn'
      PROVE  /\ h # g /\ exists'[h] = exists[h] /\ members'[h] = members[h]
             /\ name'[h] = name[h] /\ clock'[h] = clock[h]
  BY <1>1 DEF Forget, TypeOK, TablesType
<1>3. \A h \in Groups : Sets(h)' \subseteq Sets(h)
  BY <1>1, SetsSame
<1>4. \A h \in Groups : Prepared(h)' <=> Prepared(h)
  BY <1>1 DEF Prepared, Stamped
<1>5. \A h \in Groups, p \in Peers : Sending(h, p) => Sending(h, p)'
  BY <1>1, <1>4 DEF Sending, Named
<1>6. \A h \in Groups \ torn' : \A p \in Peers : \A id \in Ids :
        Row(h, p, id, "name") \in rows => Row(h, p, id, "name") \in rows'
  BY <1>1 DEF Row
<1> QED
  BY <1>1, <1>2, <1>3, <1>4, <1>5, <1>6, QuietStep

LEMMA TakeAcksAck ==
  ASSUME TypeOK, TypeOK', AckInv, NEW a \in back, TakeAcks(a)
  PROVE  AckInv'
<1>1. /\ torn' = torn /\ pending' \subseteq pending /\ back' \subseteq back
      /\ rows' \in {rows, rows \ Acknowledged(a)}
      /\ UNCHANGED <<exists, members, name, clock, current, inProgress, uid, lastId, knows, shown,
                     since, net, pc, grp, todo>>
  BY DEF TakeAcks, threads, peers, hist
<1>2. \A g \in Groups : Sets(g)' \subseteq Sets(g)
  BY <1>1, SetsSame
<1>3. \A g \in Groups : Prepared(g)' <=> Prepared(g)
  BY <1>1 DEF Prepared, Stamped
<1>4. \A g \in Groups, p \in Peers : Sending(g, p) => Sending(g, p)'
  BY <1>1, <1>3 DEF Sending, Named, ToSend
<1>5. ASSUME NEW g \in Groups, NEW p \in Peers, NEW id \in Ids,
             Row(g, p, id, "name") \in rows, Fresh(g, p, id), Row(g, p, id, "name") \notin rows'
      PROVE  UpToDate(g, p)
  <2>1. Row(g, p, id, "name") \in Acknowledged(a)
    BY <1>1, <1>5
  <2>2. PICK k \in a.acks : Row(g, p, id, "name") = Row(a.group, a.from, k.id, k.type)
    BY <2>1 DEF Acknowledged
  <2>3. a.group = g /\ a.from = p /\ k.id = id /\ k.type = "name"
    BY <2>2 DEF Row
  <2>4. k \in [id : Ids, type : Types]
    BY DEF TypeOK, NetType, Replies
  <2>5. k = [id |-> id, type |-> "name"]
    BY <2>3, <2>4
  <2> QED
    BY <1>5, <2>3, <2>5 DEF Fresh
<1> QED
  BY <1>1, <1>2, <1>3, <1>4, <1>5, QuietStep

LEMMA TakeRequestAck ==
  ASSUME TypeOK, TypeOK', AckInv, NEW a \in back, TakeRequest(a)
  PROVE  AckInv'
<1>1. /\ torn' = torn /\ back' \subseteq back
      /\ UNCHANGED <<exists, name, clock, rows, current, pending, inProgress, uid, lastId, knows,
                     shown, since, net, pc, grp, todo>>
  BY DEF TakeRequest, memory, threads, peers
<1>2. \A g \in Groups : Sets(g)' \subseteq Sets(g)
  BY <1>1, SetsSame
<1>3. \A g \in Groups : Prepared(g)' <=> Prepared(g)
  BY <1>1 DEF Prepared, Stamped
<1>4. \A g \in Groups, p \in Peers : Sending(g, p) => Sending(g, p)'
  BY <1>1, <1>3 DEF Sending, Named, ToSend
<1>5. \A g \in Groups : members'[g] \subseteq members[g]
  BY DEF TakeRequest, TypeOK, TablesType
<1> QED
  BY <1>1, <1>2, <1>3, <1>4, <1>5, QuietStep

\* A message gets lost, or the peer learns nothing new from it.
LEMMA GoneAck ==
  ASSUME TypeOK, TypeOK', AckInv, UNCHANGED <<tables, memory, threads, hist, knows, shown, since>>,
         \/ UNCHANGED net
         \/ \E p \in Peers : \E k \in DOMAIN net[p] : net' = [net EXCEPT ![p] = Gone(@, k)],
         \A a \in back' : a \in back \/ a.acks = {}
  PROVE  AckInv'
<1>1. \A g \in Groups : Sets(g)' \subseteq Sets(g)
  BY SetsSame, SetsGone DEF memory
<1>2. \A g \in Groups : Prepared(g)' <=> Prepared(g)
  BY DEF Prepared, Stamped, memory
<1>3. \A g \in Groups, p \in Peers : Sending(g, p) => Sending(g, p)'
  BY <1>2 DEF Sending, Named, ToSend, memory, threads
<1>4. torn' = torn /\ lastId' = lastId /\ uid' = uid /\ current' = current /\ name' = name
      /\ clock' = clock /\ exists' = exists /\ members' = members /\ rows' = rows
  BY DEF tables, memory, hist
<1> QED
  BY <1>1, <1>2, <1>3, <1>4, QuietStep

LEMMA CrashAck ==
  ASSUME TypeOK, TypeOK', AckInv, Crash
  PROVE  AckInv'
<1>1. /\ torn \subseteq torn' /\ pending' = {} /\ inProgress' = FALSE /\ uid' = 0
      /\ \A g \in Groups : current'[g] = None
      /\ UNCHANGED <<exists, members, name, clock, rows, net, back, knows, shown, since, lastId>>
  BY DEF Crash, tables, peers
<1>2. \A g \in Groups : Sets(g)' \subseteq Sets(g)
  BY <1>1, SetsSame
<1>3. \A g \in Groups : ~Prepared(g)'
  BY <1>1 DEF Prepared
<1>4. ASSUME NEW g \in Groups \ torn', NEW p \in Peers PROVE ~Sending(g, p)
  <2> SUFFICES ASSUME Sending(g, p) PROVE FALSE
    OBVIOUS
  <2>1. PICK u \in Threads : grp[u] = g /\ pc[u] \in {"list", "send"}
    BY DEF Sending, ToSend
  <2>2. inProgress
    BY DEF Sending, Prepared
  <2>3. g \in torn'
    BY <2>1, <2>2 DEF Crash
  <2> QED
    BY <2>3
<1> QED
  BY <1>1, <1>2, <1>3, <1>4, QuietStep

LEMMA SendDoneAck ==
  ASSUME TypeOK, TypeOK', AckInv, NEW t \in Threads, SendDone(t)
  PROVE  AckInv'
<1> DEFINE g == grp[t]
           new == [id |-> uid, group |-> g, set |-> current[g]]
<1>1. g \in Groups
  BY DEF TypeOK, ThreadsType
<1>2. /\ pc[t] = "send" /\ todo[t] = {}
      /\ torn' = torn \cup Astray(g) \cup (IF inProgress THEN Cut(t) ELSE {})
      /\ UNCHANGED <<exists, members, name, clock, rows, net, back, knows, shown, since, lastId>>
  BY DEF SendDone, tables, peers
<1>3. \/ /\ ~inProgress
         /\ UNCHANGED <<current, pending, inProgress, uid>>
      \/ /\ inProgress /\ current[g] = None /\ uid' = 0 /\ pending' \subseteq pending
         /\ UNCHANGED <<current, inProgress>>
      \/ /\ inProgress /\ current[g] # None /\ uid' = 0 /\ inProgress' = FALSE
         /\ current' = [current EXCEPT ![g] = None]
         /\ pending' \subseteq pending \cup {new}
  BY DEF SendDone, memory, PendingOf
<1>4. lastId <= lastId' /\ uid' <= lastId' /\ torn \subseteq torn'
  BY <1>2, <1>3 DEF AckInv, IdsUsed, Used, TypeOK, HistType
<1>5. UnknownIsOld'
  BY <1>2 DEF AckInv, UnknownIsOld
<1>6. \A h \in Groups : current'[h] \in {current[h], None}
  BY <1>1, <1>3 DEF TypeOK, MemoryType
<1>7. ASSUME NEW h \in Groups, NEW c \in Sets(h)'
      PROVE  c \in Sets(h) \/ (h = g /\ c = current[g] /\ inProgress /\ current[g] # None)
  BY <1>2, <1>3 DEF Sets, Letters, PendingOf
<1>8. Named(current[g]) => current[g].name.id <= lastId'
  BY <1>1, <1>2 DEF AckInv, IdsUsed, Used
<1>9. ASSUME NEW h \in Groups \ torn', GroupInv(h) PROVE Carried(h)
  <2>1. ~Prepared(h)'
    <3> SUFFICES ASSUME Prepared(h)' PROVE FALSE
      OBVIOUS
    <3>1. uid' = 0 /\ current'[h] = current[h] /\ current[h] \notin {None, EmptyChange}
      BY <1>3 DEF Prepared
    <3>2. current[h] \in ChangeSets
      BY <3>1 DEF TypeOK, MemoryType
    <3>3. /\ current[h].name # None => current[h].name.id = 0
          /\ current[h].name = None => current[h].add = None
               /\ (current[h].rm # None => current[h].rm.id = 0)
      BY <3>1 DEF Prepared, Stamped
    <3>4. current[h].name = None /\ current[h].add = None /\ current[h].rm = None
      BY <1>9, <3>1, <3>3 DEF GroupInv, IdsStamped
    <3>5. current[h] = EmptyChange
      BY <3>2, <3>4 DEF ChangeSets, EmptyChange
    <3> QED
      BY <3>1, <3>5
  <2>2. ASSUME NEW c \in Sets(h)' PROVE c \in Sets(h) \/ IsName(c, h)
    <3> SUFFICES ASSUME c \notin Sets(h), Named(c) PROVE c.name.clk = clock[h] /\ c.name.v = name[h]
      BY DEF IsName
    <3>1. h = g /\ c = current[g] /\ inProgress /\ current[g] # None
      BY <1>7
    <3>2. Stamped(current[g])
      BY <1>2, <3>1 DEF Astray
    <3>3. current[g] # EmptyChange
      BY <3>1 DEF Named, EmptyChange
    <3>4. Prepared(g)
      BY <3>1, <3>2, <3>3 DEF Prepared
    <3> QED
      BY <1>9, <3>1, <3>4 DEF GroupInv, NamesKnown
  <2>3. \A p \in Peers : UpToDate(h, p) => UpToDate(h, p)'
    BY <1>2 DEF UpToDate
  <2>4. Steady(h)
    BY <1>2, <1>9, <2>1, <2>2, <2>3 DEF Steady, GroupInv, NamesKnown
  <2>5. IdsStamped(h)'
    BY <1>6, <1>9 DEF GroupInv, IdsStamped
  <2>6. ASSUME NEW p \in Peers PROVE ~Sending(h, p)
    <3> SUFFICES ASSUME Sending(h, p) PROVE FALSE
      OBVIOUS
    <3>1. PICK u \in Threads : grp[u] = h /\ (pc[u] = "list" \/ (pc[u] = "send" /\ p \in todo[u]))
      BY DEF Sending, ToSend
    <3>2. u # t /\ inProgress
      BY <1>2, <3>1 DEF Sending, Prepared
    <3>3. h \in Cut(t)
      BY <3>1, <3>2 DEF Cut
    <3> QED
      BY <1>2, <3>2, <3>3
  <2> QED
    BY <1>2, <2>4, <2>5, <2>6 DEF Carried
<1>10. \A h \in Groups : current'[h] = current[h] \/ CurrentUsed(h)'
  BY <1>6 DEF CurrentUsed
<1>11. \A h \in Groups : \A c \in Sets(h)' :
         c \in Sets(h) \/ (Named(c) => c.name.id <= lastId')
  BY <1>7, <1>8
<1>12. back' = back
  BY <1>2
<1> HIDE DEF g, new
<1> QED
  BY <1>4, <1>5, <1>9, <1>10, <1>11, <1>12, AckStep

----------------------------------------------------------------------------
(* The steps that send a set.                                              *)

LEMMA HelloAck ==
  ASSUME TypeOK, TypeOK', AckInv, NEW g \in Groups, NEW p \in Peers, Hello(g, p)
  PROVE  AckInv'
<1> DEFINE id == lastId + 1
           a == [EmptyChange EXCEPT !.add = [who |-> members[g], id |-> id]]
           n == [v |-> name[g], clk |-> clock[g], id |-> id]
           c == WithName(a, g, id)
<1>1. lastId \in Nat /\ members[g] \in SUBSET Users
  BY DEF TypeOK, HistType, TablesType
<1>2. [who |-> members[g], id |-> id] \in MemberItem
  BY <1>1 DEF MemberItem, Ids
<1>3. a = [name |-> None, add |-> [who |-> members[g], id |-> id], rm |-> None]
  BY DEF EmptyChange
<1>4. c = [name |-> n, add |-> [who |-> members[g], id |-> id], rm |-> None]
  BY <1>2, <1>3, NoneAssumption DEF WithName
<1>5. n \in NameItem
  BY <1>1 DEF NameItem, Ids, TypeOK, TablesType
<1>6. c \in ChangeSets
  BY <1>2, <1>4, <1>5 DEF ChangeSets
<1>7. c.name.id = lastId + 1 /\ c.name.clk = clock[g] /\ c.name.v = name[g]
  BY <1>4
<1> HIDE DEF c, n, a
<1>8. /\ lastId' = lastId + 1 /\ rows \subseteq rows' /\ Post(p, Letter(g, c)) /\ torn' = torn
      /\ UNCHANGED <<exists, members, name, clock, current, pending, inProgress, uid,
                     pc, grp, todo, back, knows, shown, since>>
  BY DEF Hello, memory, threads, peers, c, a
<1>9. ASSUME NEW h \in Groups, NEW x \in Sets(h)' PROVE x \in Sets(h) \/ (h = g /\ x = c)
  BY <1>6, <1>8, SetsPosted
<1>10. lastId <= lastId' /\ uid' <= lastId'
  BY <1>1, <1>8 DEF AckInv, IdsUsed, Used, TypeOK, MemoryType, Ids, NoId
<1>11. UnknownIsOld'
  BY <1>8 DEF AckInv, UnknownIsOld
<1>12. \A h \in Groups : \A x \in Sets(h)' : x \in Sets(h) \/ (Named(x) => x.name.id <= lastId')
  BY <1>1, <1>7, <1>8, <1>9
<1>13. ASSUME NEW h \in Groups \ torn', GroupInv(h) PROVE Carried(h)
  <2>1. Prepared(h)' <=> Prepared(h)
    BY <1>8 DEF Prepared, Stamped
  <2>2. Prepared(h) => IsName(current[h], h)
    BY <1>13 DEF GroupInv, NamesKnown, IsName
  <2>3. \A x \in Sets(h)' : x \in Sets(h) \/ IsName(x, h)
    BY <1>7, <1>9 DEF IsName
  <2>4. \A q \in Peers : UpToDate(h, q) => UpToDate(h, q)'
    BY <1>8 DEF UpToDate
  <2>5. Steady(h)
    BY <1>8, <1>13, <2>1, <2>2, <2>3, <2>4 DEF Steady, GroupInv, NamesKnown
  <2>6. IdsStamped(h)'
    BY <1>8, <1>13 DEF GroupInv, IdsStamped
  <2>7. \A q \in Peers : Sending(h, q) => Sending(h, q)'
    BY <1>8, <2>1 DEF Sending, ToSend, Named
  <2> QED
    BY <1>8, <2>5, <2>6, <2>7 DEF Carried
<1> QED
  BY <1>8, <1>10, <1>11, <1>12, <1>13, AckStep

\* What createChangeSetDevice makes of the current set: a name it has stays, a
\* new one is the present name under the update id.
LEMMA CollapsedFacts ==
  ASSUME TypeOK, NEW g \in Groups, NEW p, current[g] # None
  PROVE  /\ Collapsed(g, p) \in ChangeSets
         /\ current[g].name # None => Collapsed(g, p).name = current[g].name
         /\ current[g].name = None =>
              \/ Collapsed(g, p).name = None
              \/ Collapsed(g, p).name = [v |-> name[g], clk |-> clock[g], id |-> uid]
         /\ Collapsed(g, p).rm # None =>
              \/ Collapsed(g, p).rm.id = NoId
              \/ current[g].rm # None /\ Collapsed(g, p).rm.id = current[g].rm.id
<1>1. current[g] \in ChangeSets
  BY DEF TypeOK, MemoryType
<1> DEFINE a == Join(current[g].add, OwedUsers(g, p, "add"))
           r == Join(current[g].rm, OwedUsers(g, p, "rm"))
           c == [current[g] EXCEPT !.add = a, !.rm = r]
<1>2. current[g].rm \in Items
  BY <1>1, SetFields
<1>3. r # None => \/ r.id = NoId
                  \/ current[g].rm # None /\ r.id = current[g].rm.id
  BY <1>2 DEF Join, Items, MemberItem
<1>4. Collapsed(g, p) = WithName(c, g, uid)
  BY DEF Collapsed
<1>5. Collapsed(g, p) \in ChangeSets
  BY CollapsedType
<1>a. a \in Items /\ r \in Items
  <2>1. /\ OwedUsers(g, p, "add") \in SUBSET Users
        /\ OwedUsers(g, p, "rm") \in SUBSET Users
    BY OwedType DEF TypeOK
  <2>2. uid \in Ids
    BY DEF TypeOK, MemoryType
  <2> QED
    BY <1>1, <2>1, <2>2, SetFields, ItemTypes
<1> HIDE DEF a, r
<1>6. c.name = current[g].name /\ c.rm = r /\ c \in ChangeSets
  <2>1. c \in ChangeSets
    BY <1>1, <1>a, SetExcept, SetFields
  <2>2. c.name = current[g].name /\ c.rm = r
    BY <1>1 DEF ChangeSets
  <2> QED
    BY <2>1, <2>2
<1> HIDE DEF c
<1>7. /\ WithName(c, g, uid).rm = r
      /\ \/ WithName(c, g, uid).name = c.name
         \/ /\ c.name = None
            /\ WithName(c, g, uid).name = [v |-> name[g], clk |-> clock[g], id |-> uid]
  BY <1>6 DEF WithName, ChangeSets
<1> QED
  BY <1>3, <1>4, <1>5, <1>6, <1>7

LEMMA DeviceSetAck ==
  ASSUME TypeOK, TypeOK', AckInv, NEW g \in Groups, NEW p \in Peers, DeviceSet(g, p),
         torn' = torn \cup Astray(g), UNCHANGED <<lastId, back, knows, shown, since>>,
         \A h \in Groups, q \in Peers : ToSend(h, q) => ToSend(h, q)' \/ (h = g /\ q = p)
  PROVE  AckInv'
<1> DEFINE c == Collapsed(g, p)
<1>1. /\ current' = [current EXCEPT ![g] = c] /\ rows' = Awaited(g, p, c) /\ Post(p, Letter(g, c))
      /\ inProgress /\ current[g] \notin {None, EmptyChange}
      /\ UNCHANGED <<exists, members, name, clock, pending, inProgress, uid>>
  BY DEF DeviceSet
<1>2. /\ c \in ChangeSets
      /\ current[g].name # None => c.name = current[g].name
      /\ current[g].name = None => \/ c.name = None
                                   \/ c.name = [v |-> name[g], clk |-> clock[g], id |-> uid]
      /\ c.rm # None => \/ c.rm.id = NoId
                        \/ current[g].rm # None /\ c.rm.id = current[g].rm.id
  BY <1>1, CollapsedFacts
<1> HIDE DEF c
<1>3. current'[g] = c /\ \A h \in Groups : h # g => current'[h] = current[h]
  BY <1>1 DEF TypeOK, MemoryType
<1>4. ASSUME NEW h \in Groups, NEW x \in Sets(h)' PROVE x \in Sets(h) \/ (h = g /\ x = c)
  BY <1>1, <1>2, SetsPosted
<1>5. lastId \in Nat /\ lastId' = lastId /\ uid \in Ids /\ uid <= lastId
  BY DEF TypeOK, HistType, MemoryType, AckInv, IdsUsed, Used
<1>6. UnknownIsOld'
  BY DEF AckInv, UnknownIsOld
<1>7. c.name # None => c.name.id <= lastId
  BY <1>1, <1>2, <1>5 DEF AckInv, IdsUsed, Used, Named
<1>8. CurrentUsed(g)'
  <2>1. c.rm # None => c.rm.id <= lastId
    BY <1>1, <1>2, <1>5 DEF AckInv, IdsUsed, Used, NoId
  <2> QED
    BY <1>3, <1>5, <1>7, <2>1 DEF CurrentUsed, Used
<1>9. ASSUME NEW h \in Groups \ torn', GroupInv(h), h # g PROVE Carried(h)
  <2>1. Prepared(h)' <=> Prepared(h)
    BY <1>1, <1>3, <1>9 DEF Prepared, Stamped
  <2>2. Quiet(h)
    BY <1>1, <1>3, <1>4, <1>9, <2>1 DEF Quiet
  <2>3. Steady(h)
    BY <1>9, <2>2, QuietSteady DEF GroupInv
  <2>4. IdsStamped(h)'
    BY <1>3, <1>9 DEF GroupInv, IdsStamped
  <2>5. \A q \in Peers : Sending(h, q) => Sending(h, q)'
    BY <1>3, <1>9, <2>1 DEF Sending, Named
  <2>6. \A q \in Peers, id \in Ids : Row(h, q, id, "name") \in rows => Row(h, q, id, "name") \in rows'
    BY <1>1, <1>9 DEF Awaited, Row
  <2> QED
    BY <1>1, <2>3, <2>4, <2>5, <2>6 DEF Carried
<1>10. ASSUME g \notin torn', GroupInv(g) PROVE Carried(g)
  <2>1. Stamped(current[g])
    BY <1>1, <1>10 DEF Astray
  <2>2. Prepared(g)
    BY <1>1, <2>1 DEF Prepared
  <2>3. current[g].name # None =>
          /\ current[g].name.clk = clock[g] /\ current[g].name.v = name[g]
          /\ current[g].name.id = uid
    BY <1>1, <1>10, <2>1, <2>2 DEF GroupInv, NamesKnown, Named, Stamped
  <2>4. c.name # None => c.name.clk = clock[g] /\ c.name.v = name[g] /\ c.name.id = uid
    BY <1>2, <2>3
  <2>5. uid # 0
    <3>1. CASE current[g].name # None
      BY <1>1, <1>10, <2>3, <3>1 DEF GroupInv, IdsStamped
    <3>2. CASE current[g].name = None
      <4>1. current[g].add = None /\ (current[g].rm # None => current[g].rm.id = uid)
        BY <2>1, <3>2 DEF Stamped
      <4>2. current[g] \in ChangeSets
        BY <1>1 DEF TypeOK, MemoryType
      <4>3. current[g].rm # None
        BY <1>1, <3>2, <4>1, <4>2 DEF ChangeSets, EmptyChange
      <4> QED
        BY <1>1, <1>10, <4>1, <4>3 DEF GroupInv, IdsStamped
    <3> QED
      BY <3>1, <3>2
  <2>6. Steady(g)
    <3>1. \A x \in Sets(g)' : x \in Sets(g) \/ IsName(x, g)
      BY <1>4, <2>4 DEF IsName, Named
    <3>2. IsName(current'[g], g)
      BY <1>3, <2>4 DEF IsName, Named
    <3>3. \A q \in Peers : UpToDate(g, q) => UpToDate(g, q)'
      BY <1>1 DEF UpToDate
    <3> QED
      BY <1>1, <1>10, <2>2, <3>1, <3>2, <3>3 DEF Steady, GroupInv, NamesKnown
  <2>7. IdsStamped(g)'
    <3>1. c.rm # None => c.rm.id # 0
      BY <1>1, <1>2, <1>10 DEF GroupInv, IdsStamped, NoId
    <3> QED
      BY <1>3, <2>4, <2>5, <3>1 DEF IdsStamped
  <2>8. c.name # None => RowKept(g, p)'
    <3> SUFFICES ASSUME c.name # None PROVE RowKept(g, p)'
      OBVIOUS
    <3>1. PICK id \in Ids : id = uid
      BY <1>5
    <3>2. Fresh(g, p, id)
      BY <1>10, <2>2, <3>1 DEF GroupInv, UpdateFresh
    <3>3. Fresh(g, p, id)'
      BY <2>6, <3>2, SteadyFresh
    <3>4. Row(g, p, id, "name") \in rows'
      BY <1>1, <3>1 DEF Awaited, Present, Types
    <3>5. id \in NoId .. lastId'
      BY <1>5, <3>1 DEF Ids, NoId
    <3> QED
      BY <3>3, <3>4, <3>5 DEF RowKept, Row
  <2>9. ASSUME NEW q \in Peers, Sending(g, q) PROVE Sending(g, q)' \/ RowKept(g, q)'
    <3>1. current[g].name # None /\ c.name # None
      BY <1>2, <2>9 DEF Sending, Named
    <3>2. CASE q = p
      BY <2>8, <3>1, <3>2
    <3>3. CASE q # p
      <4>1. ToSend(g, q)'
        BY <2>9, <3>3 DEF Sending
      <4>2. c # None /\ c # EmptyChange
        BY <1>2, <3>1, NoneAssumption DEF EmptyChange
      <4>3. c.name.id = uid
        BY <2>4, <3>1
      <4>4. Prepared(g)' /\ Named(current'[g])
        BY <1>1, <1>3, <3>1, <4>2, <4>3 DEF Prepared, Stamped, Named
      <4> QED
        BY <4>1, <4>4 DEF Sending, Named
    <3> QED
      BY <3>2, <3>3
  <2>10. ASSUME NEW q \in Peers, NEW id \in Ids, Row(g, q, id, "name") \in rows
         PROVE  Row(g, q, id, "name") \in rows' \/ RowKept(g, q)'
    <3>1. CASE q = p /\ c.name # None
      BY <2>8, <3>1
    <3>2. CASE ~(q = p /\ c.name # None)
      BY <1>1, <2>10, <3>2 DEF Awaited, Row
    <3> QED
      BY <3>1, <3>2
  <2> QED
    BY <1>1, <2>6, <2>7, <2>9, <2>10 DEF Carried
<1>11. \A h \in Groups : \A x \in Sets(h)' : x \in Sets(h) \/ (Named(x) => x.name.id <= lastId')
  BY <1>4, <1>5, <1>7 DEF Named
<1>12. \A h \in Groups : current'[h] = current[h] \/ CurrentUsed(h)'
  BY <1>3, <1>8
<1>13. lastId <= lastId' /\ uid' <= lastId' /\ torn \subseteq torn'
  BY <1>1, <1>5
<1> QED
  BY <1>6, <1>9, <1>10, <1>11, <1>12, <1>13, AckStep

LEMMA DeviceAck ==
  ASSUME TypeOK, TypeOK', AckInv, NEW g \in Groups, NEW p \in Peers, Device(g, p),
         UNCHANGED <<back, knows, shown, since>>,
         \A h \in Groups, q \in Peers : ToSend(h, q) => ToSend(h, q)' \/ (h = g /\ q = p)
  PROVE  AckInv'
<1>1. torn' = torn \cup Astray(g) /\ lastId' = lastId
  BY DEF Device
<1>2. CASE DeviceSet(g, p)
  BY <1>1, <1>2, DeviceSetAck
<1>3. CASE DevicePlain(g, p) \/ DeviceInconsistent(g)
  <2>1. /\ ~inProgress \/ current[g] = None
        /\ UNCHANGED <<exists, members, name, clock, rows, current, pending, inProgress, uid>>
        /\ \/ UNCHANGED net
           \/ Post(p, Letter(g, None))
           \/ \E x \in PendingOf(g) : Post(p, Letter(g, x.set))
    BY <1>3 DEF DevicePlain, DeviceInconsistent, tables, memory
  <2>2. \A x \in PendingOf(g) : x.set \in ChangeSets /\ x.set \in Sets(g)
    BY DEF PendingOf, Sets, TypeOK, MemoryType
  <2>3. ASSUME NEW h \in Groups, NEW c \in Sets(h)' PROVE c \in Sets(h) \/ ~Named(c)
    BY <2>1, <2>2, <2>3, SetsSame, SetsPosted DEF Named
  <2>4. ASSUME NEW h \in Groups, NEW q \in Peers, Sending(h, q) PROVE ToSend(h, q)'
    <3>1. h # g
      BY <2>1, <2>4 DEF Sending, Prepared, Named
    <3> QED
      BY <2>4, <3>1 DEF Sending
  <2> QED
    BY <1>1, <2>1, <2>3, <2>4, IdleAck
<1> QED
  BY <1>2, <1>3 DEF Device

LEMMA MemberAck ==
  ASSUME TypeOK, TypeOK', AckInv, NEW t \in Threads, NEW p \in Peers, SendToMember(t, p)
  PROVE  AckInv'
<1>1. /\ grp[t] \in Groups /\ Device(grp[t], p) /\ pc' = pc /\ grp' = grp
      /\ todo' = [todo EXCEPT ![t] = @ \ {p}] /\ UNCHANGED <<back, knows, shown, since>>
  BY DEF SendToMember, peers, TypeOK, ThreadsType
<1>2. ASSUME NEW h \in Groups, NEW q \in Peers, ToSend(h, q), ~(h = grp[t] /\ q = p)
      PROVE  ToSend(h, q)'
  BY <1>1, <1>2 DEF ToSend, TypeOK, ThreadsType
<1> QED
  BY <1>1, <1>2, DeviceAck

LEMMA CommandAck ==
  ASSUME TypeOK, TypeOK', AckInv, NEW t \in Threads, NEW g \in Groups, NEW p \in Peers,
         SendGroupCommandToMember(t, g, p)
  PROVE  AckInv'
<1>1. /\ Device(g, p) /\ pc' = pc /\ grp' = grp /\ todo' = todo
      /\ UNCHANGED <<back, knows, shown, since>>
  BY DEF SendGroupCommandToMember, threads, peers
<1> QED
  BY <1>1, DeviceAck DEF ToSend

\* A peer that takes a change set has the present name if the set carries it.
LEMMA PeerChangeAck ==
  ASSUME TypeOK, TypeOK', AckInv, NEW p \in Peers, NEW k \in DOMAIN net[p], PeerChange(p, k)
  PROVE  AckInv'
<1> DEFINE g == net[p][k].group
           c == net[p][k].set
           new == g \notin knows[p]
           newer == c.name # None /\ c.name.clk > since[p][g]
           acks == {[id |-> c[y].id, type |-> y] : y \in
                     {y \in Present(c) : y = "name" \/ Who(c.add) \cup Who(c.rm) # {}}}
<1>1. /\ net' = [net EXCEPT ![p] = Gone(@, k)] /\ c # None
      /\ UNCHANGED <<tables, memory, threads, hist>>
  BY DEF PeerChange, Arrives
<1>2. net[p][k] \in Letterings
  BY ArrivesType DEF PeerChange
<1>3. g \in Groups /\ c \in ChangeSets
  BY <1>1, <1>2 DEF Letterings
<1>4. c \in Sets(g)
  BY DEF Sets, Letters
<1>5. /\ knows' = [knows EXCEPT ![p] = @ \cup {g}]
      /\ shown' = IF newer \/ (new /\ c.name # None)
                  THEN [shown EXCEPT ![p][g] = c.name.v] ELSE shown
      /\ since' = IF newer THEN [since EXCEPT ![p][g] = c.name.clk] ELSE since
      /\ back' = IF acks = {} THEN back ELSE back \cup {Reply(p, g, acks)}
  BY DEF PeerChange
<1>6. c.name # None => c.name \in NameItem /\ c.name.clk \in Nat /\ c.name.v \in Versions
                       /\ c.name.id \in Ids
  BY <1>3, SetFields DEF NameItem
<1>7. ASSUME NEW id, [id |-> id, type |-> "name"] \in acks PROVE c.name # None /\ id = c.name.id
  <2>1. PICK y \in Present(c) : [id |-> id, type |-> "name"] = [id |-> c[y].id, type |-> y]
    BY <1>7
  <2>2. y = "name" /\ id = c[y].id
    BY <2>1
  <2> QED
    BY <2>2 DEF Present
<1>8. ASSUME NEW a \in back' PROVE a \in back \/ (a.group = g /\ a.from = p /\ a.acks = acks)
  <2>1. a \in back \/ a = Reply(p, g, acks)
    BY <1>5
  <2> HIDE DEF g, acks
  <2> QED
    BY <2>1 DEF Reply
<1> HIDE DEF g, c, acks
<1>9. /\ knows'[p] = knows[p] \cup {g}
      /\ \A q \in Peers : q # p => knows'[q] = knows[q]
  BY <1>5 DEF TypeOK, PeersType
<1>10. /\ shown \in [Peers -> [Groups -> Versions]] /\ since \in [Peers -> [Groups -> Nat]]
  BY DEF TypeOK, PeersType
<1>11. ASSUME NEW q \in Peers, NEW h \in Groups, q # p \/ h # g
       PROVE  shown'[q][h] = shown[q][h] /\ since'[q][h] = since[q][h]
  <2>1. shown'[q][h] = shown[q][h]
    <3>1. CASE newer \/ (new /\ c.name # None)
      <4>1. c.name.v \in Versions /\ shown' = [shown EXCEPT ![p][g] = c.name.v]
        BY <1>5, <1>6, <3>1
      <4> QED
        BY <4>1, <1>3, <1>10, <1>11, PeerExcept
    <3> QED
      BY <3>1, <1>5
  <2>2. since'[q][h] = since[q][h]
    <3>1. CASE newer
      <4>1. c.name.clk \in Nat /\ since' = [since EXCEPT ![p][g] = c.name.clk]
        BY <1>5, <1>6, <3>1
      <4> QED
        BY <4>1, <1>3, <1>10, <1>11, PeerExcept
    <3> QED
      BY <3>1, <1>5
  <2> QED
    BY <2>1, <2>2
<1>12. shown'[p][g] = IF newer \/ (new /\ c.name # None) THEN c.name.v ELSE shown[p][g]
  <2>1. CASE newer \/ (new /\ c.name # None)
    <3>1. c.name.v \in Versions /\ shown' = [shown EXCEPT ![p][g] = c.name.v]
      BY <1>5, <1>6, <2>1
    <3>2. [shown EXCEPT ![p][g] = c.name.v][p][g] = c.name.v
      BY <3>1, <1>3, <1>10, PeerExcept
    <3> QED
      BY <2>1, <3>1, <3>2
  <2> QED
    BY <2>1, <1>5
<1>13. since'[p][g] = IF newer THEN c.name.clk ELSE since[p][g]
  <2>1. CASE newer
    <3>1. c.name.clk \in Nat /\ since' = [since EXCEPT ![p][g] = c.name.clk]
      BY <1>5, <1>6, <2>1
    <3>2. [since EXCEPT ![p][g] = c.name.clk][p][g] = c.name.clk
      BY <3>1, <1>3, <1>10, PeerExcept
    <3> QED
      BY <2>1, <3>1, <3>2
  <2> QED
    BY <2>1, <1>5
<1>14. new => since[p][g] = 0
  BY <1>3 DEF AckInv, UnknownIsOld
<1>15. since[p][g] \in Nat /\ clock[g] \in Nat
  BY <1>3, <1>10 DEF TypeOK, TablesType
<1>16. /\ torn' = torn /\ lastId' = lastId /\ uid' = uid /\ current' = current /\ name' = name
       /\ clock' = clock /\ exists' = exists /\ members' = members /\ rows' = rows
       /\ inProgress' = inProgress /\ pending' = pending /\ pc' = pc /\ grp' = grp /\ todo' = todo
  BY <1>1 DEF tables, memory, threads, hist
<1>17. \A h \in Groups : Sets(h)' \subseteq Sets(h)
  BY <1>1, <1>16, SetsGone
<1>18. UnknownIsOld'
  <2> SUFFICES ASSUME NEW q \in Peers, NEW h \in Groups, h \notin knows'[q] PROVE since'[q][h] = 0
    BY DEF UnknownIsOld
  <2>1. (q # p \/ h # g) /\ h \notin knows[q]
    BY <1>9
  <2> QED
    BY <2>1, <1>11 DEF AckInv, UnknownIsOld
<1>19. \A a \in back' : a \in back \/ \A j \in a.acks : j.type = "name" => j.id <= lastId'
  <2> SUFFICES ASSUME NEW a \in back', a \notin back, NEW j \in a.acks, j.type = "name"
               PROVE  j.id <= lastId'
    OBVIOUS
  <2>1. a.group = g /\ a.from = p /\ a.acks = acks
    BY <1>8
  <2>2. j = [id |-> j.id, type |-> "name"]
    <3>1. j \in [id : Ids, type : Types]
      BY DEF TypeOK, NetType, Replies
    <3> QED
      BY <3>1
  <2>3. c.name # None /\ j.id = c.name.id
    BY <1>7, <2>1, <2>2
  <2> QED
    BY <1>1, <1>3, <1>4, <1>16, <2>3 DEF AckInv, IdsUsed, Used, Named, c
<1>20. ASSUME NEW h \in Groups \ torn', GroupInv(h) PROVE Carried(h)
  <2>1. h = g => /\ c.name # None => c.name.clk <= clock[g]
                 /\ c.name # None /\ c.name.clk = clock[g] => c.name.v = name[g]
                 /\ since[p][g] <= clock[g]
                 /\ since[p][g] = clock[g] => shown[p][g] = name[g]
    BY <1>1, <1>4, <1>20 DEF GroupInv, NamesKnown, Named, c
  <2>2. h = g => /\ since'[p][g] <= clock[g]
                 /\ since'[p][g] = clock[g] => shown'[p][g] = name[g]
    BY <1>6, <1>12, <1>13, <1>14, <1>15, <2>1
  <2>3. ASSUME NEW q \in Peers
        PROVE  /\ since'[q][h] <= clock[h]
               /\ since'[q][h] = clock[h] => shown'[q][h] = name[h]
    BY <1>11, <1>20, <2>2 DEF GroupInv, NamesKnown
  <2>4. ASSUME NEW q \in Peers, UpToDate(h, q) PROVE UpToDate(h, q)'
    <3>1. CASE q = p /\ h = g
      <4>1. since'[p][g] = clock[g]
        BY <1>6, <1>13, <1>15, <2>1, <2>4, <3>1 DEF UpToDate
      <4> QED
        BY <1>9, <1>16, <2>2, <3>1, <4>1 DEF UpToDate
    <3>2. CASE ~(q = p /\ h = g)
      BY <1>9, <1>11, <1>16, <2>4, <3>2 DEF UpToDate
    <3> QED
      BY <3>1, <3>2
  <2>5. ASSUME NEW a \in back', a \notin back, NEW id \in Ids, a.group = h,
               [id |-> id, type |-> "name"] \in a.acks, Fresh(h, a.from, id)
        PROVE  UpToDate(h, a.from)'
    <3>1. h = g /\ a.from = p /\ a.acks = acks
      BY <1>8, <2>5
    <3>2. c.name # None /\ id = c.name.id
      BY <1>7, <2>5, <3>1
    <3>3. c.name.clk = clock[g]
      BY <1>1, <1>4, <2>5, <3>1, <3>2 DEF Fresh, Named, c
    <3>4. since'[p][g] = clock[g]
      BY <1>13, <1>15, <2>1, <3>1, <3>2, <3>3
    <3>5. g \in knows'[p] /\ shown'[p][g] = name[g]
      BY <1>9, <2>2, <3>1, <3>4
    <3> QED
      BY <1>16, <3>1, <3>4, <3>5 DEF UpToDate
  <2>6. Prepared(h)' <=> Prepared(h)
    BY <1>16 DEF Prepared, Stamped
  <2>7. Prepared(h) => IsName(current[h], h)
    BY <1>20 DEF GroupInv, NamesKnown, IsName
  <2>8. Steady(h)
    BY <1>16, <1>17, <2>3, <2>4, <2>5, <2>6, <2>7 DEF Steady
  <2>9. IdsStamped(h)'
    BY <1>16, <1>20 DEF GroupInv, IdsStamped
  <2>10. \A q \in Peers : Sending(h, q) => Sending(h, q)'
    BY <1>16, <2>6 DEF Sending, ToSend, Named
  <2> QED
    BY <1>16, <2>8, <2>9, <2>10 DEF Carried
<1>21. lastId <= lastId' /\ uid' <= lastId' /\ torn \subseteq torn'
  BY <1>16 DEF AckInv, IdsUsed, Used, TypeOK, HistType
<1> QED
  BY <1>16, <1>17, <1>18, <1>19, <1>20, <1>21, AckStep

----------------------------------------------------------------------------
(* A new update.                                                           *)

\* No set that is there already has the id of the new update.
LEMMA NotPrepared ==
  ASSUME TypeOK, IdsUsed, NEW h \in Groups, current'[h] = current[h], uid' = lastId + 1
  PROVE  ~Prepared(h)'
<1> SUFFICES ASSUME Prepared(h)' PROVE FALSE
  OBVIOUS
<1>1. lastId \in Nat
  BY DEF TypeOK, HistType
<1>2. current[h] # None /\ current[h] # EmptyChange /\ current[h] \in ChangeSets
  BY DEF Prepared, TypeOK, MemoryType
<1>3. CASE current[h].name # None
  <2>1. current[h].name.id = lastId + 1
    BY <1>3 DEF Prepared, Stamped
  <2>2. current[h].name.id <= lastId
    BY <1>2, <1>3 DEF IdsUsed, Named, Used
  <2> QED
    BY <1>1, <2>1, <2>2
<1>4. CASE current[h].name = None
  <2>1. current[h].add = None /\ (current[h].rm # None => current[h].rm.id = lastId + 1)
    BY <1>4 DEF Prepared, Stamped
  <2>2. current[h].rm # None => current[h].rm.id <= lastId
    BY <1>2 DEF IdsUsed, Used
  <2>3. current[h].rm = None
    BY <1>1, <2>1, <2>2
  <2> QED
    BY <1>2, <1>4, <2>1, <2>3 DEF EmptyChange, ChangeSets
<1> QED
  BY <1>3, <1>4

\* A group whose update does not begin.
LEMMA OthersKept ==
  ASSUME TypeOK, TypeOK', AckInv, NEW h \in Groups \ torn, ~inProgress,
         uid' = lastId + 1, lastId' = lastId + 1, current'[h] = current[h],
         exists'[h] = exists[h], members'[h] = members[h], name'[h] = name[h], clock'[h] = clock[h],
         UNCHANGED <<rows, pending, net, back, knows, shown, since>>
  PROVE  GroupInv(h)'
<1>1. GroupInv(h) /\ IdsUsed
  BY DEF AckInv
<1>2. ~Prepared(h)'
  BY <1>1, NotPrepared
<1>3. Quiet(h)
  BY <1>2, SetsSame DEF Quiet
<1>4. Steady(h)
  BY <1>1, <1>3, QuietSteady DEF GroupInv
<1>5. IdsStamped(h)'
  BY <1>1 DEF GroupInv, IdsStamped
<1>6. \A p \in Peers : ~Sending(h, p)
  BY DEF Sending, Prepared
<1>7. lastId <= lastId'
  BY DEF TypeOK, HistType
<1>8. Carried(h)
  BY <1>4, <1>5, <1>6 DEF Carried
<1> QED
  BY <1>1, <1>7, <1>8, GroupKept

LEMMA UpdateSetType ==
  ASSUME NEW c \in ChangeSets, NEW n \in ChangeSets, NEW all \in SUBSET Users, NEW id \in Ids
  PROVE  [name |-> n.name, add |-> IF c.add = None THEN None ELSE [who |-> all, id |-> id],
          rm |-> Stamp(c.rm, id)] \in ChangeSets
<1>1. n.name \in NameItem \cup {None} /\ c.rm \in Items
  BY SetFields
<1>2. Stamp(c.rm, id) \in Items /\ [who |-> all, id |-> id] \in Items
  BY <1>1, ItemTypes
<1>3. (IF c.add = None THEN None ELSE [who |-> all, id |-> id]) \in Items
  BY <1>2 DEF Items
<1> QED
  BY <1>1, <1>2, <1>3, SetOf

\* The set of the update: its ids are new and its name is that of the tables.
LEMMA PrepareAck ==
  ASSUME TypeOK, TypeOK', AckInv, NEW t \in Threads, Prepare(t)
  PROVE  AckInv'
<1>0. PICK g \in Groups : g = grp[t]
  BY DEF TypeOK, ThreadsType
<1> DEFINE id  == lastId + 1
           c   == Clocked(current[g], g, id)
           all == members[g] \cup (IF exists[g] THEN {} ELSE {Me}) \cup Who(c.add)
           n   == WithName(c, g, id)
           set == [name |-> n.name,
                   add  |-> IF c.add = None THEN None ELSE [who |-> all, id |-> id],
                   rm   |-> Stamp(c.rm, id)]
<1>1. /\ exists' = [exists EXCEPT ![g] = TRUE]
      /\ IF c.name = None THEN UNCHANGED <<name, clock>>
         ELSE /\ name' = [name EXCEPT ![g] = c.name.v]
              /\ clock' = [clock EXCEPT ![g] = c.name.clk]
      /\ members' = [members EXCEPT ![g] = all \ (Who(c.rm) \ {Me})]
      /\ current' = [current EXCEPT ![g] = set]
      /\ current[g] # None /\ ~inProgress
      /\ inProgress' = TRUE /\ uid' = id /\ lastId' = id
      /\ pc' = [pc EXCEPT ![t] = "list"]
      /\ UNCHANGED <<rows, pending, grp, net, back, knows, shown, since, torn>>
  BY <1>0 DEF Prepare, peers
<1>2. current[g] \in ChangeSets /\ lastId \in Nat /\ id \in Nat /\ id \in Ids
  BY <1>1 DEF TypeOK, HistType, MemoryType, Ids
<1>3. /\ c \in ChangeSets
      /\ c.name = None \/ (c.name.clk = clock[g] + 1 /\ c.name.id = id)
  <2>1. c \in ChangeSets
    BY <1>2, ClockedType DEF TypeOK
  <2>2. CASE current[g].name # None
    <3>1. c = [current[g] EXCEPT !.name =
                 [v |-> current[g].name.v, clk |-> clock[g] + 1, id |-> id]]
      BY <2>2 DEF Clocked
    <3>2. c.name = [v |-> current[g].name.v, clk |-> clock[g] + 1, id |-> id]
      BY <1>2, <3>1 DEF ChangeSets
    <3> HIDE DEF c, id
    <3> QED
      BY <2>1, <3>2
  <2>3. CASE current[g].name = None
    BY <2>1, <2>3 DEF Clocked
  <2> QED
    BY <2>2, <2>3
<1> HIDE DEF c
<1>4. /\ n \in ChangeSets
      /\ c.name # None => n.name = c.name
      /\ c.name = None /\ c.add # None => n.name = [v |-> name[g], clk |-> clock[g], id |-> id]
      /\ c.name = None /\ c.add = None => n.name = None
  <2>1. n \in ChangeSets
    BY <1>2, <1>3, WithNameType DEF TypeOK
  <2> QED
    BY <1>3, <2>1 DEF WithName, ChangeSets
<1>5. all \in SUBSET Users
  <2>1. Who(c.add) \in SUBSET Users
    BY <1>2, <1>3, SetFields, ItemTypes
  <2>2. members[g] \in SUBSET Users /\ Me \in Users
    BY <1>2 DEF TypeOK, TablesType, Users
  <2> QED
    BY <2>1, <2>2
<1>6. PICK d \in ChangeSets : d = set /\ d # None /\ d.name = n.name /\ d.rm = Stamp(c.rm, id)
  <2> HIDE DEF n, all
  <2>1. set \in ChangeSets
    BY <1>2, <1>3, <1>4, <1>5, UpdateSetType
  <2> QED
    BY <2>1, NoneAssumption
<1>7. c.add = None => all = members[g] \cup (IF exists[g] THEN {} ELSE {Me})
  BY DEF Who
<1> HIDE DEF n, set, all
<1>8. /\ exists'[g] = TRUE /\ current'[g] = d
      /\ members'[g] \subseteq all /\ pc'[t] = "list" /\ grp'[t] = g
      /\ c.name = None => name'[g] = name[g] /\ clock'[g] = clock[g]
      /\ c.name # None => name'[g] = c.name.v /\ clock'[g] = clock[g] + 1
  BY <1>0, <1>1, <1>2, <1>3, <1>6 DEF TypeOK, TablesType, MemoryType, ThreadsType
<1>9. \A h \in Groups : h # g =>
        /\ exists'[h] = exists[h] /\ members'[h] = members[h] /\ current'[h] = current[h]
        /\ name'[h] = name[h] /\ clock'[h] = clock[h]
  BY <1>1, <1>2 DEF TypeOK, TablesType, MemoryType
<1>10. /\ d.name # None => d.name.id = id /\ IsName(d, g)'
       /\ d.rm # None => d.rm.id = id
  <2>1. d.name # None => d.name.id = id
    BY <1>3, <1>4, <1>6
  <2>2. d.name # None => d.name.clk = clock'[g] /\ d.name.v = name'[g]
    BY <1>3, <1>4, <1>6, <1>8
  <2>3. c.rm \in Items
    BY <1>3, SetFields
  <2>4. d.rm # None => d.rm.id = id
    BY <1>6, <2>3 DEF Stamp, Items, MemberItem
  <2> QED
    BY <2>1, <2>2, <2>4 DEF IsName
<1>11. \A h \in Groups : Sets(h)' \subseteq Sets(h)
  BY <1>1, SetsSame
<1>12. IdsUsed'
  <2>1. lastId <= lastId' /\ uid' <= lastId'
    BY <1>1, <1>2
  <2>2. CurrentUsed(g)'
    BY <1>1, <1>2, <1>8, <1>10 DEF CurrentUsed, Used
  <2> QED
    BY <1>1, <1>9, <1>11, <2>1, <2>2, UsedStep DEF AckInv
<1>13. UnknownIsOld'
  BY <1>1 DEF AckInv, UnknownIsOld
<1>14. ASSUME NEW h \in Groups \ torn, h # g PROVE GroupInv(h)'
  BY <1>1, <1>9, <1>14, OthersKept
<1>15. ASSUME g \notin torn PROVE GroupInv(g)'
  <2>1. GroupInv(g) /\ IdsUsed
    BY <1>2, <1>15 DEF AckInv
  <2>2. IdsStamped(g)'
    BY <1>2, <1>8, <1>10 DEF IdsStamped
  <2>3. NamesKnown(g)'
    <3>1. clock[g] \in Nat
      BY <1>2 DEF TypeOK, TablesType
    <3>2. ASSUME NEW x \in Sets(g)', Named(x)
          PROVE  x.name.clk <= clock'[g] /\ (x.name.clk = clock'[g] => x.name.v = name'[g])
      <4>1. x.name.clk <= clock[g] /\ (x.name.clk = clock[g] => x.name.v = name[g])
        BY <1>11, <2>1, <3>2 DEF GroupInv, NamesKnown
      <4>2. x.name.clk \in Nat
        BY <1>2, <1>11, <3>2, SetsType, SetFields DEF Named, NameItem
      <4> QED
        BY <1>8, <3>1, <4>1, <4>2
    <3>3. (\A x \in Sets(g) : Named(x) =>
             x.name.clk <= clock[g] /\ (x.name.clk = clock[g] => x.name.v = name[g]))'
      BY <3>2 DEF Named
    <3>4. (Prepared(g) /\ Named(current[g]) =>
             current[g].name.clk = clock[g] /\ current[g].name.v = name[g])'
      BY <1>8, <1>10 DEF IsName, Named
    <3>5. ASSUME NEW p \in Peers
          PROVE  since'[p][g] <= clock'[g] /\ (since'[p][g] = clock'[g] => shown'[p][g] = name'[g])
      <4>1. since[p][g] <= clock[g] /\ (since[p][g] = clock[g] => shown[p][g] = name[g])
        BY <2>1 DEF GroupInv, NamesKnown
      <4>2. since[p][g] \in Nat
        BY <1>2 DEF TypeOK, PeersType
      <4> QED
        BY <1>1, <1>8, <3>1, <4>1, <4>2
    <3> QED
      BY <3>3, <3>4, <3>5 DEF NamesKnown
  <2>4. UpdateFresh(g)'
    <3> SUFFICES ASSUME NEW p \in Peers PROVE Fresh(g, p, uid)'
      BY DEF UpdateFresh
    <3>1. ASSUME NEW x \in Sets(g)', Named(x) PROVE x.name.id # uid'
      <4>1. x.name.id <= lastId
        BY <1>2, <1>11, <2>1, <3>1 DEF IdsUsed, Used
      <4> QED
        BY <1>1, <1>2, <4>1
    <3>2. ASSUME NEW a \in back', [id |-> uid', type |-> "name"] \in a.acks PROVE FALSE
      <4>1. uid' <= lastId
        BY <1>1, <2>1, <3>2 DEF IdsUsed, Used
      <4> QED
        BY <1>1, <1>2, <4>1
    <3> QED
      BY <3>1, <3>2 DEF Fresh, Named
  <2>5. Reached(g)'
    <3> SUFFICES ASSUME NEW p \in members'[g] \ {Me}
                 PROVE  UpToDate(g, p)' \/ Sending(g, p)' \/ RowKept(g, p)'
      BY <1>8 DEF Reached
    <3>1. CASE d.name # None
      <4>1. Stamped(d)' /\ Named(d) /\ d # EmptyChange
        BY <1>1, <1>6, <1>10, <3>1 DEF Stamped, Named, EmptyChange
      <4>2. ToSend(g, p)'
        BY <1>8 DEF ToSend
      <4> QED
        BY <1>1, <1>6, <1>8, <4>1, <4>2 DEF Sending, Prepared, Named
    <3>2. CASE d.name = None
      <4>1. c.name = None
        BY <1>4, <1>6, <3>2
      <4>2. c.add = None
        <5>1. [v |-> name[g], clk |-> clock[g], id |-> id] \in NameItem
          BY <1>2 DEF TypeOK, TablesType, NameItem
        <5> QED
          BY <1>4, <1>6, <3>2, <4>1, <5>1, NoneAssumption
      <4>3. p \in members[g] \ {Me}
        BY <1>7, <1>8, <4>2
      <4>4. p \in Peers
        BY <1>2, <4>3 DEF TypeOK, TablesType, Users
      <4>5. UpToDate(g, p) \/ RowKept(g, p)
        BY <1>1, <2>1, <4>3 DEF GroupInv, Reached, Sending, Prepared
      <4>6. UpToDate(g, p) => UpToDate(g, p)'
        BY <1>1, <1>8, <4>1 DEF UpToDate
      <4>7. ASSUME NEW j \in NoId .. lastId, Row(g, p, j, "name") \in rows, Fresh(g, p, j)
            PROVE  RowKept(g, p)'
        <5>1. Fresh(g, p, j)'
          BY <1>1, <1>8, <1>11, <4>1, <4>6, <4>7 DEF Fresh, Named
        <5>2. j \in NoId .. lastId'
          BY <1>1, <1>2 DEF NoId
        <5> QED
          BY <1>1, <4>7, <5>1, <5>2 DEF RowKept, Row
      <4> QED
        BY <4>5, <4>6, <4>7 DEF RowKept
    <3> QED
      BY <3>1, <3>2
  <2> QED
    BY <2>2, <2>3, <2>4, <2>5 DEF GroupInv
<1> QED
  BY <1>1, <1>12, <1>13, <1>14, <1>15 DEF AckInv

LEMMA PrepareFailsAck ==
  ASSUME TypeOK, TypeOK', AckInv, NEW t \in Threads, PrepareFails(t)
  PROVE  AckInv'
<1>0. PICK g \in Groups : g = grp[t]
  BY DEF TypeOK, ThreadsType
<1> DEFINE id == lastId + 1
<1>1. /\ current[g] # None /\ ~inProgress
      /\ uid' = id /\ lastId' = id
      /\ torn' = torn \cup {g}
      /\ UNCHANGED <<name, clock, rows, pending, net, back, knows, shown, since>>
      /\ \/ UNCHANGED <<exists, members, current>>
         \/ /\ exists' = [exists EXCEPT ![g] = TRUE]
            /\ members' = [members EXCEPT ![g] = IF exists[g] THEN @ ELSE {Me}]
            /\ current' = [current EXCEPT ![g] = Clocked(@, g, id)]
            /\ current[g].name # None
  BY <1>0 DEF PrepareFails, peers
<1>2. current[g] \in ChangeSets /\ lastId \in Nat /\ id \in Nat
  BY <1>1 DEF TypeOK, HistType, MemoryType
<1>3. \A h \in Groups : h # g =>
        /\ exists'[h] = exists[h] /\ members'[h] = members[h] /\ current'[h] = current[h]
  BY <1>1, <1>2 DEF TypeOK, TablesType, MemoryType
<1>4. current'[g] = current[g] \/ CurrentUsed(g)'
  <2> SUFFICES ASSUME current'[g] = Clocked(current[g], g, id), current[g].name # None
               PROVE  CurrentUsed(g)'
    BY <1>1 DEF TypeOK, MemoryType
  <2>1. current'[g] = [current[g] EXCEPT !.name =
                         [v |-> current[g].name.v, clk |-> clock[g] + 1, id |-> id]]
    BY DEF Clocked
  <2>2. /\ current'[g].name = [v |-> current[g].name.v, clk |-> clock[g] + 1, id |-> id]
        /\ current'[g].rm = current[g].rm
    BY <1>2, <2>1 DEF ChangeSets
  <2>3. current[g].rm # None => current[g].rm.id <= lastId /\ current[g].rm.id \in Int
    BY <1>1, <1>2, SetFields DEF AckInv, IdsUsed, Used, Items, MemberItem, Ids, NoId
  <2>4. current'[g].name.id <= lastId'
    BY <1>1, <1>2, <2>2
  <2>5. current'[g].rm # None => current'[g].rm.id <= lastId'
    BY <1>1, <1>2, <2>2, <2>3
  <2> QED
    BY <2>4, <2>5 DEF CurrentUsed, Used
<1>5. IdsUsed'
  <2>1. lastId <= lastId' /\ uid' <= lastId'
    BY <1>1, <1>2
  <2>2. \A h \in Groups : Sets(h)' \subseteq Sets(h)
    BY <1>1, SetsSame
  <2> QED
    BY <1>1, <1>3, <1>4, <2>1, <2>2, UsedStep DEF AckInv
<1>6. UnknownIsOld'
  BY <1>1 DEF AckInv, UnknownIsOld
<1>7. ASSUME NEW h \in Groups \ torn' PROVE GroupInv(h)'
  BY <1>1, <1>3, <1>7, OthersKept
<1> QED
  BY <1>5, <1>6, <1>7 DEF AckInv

----------------------------------------------------------------------------
(* A device that owes no acknowledgement has the present name.             *)

LEMMA AckInit == Init => AckInv
<1> SUFFICES ASSUME Init PROVE AckInv
  OBVIOUS
<1>1. TypeOK
  BY TypeInit
<1>2. /\ pending = {} /\ back = {} /\ net = [p \in Peers |-> <<>>]
      /\ current = [g \in Groups |-> None] /\ inProgress = FALSE /\ uid = 0 /\ lastId = 0
      /\ exists = [g \in Groups |-> g \in made]
      /\ members = [g \in Groups |-> IF g \in made THEN Users ELSE {}]
      /\ name = [g \in Groups |-> 0] /\ clock = [g \in Groups |-> 0]
      /\ knows = [p \in Peers |-> made]
      /\ shown = [p \in Peers |-> name] /\ since = [p \in Peers |-> clock]
  BY DEF Init
<1>3. \A g \in Groups : Sets(g) = {}
  BY <1>2 DEF Sets, Letters, PendingOf
<1>4. IdsUsed
  BY <1>2, <1>3 DEF IdsUsed, Used, Named
<1>5. UnknownIsOld
  BY <1>2 DEF UnknownIsOld
<1>6. ASSUME NEW g \in Groups PROVE GroupInv(g)
  <2>1. IdsStamped(g) /\ ~Prepared(g)
    BY <1>2 DEF IdsStamped, Prepared
  <2>2. NamesKnown(g) /\ UpdateFresh(g)
    BY <1>2, <1>3, <2>1 DEF NamesKnown, UpdateFresh
  <2>3. Reached(g)
    BY <1>2 DEF Reached, UpToDate, Users
  <2> QED
    BY <2>1, <2>2, <2>3 DEF GroupInv
<1> QED
  BY <1>4, <1>5, <1>6 DEF AckInv

LEMMA AckNext == TypeOK /\ AckInv /\ [Next]_vars => AckInv'
<1> SUFFICES ASSUME TypeOK, AckInv, [Next]_vars PROVE AckInv'
  OBVIOUS
<1>1. TypeOK'
  BY TypeStep
<1>2. CASE UNCHANGED vars
  BY <1>1, <1>2, GoneAck DEF vars, peers
<1>3. ASSUME NEW g \in Groups, EditsOf(g) PROVE AckInv'
  BY <1>1, <1>3, EditCases, EditAck
<1>4. ASSUME NEW g \in Groups, SiblingLeaves(g) PROVE AckInv'
  <2>1. Forget(g) /\ UNCHANGED <<threads, net, back, peers>>
    BY <1>4 DEF SiblingLeaves
  <2>2. \A h \in Groups, p \in Peers : ToSend(h, p) => ToSend(h, p)'
    BY <2>1 DEF ToSend, threads
  <2> QED
    BY <1>1, <2>1, <2>2, ForgetAck
<1>5. ASSUME NEW g \in Groups, NEW t \in Threads, LeaveGroup(t, g) PROVE AckInv'
  BY <1>1, <1>5, LeaveAck
<1>6. ASSUME NEW g \in Groups, NEW t \in Threads, NEW c \in {"all", "one"}, SendGroupMessage(t, g, c)
      PROVE  AckInv'
  BY <1>1, <1>6, ThreadAck
<1>7. ASSUME NEW g \in Groups, NEW t \in Threads, NEW p \in Peers, SendGroupCommandToMember(t, g, p)
      PROVE  AckInv'
  BY <1>1, <1>7, CommandAck
<1>8. ASSUME NEW g \in Groups, NEW p \in Peers, Hello(g, p) PROVE AckInv'
  BY <1>1, <1>8, HelloAck
<1>9. ASSUME NEW t \in Threads, Thread(t) PROVE AckInv'
  <2>1. CASE PrepareNothing(t) \/ ListMembers(t) \/ ListOne(t) \/ SendBlocks(t)
    BY <1>1, <2>1, ThreadAck
  <2>2. CASE Prepare(t)
    BY <1>1, <2>2, PrepareAck
  <2>3. CASE PrepareFails(t)
    BY <1>1, <2>3, PrepareFailsAck
  <2>4. CASE \E p \in Peers : SendToMember(t, p)
    BY <1>1, <2>4, MemberAck
  <2>5. CASE SendDone(t)
    BY <1>1, <2>5, SendDoneAck
  <2>6. CASE ProcessLeaveGroup(t)
    <3>1. PICK g \in Groups : g = grp[t]
      BY DEF TypeOK, ThreadsType
    <3>2. /\ Forget(g) /\ UNCHANGED <<net, back, peers>> /\ pc[t] = "leave"
          /\ \A u \in Threads \ {t} : pc'[u] = pc[u] /\ grp'[u] = grp[u] /\ todo'[u] = todo[u]
      BY <2>6, <3>1 DEF ProcessLeaveGroup, TypeOK, ThreadsType
    <3>3. \A h \in Groups, p \in Peers : ToSend(h, p) => ToSend(h, p)'
      BY <3>2, ToSendKept
    <3> QED
      BY <1>1, <3>2, <3>3, ForgetAck
  <2> QED
    BY <1>9, <2>1, <2>2, <2>3, <2>4, <2>5, <2>6 DEF Thread
<1>10. ASSUME NEW a \in back, TakeAcks(a) \/ TakeRequest(a) PROVE AckInv'
  BY <1>1, <1>10, TakeAcksAck, TakeRequestAck
<1>11. ASSUME NEW p \in Peers, NEW k \in DOMAIN net[p], Peer(p, k) PROVE AckInv'
  <2>1. CASE PeerChange(p, k)
    BY <1>1, <2>1, PeerChangeAck
  <2>2. CASE PeerMessage(p, k) \/ PeerUnknown(p, k)
    <3>1. /\ UNCHANGED <<tables, memory, threads, hist, knows, shown, since>>
          /\ net' = [net EXCEPT ![p] = Gone(@, k)]
          /\ \A a \in back' : a \in back \/ a.acks = {}
      BY <2>2 DEF PeerMessage, PeerUnknown, Arrives, peers, Reply
    <3> QED
      BY <1>1, <3>1, GoneAck
  <2> QED
    BY <1>11, <2>1, <2>2 DEF Peer
<1>12. CASE Lose
  BY <1>1, <1>12, GoneAck DEF Lose, peers
<1>13. CASE Crash
  BY <1>1, <1>13, CrashAck
<1> QED
  BY <1>2, <1>3, <1>4, <1>5, <1>6, <1>7, <1>8, <1>9, <1>10, <1>11, <1>12, <1>13, Steps

\* What the rows of awaited acknowledgements are for: the peer that owes none
\* knows the group by its present name and clock.
LEMMA AckedFollows == TypeOK /\ AckInv => AckedIsApplied
<1> SUFFICES ASSUME TypeOK, AckInv, NEW g \in Groups, NEW p \in Peers, Told(g, p), NoRows(g, p)
             PROVE  UpToDate(g, p)
  BY DEF AckedIsApplied, UpToDate
<1>1. p \in members[g] \ {Me}
  BY ConstantsAssumption DEF Told
<1>2. UpToDate(g, p) \/ Sending(g, p) \/ RowKept(g, p)
  BY <1>1 DEF Told, AckInv, GroupInv, Reached
<1>3. ~Sending(g, p)
  BY DEF Told, Sending, ToSend
<1>4. ~RowKept(g, p)
  BY DEF NoRows, RowKept, Row
<1> QED
  BY <1>2, <1>3, <1>4

\* AckedIsApplied for every number of peers, groups and threads: whatever is
\* lost, late, cut short or restarted, no row of waitForAck goes too early.
THEOREM AcknowledgedIsApplied == Spec => []AckedIsApplied
<1>1. Init => TypeOK /\ AckInv
  BY TypeInit, AckInit
<1>2. TypeOK /\ AckInv /\ [Next]_vars => (TypeOK /\ AckInv)'
  BY TypeStep, AckNext
<1>3. TypeOK /\ AckInv => AckedIsApplied
  BY AckedFollows
<1> QED
  BY <1>1, <1>2, <1>3, PTL DEF Spec

----------------------------------------------------------------------------
(* The sets on their way: those of C are new, the others stay in order.    *)

NetStep(g, p, C) ==
    \A k \in DOMAIN net'[p] : SetAt(p, g, k)' =>
        \/ net'[p][k].set \in C /\ Later(p, g, k)' \subseteq C
        \/ \E i \in DOMAIN net[p] :
             /\ SetAt(p, g, i) /\ net[p][i].set = net'[p][k].set
             /\ Later(p, g, k)' \subseteq Later(p, g, i) \cup C

LEMMA NetSame ==
  ASSUME NEW g, NEW p \in Peers, NEW C, net'[p] = net[p]
  PROVE  NetStep(g, p, C)
  BY DEF NetStep, Later, SetAt

LEMMA NetPosted ==
  ASSUME TypeOK, NEW p \in Peers, NEW h \in Groups, NEW c \in ChangeSets \cup {None},
         Post(p, Letter(h, c)), NEW g \in Groups, NEW q \in Peers, NEW C,
         g = h /\ q = p /\ c # None => c \in C
  PROVE  NetStep(g, q, C)
<1>1. net' = [net EXCEPT ![p] = Append(net[p], [group |-> h, set |-> c])]
  BY PostType DEF TypeOK
<1>2. CASE q # p
  <2>1. net'[q] = net[q]
    BY <1>1, <1>2 DEF TypeOK, NetType
  <2> QED
    BY <2>1, NetSame
<1>3. CASE q = p
  <2> DEFINE l == [group |-> h, set |-> c]
  <2>1. net[p] \in Seq(Letterings) /\ l \in Letterings
    BY DEF TypeOK, NetType, Letterings
  <2>2. net'[p] = Append(net[p], l)
    BY <1>1 DEF TypeOK, NetType
  <2>3. l.group = h /\ l.set = c
    OBVIOUS
  <2> HIDE DEF l
  <2>4. /\ DOMAIN net[p] = 1 .. Len(net[p]) /\ DOMAIN net'[p] = 1 .. Len(net[p]) + 1
        /\ Len(net'[p]) = Len(net[p]) + 1 /\ Len(net[p]) \in Nat
        /\ \A i \in 1 .. Len(net[p]) : net'[p][i] = net[p][i]
        /\ net'[p][Len(net[p]) + 1] = l
    BY <2>1, <2>2, AppendProperties, LenProperties
  <2>5. ASSUME NEW k \in 1 .. Len(net[p]) + 1, NEW d \in Later(p, g, k)'
        PROVE  d \in C \/ (k # Len(net[p]) + 1 /\ d \in Later(p, g, k))
    <3>1. PICK j \in k .. Len(net[p]) + 1 : SetAt(p, g, j)' /\ d = net'[p][j].set
      BY <2>4, <2>5 DEF Later
    <3>2. CASE j = Len(net[p]) + 1
      <4>1. g = h /\ c # None /\ d = c
        BY <2>3, <2>4, <3>1, <3>2 DEF SetAt
      <4> QED
        BY <4>1, <1>3
    <3>3. CASE j # Len(net[p]) + 1
      <4>1. j \in k .. Len(net[p]) /\ j \in 1 .. Len(net[p])
        BY <2>4, <3>1, <3>3
      <4>2. SetAt(p, g, j) /\ d = net[p][j].set
        BY <2>4, <3>1, <4>1 DEF SetAt
      <4>3. k # Len(net[p]) + 1
        BY <2>4, <4>1
      <4> QED
        BY <4>1, <4>2, <4>3 DEF Later
    <3> QED
      BY <3>2, <3>3
  <2>6. ASSUME NEW k \in 1 .. Len(net[p]) + 1, SetAt(p, g, k)'
        PROVE  \/ net'[p][k].set \in C /\ Later(p, g, k)' \subseteq C
               \/ \E i \in DOMAIN net[p] :
                    /\ SetAt(p, g, i) /\ net[p][i].set = net'[p][k].set
                    /\ Later(p, g, k)' \subseteq Later(p, g, i) \cup C
    <3>1. CASE k = Len(net[p]) + 1
      <4>1. net'[p][k].set = c /\ g = h /\ c # None
        BY <2>3, <2>4, <2>6, <3>1 DEF SetAt
      <4>2. Later(p, g, k)' \subseteq C
        BY <2>5, <3>1
      <4> QED
        BY <4>1, <4>2, <1>3
    <3>2. CASE k # Len(net[p]) + 1
      <4>1. k \in 1 .. Len(net[p])
        BY <2>4, <2>6, <3>2
      <4>2. SetAt(p, g, k) /\ net[p][k].set = net'[p][k].set
        BY <2>4, <2>6, <4>1 DEF SetAt
      <4>3. Later(p, g, k)' \subseteq Later(p, g, k) \cup C
        BY <2>5
      <4> QED
        BY <2>4, <4>1, <4>2, <4>3
    <3> QED
      BY <3>1, <3>2
  <2> QED
    BY <1>3, <2>4, <2>6 DEF NetStep
<1> QED
  BY <1>2, <1>3

LEMMA NetGone ==
  ASSUME TypeOK, NEW p \in Peers, NEW n \in DOMAIN net[p],
         net' = [net EXCEPT ![p] = Gone(@, n)], NEW g \in Groups, NEW q \in Peers, NEW C
  PROVE  NetStep(g, q, C)
<1>1. CASE q # p
  <2>1. net'[q] = net[q]
    BY <1>1 DEF TypeOK, NetType
  <2> QED
    BY <2>1, NetSame
<1>2. CASE q = p
  <2> DEFINE L == Len(net[p])
             at(i) == IF i < n THEN i ELSE i + 1
  <2>1. net[p] \in Seq(Letterings)
    BY DEF TypeOK, NetType
  <2>2. n \in 1 .. L /\ L \in Nat /\ DOMAIN net[p] = 1 .. L
    BY <2>1, LenProperties
  <2>3. /\ Gone(net[p], n) \in Seq(Letterings) /\ Len(Gone(net[p], n)) = L - 1
        /\ \A i \in 1 .. L - 1 :
             Gone(net[p], n)[i] = IF i < n THEN net[p][i] ELSE net[p][i + 1]
    BY <2>1, <2>2, GoneProperties
  <2>4. net'[p] = Gone(net[p], n)
    BY DEF TypeOK, NetType
  <2>5. Len(net'[p]) = L - 1 /\ DOMAIN net'[p] = 1 .. L - 1
    BY <2>3, <2>4, LenProperties
  <2> HIDE DEF L
  <2>6. ASSUME NEW i \in 1 .. L - 1
        PROVE  at(i) \in 1 .. L /\ net'[p][i] = net[p][at(i)]
    BY <2>2, <2>3, <2>4
  <2>7. \A i \in 1 .. L - 1, j \in 1 .. L - 1 : i <= j => at(i) <= at(j)
    BY <2>2
  <2> HIDE DEF at
  <2>8. ASSUME NEW k \in 1 .. L - 1, SetAt(p, g, k)'
        PROVE  /\ at(k) \in DOMAIN net[p] /\ SetAt(p, g, at(k))
               /\ net[p][at(k)].set = net'[p][k].set
               /\ Later(p, g, k)' \subseteq Later(p, g, at(k)) \cup C
    <3>1. at(k) \in DOMAIN net[p] /\ SetAt(p, g, at(k)) /\ net[p][at(k)].set = net'[p][k].set
      BY <2>2, <2>6, <2>8 DEF SetAt
    <3>2. ASSUME NEW d \in Later(p, g, k)' PROVE d \in Later(p, g, at(k))
      <4>1. PICK j \in k .. L - 1 : SetAt(p, g, j)' /\ d = net'[p][j].set
        BY <2>5, <3>2 DEF Later
      <4>2. j \in 1 .. L - 1 /\ k <= j
        BY <2>2, <4>1
      <4>3. at(j) \in 1 .. L /\ at(k) <= at(j) /\ net'[p][j] = net[p][at(j)] /\ at(k) \in 1 .. L
        BY <2>6, <2>7, <4>2
      <4>4. at(j) \in at(k) .. L
        BY <2>2, <4>3
      <4>5. SetAt(p, g, at(j)) /\ d = net[p][at(j)].set
        BY <4>1, <4>3 DEF SetAt
      <4> QED
        BY <4>4, <4>5 DEF Later, L
    <3> QED
      BY <3>1, <3>2
  <2> QED
    BY <1>2, <2>5, <2>8 DEF NetStep
<1> QED
  BY <1>1, <1>2

LEMMA LettersStep ==
  ASSUME NEW g, NEW p \in Peers, NEW C, NetStep(g, p, C), NEW c \in Letters(p, g)', c # None
  PROVE  c \in Letters(p, g) \/ c \in C
<1>1. PICK k \in DOMAIN net'[p] : net'[p][k].group = g /\ c = net'[p][k].set
  BY DEF Letters
<1>2. SetAt(p, g, k)'
  BY <1>1 DEF SetAt
<1>3. CASE net'[p][k].set \in C
  BY <1>1, <1>3
<1>4. ASSUME NEW i \in DOMAIN net[p], SetAt(p, g, i), net[p][i].set = net'[p][k].set
      PROVE  c \in Letters(p, g)
  BY <1>1, <1>4 DEF SetAt, Letters
<1> QED
  BY <1>1, <1>2, <1>3, <1>4 DEF NetStep

LEMMA LaterAll ==
  ASSUME TypeOK, NEW g \in Groups, NEW p \in Peers, NEW c \in Letters(p, g), c # None
  PROVE  c \in Later(p, g, 1)
<1>1. PICK k \in DOMAIN net[p] : net[p][k].group = g /\ c = net[p][k].set
  BY DEF Letters
<1>2. net[p] \in Seq(Letterings)
  BY DEF TypeOK, NetType
<1>3. k \in 1 .. Len(net[p])
  BY <1>1, <1>2
<1> QED
  BY <1>1, <1>3 DEF Later, SetAt

----------------------------------------------------------------------------
(* What keeps a peer right about a user.                                   *)

LEMMA AppliedKept ==
  ASSUME NEW g, NEW p \in Peers, NEW u, NEW C, NetStep(g, p, C), Applied(g, p, u),
         \A c \in C : Right(g, c, u)',
         u \in members'[g] <=> u \in members[g], u \in list'[p][g] <=> u \in list[p][g]
  PROVE  Applied(g, p, u)'
<1>1. ASSUME NEW c \in Letters(p, g)', c # None PROVE Right(g, c, u)'
  <2>1. c \in Letters(p, g) \/ c \in C
    BY <1>1, LettersStep
  <2> QED
    BY <1>1, <2>1 DEF Applied, Right
<1> QED
  BY <1>1 DEF Applied

LEMMA StandsKept ==
  ASSUME NEW g, NEW p \in Peers, NEW u, NEW id, NEW type, NEW C, NetStep(g, p, C),
         StandsFor(g, p, u, id, type), u \in members'[g] <=> u \in members[g],
         \A c \in C : Right(g, c, u)' /\ (Bears(c, id, type) => Says(c, u)),
         Applied(g, p, u) => Applied(g, p, u)',
         \A a \in back' : a.group = g /\ a.from = p /\ [id |-> id, type |-> type] \in a.acks
           => a \in back \/ Applied(g, p, u)'
  PROVE  StandsFor(g, p, u, id, type)'
<1>1. ASSUME NEW k \in DOMAIN net'[p], SetAt(p, g, k)', Bears(net'[p][k].set, id, type)
      PROVE  Says(net'[p][k].set, u) /\ \A c \in Later(p, g, k)' : Right(g, c, u)'
  <2>1. CASE net'[p][k].set \in C /\ Later(p, g, k)' \subseteq C
    BY <1>1, <2>1
  <2>2. ASSUME NEW i \in DOMAIN net[p], SetAt(p, g, i), net[p][i].set = net'[p][k].set,
               Later(p, g, k)' \subseteq Later(p, g, i) \cup C
        PROVE  Says(net'[p][k].set, u) /\ \A c \in Later(p, g, k)' : Right(g, c, u)'
    <3>1. Says(net[p][i].set, u) /\ \A c \in Later(p, g, i) : Right(g, c, u)
      BY <1>1, <2>2 DEF StandsFor
    <3> QED
      BY <2>2, <3>1 DEF Right
  <2> QED
    BY <1>1, <2>1, <2>2 DEF NetStep
<1>2. ASSUME NEW a \in back', a.group = g, a.from = p, [id |-> id, type |-> type] \in a.acks
      PROVE  Applied(g, p, u)'
  BY <1>2 DEF StandsFor
<1>3. (\A k \in DOMAIN net[p] : SetAt(p, g, k) /\ Bears(net[p][k].set, id, type) =>
         Says(net[p][k].set, u) /\ \A c \in Later(p, g, k) : Right(g, c, u))'
  BY <1>1 DEF Bears, Says
<1> QED
  BY <1>2, <1>3 DEF StandsFor

LEMMA FollowsKept ==
  ASSUME TypeOK, TypeOK', NEW g \in Groups, NEW p \in Peers, NEW C, NetStep(g, p, C),
         Follows(g, p), lastId <= lastId', Insider(g, p)' => Insider(g, p),
         \A u \in Users : Sound(g, u)' =>
           /\ Sound(g, u) /\ (u \in members'[g] <=> u \in members[g])
           /\ \A c \in C : Right(g, c, u)'
           /\ Applied(g, p, u) => Applied(g, p, u)'
           /\ ToTell(g, p, u) => Applied(g, p, u)' \/ ToTell(g, p, u)' \/ RowHeld(g, p, u)',
         \A u \in Users : \A id \in 1 .. lastId : \A type \in {"add", "rm"} :
           Sound(g, u)' /\ RowHolds(g, p, u, id, type) =>
             /\ \A c \in C : Bears(c, id, type) => Says(c, u)
             /\ \A a \in back' :
                  a.group = g /\ a.from = p /\ [id |-> id, type |-> type] \in a.acks
                    => a \in back \/ Applied(g, p, u)'
             /\ \/ Applied(g, p, u)' \/ RowHeld(g, p, u)'
                \/ Row(g, p, id, type) \in rows' /\ Keeps(g, u, id, type)'
  PROVE  Follows(g, p)'
<1> SUFFICES ASSUME Insider(g, p)', NEW u \in Users, Sound(g, u)'
             PROVE  Applied(g, p, u)' \/ ToTell(g, p, u)' \/ RowHeld(g, p, u)'
  BY DEF Follows
<1>1. Applied(g, p, u) \/ ToTell(g, p, u) \/ RowHeld(g, p, u)
  BY DEF Follows
<1>2. CASE RowHeld(g, p, u)
  <2>1. PICK id \in 1 .. lastId : \E type \in {"add", "rm"} : RowHolds(g, p, u, id, type)
    BY <1>2 DEF RowHeld
  <2>2. PICK type \in {"add", "rm"} : RowHolds(g, p, u, id, type)
    BY <2>1
  <2>3. /\ \A c \in C : Bears(c, id, type) => Says(c, u)
        /\ \A a \in back' : a.group = g /\ a.from = p /\ [id |-> id, type |-> type] \in a.acks
             => a \in back \/ Applied(g, p, u)'
        /\ \/ Applied(g, p, u)' \/ RowHeld(g, p, u)'
           \/ Row(g, p, id, type) \in rows' /\ Keeps(g, u, id, type)'
    BY <2>2
  <2>4. StandsFor(g, p, u, id, type)
    BY <2>2 DEF RowHolds
  <2>5. StandsFor(g, p, u, id, type)'
    BY <2>3, <2>4, StandsKept
  <2>6. CASE Row(g, p, id, type) \in rows' /\ Keeps(g, u, id, type)'
    <3>1. RowHolds(g, p, u, id, type)'
      BY <2>5, <2>6 DEF RowHolds, Row
    <3>2. id \in 1 .. lastId'
      BY DEF TypeOK, HistType
    <3> QED
      BY <3>1, <3>2 DEF RowHeld
  <2> QED
    BY <2>3, <2>6
<1> QED
  BY <1>1, <1>2

\* The update in progress has reached no further peer.
LEMMA AlreadyKept ==
  ASSUME NEW g \in Groups, NEW p \in Peers, NEW C, NetStep(g, p, C), uid' = uid,
         \A c \in C : \A type \in Types : ~Bears(c, uid, type),
         \A a \in back' : a \in back \/ a.group # g \/ a.from # p \/ \A k \in a.acks : k.id # uid,
         Already(g, p)'
  PROVE  Already(g, p)
<1>1. CASE \E c \in Letters(p, g)' \ {None} : \E type \in Types : Bears(c, uid', type)
  <2>1. PICK c \in Letters(p, g)' \ {None} : \E type \in Types : Bears(c, uid, type)
    BY <1>1
  <2>2. c \in Letters(p, g) \ {None}
    BY <2>1, LettersStep
  <2> QED
    BY <2>1, <2>2 DEF Already
<1>2. CASE \E a \in back' : a.group = g /\ a.from = p /\ \E k \in a.acks : k.id = uid'
  BY <1>2 DEF Already
<1> QED
  BY <1>1, <1>2 DEF Already, Bears

\* A step that sends no set for the group, and leaves the sets it has.
QuietAt(g) ==
    /\ lastId <= lastId' /\ members'[g] \subseteq members[g]
    /\ \A u \in Users : Sound(g, u)' => Sound(g, u) /\ (u \in members'[g] <=> u \in members[g])
    /\ \A p \in Peers :
         /\ NetStep(g, p, {}) /\ list'[p][g] = list[p][g]
         /\ Insider(g, p)' => Insider(g, p) /\ (p \in members'[g] <=> p \in members[g])
    /\ \A a \in back' : a \in back \/ a.acks = {} \/ a.group # g
    /\ \A p \in Peers : \A id \in 1 .. lastId : \A type \in {"add", "rm"} :
         Row(g, p, id, type) \in rows =>
           \/ Row(g, p, id, type) \in rows'
           \/ \E a \in back : a.group = g /\ a.from = p /\ [id |-> id, type |-> type] \in a.acks
    /\ \A u \in Users : \A id \in 1 .. lastId : \A type \in {"add", "rm"} :
         Keeps(g, u, id, type) => Keeps(g, u, id, type)'
    /\ Prepared(g)' =>
         /\ Prepared(g) /\ uid' = uid /\ current'[g] = current[g]
         /\ PendingOf(g)' \subseteq PendingOf(g) /\ \A r \in rows' : r.group = g => r \in rows
    /\ \A p \in Peers \cap members[g] : Prepared(g) /\ ToSend(g, p) =>
         /\ Prepared(g)' /\ ToSend(g, p)'
    /\ NoSelf(g)'

LEMMA QuietAgrees ==
  ASSUME TypeOK, TypeOK', NEW g \in Groups, GroupAgrees(g), QuietAt(g)
  PROVE  GroupAgrees(g)'
<1>1. ASSUME Prepared(g)', NEW p \in Peers, Already(g, p)' PROVE Already(g, p)
  BY <1>1, AlreadyKept DEF QuietAt
<1>2. UpdateRight(g)'
  <2> SUFFICES ASSUME Prepared(g)' PROVE UpdateRight(g)'
    BY DEF UpdateRight
  <2>1. /\ Prepared(g) /\ uid' = uid /\ current'[g] = current[g]
        /\ PendingOf(g)' \subseteq PendingOf(g) /\ \A r \in rows' : r.group = g => r \in rows
    BY DEF QuietAt
  <2>2. ASSUME NEW u \in Users, Sound(g, u)' PROVE Right(g, current[g], u)'
    BY <2>1, <2>2 DEF QuietAt, GroupAgrees, UpdateRight, Right
  <2>3. ASSUME NEW p \in Peers, Already(g, p)' PROVE OwesNothing(g, p)'
    <3>1. OwesNothing(g, p)
      BY <1>1, <2>1, <2>3 DEF GroupAgrees, UpdateRight
    <3> QED
      BY <2>1, <3>1 DEF OwesNothing, Owed, Row
  <2>4. \A x \in PendingOf(g)' : x.id # uid'
    BY <2>1 DEF GroupAgrees, UpdateRight
  <2>5. \A type \in {"add", "rm"} :
          current'[g][type] # None => current'[g][type].id \in {uid', NoId}
    BY <2>1 DEF GroupAgrees, UpdateRight
  <2> QED
    BY <2>1, <2>2, <2>3, <2>4, <2>5 DEF UpdateRight
<1>3. ASSUME NEW p \in Peers, p \notin members'[g] PROVE Untouched(g, p)'
  <2> SUFFICES ASSUME Insider(g, p)' PROVE list'[p][g] = {} /\ Letters(p, g)' \subseteq {None}
    BY DEF Untouched
  <2>1. Insider(g, p) /\ p \notin members[g] /\ list'[p][g] = list[p][g] /\ NetStep(g, p, {})
    BY <1>3 DEF QuietAt
  <2>2. list[p][g] = {} /\ Letters(p, g) \subseteq {None}
    BY <2>1 DEF GroupAgrees, Untouched
  <2>3. \A c \in Letters(p, g)' : c # None => c \in Letters(p, g) \/ c \in {}
    BY <2>1, LettersStep
  <2> QED
    BY <2>1, <2>2, <2>3
<1>4. ASSUME NEW p \in Peers, p \in members'[g] PROVE Follows(g, p)'
  <2>1. /\ p \in members[g] /\ Follows(g, p) /\ NetStep(g, p, {}) /\ lastId <= lastId'
        /\ list'[p][g] = list[p][g]
        /\ Insider(g, p)' => Insider(g, p)
    BY <1>4 DEF QuietAt, GroupAgrees
  <2>2. ASSUME NEW u \in Users, Sound(g, u)'
        PROVE  /\ Sound(g, u) /\ (u \in members'[g] <=> u \in members[g])
               /\ Applied(g, p, u) => Applied(g, p, u)'
    <3>1. Sound(g, u) /\ (u \in members'[g] <=> u \in members[g])
      BY <2>2 DEF QuietAt
    <3>2. ASSUME Applied(g, p, u) PROVE Applied(g, p, u)'
      <4>1. \A c \in {} : Right(g, c, u)'
        OBVIOUS
      <4> QED
        BY <2>1, <3>1, <3>2, <4>1, AppliedKept
    <3> QED
      BY <3>1, <3>2
  <2>3. ASSUME NEW u \in Users, ToTell(g, p, u) PROVE ToTell(g, p, u)'
    <3>1. Prepared(g)' /\ ToSend(g, p)'
      BY <2>1, <2>3 DEF ToTell, QuietAt
    <3>2. current'[g] = current[g]
      BY <3>1 DEF QuietAt
    <3> QED
      BY <1>1, <2>3, <3>1, <3>2 DEF ToTell, Says
  <2>4. ASSUME NEW u \in Users, NEW id \in 1 .. lastId, NEW type \in {"add", "rm"},
               Sound(g, u)', RowHolds(g, p, u, id, type)
        PROVE  /\ \A a \in back' :
                    a.group = g /\ a.from = p /\ [id |-> id, type |-> type] \in a.acks => a \in back
               /\ \/ Applied(g, p, u)'
                  \/ Row(g, p, id, type) \in rows' /\ Keeps(g, u, id, type)'
    <3>1. Keeps(g, u, id, type)' /\ StandsFor(g, p, u, id, type)
      BY <2>4 DEF RowHolds, QuietAt
    <3>2. \/ Row(g, p, id, type) \in rows'
          \/ \E a \in back : a.group = g /\ a.from = p /\ [id |-> id, type |-> type] \in a.acks
      BY <2>4 DEF RowHolds, QuietAt
    <3>3. Row(g, p, id, type) \in rows' \/ Applied(g, p, u)
      BY <3>1, <3>2 DEF StandsFor
    <3>4. \A a \in back' :
            a.group = g /\ a.from = p /\ [id |-> id, type |-> type] \in a.acks => a \in back
      BY DEF QuietAt
    <3> QED
      BY <2>2, <2>4, <3>1, <3>3, <3>4
  <2> QED
    BY <2>1, <2>2, <2>3, <2>4, FollowsKept
<1> QED
  BY <1>2, <1>3, <1>4 DEF GroupAgrees, QuietAt

----------------------------------------------------------------------------
(* Steps that leave the sets of a group alone.                             *)

LEMMA IdleAgrees ==
  ASSUME TypeOK, TypeOK', NEW g \in Groups, GroupAgrees(g), lastId <= lastId',
         quit \subseteq quit', stale \subseteq stale', outside \subseteq outside',
         members'[g] \subseteq members[g],
         \A u \in members[g] \ members'[g] : <<g, u>> \in quit',
         UNCHANGED <<inProgress, uid>>, current'[g] = current[g],
         PendingOf(g)' \subseteq PendingOf(g), \A r \in rows' : r.group = g => r \in rows,
         \A p \in Peers : NetStep(g, p, {}) /\ list'[p][g] = list[p][g],
         \A a \in back' : a \in back \/ a.acks = {} \/ a.group # g,
         \A p \in Peers : \A id \in 1 .. lastId : \A type \in {"add", "rm"} :
           Row(g, p, id, type) \in rows =>
             \/ Row(g, p, id, type) \in rows'
             \/ \E a \in back : a.group = g /\ a.from = p /\ [id |-> id, type |-> type] \in a.acks,
         \A p \in Peers \cap members[g] : Prepared(g) /\ ToSend(g, p) => ToSend(g, p)'
  PROVE  GroupAgrees(g)'
<1>1. ASSUME NEW u \in Users, Sound(g, u)'
      PROVE  Sound(g, u) /\ (u \in members'[g] <=> u \in members[g])
  BY <1>1 DEF Sound
<1>2. ASSUME NEW p \in Peers, Insider(g, p)'
      PROVE  Insider(g, p) /\ (p \in members'[g] <=> p \in members[g])
  BY <1>2 DEF Insider
<1>3. ASSUME NEW u \in Users, NEW id \in 1 .. lastId, NEW type \in {"add", "rm"},
             Keeps(g, u, id, type)
      PROVE  Keeps(g, u, id, type)'
  BY <1>3 DEF Keeps
<1>4. Prepared(g)' <=> Prepared(g)
  BY DEF Prepared, Stamped
<1>5. NoSelf(g)'
  BY DEF GroupAgrees, NoSelf
<1>6. QuietAt(g)
  BY <1>1, <1>2, <1>3, <1>4, <1>5 DEF QuietAt
<1> QED
  BY <1>6, QuietAgrees

LEMMA ThreadAgrees ==
  ASSUME TypeOK, TypeOK', AckInv, NEW t \in Threads,
         \/ \E g \in Groups, c \in {"all", "one"} : SendGroupMessage(t, g, c)
         \/ PrepareNothing(t) \/ ListMembers(t) \/ ListOne(t) \/ SendBlocks(t),
         NEW h \in Groups \ torn', GroupAgrees(h)
  PROVE  GroupAgrees(h)'
<1>1. /\ UNCHANGED <<members, list, rows, current, pending, inProgress, uid, back, lastId, quit,
                     stale, outside>>
      /\ torn \subseteq torn'
  BY DEF SendGroupMessage, PrepareNothing, ListMembers, ListOne, SendBlocks, tables, memory, peers, hist
<1>2. ASSUME NEW p \in Peers PROVE NetStep(h, p, {})
  <2>1. CASE UNCHANGED net
    BY <2>1, NetSame
  <2>2. CASE ListOne(t)
    <3>1. grp[t] \in Groups
      BY DEF TypeOK, ThreadsType
    <3>2. net' = net \/ \E q \in Peers : Post(q, Letter(grp[t], None))
      BY <2>2 DEF ListOne
    <3>3. ASSUME NEW q \in Peers, Post(q, Letter(grp[t], None)) PROVE NetStep(h, p, {})
      BY <3>1, <3>3, NetPosted
    <3> QED
      BY <2>1, <3>2, <3>3
  <2> QED
    BY <2>1, <2>2 DEF SendGroupMessage, PrepareNothing, ListMembers, SendBlocks
<1>3. ASSUME NEW p \in Peers \cap members[h], Prepared(h), ToSend(h, p) PROVE ToSend(h, p)'
  <2>1. CASE \/ \E g \in Groups, c \in {"all", "one"} : SendGroupMessage(t, g, c)
             \/ PrepareNothing(t)
    <3>1. /\ pc[t] \in {"idle", "prepare"}
          /\ \A u \in Threads \ {t} : pc'[u] = pc[u] /\ grp'[u] = grp[u] /\ todo'[u] = todo[u]
      BY <2>1 DEF SendGroupMessage, PrepareNothing, Idle, Preparing, TypeOK, ThreadsType
    <3> QED
      BY <1>3, <3>1, ToSendKept
  <2>2. PICK u \in Threads : grp[u] = h /\ (pc[u] = "list" \/ (pc[u] = "send" /\ p \in todo[u]))
    BY <1>3 DEF ToSend
  <2>3. CASE ListMembers(t)
    <3>1. /\ grp' = grp
          /\ \A x \in Threads \ {t} : pc'[x] = pc[x] /\ todo'[x] = todo[x]
      BY <2>3 DEF ListMembers, TypeOK, ThreadsType
    <3>2. CASE u # t
      BY <2>2, <3>1, <3>2 DEF ToSend
    <3>3. CASE u = t
      <4>1. exists[h] /\ p # Me
        BY <1>1 DEF AckInv, GroupInv, Reached
      <4>2. pc[t] = "list" /\ grp[t] = h
        BY <2>2, <2>3, <3>3 DEF ListMembers
      <4>3. pc'[t] = "send" /\ p \in todo'[t]
        BY <2>3, <4>1, <4>2 DEF ListMembers, TypeOK, ThreadsType
      <4> QED
        BY <3>1, <4>2, <4>3 DEF ToSend
    <3> QED
      BY <3>2, <3>3
  <2>4. CASE ListOne(t)
    <3>1. exists[h] /\ inProgress
      BY <1>1, <1>3 DEF AckInv, GroupInv, Reached, Prepared
    <3>2. u # t
      BY <2>2, <2>4, <3>1 DEF ListOne
    <3>3. grp' = grp /\ pc'[u] = pc[u] /\ todo'[u] = todo[u]
      BY <2>4, <3>2 DEF ListOne, TypeOK, ThreadsType
    <3> QED
      BY <2>2, <3>3 DEF ToSend
  <2>5. CASE SendBlocks(t)
    <3>1. u # t
      BY <1>3, <2>2, <2>5 DEF SendBlocks, Prepared
    <3>2. grp' = grp /\ pc'[u] = pc[u] /\ todo' = todo
      BY <2>5, <3>1 DEF SendBlocks, TypeOK, ThreadsType
    <3> QED
      BY <2>2, <3>2 DEF ToSend
  <2> QED
    BY <2>1, <2>3, <2>4, <2>5
<1>4. lastId <= lastId' /\ PendingOf(h)' \subseteq PendingOf(h)
  BY <1>1 DEF PendingOf, TypeOK, HistType
<1> QED
  BY <1>1, <1>2, <1>3, <1>4, IdleAgrees

LEMMA TakeAcksAgrees ==
  ASSUME TypeOK, TypeOK', NEW a \in back, TakeAcks(a), NEW h \in Groups, GroupAgrees(h)
  PROVE  GroupAgrees(h)'
<1>1. /\ UNCHANGED <<members, list, current, inProgress, uid, net, lastId, quit, stale, outside,
                     pc, grp, todo>>
      /\ rows' \in {rows, rows \ Acknowledged(a)} /\ pending' \subseteq pending
      /\ back' \subseteq back
  BY DEF TakeAcks, threads, peers, hist
<1>2. ASSUME NEW p \in Peers, NEW id \in 1 .. lastId, NEW type \in {"add", "rm"},
             Row(h, p, id, type) \in rows, Row(h, p, id, type) \notin rows'
      PROVE  a.group = h /\ a.from = p /\ [id |-> id, type |-> type] \in a.acks
  <2>1. Row(h, p, id, type) \in Acknowledged(a)
    BY <1>1, <1>2
  <2>2. PICK k \in a.acks : Row(h, p, id, type) = Row(a.group, a.from, k.id, k.type)
    BY <2>1 DEF Acknowledged
  <2>3. a.group = h /\ a.from = p /\ k.id = id /\ k.type = type
    BY <2>2 DEF Row
  <2>4. k \in [id : Ids, type : Types]
    BY DEF TypeOK, NetType, Replies
  <2>5. k = [id |-> id, type |-> type]
    BY <2>3, <2>4
  <2> QED
    BY <2>3, <2>5
<1>3. \A p \in Peers : NetStep(h, p, {})
  BY <1>1, NetSame
<1>4. \A p \in Peers : ToSend(h, p) => ToSend(h, p)'
  BY <1>1 DEF ToSend
<1>5. lastId <= lastId' /\ PendingOf(h)' \subseteq PendingOf(h)
  BY <1>1 DEF PendingOf, TypeOK, HistType
<1> QED
  BY <1>1, <1>2, <1>3, <1>4, <1>5, IdleAgrees

LEMMA TakeRequestAgrees ==
  ASSUME TypeOK, TypeOK', NEW a \in back, TakeRequest(a), NEW h \in Groups, GroupAgrees(h)
  PROVE  GroupAgrees(h)'
<1>1. /\ UNCHANGED <<list, rows, current, pending, inProgress, uid, net, lastId, stale, outside,
                     pc, grp, todo>>
      /\ back' \subseteq back /\ quit \subseteq quit'
  BY DEF TakeRequest, memory, threads, peers
<1>2. /\ members'[h] \subseteq members[h]
      /\ \A u \in members[h] \ members'[h] : <<h, u>> \in quit'
  BY DEF TakeRequest, TypeOK, TablesType
<1>3. \A p \in Peers : NetStep(h, p, {})
  BY <1>1, NetSame
<1>4. \A p \in Peers : ToSend(h, p) => ToSend(h, p)'
  BY <1>1 DEF ToSend
<1>5. lastId <= lastId' /\ PendingOf(h)' \subseteq PendingOf(h)
  BY <1>1 DEF PendingOf, TypeOK, HistType
<1> QED
  BY <1>1, <1>2, <1>3, <1>4, <1>5, IdleAgrees

LEMMA ForgetAgrees ==
  ASSUME TypeOK, TypeOK', NEW g \in Groups, Forget(g), UNCHANGED <<net, back, peers>>,
         \A q \in Groups, p \in Peers : ToSend(q, p) => ToSend(q, p)',
         NEW h \in Groups \ torn', GroupAgrees(h)
  PROVE  GroupAgrees(h)'
<1>1. /\ UNCHANGED <<current, inProgress, uid, lastId, list, net, back, quit, stale, outside>>
      /\ rows' = {r \in rows : r.group # g} /\ pending' \subseteq pending
      /\ h # g /\ members'[h] = members[h]
  BY DEF Forget, peers, TypeOK, TablesType
<1>2. \A p \in Peers : NetStep(h, p, {})
  BY <1>1, NetSame
<1>3. lastId <= lastId' /\ PendingOf(h)' \subseteq PendingOf(h)
  BY <1>1 DEF PendingOf, TypeOK, HistType
<1>4. \A p \in Peers : \A id, type : Row(h, p, id, type) \in rows => Row(h, p, id, type) \in rows'
  BY <1>1 DEF Row
<1> QED
  BY <1>1, <1>2, <1>3, <1>4, IdleAgrees

\* A message gets lost, or the peer learns nothing new from it.
LEMMA GoneAgrees ==
  ASSUME TypeOK, TypeOK', UNCHANGED <<tables, memory, threads, hist, list>>,
         \/ UNCHANGED net
         \/ \E p \in Peers : \E k \in DOMAIN net[p] : net' = [net EXCEPT ![p] = Gone(@, k)],
         \A a \in back' : a \in back \/ a.acks = {}, NEW h \in Groups, GroupAgrees(h)
  PROVE  GroupAgrees(h)'
<1>1. UNCHANGED <<members, rows, current, pending, inProgress, uid, lastId, quit, stale, outside,
                  pc, grp, todo>>
  BY DEF tables, memory, threads, hist
<1>2. \A p \in Peers : NetStep(h, p, {})
  BY NetSame, NetGone
<1>3. \A p \in Peers : ToSend(h, p) => ToSend(h, p)'
  BY <1>1 DEF ToSend
<1>4. lastId <= lastId' /\ PendingOf(h)' \subseteq PendingOf(h)
  BY <1>1 DEF PendingOf, TypeOK, HistType
<1> QED
  BY <1>1, <1>2, <1>3, <1>4, IdleAgrees

LEMMA EditAgrees ==
  ASSUME TypeOK, TypeOK', NEW g \in Groups, NEW c \in ChangeSets \cup {None}, EditStep(g, c),
         NEW h \in Groups \ torn', GroupAgrees(h)
  PROVE  GroupAgrees(h)'
<1>1. /\ current' = [current EXCEPT ![g] = c]
      /\ torn' = IF inProgress THEN torn \cup {g} ELSE torn
      /\ UNCHANGED <<members, rows, pending, inProgress, uid, pc, grp, todo, net, back, list,
                     lastId, outside, stale, quit>>
  BY DEF EditStep, Edit, tables, threads, peers
<1>2. \A p \in Peers : NetStep(h, p, {})
  BY <1>1, NetSame
<1>3. lastId <= lastId' /\ PendingOf(h)' = PendingOf(h)
  BY <1>1 DEF PendingOf, TypeOK, HistType
<1>4. \A p \in Peers : ToSend(h, p) => ToSend(h, p)'
  BY <1>1 DEF ToSend
<1>5. CASE h # g
  <2>1. current'[h] = current[h]
    BY <1>1, <1>5 DEF TypeOK, MemoryType
  <2> QED
    BY <1>1, <1>2, <1>3, <1>4, <2>1, IdleAgrees
<1>6. CASE h = g
  <2>1. current'[g] = c /\ ~inProgress /\ ~inProgress'
    BY <1>1, <1>6 DEF TypeOK, MemoryType
  <2>2. ~Prepared(g) /\ ~Prepared(g)'
    BY <2>1 DEF Prepared
  <2>3. c # None => Me \notin Who(c.rm)
    <3>1. c # None => Who(c.rm) \subseteq Who(Current(g).rm) \cup Peers
      BY DEF EditStep, KeepsIds
    <3>2. Me \notin Who(Current(g).rm)
      <4>1. Who(EmptyChange.rm) = {}
        BY DEF EmptyChange, Who
      <4> QED
        BY <1>6, <4>1 DEF GroupAgrees, NoSelf, Current
    <3> QED
      BY <3>1, <3>2
  <2>4. NoSelf(g)'
    BY <1>3, <1>6, <2>1, <2>3 DEF GroupAgrees, NoSelf
  <2>5. ASSUME NEW u \in Users, NEW id \in 1 .. lastId, NEW type \in {"add", "rm"},
               Keeps(g, u, id, type)
        PROVE  Keeps(g, u, id, type)'
    BY <1>3, <1>6, <2>1, <2>5 DEF Keeps
  <2>6. /\ \A u \in Users : Sound(g, u)' <=> Sound(g, u)
        /\ \A p \in Peers : Insider(g, p)' <=> Insider(g, p)
    BY <1>1 DEF Sound, Insider
  <2>7. QuietAt(g)
    BY <1>1, <1>2, <1>3, <1>6, <2>2, <2>4, <2>5, <2>6 DEF QuietAt
  <2> QED
    BY <1>6, <2>7, QuietAgrees
<1> QED
  BY <1>5, <1>6

LEMMA LeaveAgrees ==
  ASSUME TypeOK, TypeOK', NEW g \in Groups, NEW t \in Threads, LeaveGroup(t, g),
         NEW h \in Groups \ torn', GroupAgrees(h)
  PROVE  GroupAgrees(h)'
<1>1. /\ current' = [current EXCEPT ![g] = [EmptyChange EXCEPT !.rm = [who |-> {Me}, id |-> NoId]]]
      /\ h # g /\ pc[t] = "idle"
      /\ UNCHANGED <<members, rows, pending, inProgress, uid, todo, net, back, list, lastId,
                     outside, stale, quit>>
  BY DEF LeaveGroup, Idle, tables, peers
<1>2. \A u \in Threads \ {t} : pc'[u] = pc[u] /\ grp'[u] = grp[u] /\ todo'[u] = todo[u]
  BY DEF LeaveGroup, TypeOK, ThreadsType
<1>3. \A p \in Peers : NetStep(h, p, {}) /\ (ToSend(h, p) => ToSend(h, p)')
  BY <1>1, <1>2, NetSame, ToSendKept
<1>4. lastId <= lastId' /\ PendingOf(h)' = PendingOf(h) /\ current'[h] = current[h]
  BY <1>1 DEF PendingOf, TypeOK, HistType, MemoryType
<1> QED
  BY <1>1, <1>3, <1>4, IdleAgrees

LEMMA CrashAgrees ==
  ASSUME TypeOK, TypeOK', Crash, NEW h \in Groups \ torn', GroupAgrees(h)
  PROVE  GroupAgrees(h)'
<1>1. /\ UNCHANGED <<members, rows, net, back, list, lastId, outside, stale, quit>>
      /\ ~inProgress' /\ current'[h] = None /\ pending' = {}
  BY DEF Crash, tables, peers
<1>2. ASSUME NEW p \in Peers, Prepared(h), ToSend(h, p) PROVE FALSE
  BY <1>2 DEF Prepared, ToSend, Crash
<1>3. \A p \in Peers : NetStep(h, p, {})
  BY <1>1, NetSame
<1>4. lastId <= lastId' /\ PendingOf(h)' = {} /\ ~Prepared(h)'
  BY <1>1 DEF PendingOf, Prepared, TypeOK, HistType
<1>5. NoSelf(h)'
  BY <1>1, <1>4 DEF NoSelf
<1>6. \A u \in Users : \A id \in 1 .. lastId : \A type \in {"add", "rm"} : Keeps(h, u, id, type)'
  BY <1>1, <1>4 DEF Keeps
<1>7. /\ \A u \in Users : Sound(h, u)' <=> Sound(h, u)
      /\ \A p \in Peers : Insider(h, p)' <=> Insider(h, p)
  BY <1>1 DEF Sound, Insider
<1>8. QuietAt(h)
  BY <1>1, <1>2, <1>3, <1>4, <1>5, <1>6, <1>7 DEF QuietAt
<1> QED
  BY <1>8, QuietAgrees

\* Another group gets a new update.
LEMMA OthersAgree ==
  ASSUME TypeOK, TypeOK', AckInv, NEW h \in Groups, GroupAgrees(h), ~inProgress,
         uid' = lastId + 1, lastId' = lastId + 1, current'[h] = current[h],
         members'[h] = members[h], outside \subseteq outside',
         UNCHANGED <<rows, pending, net, back, list, quit, stale>>
  PROVE  GroupAgrees(h)'
<1>1. ~Prepared(h) /\ ~Prepared(h)'
  BY NotPrepared DEF Prepared, AckInv
<1>2. lastId \in Nat /\ PendingOf(h)' = PendingOf(h)
  BY DEF PendingOf, TypeOK, HistType
<1>3. ASSUME NEW u \in Users, NEW id \in 1 .. lastId, NEW type \in {"add", "rm"},
             Keeps(h, u, id, type)
      PROVE  Keeps(h, u, id, type)'
  <2>1. id # uid'
    BY <1>2
  <2> QED
    BY <1>2, <1>3, <2>1 DEF Keeps
<1>4. NoSelf(h)'
  BY <1>2 DEF GroupAgrees, NoSelf
<1>5. /\ \A u \in Users : Sound(h, u)' <=> Sound(h, u)
      /\ \A p \in Peers : Insider(h, p)' => Insider(h, p)
  BY DEF Sound, Insider
<1>6. \A p \in Peers : NetStep(h, p, {})
  BY NetSame
<1>7. lastId <= lastId'
  BY <1>2
<1>8. QuietAt(h)
  BY <1>1, <1>3, <1>4, <1>5, <1>6, <1>7 DEF QuietAt
<1> QED
  BY <1>8, QuietAgrees

LEMMA PrepareFailsAgrees ==
  ASSUME TypeOK, TypeOK', AckInv, NEW t \in Threads, PrepareFails(t),
         NEW h \in Groups \ torn', GroupAgrees(h)
  PROVE  GroupAgrees(h)'
<1>1. /\ h # grp[t] /\ ~inProgress /\ uid' = lastId + 1 /\ lastId' = lastId + 1
      /\ UNCHANGED <<rows, pending, net, back, list, quit, stale, outside>>
  BY DEF PrepareFails, peers
<1>2. members'[h] = members[h] /\ current'[h] = current[h]
  BY <1>1 DEF PrepareFails, TypeOK, TablesType, MemoryType
<1> QED
  BY <1>1, <1>2, OthersAgree

LEMMA NoUpdateZero ==
  ASSUME TypeOK, NEW h \in Groups, IdsStamped(h), current'[h] \in {current[h], None}, uid' = 0
  PROVE  ~Prepared(h)'
<1> SUFFICES ASSUME Prepared(h)' PROVE FALSE
  OBVIOUS
<1>1. current'[h] = current[h] /\ current[h] \notin {None, EmptyChange}
  BY DEF Prepared
<1>2. current[h] \in ChangeSets
  BY <1>1 DEF TypeOK, MemoryType
<1>3. /\ current[h].name # None => current[h].name.id = 0
      /\ current[h].name = None => current[h].add = None
           /\ (current[h].rm # None => current[h].rm.id = 0)
  BY <1>1 DEF Prepared, Stamped
<1>4. current[h].name = None /\ current[h].add = None /\ current[h].rm = None
  BY <1>1, <1>3 DEF IdsStamped
<1>5. current[h] = EmptyChange
  BY <1>2, <1>4 DEF ChangeSets, EmptyChange
<1> QED
  BY <1>1, <1>5

LEMMA SendDoneAgrees ==
  ASSUME TypeOK, TypeOK', AckInv, NEW t \in Threads, SendDone(t),
         NEW h \in Groups \ torn', GroupAgrees(h)
  PROVE  GroupAgrees(h)'
<1>0. PICK g \in Groups : g = grp[t]
  BY DEF TypeOK, ThreadsType
<1> DEFINE new == [id |-> uid, group |-> g, set |-> current[g]]
<1>1. /\ pc[t] = "send" /\ todo[t] = {}
      /\ torn \subseteq torn' /\ (inProgress => Cut(t) \subseteq torn')
      /\ UNCHANGED <<members, rows, net, back, list, lastId, quit, stale, outside>>
  BY DEF SendDone, tables, peers
<1>2. \/ ~inProgress /\ UNCHANGED <<current, pending, inProgress, uid>>
      \/ /\ inProgress /\ current[g] = None /\ uid' = 0 /\ pending' \subseteq pending
         /\ UNCHANGED current
      \/ /\ inProgress /\ current[g] # None /\ uid' = 0
         /\ current' = [current EXCEPT ![g] = None]
         /\ pending' \subseteq pending \cup {new}
  BY <1>0 DEF SendDone, memory, PendingOf
<1>3. \A p \in Peers : NetStep(h, p, {})
  BY <1>1, NetSame
<1>4. lastId <= lastId'
  BY <1>1 DEF TypeOK, HistType
<1>5. CASE ~inProgress
  <2>1. ~Prepared(h) /\ PendingOf(h)' \subseteq PendingOf(h) /\ current'[h] = current[h]
    BY <1>2, <1>5 DEF Prepared, PendingOf
  <2> QED
    BY <1>1, <1>2, <1>3, <1>4, <1>5, <2>1, IdleAgrees
<1>6. CASE inProgress
  <2>1. uid' = 0 /\ current'[h] \in {current[h], None}
    BY <1>2, <1>6 DEF TypeOK, MemoryType
  <2>2. ~Prepared(h)'
    BY <1>1, <2>1, NoUpdateZero DEF AckInv, GroupInv
  <2>3. ASSUME NEW p \in Peers, ToSend(h, p) PROVE FALSE
    <3>1. PICK x \in Threads : grp[x] = h /\ (pc[x] = "list" \/ (pc[x] = "send" /\ p \in todo[x]))
      BY <2>3 DEF ToSend
    <3>2. x # t
      BY <1>1, <3>1
    <3>3. h \in Cut(t)
      BY <3>1, <3>2 DEF Cut
    <3> QED
      BY <1>1, <1>6, <3>3
  <2>4. ASSUME NEW x \in PendingOf(h)', x \notin PendingOf(h)
        PROVE  h = g /\ x.id = uid /\ x.set = current[h] /\ current[h] # None
    BY <1>2, <2>4 DEF PendingOf
  <2>5. NoSelf(h)'
    BY <2>1, <2>4 DEF GroupAgrees, NoSelf
  <2>6. ASSUME NEW u \in Users, NEW id \in 1 .. lastId, NEW type \in {"add", "rm"},
               Keeps(h, u, id, type)
        PROVE  Keeps(h, u, id, type)'
    <3>1. \A x \in PendingOf(h)' : x.id = id => u \in Who(x.set[type])
      BY <1>6, <2>4, <2>6 DEF Keeps
    <3>2. id # uid'
      BY <2>1
    <3> QED
      BY <3>1, <3>2 DEF Keeps
  <2>7. /\ \A u \in Users : Sound(h, u)' <=> Sound(h, u)
        /\ \A p \in Peers : Insider(h, p)' <=> Insider(h, p)
    BY <1>1 DEF Sound, Insider
  <2>8. QuietAt(h)
    BY <1>1, <1>3, <1>4, <2>2, <2>3, <2>5, <2>6, <2>7 DEF QuietAt
  <2> QED
    BY <2>8, QuietAgrees
<1> QED
  BY <1>5, <1>6

----------------------------------------------------------------------------
(* Update ids of the sets and messages.                                    *)

LEMMA UsedLater ==
  ASSUME TypeOK, TypeOK', NEW c \in ChangeSets, OldSet(c), lastId <= lastId'
  PROVE  OldSet(c)'
<1> SUFFICES ASSUME NEW type \in Types, c[type] # None PROVE c[type].id <= lastId'
  BY DEF OldSet, Used
<1>1. c[type].id <= lastId
  BY DEF OldSet, Used
<1>2. c[type] \in NameItem \cup MemberItem
  BY DEF ChangeSets, Types
<1>3. c[type].id \in Int
  BY <1>2 DEF NameItem, MemberItem, Ids, NoId
<1> QED
  BY <1>1, <1>3 DEF TypeOK, HistType

LEMMA LettersType ==
  ASSUME TypeOK, NEW g \in Groups, NEW p \in Peers, NEW c \in Letters(p, g), c # None
  PROVE  c \in ChangeSets
<1>1. c \in Sets(g)
  BY DEF Sets
<1> QED
  BY <1>1, SetsType

LEMMA IdsOldStep ==
  ASSUME TypeOK, TypeOK', IdsOld, lastId <= lastId', 0 <= uid',
         \A g \in Groups : current'[g] # None /\ current'[g].add # None =>
           \/ current'[g].add.id = NoId \/ current'[g].add.id = lastId'
           \/ /\ current[g] # None /\ current[g].add # None
              /\ current'[g].add.id = current[g].add.id,
         \A g \in Groups, p \in Peers : \E C : NetStep(g, p, C) /\ \A c \in C : OldSet(c)',
         \A a \in back' : a \in back \/ \A k \in a.acks : k.id <= lastId',
         \A x \in pending' : x \in pending \/ x.id <= lastId'
  PROVE  IdsOld'
<1>1. lastId \in Nat /\ lastId' \in Nat
  BY DEF TypeOK, HistType
<1>2. ASSUME NEW g \in Groups, current'[g] # None, current'[g].add # None
      PROVE  current'[g].add.id <= lastId'
  <2>1. CASE /\ current[g] # None /\ current[g].add # None
             /\ current'[g].add.id = current[g].add.id
    <3>1. current[g].add.id <= lastId
      BY <2>1 DEF IdsOld, Used
    <3>2. current[g] \in ChangeSets
      BY <2>1 DEF TypeOK, MemoryType
    <3>3. current[g].add.id \in Int
      BY <2>1, <3>2, SetFields DEF Items, MemberItem, Ids, NoId
    <3> QED
      BY <1>1, <2>1, <3>1, <3>3
  <2>2. NoId <= lastId' /\ lastId' <= lastId'
    BY <1>1 DEF NoId
  <2> QED
    BY <1>2, <2>1, <2>2
<1>3. ASSUME NEW g \in Groups, NEW p \in Peers, NEW c \in Letters(p, g)', c # None
      PROVE  OldSet(c)'
  <2>1. PICK C : NetStep(g, p, C) /\ \A d \in C : OldSet(d)'
    OBVIOUS
  <2>2. c \in Letters(p, g) \/ c \in C
    BY <1>3, <2>1, LettersStep
  <2>3. CASE c \in Letters(p, g)
    <3>1. OldSet(c) /\ c \in ChangeSets
      BY <1>3, <2>3, LettersType DEF IdsOld
    <3> QED
      BY <3>1, UsedLater
  <2> QED
    BY <2>1, <2>2, <2>3
<1>4. ASSUME NEW a \in back', NEW k \in a.acks PROVE k.id <= lastId'
  <2>1. CASE a \in back
    <3>1. k.id <= lastId /\ k.id \in Int
      BY <2>1, <1>4 DEF IdsOld, Used, TypeOK, NetType, Replies, Ids, NoId
    <3> QED
      BY <1>1, <3>1
  <2> QED
    BY <1>4, <2>1
<1>5. ASSUME NEW x \in pending' PROVE x.id <= lastId'
  <2>1. CASE x \in pending
    <3>1. x.id <= lastId /\ x.id \in Int
      BY <2>1 DEF IdsOld, Used, TypeOK, MemoryType, Ids, NoId
    <3> QED
      BY <1>1, <3>1
  <2> QED
    BY <1>5, <2>1
<1> QED
  BY <1>2, <1>3, <1>4, <1>5 DEF IdsOld, Used

----------------------------------------------------------------------------
(* Steps that send a set, or apply one, and the members.                   *)

LEMMA HelloAgrees ==
  ASSUME TypeOK, TypeOK', AckInv, IdsOld, NEW g \in Groups, NEW p \in Peers, Hello(g, p),
         NEW h \in Groups, GroupAgrees(h)
  PROVE  GroupAgrees(h)'
<1> DEFINE id == lastId + 1
           a == [EmptyChange EXCEPT !.add = [who |-> members[g], id |-> id]]
           n == [v |-> name[g], clk |-> clock[g], id |-> id]
           c == WithName(a, g, id)
<1>1. lastId \in Nat /\ members[g] \in SUBSET Users
  BY DEF TypeOK, HistType, TablesType
<1>2. [who |-> members[g], id |-> id] \in MemberItem
  BY <1>1 DEF MemberItem, Ids
<1>3. a = [name |-> None, add |-> [who |-> members[g], id |-> id], rm |-> None]
  BY DEF EmptyChange
<1>4. c = [name |-> n, add |-> [who |-> members[g], id |-> id], rm |-> None]
  BY <1>2, <1>3, NoneAssumption DEF WithName
<1>5. n \in NameItem
  BY <1>1 DEF NameItem, Ids, TypeOK, TablesType
<1>6. c \in ChangeSets
  BY <1>2, <1>4, <1>5 DEF ChangeSets
<1>7. ASSUME NEW j, NEW type \in Types, Bears(c, j, type) PROVE j = lastId + 1
  BY <1>4, <1>7 DEF Bears, Types
<1>8. \A u \in Users : Right(g, c, u)
  BY <1>2, <1>4, NoneAssumption DEF Right, Says, Who
<1> HIDE DEF c, n, a
<1>9. /\ lastId' = lastId + 1 /\ Post(p, Letter(g, c)) /\ p \in members[g]
      /\ rows' = rows \cup {Row(g, p, id, y) : y \in Present(c)}
      /\ UNCHANGED <<members, current, pending, inProgress, uid, pc, grp, todo, back, list,
                     quit, stale, outside>>
  BY DEF Hello, memory, threads, peers, c, a
<1>10. lastId <= lastId' /\ uid \in Int /\ uid <= lastId /\ PendingOf(h)' = PendingOf(h)
  BY <1>1, <1>9 DEF TypeOK, MemoryType, Ids, NoId, AckInv, IdsUsed, Used, PendingOf
<1>11. \A q \in Peers : ToSend(h, q) => ToSend(h, q)'
  BY <1>9 DEF ToSend
<1>12. CASE h # g
  <2>1. \A q \in Peers : NetStep(h, q, {})
    BY <1>6, <1>9, <1>12, NetPosted
  <2>2. \A r \in rows' : r.group = h => r \in rows
    BY <1>9, <1>12 DEF Row
  <2> QED
    BY <1>9, <1>10, <1>11, <2>1, <2>2, IdleAgrees
<1>13. CASE h = g
  <2>1. /\ \A q \in Peers : NetStep(g, q, {c})
        /\ \A q \in Peers : q # p => NetStep(g, q, {})
    BY <1>6, <1>9, NetPosted
  <2>2. Prepared(g)' <=> Prepared(g)
    BY <1>9 DEF Prepared, Stamped
  <2>3. ASSUME NEW q \in Peers, Already(g, q)' PROVE Already(g, q)
    <3>1. \A type \in Types : ~Bears(c, uid, type)
      BY <1>1, <1>7, <1>10
    <3>2. NetStep(g, q, {c})
      BY <2>1
    <3>3. \A d \in {c} : \A type \in Types : ~Bears(d, uid, type)
      BY <3>1
    <3> QED
      BY <1>9, <2>3, <3>2, <3>3, AlreadyKept
  <2>4. UpdateRight(g)'
    <3> SUFFICES ASSUME Prepared(g)' PROVE UpdateRight(g)'
      BY DEF UpdateRight
    <3>1. /\ \A u \in Users : Sound(g, u) => Right(g, current[g], u)
          /\ \A q \in Peers : Already(g, q) => OwesNothing(g, q)
          /\ \A x \in PendingOf(g) : x.id # uid
          /\ \A type \in {"add", "rm"} :
               current[g][type] # None => current[g][type].id \in {uid, NoId}
      BY <1>13, <2>2 DEF GroupAgrees, UpdateRight
    <3>2. \A u \in Users : Sound(g, u)' => Right(g, current[g], u)'
      BY <1>9, <3>1 DEF Sound, Right
    <3>3. ASSUME NEW q \in Peers, OwesNothing(g, q) PROVE OwesNothing(g, q)'
      <4>1. ASSUME NEW x \in PendingOf(g), NEW type, Row(g, q, x.id, type) \in rows'
            PROVE  Row(g, q, x.id, type) \in rows
        <5>1. x.id <= lastId /\ x.id \in Int
          BY <4>1 DEF IdsOld, Used, PendingOf, TypeOK, MemoryType, Ids, NoId
        <5>2. x.id # id
          BY <1>1, <5>1
        <5> QED
          BY <1>9, <4>1, <5>2 DEF Row
      <4> QED
        BY <1>10, <1>13, <3>3, <4>1 DEF OwesNothing, Owed
    <3>4. \A q \in Peers : Already(g, q)' => OwesNothing(g, q)'
      BY <2>3, <3>1, <3>3
    <3> QED
      BY <1>9, <1>10, <1>13, <3>1, <3>2, <3>4 DEF UpdateRight
  <2>5. ASSUME NEW q \in Peers, q \notin members[g] PROVE Untouched(g, q)'
    <3> SUFFICES ASSUME Insider(g, q)' PROVE list'[q][g] = {} /\ Letters(q, g)' \subseteq {None}
      BY DEF Untouched
    <3>1. list[q][g] = {} /\ Letters(q, g) \subseteq {None}
      BY <1>9, <1>13, <2>5 DEF GroupAgrees, Untouched, Insider
    <3>2. NetStep(g, q, {})
      BY <1>9, <2>1, <2>5
    <3>3. \A d \in Letters(q, g)' : d # None => d \in Letters(q, g) \/ d \in {}
      BY <3>2, LettersStep
    <3> QED
      BY <1>9, <3>1, <3>3
  <2>6. ASSUME NEW q \in Peers, q \in members[g] PROVE Follows(g, q)'
    <3>1. Follows(g, q) /\ NetStep(g, q, {c})
      BY <1>13, <2>1, <2>6 DEF GroupAgrees
    <3>2. Insider(g, q)' => Insider(g, q)
      BY <1>9 DEF Insider
    <3>3. ASSUME NEW u \in Users, Sound(g, u)'
          PROVE  /\ Sound(g, u) /\ (u \in members'[g] <=> u \in members[g])
                 /\ \A d \in {c} : Right(g, d, u)'
                 /\ Applied(g, q, u) => Applied(g, q, u)'
                 /\ ToTell(g, q, u) => ToTell(g, q, u)'
      <4>1. Sound(g, u) /\ (u \in members'[g] <=> u \in members[g])
        BY <1>9, <3>3 DEF Sound
      <4>2. \A d \in {c} : Right(g, d, u)'
        BY <1>8, <1>9 DEF Right
      <4>3. Applied(g, q, u) => Applied(g, q, u)'
        BY <1>9, <3>1, <4>1, <4>2, AppliedKept
      <4>4. ToTell(g, q, u) => ToTell(g, q, u)'
        BY <1>9, <1>11, <1>13, <2>2, <2>3 DEF ToTell, Says
      <4> QED
        BY <4>1, <4>2, <4>3, <4>4
    <3>4. ASSUME NEW u \in Users, NEW j \in 1 .. lastId, NEW type \in {"add", "rm"},
                 RowHolds(g, q, u, j, type)
          PROVE  /\ \A d \in {c} : ~Bears(d, j, type)
                 /\ Row(g, q, j, type) \in rows' /\ Keeps(g, u, j, type)'
      <4>1. ~Bears(c, j, type)
        BY <1>1, <1>7 DEF Types
      <4>2. Row(g, q, j, type) \in rows'
        BY <1>9, <3>4 DEF RowHolds
      <4>3. Keeps(g, u, j, type)'
        BY <1>9, <1>10, <1>13, <3>4 DEF RowHolds, Keeps
      <4> QED
        BY <4>1, <4>2, <4>3
    <3> QED
      BY <1>9, <1>10, <3>1, <3>2, <3>3, <3>4, FollowsKept
  <2>7. NoSelf(g)'
    BY <1>9, <1>10, <1>13 DEF GroupAgrees, NoSelf
  <2> QED
    BY <1>9, <1>13, <2>4, <2>5, <2>6, <2>7 DEF GroupAgrees
<1> QED
  BY <1>12, <1>13

LEMMA PeerChangeAgrees ==
  ASSUME TypeOK, TypeOK', NEW p \in Peers, PeerChange(p, 1), NEW h \in Groups, GroupAgrees(h)
  PROVE  GroupAgrees(h)'
<1> DEFINE new == net[p][1].group \notin knows[p]
           acks == {[id |-> net[p][1].set[y].id, type |-> y] : y \in
                     {y \in Present(net[p][1].set) :
                        y = "name" \/ Who(net[p][1].set.add) \cup Who(net[p][1].set.rm) # {}}}
<1>1. /\ 1 \in DOMAIN net[p] /\ net[p][1].set # None
      /\ net' = [net EXCEPT ![p] = Gone(@, 1)]
      /\ UNCHANGED <<tables, memory, threads, hist>>
  BY DEF PeerChange, Arrives
<1>2. net[p][1] \in Letterings
  BY <1>1 DEF TypeOK, NetType
<1>3. PICK g \in Groups : g = net[p][1].group
  BY <1>2 DEF Letterings
<1>4. PICK c \in ChangeSets : c = net[p][1].set
  BY <1>1, <1>2 DEF Letterings
<1>5. /\ c \in Letters(p, g) \ {None} /\ SetAt(p, g, 1)
  BY <1>1, <1>3, <1>4 DEF Letters, SetAt
<1>6. /\ UNCHANGED <<members, rows, current, pending, inProgress, uid, lastId, quit, stale, outside,
                     pc, grp, todo>>
  BY <1>1 DEF tables, memory, threads, hist
<1>7. /\ list'[p][g] = (list[p][g] \cup (IF new THEN {p} ELSE {}) \cup Who(c.add)) \ Who(c.rm)
      /\ \A q \in Peers, x \in Groups : q # p \/ x # g => list'[q][x] = list[q][x]
  <2>1. list' = [list EXCEPT ![p][g] = (@ \cup (IF new THEN {p} ELSE {}) \cup Who(c.add)) \ Who(c.rm)]
    BY <1>3, <1>4 DEF PeerChange
  <2> HIDE DEF new
  <2> QED
    BY <2>1 DEF TypeOK, PeersType
<1>8. back' = back \/ back' = back \cup {Reply(p, g, acks)}
  BY <1>3 DEF PeerChange
<1>9. \A k \in acks : k.type \in Types /\ Bears(c, k.id, k.type)
  BY <1>4 DEF Bears, Present
<1> HIDE DEF acks, new
<1>10. Reply(p, g, acks).group = g /\ Reply(p, g, acks).from = p /\ Reply(p, g, acks).acks = acks
  BY DEF Reply
<1>11. \A q \in Peers : \A x \in Groups : NetStep(x, q, {})
  BY <1>1, NetGone
<1>12. lastId <= lastId' /\ PendingOf(h)' = PendingOf(h)
  BY <1>6 DEF PendingOf, TypeOK, HistType
<1>13. \A q \in Peers : ToSend(h, q)' <=> ToSend(h, q)
  BY <1>6 DEF ToSend
<1>14. CASE h # g
  <2>1. \A q \in Peers : list'[q][h] = list[q][h]
    BY <1>7, <1>14
  <2>2. \A a \in back' : a \in back \/ a.group # h
    BY <1>8, <1>10, <1>14
  <2> QED
    BY <1>6, <1>11, <1>12, <1>13, <2>1, <2>2, IdleAgrees
<1>15. CASE h = g
  <2>1. Prepared(g)' <=> Prepared(g)
    BY <1>6 DEF Prepared, Stamped
  <2>2. /\ \A u \in Users : Sound(g, u)' <=> Sound(g, u)
        /\ \A q \in Peers : Insider(g, q)' <=> Insider(g, q)
    BY <1>6 DEF Sound, Insider
  <2>3. ASSUME NEW q \in Peers, Already(g, q)' PROVE Already(g, q)
    <3>1. CASE q = p /\ \E type \in Types : Bears(c, uid, type)
      BY <1>5, <3>1 DEF Already
    <3>2. CASE ~(q = p /\ \E type \in Types : Bears(c, uid, type))
      <4>1. \A a \in back' : a \in back \/ a.group # g \/ a.from # q \/ \A k \in a.acks : k.id # uid
        BY <1>8, <1>9, <1>10, <3>2
      <4>2. \A d \in {} : \A type \in Types : ~Bears(d, uid, type)
        OBVIOUS
      <4> QED
        BY <1>6, <1>11, <2>3, <4>1, <4>2, AlreadyKept
    <3> QED
      BY <3>1, <3>2
  <2>4. UpdateRight(g)'
    <3> SUFFICES ASSUME Prepared(g)' PROVE UpdateRight(g)'
      BY DEF UpdateRight
    <3>1. /\ \A type \in {"add", "rm"} :
               current[g][type] # None => current[g][type].id \in {uid, NoId}
          /\ \A u \in Users : Sound(g, u) => Right(g, current[g], u)
          /\ \A q \in Peers : Already(g, q) => OwesNothing(g, q)
          /\ \A x \in PendingOf(g) : x.id # uid
      BY <1>15, <2>1 DEF GroupAgrees, UpdateRight
    <3>2. \A u \in Users : Right(g, current[g], u)' <=> Right(g, current[g], u)
      BY <1>6 DEF Right, Says
    <3>3. \A q \in Peers : OwesNothing(g, q)' <=> OwesNothing(g, q)
      BY <1>6 DEF OwesNothing, Owed, PendingOf
    <3> QED
      BY <1>6, <1>12, <1>15, <2>2, <2>3, <3>1, <3>2, <3>3 DEF UpdateRight
  <2>5. ASSUME NEW q \in Peers, q \notin members[g] PROVE Untouched(g, q)'
    <3> SUFFICES ASSUME Insider(g, q)' PROVE list'[q][g] = {} /\ Letters(q, g)' \subseteq {None}
      BY DEF Untouched
    <3>1. list[q][g] = {} /\ Letters(q, g) \subseteq {None}
      BY <1>15, <2>2, <2>5 DEF GroupAgrees, Untouched
    <3>2. q # p
      BY <1>5, <3>1
    <3>3. \A d \in Letters(q, g)' : d # None => d \in Letters(q, g) \/ d \in {}
      BY <1>11, LettersStep
    <3> QED
      BY <1>7, <3>1, <3>2, <3>3
  <2>6. ASSUME NEW u \in Users, p \in members[g],
               \A d \in Letters(p, g) \ {None} : Right(g, d, u),
               Says(c, u) \/ (u \in list[p][g] <=> u \in members[g])
        PROVE  Applied(g, p, u)'
    <3>1. u \in list'[p][g] <=> u \in members[g]
      BY <1>5, <1>7, <2>6 DEF Right, Says
    <3>2. ASSUME NEW d \in Letters(p, g)' \ {None} PROVE Right(g, d, u)'
      <4>1. d \in Letters(p, g) \/ d \in {}
        BY <1>11, <3>2, LettersStep
      <4> QED
        BY <1>6, <2>6, <3>2, <4>1 DEF Right
    <3> QED
      BY <1>6, <3>1, <3>2 DEF Applied
  <2>7. ASSUME NEW q \in Peers, q \in members[g], NEW u \in Users, Applied(g, q, u)
        PROVE  Applied(g, q, u)'
    <3>1. CASE q = p
      BY <2>6, <2>7, <3>1 DEF Applied
    <3>2. CASE q # p
      <4>1. NetStep(g, q, {}) /\ list'[q][g] = list[q][g] /\ members'[g] = members[g]
        BY <1>6, <1>7, <1>11, <3>2
      <4>2. \A d \in {} : Right(g, d, u)'
        OBVIOUS
      <4> QED
        BY <2>7, <4>1, <4>2, AppliedKept
    <3> QED
      BY <3>1, <3>2
  <2>8. ASSUME NEW q \in Peers, q \in members[g], NEW u \in Users, NEW id \in 1 .. lastId,
               NEW type \in {"add", "rm"}, StandsFor(g, q, u, id, type), NEW a \in back',
               a.group = g, a.from = q, [id |-> id, type |-> type] \in a.acks
        PROVE  a \in back \/ Applied(g, q, u)'
    <3> SUFFICES ASSUME a \notin back PROVE Applied(g, q, u)'
      OBVIOUS
    <3>1. q = p /\ [id |-> id, type |-> type] \in acks
      BY <1>8, <1>10, <2>8
    <3>2. Bears(c, id, type)
      BY <1>9, <3>1
    <3>3. Says(c, u) /\ \A d \in Later(p, g, 1) : Right(g, d, u)
      BY <1>1, <1>4, <1>5, <2>8, <3>1, <3>2 DEF StandsFor
    <3>4. \A d \in Letters(p, g) \ {None} : Right(g, d, u)
      BY <3>3, LaterAll
    <3> QED
      BY <2>6, <2>8, <3>1, <3>3, <3>4
  <2>9. ASSUME NEW q \in Peers, q \in members[g] PROVE Follows(g, q)'
    <3>1. Follows(g, q) /\ NetStep(g, q, {})
      BY <1>11, <1>15, <2>9 DEF GroupAgrees
    <3>2. \A u \in Users : ToTell(g, q, u) => ToTell(g, q, u)'
      BY <1>6, <1>13, <1>15, <2>1, <2>3 DEF ToTell, Says
    <3>3. ASSUME NEW u \in Users, NEW id \in 1 .. lastId, NEW type \in {"add", "rm"},
                 RowHolds(g, q, u, id, type)
          PROVE  /\ \A a \in back' :
                      a.group = g /\ a.from = q /\ [id |-> id, type |-> type] \in a.acks
                        => a \in back \/ Applied(g, q, u)'
                 /\ Row(g, q, id, type) \in rows' /\ Keeps(g, u, id, type)'
      <4>1. /\ StandsFor(g, q, u, id, type) /\ Row(g, q, id, type) \in rows'
            /\ Keeps(g, u, id, type)'
        BY <1>6, <1>12, <1>15, <3>3 DEF RowHolds, Keeps
      <4> QED
        BY <2>8, <2>9, <4>1
    <3> QED
      BY <1>6, <1>12, <2>2, <2>7, <2>9, <3>1, <3>2, <3>3, FollowsKept
  <2>10. NoSelf(g)'
    BY <1>6, <1>12, <1>15 DEF GroupAgrees, NoSelf
  <2> QED
    BY <1>6, <1>15, <2>4, <2>5, <2>9, <2>10 DEF GroupAgrees
<1> QED
  BY <1>14, <1>15

LEMMA JoinKept ==
  ASSUME NEW j \in Items, NEW S \in SUBSET Users, j # None
  PROVE  Join(j, S) # None /\ Join(j, S).id = j.id
<1>1. j \in MemberItem
  BY DEF Items
<1>2. [j EXCEPT !.who = @ \cup S] \in MemberItem
  BY <1>1 DEF MemberItem, Users
<1>3. [j EXCEPT !.who = @ \cup S] # None
  BY <1>2, NoneAssumption
<1> QED
  BY <1>1, <1>3 DEF Join, MemberItem

\* The set that goes to a peer: of each list the present users and those owed.
LEMMA CollapsedMembers ==
  ASSUME TypeOK, NEW g \in Groups, NEW p, current[g] # None, NEW type \in {"add", "rm"}
  PROVE  /\ Who(Collapsed(g, p)[type]) = Who(current[g][type]) \cup OwedUsers(g, p, type)
         /\ ItemKept(Collapsed(g, p)[type], current[g][type])
         /\ current[g][type] # None =>
              /\ Collapsed(g, p)[type] # None
              /\ Collapsed(g, p)[type].id = current[g][type].id
         /\ Collapsed(g, p).add # None => Collapsed(g, p).name # None
<1> DEFINE a == Join(current[g].add, OwedUsers(g, p, "add"))
           r == Join(current[g].rm, OwedUsers(g, p, "rm"))
           j == Join(current[g][type], OwedUsers(g, p, type))
           b == [current[g] EXCEPT !.add = a, !.rm = r]
           n == [v |-> name[g], clk |-> clock[g], id |-> uid]
<1>1. current[g] \in ChangeSets /\ current[g][type] \in Items
  BY SetFields DEF TypeOK, MemoryType
<1>2. OwedUsers(g, p, type) \in SUBSET Users
  BY OwedType DEF TypeOK
<1>3. /\ Who(j) = Who(current[g][type]) \cup OwedUsers(g, p, type)
      /\ ItemKept(j, current[g][type])
  BY <1>1, <1>2, ItemEdits
<1>4. current[g][type] # None => j # None /\ j.id = current[g][type].id
  BY <1>1, <1>2, JoinKept
<1>5. Collapsed(g, p) = WithName(b, g, uid)
  BY DEF Collapsed
<1>6. (type = "add" => j = a) /\ (type = "rm" => j = r)
  OBVIOUS
<1> HIDE DEF a, r, j
<1>7. b.name = current[g].name /\ b.add = a /\ b.rm = r
  BY <1>1 DEF ChangeSets
<1>8. DOMAIN b = {"name", "add", "rm"}
  BY <1>1 DEF ChangeSets
<1> HIDE DEF b
<1>9. n \in NameItem
  BY DEF TypeOK, TablesType, MemoryType, NameItem
<1>10. n # None
  BY <1>9, NoneAssumption
<1> HIDE DEF n
<1>11. WithName(b, g, uid) = IF b.add # None /\ b.name = None THEN [b EXCEPT !.name = n] ELSE b
  BY DEF WithName, n
<1>12. /\ WithName(b, g, uid).add = b.add /\ WithName(b, g, uid).rm = b.rm
       /\ b.add # None => WithName(b, g, uid).name # None
  BY <1>8, <1>10, <1>11
<1>13. Collapsed(g, p)[type] = j
  BY <1>5, <1>6, <1>7, <1>12
<1> QED
  BY <1>3, <1>4, <1>5, <1>12, <1>13

LEMMA DeviceSetAgrees ==
  ASSUME TypeOK, TypeOK', AckInv, IdsOld, NEW g \in Groups, NEW p \in Peers, DeviceSet(g, p),
         g \notin torn, GroupAgrees(g), Stamped(current[g]),
         stale' = stale \cup ({g} \X Contrary(g, p)),
         outside' = outside \cup ({g} \X ({p} \ members[g])),
         UNCHANGED <<lastId, back, list, quit>>,
         \A q \in Peers : ToSend(g, q) => ToSend(g, q)' \/ q = p
  PROVE  GroupAgrees(g)'
<1> DEFINE C == Collapsed(g, p)
<1>1. /\ current' = [current EXCEPT ![g] = C] /\ rows' = Awaited(g, p, C) /\ Post(p, Letter(g, C))
      /\ inProgress /\ current[g] # None /\ current[g] # EmptyChange
      /\ UNCHANGED <<members, pending, inProgress, uid>>
  BY DEF DeviceSet
<1>2. \A type \in {"add", "rm"} :
        /\ Who(C[type]) = Who(current[g][type]) \cup OwedUsers(g, p, type)
        /\ ItemKept(C[type], current[g][type])
        /\ current[g][type] # None => C[type] # None /\ C[type].id = current[g][type].id
        /\ C.add # None => C.name # None
  <2> SUFFICES ASSUME NEW type \in {"add", "rm"}
               PROVE  /\ Who(C[type]) = Who(current[g][type]) \cup OwedUsers(g, p, type)
                      /\ ItemKept(C[type], current[g][type])
                      /\ current[g][type] # None =>
                           C[type] # None /\ C[type].id = current[g][type].id
                      /\ C.add # None => C.name # None
    OBVIOUS
  <2> QED
    BY <1>1, CollapsedMembers
<1>3. /\ C \in ChangeSets
      /\ current[g].name # None => C.name = current[g].name
      /\ current[g].name = None => C.name = None \/ C.name.id = uid
  <2>1. /\ C \in ChangeSets
        /\ current[g].name # None => C.name = current[g].name
        /\ current[g].name = None =>
             C.name = None \/ C.name = [v |-> name[g], clk |-> clock[g], id |-> uid]
    BY <1>1, CollapsedFacts
  <2> HIDE DEF C
  <2> QED
    BY <2>1
<1> HIDE DEF C
<1>4. PICK c \in ChangeSets : c = C
  BY <1>3
<1>5. current'[g] = c /\ c # None
  BY <1>1, <1>4, NoneAssumption DEF TypeOK, MemoryType
<1>6. /\ Prepared(g) /\ PendingOf(g)' = PendingOf(g)
      /\ \A q \in Peers : Insider(g, q)' => Insider(g, q)
      /\ \A u \in Users : Sound(g, u)' => Sound(g, u) /\ u \notin Contrary(g, p)
  BY <1>1 DEF Prepared, PendingOf, Insider, Sound
<1>7. /\ \A type \in {"add", "rm"} :
           current[g][type] # None => current[g][type].id \in {uid, NoId}
      /\ \A u \in Users : Sound(g, u) => Right(g, current[g], u)
      /\ \A q \in Peers : Already(g, q) => OwesNothing(g, q)
      /\ \A x \in PendingOf(g) : x.id # uid
  BY <1>6 DEF GroupAgrees, UpdateRight
<1>8. uid \in 1 .. lastId
  <2>1. uid # 0
    <3>1. ASSUME uid = 0 PROVE ~Prepared(g)
      <4>1. current[g].name # None => current[g].name.id # 0
        BY <1>1 DEF AckInv, GroupInv, IdsStamped
      <4>2. current[g].name = None => current[g].add = None /\ current[g].rm = None
        BY <1>1, <3>1 DEF AckInv, GroupInv, IdsStamped, Stamped
      <4>3. current[g] \in ChangeSets
        BY <1>1 DEF TypeOK, MemoryType
      <4>4. current[g].name # None
        BY <1>1, <4>2, <4>3 DEF ChangeSets, EmptyChange
      <4> QED
        BY <3>1, <4>1, <4>4 DEF Stamped
    <3> QED
      BY <1>6, <3>1
  <2> QED
    BY <2>1 DEF IdsOld, AckInv, IdsUsed, Used, TypeOK, MemoryType, Ids, NoId, HistType
<1>9. ASSUME NEW u \in Users, Sound(g, u)' PROVE Right(g, c, u)'
  <2>1. Right(g, current[g], u) /\ u \notin Contrary(g, p)
    BY <1>6, <1>7, <1>9
  <2>2. /\ Who(c.rm) = Who(current[g].rm) \cup OwedUsers(g, p, "rm")
        /\ Who(c.add) = Who(current[g].add) \cup OwedUsers(g, p, "add")
    BY <1>2, <1>4
  <2> QED
    BY <1>1, <2>1, <2>2 DEF Right, Says, Contrary
<1>10. Prepared(g)'
  <2>1. c # EmptyChange
    <3>1. current[g] \in ChangeSets
      BY <1>1 DEF TypeOK, MemoryType
    <3>2. current[g].name # None \/ current[g].add # None \/ current[g].rm # None
      BY <1>1, <3>1 DEF ChangeSets, EmptyChange
    <3> QED
      BY <1>2, <1>3, <1>4, <3>2 DEF EmptyChange
  <2>2. c.name # None => c.name.id = uid
    BY <1>3, <1>4 DEF Stamped
  <2>3. c.name = None => c.add = None /\ (c.rm # None => c.rm.id = uid)
    <3> SUFFICES ASSUME c.name = None PROVE c.add = None /\ (c.rm # None => c.rm.id = uid)
      OBVIOUS
    <3>1. c.add = None /\ current[g].add = None /\ current[g].name = None
      BY <1>2, <1>3, <1>4
    <3>2. current[g].rm # None
      <4>1. current[g] \in ChangeSets
        BY <1>1 DEF TypeOK, MemoryType
      <4> QED
        BY <1>1, <3>1, <4>1 DEF ChangeSets, EmptyChange
    <3> QED
      BY <1>2, <1>4, <3>1, <3>2 DEF Stamped
  <2> QED
    BY <1>1, <1>5, <2>1, <2>2, <2>3 DEF Prepared, Stamped
<1>11. /\ \A q \in Peers : NetStep(g, q, {c})
       /\ \A q \in Peers : q # p => NetStep(g, q, {})
  BY <1>1, <1>4, NetPosted
<1>12. /\ \A r \in rows' : r \in rows \/ (r.group = g /\ r.dev = p /\ r.id = uid)
       /\ \A q \in Peers : \A id, type : q # p =>
            (Row(g, q, id, type) \in rows' <=> Row(g, q, id, type) \in rows)
       /\ \A type \in {"add", "rm"} : c[type] # None => Row(g, p, uid, type) \in rows'
       /\ \A type \in {"add", "rm"} : \A id : Row(g, p, id, type) \in rows =>
            Row(g, p, id, type) \in rows' \/ \E x \in Owed(g, p, type) : x.id = id
       /\ \A type \in {"add", "rm"} : \A x \in Owed(g, p, type) :
            x.id # uid => Row(g, p, x.id, type) \notin rows'
  <2> DEFINE O(type) == {Row(g, p, x.id, type) : x \in Owed(g, p, type)}
             N == {r \in rows : r.group = g /\ r.dev = p /\ r.type = "name" /\ c.name # None}
             P == {Row(g, p, uid, y) : y \in Present(c)}
  <2>1. rows' = (rows \ (O("add") \cup O("rm") \cup N)) \cup P
    BY <1>1, <1>4 DEF Awaited
  <2>2. \A q, id, type : /\ Row(g, q, id, type) \in O("add") => q = p /\ type = "add"
                         /\ Row(g, q, id, type) \in O("rm") => q = p /\ type = "rm"
                         /\ Row(g, q, id, type) \in N => q = p /\ type = "name"
                         /\ Row(g, q, id, type) \in P => q = p /\ id = uid
    BY DEF Row
  <2>3. \A type, id : Row(g, p, id, type) \in O(type) => \E x \in Owed(g, p, type) : x.id = id
    BY DEF Row
  <2>4. \A type \in {"add", "rm"} : \A x \in Owed(g, p, type) : Row(g, p, x.id, type) \in O(type)
    OBVIOUS
  <2>5. \A r \in P : r.group = g /\ r.dev = p /\ r.id = uid
    BY DEF Row
  <2>6. \A type \in {"add", "rm"} : c[type] # None => Row(g, p, uid, type) \in P
    BY DEF Present, Types
  <2> HIDE DEF O, N, P
  <2>7. \A q \in Peers : \A id, type : q # p =>
          (Row(g, q, id, type) \in rows' <=> Row(g, q, id, type) \in rows)
    BY <2>1, <2>2
  <2>8. \A type \in {"add", "rm"} : \A id : Row(g, p, id, type) \in rows =>
          Row(g, p, id, type) \in rows' \/ \E x \in Owed(g, p, type) : x.id = id
    BY <2>1, <2>2, <2>3
  <2>9. \A type \in {"add", "rm"} : \A x \in Owed(g, p, type) :
          x.id # uid => Row(g, p, x.id, type) \notin rows'
    BY <2>1, <2>2, <2>4
  <2> QED
    BY <2>1, <2>5, <2>6, <2>7, <2>8, <2>9
<1>13. ASSUME NEW u \in Users, NEW id, NEW type \in {"add", "rm"}, Keeps(g, u, id, type)
       PROVE  Keeps(g, u, id, type)'
  BY <1>1, <1>2, <1>4, <1>5, <1>6, <1>13 DEF Keeps
<1>14. ASSUME NEW q \in Peers, q # p, Already(g, q)' PROVE Already(g, q)
  <2>1. NetStep(g, q, {}) /\ \A d \in {} : \A type \in Types : ~Bears(d, uid, type)
    BY <1>11, <1>14
  <2> QED
    BY <1>1, <1>14, <2>1, AlreadyKept
\* The row of the update in progress holds whom it tells the peer of.
<1>15. ASSUME NEW u \in Users, Sound(g, u)', NEW type \in {"add", "rm"}, u \in Who(c[type]),
              ~Already(g, p)
       PROVE  RowHeld(g, p, u)'
  <2>0. PICK id \in 1 .. lastId : id = uid
    BY <1>8
  <2>1. Row(g, p, id, type) \in rows'
    BY <1>12, <1>15, <2>0 DEF Who
  <2>2. Says(c, u) /\ Right(g, c, u)'
    BY <1>9, <1>15 DEF Says
  <2>3. ASSUME NEW k \in DOMAIN net'[p], SetAt(p, g, k)', Bears(net'[p][k].set, id, type)
        PROVE  net'[p][k].set = c /\ Later(p, g, k)' \subseteq {c}
    <3>1. ASSUME NEW i \in DOMAIN net[p], SetAt(p, g, i), net[p][i].set = net'[p][k].set
          PROVE  FALSE
      <4>1. net[p][i].set \in Letters(p, g) \ {None} /\ Bears(net[p][i].set, uid, type)
        BY <2>0, <2>3, <3>1 DEF Letters, SetAt
      <4> QED
        BY <1>15, <4>1 DEF Already, Types
    <3> QED
      BY <1>11, <2>3, <3>1 DEF NetStep
  <2>4. \A a \in back' : ~(a.group = g /\ a.from = p /\ [id |-> id, type |-> type] \in a.acks)
    BY <1>1, <1>15, <2>0 DEF Already
  <2>5. StandsFor(g, p, u, id, type)'
    <3>1. \A k \in DOMAIN net'[p] : SetAt(p, g, k)' /\ Bears(net'[p][k].set, id, type) =>
            Says(net'[p][k].set, u) /\ \A d \in Later(p, g, k)' : Right(g, d, u)'
      BY <2>2, <2>3
    <3> QED
      BY <1>1, <2>4, <3>1 DEF StandsFor, Bears, Says
  <2>6. Keeps(g, u, id, type)'
    BY <1>1, <2>0, <1>5, <1>6, <1>7, <1>15 DEF Keeps
  <2>7. RowHolds(g, p, u, id, type)'
    BY <2>1, <2>5, <2>6 DEF RowHolds, Row
  <2> QED
    BY <1>1, <2>7 DEF RowHeld
<1>16. ASSUME NEW u \in Users, Sound(g, u)', Applied(g, p, u) PROVE Applied(g, p, u)'
  <2>1. \A d \in {c} : Right(g, d, u)'
    BY <1>9, <1>16
  <2> QED
    BY <1>1, <1>11, <1>16, <2>1, AppliedKept
<1>17. lastId <= lastId'
  BY DEF TypeOK, HistType
<1>18. ASSUME p \in members[g] PROVE Follows(g, p)'
  <2>1. Follows(g, p) /\ NetStep(g, p, {c})
    BY <1>11, <1>18 DEF GroupAgrees
  <2>2. ASSUME NEW u \in Users, Sound(g, u)'
        PROVE  /\ Sound(g, u) /\ (u \in members'[g] <=> u \in members[g])
               /\ \A d \in {c} : Right(g, d, u)'
               /\ Applied(g, p, u) => Applied(g, p, u)'
               /\ ToTell(g, p, u) => RowHeld(g, p, u)'
    <3>1. ASSUME ToTell(g, p, u) PROVE RowHeld(g, p, u)'
      <4>1. ~Already(g, p) /\ \E type \in {"add", "rm"} : u \in Who(c[type])
        BY <1>2, <1>4, <3>1 DEF ToTell, Says
      <4> QED
        BY <1>15, <2>2, <4>1
    <3> QED
      BY <1>1, <1>6, <1>9, <1>16, <2>2, <3>1
  <2>3. ASSUME NEW u \in Users, NEW id \in 1 .. lastId, NEW type \in {"add", "rm"},
               Sound(g, u)', RowHolds(g, p, u, id, type)
        PROVE  /\ Bears(c, id, type) => Says(c, u)
               /\ RowHeld(g, p, u)' \/ (Row(g, p, id, type) \in rows' /\ Keeps(g, u, id, type)')
    <3>1. Keeps(g, u, id, type) /\ Row(g, p, id, type) \in rows
      BY <2>3 DEF RowHolds
    <3>2. ASSUME Bears(c, id, type) PROVE Says(c, u)
      <4>1. id # NoId
        BY DEF NoId
      <4>2. id = uid
        BY <1>2, <1>4, <1>7, <3>2, <4>1 DEF Bears, ItemKept
      <4>3. u \in Who(current[g][type])
        BY <1>1, <3>1, <4>2 DEF Keeps
      <4> QED
        BY <1>2, <1>4, <4>3 DEF Says
    <3>3. ASSUME Row(g, p, id, type) \notin rows' PROVE RowHeld(g, p, u)'
      <4>1. PICK x \in Owed(g, p, type) : x.id = id
        BY <1>12, <3>1, <3>3
      <4>2. u \in Who(x.set[type])
        BY <3>1, <4>1 DEF Keeps, Owed
      <4>3. u \in Who(c[type])
        BY <1>2, <1>4, <4>1, <4>2 DEF OwedUsers
      <4>4. ~Already(g, p)
        BY <1>7, <4>1 DEF OwesNothing
      <4> QED
        BY <1>15, <2>3, <4>3, <4>4
    <3>4. Keeps(g, u, id, type)'
      BY <1>13, <3>1
    <3> QED
      BY <3>2, <3>3, <3>4
  <2>4. \A u \in Users : \A id \in 1 .. lastId : \A type \in {"add", "rm"} :
          Sound(g, u)' /\ RowHolds(g, p, u, id, type) =>
            /\ \A d \in {c} : Bears(d, id, type) => Says(d, u)
            /\ \A a \in back' :
                 a.group = g /\ a.from = p /\ [id |-> id, type |-> type] \in a.acks
                   => a \in back \/ Applied(g, p, u)'
            /\ \/ Applied(g, p, u)' \/ RowHeld(g, p, u)'
               \/ Row(g, p, id, type) \in rows' /\ Keeps(g, u, id, type)'
    BY <2>3
  <2> QED
    BY <1>6, <1>17, <2>1, <2>2, <2>4, FollowsKept
<1>19. ASSUME NEW q \in Peers, q # p, q \in members[g] PROVE Follows(g, q)'
  <2>1. Follows(g, q) /\ NetStep(g, q, {})
    BY <1>11, <1>19 DEF GroupAgrees
  <2>2. ASSUME NEW u \in Users, Sound(g, u)'
        PROVE  /\ Sound(g, u) /\ (u \in members'[g] <=> u \in members[g])
               /\ Applied(g, q, u) => Applied(g, q, u)'
               /\ ToTell(g, q, u) => ToTell(g, q, u)'
    <3>1. Sound(g, u) /\ (u \in members'[g] <=> u \in members[g])
      BY <1>1, <1>6, <2>2
    <3>2. ASSUME Applied(g, q, u) PROVE Applied(g, q, u)'
      <4>1. /\ \A d \in {} : Right(g, d, u)'
            /\ u \in list'[q][g] <=> u \in list[q][g]
        OBVIOUS
      <4> QED
        BY <2>1, <3>1, <3>2, <4>1, AppliedKept
    <3>3. ASSUME ToTell(g, q, u) PROVE ToTell(g, q, u)'
      <4>1. ToSend(g, q)' /\ ~Already(g, q)'
        BY <1>14, <1>19, <3>3 DEF ToTell
      <4>2. Says(c, u)
        BY <1>2, <1>4, <3>3 DEF ToTell, Says
      <4> QED
        BY <1>5, <1>10, <4>1, <4>2 DEF ToTell, Says
    <3> QED
      BY <3>1, <3>2, <3>3
  <2>3. ASSUME NEW u \in Users, NEW id \in 1 .. lastId, NEW type \in {"add", "rm"},
               RowHolds(g, q, u, id, type)
        PROVE  Row(g, q, id, type) \in rows' /\ Keeps(g, u, id, type)'
    BY <1>12, <1>13, <1>19, <2>3 DEF RowHolds
  <2> QED
    BY <1>6, <1>17, <2>1, <2>2, <2>3, FollowsKept
<1>20. ASSUME NEW q \in Peers, q \notin members[g] PROVE Untouched(g, q)'
  <2> SUFFICES ASSUME Insider(g, q)' PROVE list'[q][g] = {} /\ Letters(q, g)' \subseteq {None}
    BY DEF Untouched
  <2>1. q # p
    BY <1>20 DEF Insider
  <2>2. list[q][g] = {} /\ Letters(q, g) \subseteq {None}
    BY <1>6, <1>20 DEF GroupAgrees, Untouched
  <2>3. \A d \in Letters(q, g)' : d # None => d \in Letters(q, g) \/ d \in {}
    BY <1>11, <2>1, LettersStep
  <2> QED
    BY <2>2, <2>3
<1>21. UpdateRight(g)'
  <2>1. ASSUME NEW type \in {"add", "rm"}, c[type] # None PROVE c[type].id \in {uid, NoId}
    BY <1>2, <1>4, <1>7, <2>1 DEF ItemKept
  <2>2. OwesNothing(g, p)'
    <3>1. ASSUME NEW type \in {"add", "rm"}, NEW x \in PendingOf(g), Who(x.set[type]) # {},
                 Row(g, p, x.id, type) \in rows'
          PROVE  FALSE
      <4>1. x.id # uid
        BY <1>7
      <4>2. Row(g, p, x.id, type) \in rows
        BY <1>12, <3>1, <4>1 DEF Row
      <4>3. x \in Owed(g, p, type)
        BY <3>1, <4>2 DEF Owed
      <4> QED
        BY <1>12, <3>1, <4>1, <4>3
    <3> QED
      BY <1>6, <3>1 DEF OwesNothing, Owed, Row
  <2>3. ASSUME NEW q \in Peers, q # p, Already(g, q)' PROVE OwesNothing(g, q)'
    <3>1. OwesNothing(g, q)
      BY <1>7, <1>14, <2>3
    <3> QED
      BY <1>6, <1>12, <2>3, <3>1 DEF OwesNothing, Owed, Row
  <2>4. \A x \in PendingOf(g)' : x.id # uid'
    BY <1>1, <1>6, <1>7
  <2>5. \A q \in Peers : Already(g, q)' => OwesNothing(g, q)'
    BY <2>2, <2>3
  <2> QED
    BY <1>1, <1>5, <1>9, <2>1, <2>4, <2>5 DEF UpdateRight, Right, Says
<1>22. NoSelf(g)'
  <2>1. \A x \in PendingOf(g) : Me \notin Who(x.set.rm)
    BY DEF GroupAgrees, NoSelf
  <2>2. Me \notin OwedUsers(g, p, "rm")
    BY <2>1 DEF OwedUsers, Owed
  <2>3. Me \notin Who(c.rm)
    BY <1>1, <1>2, <1>4, <2>2 DEF GroupAgrees, NoSelf
  <2> QED
    BY <1>5, <1>6, <2>1, <2>3 DEF NoSelf
<1> QED
  BY <1>1, <1>18, <1>19, <1>20, <1>21, <1>22 DEF GroupAgrees

\* The question for awaited acknowledgements never finds one.
LEMMA NoWaitAck ==
  ASSUME TypeOK, NEW g \in Groups, NEW p \in Peers
  PROVE  ~HasWaitAckGroupDevice(g, p)
<1> SUFFICES ASSUME NEW r \in rows, r.id = p PROVE FALSE
  BY DEF HasWaitAckGroupDevice
<1>1. r.id \in Int
  BY DEF TypeOK, TablesType, RowType, Ids, NoId
<1> QED
  BY <1>1, ConstantsAssumption

LEMMA DeviceAgrees ==
  ASSUME TypeOK, TypeOK', AckInv, IdsOld, NEW g \in Groups, NEW p \in Peers, Device(g, p),
         UNCHANGED <<back, list>>,
         \A h \in Groups, q \in Peers : ToSend(h, q) => ToSend(h, q)' \/ (h = g /\ q = p),
         NEW h \in Groups \ torn', GroupAgrees(h)
  PROVE  GroupAgrees(h)'
<1>1. /\ torn' = torn \cup Astray(g) /\ lastId' = lastId /\ quit' = quit
      /\ stale \subseteq stale' /\ outside \subseteq outside'
      /\ UNCHANGED <<members, pending, inProgress, uid>>
  BY DEF Device, DeviceSet, DevicePlain, DeviceInconsistent, tables, memory
<1>2. lastId <= lastId' /\ PendingOf(h)' = PendingOf(h) /\ h \notin torn
  BY <1>1 DEF PendingOf, TypeOK, HistType
<1>3. CASE DeviceSet(g, p)
  <2> DEFINE c == Collapsed(g, p)
  <2>1. /\ current' = [current EXCEPT ![g] = c] /\ rows' = Awaited(g, p, c) /\ Post(p, Letter(g, c))
        /\ inProgress /\ current[g] # None /\ current[g] # EmptyChange
    BY <1>3 DEF DeviceSet
  <2>2. c \in ChangeSets
    BY <2>1, CollapsedType
  <2> HIDE DEF c
  <2>3. CASE h # g
    <3>1. \A q \in Peers : NetStep(h, q, {})
      BY <2>1, <2>2, <2>3, NetPosted
    <3>2. /\ \A r \in rows' : r.group = h => r \in rows
          /\ \A q \in Peers : \A id, type : Row(h, q, id, type) \in rows => Row(h, q, id, type) \in rows'
      <4>1. /\ \A r \in rows' : r \in rows \/ r.group = g
            /\ \A r \in rows : r \in rows' \/ r.group = g
        BY <2>1 DEF Awaited, Row
      <4> QED
        BY <2>3, <4>1 DEF Row
    <3>3. current'[h] = current[h]
      BY <2>1, <2>3 DEF TypeOK, MemoryType
    <3>4. \A q \in Peers : ToSend(h, q) => ToSend(h, q)'
      BY <2>3
    <3> QED
      BY <1>1, <1>2, <3>1, <3>2, <3>3, <3>4, IdleAgrees
  <2>4. CASE h = g
    <3>1. Stamped(current[g])
      BY <1>1, <2>1, <2>4 DEF Astray
    <3>2. /\ stale' = stale \cup ({g} \X Contrary(g, p))
          /\ outside' = outside \cup ({g} \X ({p} \ members[g]))
      BY <2>1 DEF Device
    <3>3. \A q \in Peers : ToSend(g, q) => ToSend(g, q)' \/ q = p
      OBVIOUS
    <3> QED
      BY <1>1, <1>2, <1>3, <2>4, <3>1, <3>2, <3>3, DeviceSetAgrees
  <2> QED
    BY <2>3, <2>4
<1>4. CASE DevicePlain(g, p) \/ DeviceInconsistent(g)
  <2>1. /\ ~inProgress \/ current[g] = None
        /\ UNCHANGED <<rows, current>>
        /\ UNCHANGED net \/ Post(p, Letter(g, None))
    BY <1>4, NoWaitAck DEF DevicePlain, DeviceInconsistent, tables, memory
  <2>2. \A q \in Peers : NetStep(h, q, {})
    BY <2>1, NetSame, NetPosted
  <2>3. \A q \in Peers : Prepared(h) /\ ToSend(h, q) => ToSend(h, q)'
    BY <2>1 DEF Prepared
  <2> QED
    BY <1>1, <1>2, <2>1, <2>2, <2>3, IdleAgrees
<1> QED
  BY <1>3, <1>4 DEF Device

LEMMA MemberAgrees ==
  ASSUME TypeOK, TypeOK', AckInv, IdsOld, NEW t \in Threads, NEW p \in Peers, SendToMember(t, p),
         NEW h \in Groups \ torn', GroupAgrees(h)
  PROVE  GroupAgrees(h)'
<1>1. /\ grp[t] \in Groups /\ Device(grp[t], p) /\ pc' = pc /\ grp' = grp
      /\ todo' = [todo EXCEPT ![t] = @ \ {p}] /\ UNCHANGED <<back, list>>
  BY DEF SendToMember, peers, TypeOK, ThreadsType
<1>2. ASSUME NEW x \in Groups, NEW q \in Peers, ToSend(x, q), ~(x = grp[t] /\ q = p)
      PROVE  ToSend(x, q)'
  BY <1>1, <1>2 DEF ToSend, TypeOK, ThreadsType
<1> QED
  BY <1>1, <1>2, DeviceAgrees

LEMMA CommandAgrees ==
  ASSUME TypeOK, TypeOK', AckInv, IdsOld, NEW t \in Threads, NEW g \in Groups, NEW p \in Peers,
         SendGroupCommandToMember(t, g, p), NEW h \in Groups \ torn', GroupAgrees(h)
  PROVE  GroupAgrees(h)'
<1>1. /\ Device(g, p) /\ pc' = pc /\ grp' = grp /\ todo' = todo
      /\ UNCHANGED <<back, list>>
  BY DEF SendGroupCommandToMember, threads, peers
<1>2. \A x \in Groups, q \in Peers : ToSend(x, q) => ToSend(x, q)'
  BY <1>1 DEF ToSend
<1> QED
  BY <1>1, <1>2, DeviceAgrees

----------------------------------------------------------------------------
(* The members when an update begins.                                      *)

LEMMA ClockedMembers ==
  ASSUME NEW c \in ChangeSets, NEW g, NEW id, NEW n
  PROVE  /\ Clocked(c, g, id).add = c.add /\ Clocked(c, g, id).rm = c.rm
         /\ [c EXCEPT !.name = n].add = c.add /\ [c EXCEPT !.name = n].rm = c.rm
         /\ [c EXCEPT !.name = n].name = n
  BY DEF Clocked, ChangeSets

LEMMA StampFacts ==
  ASSUME NEW j \in Items, NEW id \in Ids
  PROVE  /\ Who(Stamp(j, id)) = Who(j)
         /\ Stamp(j, id) = None <=> j = None
         /\ Stamp(j, id) # None => Stamp(j, id).id = id
<1>1. CASE j = None
  BY <1>1 DEF Stamp
<1>2. CASE j # None
  <2>1. j \in MemberItem
    BY <1>2 DEF Items
  <2>2. [j EXCEPT !.id = id] \in MemberItem
    BY <2>1 DEF MemberItem
  <2>3. [j EXCEPT !.id = id] # None
    BY <2>2, NoneAssumption
  <2> QED
    BY <1>2, <2>1, <2>3 DEF Stamp, Who, MemberItem
<1> QED
  BY <1>1, <1>2

\* The update that begins: what the present set says becomes the members.
LEMMA PreparedSet ==
  ASSUME TypeOK, TypeOK', NEW g \in Groups, NEW t \in Threads, Prepare(t), g = grp[t],
         Me \notin Who(current[g].rm)
  PROVE  \E all \in SUBSET Users : \E d \in ChangeSets :
           /\ all = members[g] \cup (IF exists[g] THEN {} ELSE {Me}) \cup Who(current[g].add)
           /\ members'[g] = all \ Who(current[g].rm)
           /\ current'[g] = d /\ d # None
           /\ Who(d.rm) = Who(current[g].rm)
           /\ Who(d.add) = IF current[g].add = None THEN {} ELSE all
           /\ d.add # None => d.add.id = uid' /\ d.name # None
           /\ d.rm # None => d.rm.id = uid'
           /\ d.name # None => d.name.id = uid'
<1> DEFINE id  == lastId + 1
           c   == Clocked(current[g], g, id)
           all == members[g] \cup (IF exists[g] THEN {} ELSE {Me}) \cup Who(c.add)
           nm  == [v |-> name[g], clk |-> clock[g], id |-> id]
           n   == WithName(c, g, id)
           add == IF c.add = None THEN None ELSE [who |-> all, id |-> id]
           set == [name |-> n.name, add |-> add, rm |-> Stamp(c.rm, id)]
<1>1. /\ members' = [members EXCEPT ![g] = all \ (Who(c.rm) \ {Me})]
      /\ current' = [current EXCEPT ![g] = set]
      /\ current[g] # None /\ uid' = id
  BY DEF Prepare
<1>2. current[g] \in ChangeSets /\ lastId \in Nat /\ id \in Nat /\ id \in Ids
  BY <1>1 DEF TypeOK, HistType, MemoryType, Ids
<1>3. c \in ChangeSets /\ c.add = current[g].add /\ c.rm = current[g].rm
  BY <1>2, ClockedType, ClockedMembers DEF TypeOK
<1>4. c.name # None => c.name.id = id
  <2>1. CASE current[g].name # None
    <3> DEFINE m == [v |-> current[g].name.v, clk |-> clock[g] + 1, id |-> id]
    <3>1. c = [current[g] EXCEPT !.name = m]
      BY <2>1 DEF Clocked
    <3>2. m.id = id
      OBVIOUS
    <3> HIDE DEF c, m
    <3> QED
      BY <1>2, <3>1, <3>2, ClockedMembers
  <2>2. CASE current[g].name = None
    BY <2>2 DEF Clocked
  <2> QED
    BY <2>1, <2>2
<1> HIDE DEF c
<1>5. nm \in NameItem /\ nm.id = id
  BY <1>2 DEF TypeOK, TablesType, NameItem
<1>6. nm # None
  BY <1>5, NoneAssumption
<1>7. n = IF c.add # None /\ c.name = None THEN [c EXCEPT !.name = nm] ELSE c
  BY DEF WithName
<1> HIDE DEF nm, n
<1>8. /\ n.name # None => n.name.id = id
      /\ c.add # None => n.name # None
  BY <1>3, <1>4, <1>5, <1>6, <1>7, ClockedMembers
<1>9. n \in ChangeSets
  BY <1>2, <1>3, WithNameType DEF TypeOK, n
<1>10. all \in SUBSET Users
  <2>1. Who(c.add) \in SUBSET Users
    BY <1>2, <1>3, SetFields, ItemTypes
  <2>2. members[g] \in SUBSET Users /\ Me \in Users
    BY <1>2 DEF TypeOK, TablesType, Users
  <2> QED
    BY <2>1, <2>2
<1>11. all = members[g] \cup (IF exists[g] THEN {} ELSE {Me}) \cup Who(current[g].add)
  BY <1>3
<1> HIDE DEF all
<1>12. set \in ChangeSets /\ set # None
  <2>1. set \in ChangeSets
    BY <1>2, <1>3, <1>9, <1>10, UpdateSetType
  <2> HIDE DEF set
  <2> QED
    BY <2>1, NoneAssumption
<1>13. /\ [who |-> all, id |-> id] # None
       /\ Who([who |-> all, id |-> id]) = all
  <2>1. [who |-> all, id |-> id] \in MemberItem
    BY <1>2, <1>10 DEF MemberItem
  <2>2. [who |-> all, id |-> id] # None
    BY <2>1, NoneAssumption
  <2> QED
    BY <2>2 DEF Who
<1>14. /\ Who(add) = IF current[g].add = None THEN {} ELSE all
       /\ add # None => add.id = id /\ c.add # None
  <2>1. CASE c.add = None
    BY <1>3, <2>1 DEF Who
  <2>2. CASE c.add # None
    <3>1. add = [who |-> all, id |-> id]
      BY <2>2
    <3>2. add.id = id
      BY <3>1
    <3> HIDE DEF add
    <3> QED
      BY <1>3, <1>13, <2>2, <3>1, <3>2
  <2> QED
    BY <2>1, <2>2
<1>15. c.rm \in Items
  BY <1>3, SetFields
<1>16. set.name = n.name /\ set.add = add /\ set.rm = Stamp(c.rm, id)
  OBVIOUS
<1> HIDE DEF set, add, id
<1>17. /\ Who(set.rm) = Who(current[g].rm)
       /\ set.rm # None => set.rm.id = id
  BY <1>2, <1>3, <1>15, <1>16, StampFacts
<1>18. members'[g] = all \ Who(current[g].rm) /\ current'[g] = set
  BY <1>1, <1>3 DEF TypeOK, TablesType, MemoryType
<1> QED
  BY <1>1, <1>8, <1>10, <1>11, <1>12, <1>14, <1>16, <1>17, <1>18

LEMMA PrepareAgrees ==
  ASSUME TypeOK, TypeOK', AckInv, IdsOld, NEW t \in Threads, Prepare(t),
         NEW h \in Groups \ torn', GroupAgrees(h)
  PROVE  GroupAgrees(h)'
<1>0. PICK g \in Groups : g = grp[t]
  BY DEF TypeOK, ThreadsType
<1>1. /\ current[g] # None /\ ~inProgress /\ inProgress' = TRUE
      /\ uid' = lastId + 1 /\ lastId' = lastId + 1
      /\ outside' = outside \cup ({g} \X Who(Clocked(current[g], g, lastId + 1).rm))
      /\ pc' = [pc EXCEPT ![t] = "list"]
      /\ UNCHANGED <<rows, pending, grp, net, back, list, quit, stale, torn>>
  BY <1>0 DEF Prepare, peers
<1>2. /\ lastId \in Nat /\ lastId <= lastId' /\ PendingOf(h)' = PendingOf(h)
      /\ current[g] \in ChangeSets
  BY <1>1 DEF PendingOf, TypeOK, HistType, MemoryType
<1>3. outside' = outside \cup ({g} \X Who(current[g].rm))
  BY <1>1, <1>2, ClockedMembers
<1>4. CASE h # g
  <2>1. members'[h] = members[h] /\ current'[h] = current[h]
    BY <1>0, <1>4 DEF Prepare, TypeOK, TablesType, MemoryType
  <2> QED
    BY <1>1, <1>3, <2>1, OthersAgree
<1>5. CASE h = g
  <2>1. Me \notin Who(current[g].rm)
    BY <1>1, <1>5 DEF GroupAgrees, NoSelf
  <2>2. \E all \in SUBSET Users : \E d \in ChangeSets :
           /\ all = members[g] \cup (IF exists[g] THEN {} ELSE {Me}) \cup Who(current[g].add)
           /\ members'[g] = all \ Who(current[g].rm)
           /\ current'[g] = d /\ d # None
           /\ Who(d.rm) = Who(current[g].rm)
           /\ Who(d.add) = IF current[g].add = None THEN {} ELSE all
           /\ d.add # None => d.add.id = uid' /\ d.name # None
           /\ d.rm # None => d.rm.id = uid'
           /\ d.name # None => d.name.id = uid'
    BY <1>0, <2>1, PreparedSet
  <2>3. PICK all \in SUBSET Users : \E d \in ChangeSets :
           /\ all = members[g] \cup (IF exists[g] THEN {} ELSE {Me}) \cup Who(current[g].add)
           /\ members'[g] = all \ Who(current[g].rm)
           /\ current'[g] = d /\ d # None
           /\ Who(d.rm) = Who(current[g].rm)
           /\ Who(d.add) = IF current[g].add = None THEN {} ELSE all
           /\ d.add # None => d.add.id = uid' /\ d.name # None
           /\ d.rm # None => d.rm.id = uid'
           /\ d.name # None => d.name.id = uid'
    BY <2>2
  <2>4. PICK d \in ChangeSets :
           /\ all = members[g] \cup (IF exists[g] THEN {} ELSE {Me}) \cup Who(current[g].add)
           /\ members'[g] = all \ Who(current[g].rm)
           /\ current'[g] = d /\ d # None
           /\ Who(d.rm) = Who(current[g].rm)
           /\ Who(d.add) = IF current[g].add = None THEN {} ELSE all
           /\ d.add # None => d.add.id = uid' /\ d.name # None
           /\ d.rm # None => d.rm.id = uid'
           /\ d.name # None => d.name.id = uid'
    BY <2>3
  <2>5. ASSUME NEW q \in Peers PROVE ~Already(g, q)'
    <3>1. ASSUME NEW c \in Letters(q, g) \ {None}, NEW type \in Types
          PROVE  ~Bears(c, uid', type)
      <4>1. c[type] # None => c[type].id <= lastId
        BY <3>1 DEF IdsOld, OldSet, Used
      <4> QED
        BY <1>1, <1>2, <4>1 DEF Bears
    <3>2. ASSUME NEW a \in back, NEW k \in a.acks PROVE k.id # uid'
      <4>1. k.id <= lastId
        BY <3>2 DEF IdsOld, Used
      <4> QED
        BY <1>1, <1>2, <4>1
    <3>3. Letters(q, g)' = Letters(q, g)
      BY <1>1 DEF Letters
    <3> QED
      BY <1>1, <3>1, <3>2, <3>3 DEF Already, Bears
  <2>6. \A x \in PendingOf(g) : x.id # uid'
    <3> SUFFICES ASSUME NEW x \in PendingOf(g) PROVE x.id # uid'
      OBVIOUS
    <3>1. x.id <= lastId
      BY DEF IdsOld, Used, PendingOf
    <3> QED
      BY <1>1, <1>2, <3>1
  <2>7. \A u \in Users : Right(g, d, u)'
    BY <2>4 DEF Right, Says
  <2>8. UpdateRight(g)'
    BY <1>2, <1>5, <2>4, <2>5, <2>6, <2>7 DEF UpdateRight, Right, Says
  <2>9. NoSelf(g)'
    BY <1>2, <1>5, <2>1, <2>4 DEF GroupAgrees, NoSelf
  <2>10. \A q \in Peers : NetStep(g, q, {})
    BY <1>1, NetSame
  <2>11. /\ \A q \in Peers : Insider(g, q)' => Insider(g, q) /\ q \notin Who(current[g].rm)
         /\ \A u \in Users : Sound(g, u)' <=> Sound(g, u)
    BY <1>1, <1>3 DEF Insider, Sound
  <2>12. ASSUME NEW q \in Peers, q \notin members'[g] PROVE Untouched(g, q)'
    <3> SUFFICES ASSUME Insider(g, q)' PROVE list'[q][g] = {} /\ Letters(q, g)' \subseteq {None}
      BY DEF Untouched
    <3>1. Insider(g, q) /\ q \notin members[g]
      BY <2>4, <2>11, <2>12
    <3>2. list[q][g] = {} /\ Letters(q, g) \subseteq {None}
      BY <1>5, <3>1 DEF GroupAgrees, Untouched
    <3>3. Letters(q, g)' = Letters(q, g)
      BY <1>1 DEF Letters
    <3> QED
      BY <1>1, <3>2, <3>3
  <2>13. ASSUME NEW q \in Peers, q \in members'[g], NEW u \in Users, Says(d, u)
         PROVE  ToTell(g, q, u)'
    <3>1. d # EmptyChange
      BY <2>13 DEF Says, EmptyChange, Who
    <3>2. Prepared(g)'
      BY <1>1, <2>4, <3>1 DEF Prepared, Stamped
    <3>3. pc'[t] = "list" /\ grp'[t] = g
      BY <1>0, <1>1 DEF TypeOK, ThreadsType
    <3>4. ToSend(g, q)'
      BY <3>3 DEF ToSend
    <3> QED
      BY <2>4, <2>5, <2>13, <3>2, <3>4 DEF ToTell, Says
  <2>14. ASSUME NEW q \in Peers, q \in members'[g], NEW u \in Users, ~Says(d, u)
         PROVE  /\ u \in members'[g] <=> u \in members[g]
                /\ q \notin members[g] => u \notin members'[g]
    <3>1. q # Me /\ u \notin Who(current[g].rm)
      BY <2>4, <2>14, ConstantsAssumption DEF Says
    <3>2. CASE current[g].add # None
      BY <2>4, <2>14, <3>2 DEF Says
    <3>3. CASE current[g].add = None
      <4>1. Who(current[g].add) = {}
        BY <3>3 DEF Who
      <4>2. q \in members[g]
        BY <2>4, <2>14, <3>1, <4>1
      <4>3. exists[g]
        BY <1>1, <1>5, <4>2 DEF AckInv, GroupInv, Reached
      <4> QED
        BY <2>4, <3>1, <4>1, <4>2, <4>3
    <3> QED
      BY <3>2, <3>3
  <2>15. ASSUME NEW q \in Peers, q \in members[g], NEW u \in Users,
                u \in members'[g] <=> u \in members[g], Applied(g, q, u)
         PROVE  Applied(g, q, u)'
    <3>1. \A x \in {} : Right(g, x, u)'
      OBVIOUS
    <3>2. NetStep(g, q, {}) /\ (u \in list'[q][g] <=> u \in list[q][g])
      BY <1>1, <2>10
    <3> QED
      BY <2>15, <3>1, <3>2, AppliedKept
  <2>16. ASSUME NEW q \in Peers, q \in members[g], NEW u \in Users,
                u \in members'[g] <=> u \in members[g], RowHeld(g, q, u)
         PROVE  RowHeld(g, q, u)'
    <3>1. PICK j \in 1 .. lastId : \E type \in {"add", "rm"} : RowHolds(g, q, u, j, type)
      BY <2>16 DEF RowHeld
    <3>2. PICK type \in {"add", "rm"} : RowHolds(g, q, u, j, type)
      BY <3>1
    <3>3. StandsFor(g, q, u, j, type) /\ Row(g, q, j, type) \in rows /\ Keeps(g, u, j, type)
      BY <3>2 DEF RowHolds
    <3>4. StandsFor(g, q, u, j, type)'
      <4>1. \A x \in {} : Right(g, x, u)' /\ (Bears(x, j, type) => Says(x, u))
        OBVIOUS
      <4>2. Applied(g, q, u) => Applied(g, q, u)'
        BY <2>15, <2>16
      <4>3. NetStep(g, q, {})
        BY <2>10
      <4>4. \A a \in back' :
              a.group = g /\ a.from = q /\ [id |-> j, type |-> type] \in a.acks
                => a \in back \/ Applied(g, q, u)'
        BY <1>1
      <4> QED
        BY <2>16, <3>3, <4>1, <4>2, <4>3, <4>4, StandsKept
    <3>5. j # uid' /\ j \in 1 .. lastId'
      BY <1>1, <1>2
    <3>6. Keeps(g, u, j, type)'
      BY <1>2, <1>5, <3>3, <3>5 DEF Keeps
    <3>7. RowHolds(g, q, u, j, type)'
      BY <1>1, <3>3, <3>4, <3>6 DEF RowHolds, Row
    <3> QED
      BY <3>5, <3>7 DEF RowHeld
  <2>17. ASSUME NEW q \in Peers, q \in members'[g] PROVE Follows(g, q)'
    <3> SUFFICES ASSUME Insider(g, q)', NEW u \in Users, Sound(g, u)'
                 PROVE  Applied(g, q, u)' \/ ToTell(g, q, u)' \/ RowHeld(g, q, u)'
      BY DEF Follows
    <3>1. CASE Says(d, u)
      BY <2>13, <2>17, <3>1
    <3>2. CASE ~Says(d, u)
      <4>1. /\ u \in members'[g] <=> u \in members[g]
            /\ q \notin members[g] => u \notin members'[g]
        BY <2>14, <2>17, <3>2
      <4>2. CASE q \in members[g]
        <5>1. Applied(g, q, u) \/ ToTell(g, q, u) \/ RowHeld(g, q, u)
          BY <1>5, <2>11, <4>2 DEF GroupAgrees, Follows
        <5>2. ~ToTell(g, q, u)
          BY <1>1 DEF ToTell, Prepared
        <5> QED
          BY <2>15, <2>16, <4>1, <4>2, <5>1, <5>2
      <4>3. CASE q \notin members[g]
        <5>1. list[q][g] = {} /\ Letters(q, g) \subseteq {None}
          BY <1>5, <2>11, <4>3 DEF GroupAgrees, Untouched
        <5>2. Letters(q, g)' = Letters(q, g) /\ list'[q][g] = list[q][g]
          BY <1>1 DEF Letters
        <5> QED
          BY <4>1, <4>3, <5>1, <5>2 DEF Applied
      <4> QED
        BY <4>2, <4>3
    <3> QED
      BY <3>1, <3>2
  <2> QED
    BY <1>5, <2>8, <2>9, <2>12, <2>17 DEF GroupAgrees
<1> QED
  BY <1>4, <1>5

----------------------------------------------------------------------------
(* Update ids stay old ones.                                               *)

LEMMA IdsOldIdle ==
  ASSUME TypeOK, TypeOK', IdsOld, lastId' = lastId, uid' \in {uid, 0},
         \A g \in Groups : \/ current'[g] = current[g] \/ current'[g] = None
                           \/ current'[g].add = None,
         \A g \in Groups, p \in Peers : NetStep(g, p, {}),
         \A a \in back' : a \in back \/ a.acks = {}, pending' \subseteq pending
  PROVE  IdsOld'
<1>1. lastId <= lastId' /\ 0 <= uid'
  BY DEF TypeOK, HistType, IdsOld
<1>2. \A g \in Groups, p \in Peers : \E C : NetStep(g, p, C) /\ \A c \in C : OldSet(c)'
  <2> SUFFICES ASSUME NEW g \in Groups, NEW p \in Peers
               PROVE  \E C : NetStep(g, p, C) /\ \A c \in C : OldSet(c)'
    OBVIOUS
  <2>1. NetStep(g, p, {}) /\ \A c \in {} : OldSet(c)'
    OBVIOUS
  <2> QED
    BY <2>1
<1>3. \A g \in Groups : current'[g] # None /\ current'[g].add # None =>
        /\ current[g] # None /\ current[g].add # None
        /\ current'[g].add.id = current[g].add.id
  OBVIOUS
<1>4. \A a \in back' : a \in back \/ \A k \in a.acks : k.id <= lastId'
  OBVIOUS
<1> QED
  BY <1>1, <1>2, <1>3, <1>4, IdsOldStep

LEMMA EditIds ==
  ASSUME TypeOK, TypeOK', IdsOld, NEW g \in Groups, NEW c \in ChangeSets \cup {None},
         EditStep(g, c)
  PROVE  IdsOld'
<1>1. /\ current' = [current EXCEPT ![g] = c]
      /\ c # None => KeepsIds(c, Current(g))
      /\ UNCHANGED <<pending, uid, net, back, lastId>>
  BY DEF EditStep, Edit
<1>2. ASSUME NEW h \in Groups, current'[h] # None, current'[h].add # None
      PROVE  \/ current'[h].add.id = NoId
             \/ /\ current[h] # None /\ current[h].add # None
                /\ current'[h].add.id = current[h].add.id
  <2>1. CASE h # g
    BY <1>1, <1>2, <2>1 DEF TypeOK, MemoryType
  <2>2. CASE h = g
    <3>1. current'[g] = c
      BY <1>1 DEF TypeOK, MemoryType
    <3>2. \/ c.add.id = NoId
          \/ Current(g).add # None /\ c.add.id = Current(g).add.id
      BY <1>1, <1>2, <2>2, <3>1 DEF KeepsIds
    <3>3. Current(g).add # None => current[g] # None /\ current[g].add = Current(g).add
      BY DEF Current, EmptyChange
    <3> QED
      BY <1>2, <2>2, <3>1, <3>2, <3>3
  <2> QED
    BY <2>1, <2>2
<1>3. \A h \in Groups, p \in Peers : \E C : NetStep(h, p, C) /\ \A d \in C : OldSet(d)'
  <2> SUFFICES ASSUME NEW h \in Groups, NEW p \in Peers
               PROVE  \E C : NetStep(h, p, C) /\ \A d \in C : OldSet(d)'
    OBVIOUS
  <2>1. NetStep(h, p, {}) /\ \A d \in {} : OldSet(d)'
    BY <1>1, NetSame
  <2> QED
    BY <2>1
<1>4. lastId <= lastId' /\ 0 <= uid'
  BY <1>1 DEF TypeOK, HistType, IdsOld
<1> QED
  BY <1>1, <1>2, <1>3, <1>4, IdsOldStep

\* A set is posted.
LEMMA PostIds ==
  ASSUME TypeOK, TypeOK', IdsOld, lastId <= lastId', 0 <= uid', NEW g \in Groups, NEW p \in Peers,
         NEW c \in ChangeSets, Post(p, Letter(g, c)), OldSet(c)',
         current'[g] # None /\ current'[g].add # None =>
           \/ current'[g].add.id = NoId
           \/ /\ current[g] # None /\ current[g].add # None
              /\ current'[g].add.id = current[g].add.id,
         \A h \in Groups : h # g => current'[h] = current[h],
         UNCHANGED <<back, pending>>
  PROVE  IdsOld'
<1>1. \A h \in Groups, q \in Peers : \E C : NetStep(h, q, C) /\ \A d \in C : OldSet(d)'
  <2> SUFFICES ASSUME NEW h \in Groups, NEW q \in Peers
               PROVE  \E C : NetStep(h, q, C) /\ \A d \in C : OldSet(d)'
    OBVIOUS
  <2>1. NetStep(h, q, {c})
    BY NetPosted
  <2>2. \A d \in {c} : OldSet(d)'
    OBVIOUS
  <2> QED
    BY <2>1, <2>2
<1>2. \A h \in Groups : current'[h] # None /\ current'[h].add # None =>
        \/ current'[h].add.id = NoId
        \/ /\ current[h] # None /\ current[h].add # None
           /\ current'[h].add.id = current[h].add.id
  OBVIOUS
<1> QED
  BY <1>1, <1>2, IdsOldStep

LEMMA HelloIds ==
  ASSUME TypeOK, TypeOK', IdsOld, NEW g \in Groups, NEW p \in Peers, Hello(g, p)
  PROVE  IdsOld'
<1> DEFINE id == lastId + 1
           b == [EmptyChange EXCEPT !.add = [who |-> members[g], id |-> id]]
           n == [v |-> name[g], clk |-> clock[g], id |-> id]
           c == WithName(b, g, id)
<1>1. lastId \in Nat /\ members[g] \in SUBSET Users
  BY DEF TypeOK, HistType, TablesType
<1>2. [who |-> members[g], id |-> id] \in MemberItem /\ n \in NameItem
  BY <1>1 DEF MemberItem, NameItem, Ids, TypeOK, TablesType
<1>3. b = [name |-> None, add |-> [who |-> members[g], id |-> id], rm |-> None]
  BY DEF EmptyChange
<1>4. c = [name |-> n, add |-> [who |-> members[g], id |-> id], rm |-> None]
  BY <1>2, <1>3, NoneAssumption DEF WithName
<1>5. c \in ChangeSets
  BY <1>2, <1>4 DEF ChangeSets
<1>6. \A type \in Types : c[type] # None => c[type].id = id
  BY <1>4 DEF Types
<1> HIDE DEF c, n, b
<1>7. PICK d \in ChangeSets : d = c
  BY <1>5
<1>8. /\ lastId' = lastId + 1 /\ Post(p, Letter(g, d)) /\ uid' = uid /\ current' = current
      /\ UNCHANGED <<back, pending>>
  BY <1>7 DEF Hello, memory, c, b
<1>9. OldSet(d)'
  <2>1. \A type \in Types : d[type] # None => d[type].id <= lastId'
    BY <1>1, <1>6, <1>7, <1>8
  <2> QED
    BY <2>1 DEF OldSet, Used
<1>10. lastId <= lastId' /\ 0 <= uid'
  BY <1>1, <1>8 DEF IdsOld
<1> QED
  BY <1>8, <1>9, <1>10, PostIds

LEMMA DeviceIds ==
  ASSUME TypeOK, TypeOK', AckInv, IdsOld, NEW g \in Groups, NEW p \in Peers, Device(g, p),
         UNCHANGED back
  PROVE  IdsOld'
<1>1. lastId' = lastId /\ lastId \in Nat /\ NoId <= lastId /\ uid <= lastId
  BY DEF Device, TypeOK, HistType, NoId, AckInv, IdsUsed, Used
<1>2. CASE DeviceSet(g, p)
  <2> DEFINE C == Collapsed(g, p)
  <2>1. /\ current' = [current EXCEPT ![g] = C] /\ Post(p, Letter(g, C))
        /\ current[g] # None /\ UNCHANGED <<pending, uid>>
    BY <1>2 DEF DeviceSet
  <2>2. /\ C \in ChangeSets
        /\ current[g].name # None => C.name = current[g].name
        /\ current[g].name = None =>
             C.name = None \/ C.name = [v |-> name[g], clk |-> clock[g], id |-> uid]
    BY <2>1, CollapsedFacts
  <2>3. ItemKept(C.add, current[g].add) /\ ItemKept(C.rm, current[g].rm)
    BY <2>1, CollapsedMembers
  <2> HIDE DEF C
  <2>4. C.name # None => C.name.id <= lastId
    BY <1>1, <2>1, <2>2 DEF AckInv, IdsUsed, Used, Named
  <2>5. C.add # None => C.add.id <= lastId
    BY <1>1, <2>1, <2>3 DEF ItemKept, IdsOld, Used
  <2>6. C.rm # None => C.rm.id <= lastId
    BY <1>1, <2>1, <2>3 DEF ItemKept, AckInv, IdsUsed, Used
  <2>7. PICK c \in ChangeSets : c = C
    BY <2>2
  <2>8. /\ current'[g] = c /\ Post(p, Letter(g, c))
        /\ \A h \in Groups : h # g => current'[h] = current[h]
    BY <2>1, <2>7 DEF TypeOK, MemoryType
  <2>9. lastId <= lastId' /\ 0 <= uid'
    BY <1>1, <2>1 DEF IdsOld
  <2>10. current'[g] # None /\ current'[g].add # None =>
           \/ current'[g].add.id = NoId
           \/ /\ current[g] # None /\ current[g].add # None
              /\ current'[g].add.id = current[g].add.id
    BY <2>1, <2>3, <2>7, <2>8 DEF ItemKept
  <2>11. OldSet(c)'
    <3>1. \A type \in Types : c[type] # None => c[type].id <= lastId'
      BY <1>1, <2>4, <2>5, <2>6, <2>7 DEF Types
    <3> QED
      BY <3>1 DEF OldSet, Used
  <2> QED
    BY <2>1, <2>8, <2>9, <2>10, <2>11, PostIds
<1>3. CASE DevicePlain(g, p) \/ DeviceInconsistent(g)
  <2>1. /\ UNCHANGED <<current, pending, uid>>
        /\ UNCHANGED net \/ Post(p, Letter(g, None))
    BY <1>3, NoWaitAck DEF DevicePlain, DeviceInconsistent, memory
  <2>2. \A h \in Groups, q \in Peers : NetStep(h, q, {})
    BY <2>1, NetSame, NetPosted
  <2> QED
    BY <1>1, <2>1, <2>2, IdsOldIdle
<1> QED
  BY <1>2, <1>3 DEF Device

LEMMA PrepareIds ==
  ASSUME TypeOK, TypeOK', IdsOld, NEW t \in Threads,
         Prepare(t) \/ PrepareFails(t)
  PROVE  IdsOld'
<1>0. PICK g \in Groups : g = grp[t]
  BY DEF TypeOK, ThreadsType
<1>1. /\ uid' = lastId + 1 /\ lastId' = lastId + 1 /\ current[g] # None
      /\ UNCHANGED <<pending, net, back>>
  BY <1>0 DEF Prepare, PrepareFails
<1>2. lastId \in Nat /\ lastId <= lastId' /\ 0 <= uid' /\ current[g] \in ChangeSets
  BY <1>1 DEF TypeOK, HistType, MemoryType
<1>3. \A h \in Groups, p \in Peers : \E C : NetStep(h, p, C) /\ \A d \in C : OldSet(d)'
  <2> SUFFICES ASSUME NEW h \in Groups, NEW p \in Peers
               PROVE  \E C : NetStep(h, p, C) /\ \A d \in C : OldSet(d)'
    OBVIOUS
  <2>1. NetStep(h, p, {}) /\ \A d \in {} : OldSet(d)'
    BY <1>1, NetSame
  <2> QED
    BY <2>1
<1>4. \/ current'[g].add = None \/ current'[g].add.id = lastId'
      \/ current'[g].add = current[g].add
  <2>1. CASE Prepare(t)
    <3> DEFINE id  == lastId + 1
               c   == Clocked(current[g], g, id)
               all == members[g] \cup (IF exists[g] THEN {} ELSE {Me}) \cup Who(c.add)
               n   == WithName(c, g, id)
               add == IF c.add = None THEN None ELSE [who |-> all, id |-> id]
               set == [name |-> n.name, add |-> add, rm |-> Stamp(c.rm, id)]
    <3>1. current' = [current EXCEPT ![g] = set]
      BY <1>0, <2>1 DEF Prepare
    <3>2. set.add = add
      OBVIOUS
    <3> HIDE DEF set
    <3>3. current'[g].add = add
      BY <3>1, <3>2 DEF TypeOK, MemoryType
    <3>4. add = None \/ add.id = id
      OBVIOUS
    <3> HIDE DEF add
    <3> QED
      BY <1>1, <3>3, <3>4
  <2>2. CASE PrepareFails(t)
    <3>1. current' = current \/ current' = [current EXCEPT ![g] = Clocked(@, g, lastId + 1)]
      BY <1>0, <2>2 DEF PrepareFails
    <3>2. current'[g] \in {current[g], Clocked(current[g], g, lastId + 1)}
      BY <3>1 DEF TypeOK, MemoryType
    <3> QED
      BY <1>2, <3>2, ClockedMembers
  <2> QED
    BY <2>1, <2>2
<1>5. \A h \in Groups : h # g => current'[h] = current[h]
  BY <1>0 DEF Prepare, PrepareFails, TypeOK, MemoryType
<1>6. \A h \in Groups : current'[h] # None /\ current'[h].add # None =>
           \/ current'[h].add.id = NoId \/ current'[h].add.id = lastId'
           \/ /\ current[h] # None /\ current[h].add # None
              /\ current'[h].add.id = current[h].add.id
  BY <1>1, <1>4, <1>5
<1> QED
  BY <1>1, <1>2, <1>3, <1>6, IdsOldStep

LEMMA SendDoneIds ==
  ASSUME TypeOK, TypeOK', AckInv, IdsOld, NEW t \in Threads, SendDone(t)
  PROVE  IdsOld'
<1>0. PICK g \in Groups : g = grp[t]
  BY DEF TypeOK, ThreadsType
<1>1. /\ lastId' = lastId /\ UNCHANGED <<net, back>>
      /\ \A x \in pending' : x \in pending \/ x.id = uid
      /\ uid' \in {uid, 0}
      /\ current' = current \/ current' = [current EXCEPT ![g] = None]
  BY <1>0 DEF SendDone, memory, PendingOf
<1>2. lastId <= lastId' /\ 0 <= uid' /\ uid <= lastId'
  BY <1>1 DEF TypeOK, HistType, IdsOld, AckInv, IdsUsed, Used
<1>3. \A h \in Groups, p \in Peers : \E C : NetStep(h, p, C) /\ \A d \in C : OldSet(d)'
  <2> SUFFICES ASSUME NEW h \in Groups, NEW p \in Peers
               PROVE  \E C : NetStep(h, p, C) /\ \A d \in C : OldSet(d)'
    OBVIOUS
  <2>1. NetStep(h, p, {}) /\ \A d \in {} : OldSet(d)'
    BY <1>1, NetSame
  <2> QED
    BY <2>1
<1>4. \A h \in Groups : current'[h] = current[h] \/ current'[h] = None
  BY <1>1 DEF TypeOK, MemoryType
<1>5. \A x \in pending' : x \in pending \/ x.id <= lastId'
  BY <1>1, <1>2
<1>6. \A h \in Groups : current'[h] # None /\ current'[h].add # None =>
        /\ current[h] # None /\ current[h].add # None
        /\ current'[h].add.id = current[h].add.id
  BY <1>4
<1> QED
  BY <1>1, <1>2, <1>3, <1>5, <1>6, IdsOldStep

LEMMA PeerChangeIds ==
  ASSUME TypeOK, TypeOK', IdsOld, NEW p \in Peers, NEW k \in DOMAIN net[p], PeerChange(p, k)
  PROVE  IdsOld'
<1> DEFINE acks == {[id |-> net[p][k].set[y].id, type |-> y] : y \in
                     {y \in Present(net[p][k].set) :
                        y = "name" \/ Who(net[p][k].set.add) \cup Who(net[p][k].set.rm) # {}}}
<1>1. /\ net' = [net EXCEPT ![p] = Gone(@, k)] /\ net[p][k].set # None
      /\ UNCHANGED <<memory, hist>>
  BY DEF PeerChange, Arrives
<1>2. net[p][k] \in Letterings
  BY ArrivesType DEF PeerChange
<1>3. PICK g \in Groups : g = net[p][k].group
  BY <1>2 DEF Letterings
<1>4. PICK c \in ChangeSets : c = net[p][k].set
  BY <1>1, <1>2 DEF Letterings
<1>5. OldSet(c)
  BY <1>1, <1>3, <1>4 DEF IdsOld, Letters
<1>6. back' = back \/ back' = back \cup {Reply(p, g, acks)}
  BY <1>3 DEF PeerChange
<1>7. \A a \in acks : a.id <= lastId
  BY <1>4, <1>5 DEF OldSet, Used, Present
<1> HIDE DEF acks
<1>8. Reply(p, g, acks).acks = acks
  BY DEF Reply
<1>9. /\ UNCHANGED <<current, pending, uid, lastId>>
      /\ lastId <= lastId' /\ 0 <= uid'
  BY <1>1 DEF memory, hist, TypeOK, HistType, IdsOld
<1>10. \A a \in back' : a \in back \/ \A x \in a.acks : x.id <= lastId'
  BY <1>6, <1>7, <1>8, <1>9
<1>11. \A h \in Groups, q \in Peers : \E C : NetStep(h, q, C) /\ \A d \in C : OldSet(d)'
  <2> SUFFICES ASSUME NEW h \in Groups, NEW q \in Peers
               PROVE  \E C : NetStep(h, q, C) /\ \A d \in C : OldSet(d)'
    OBVIOUS
  <2>1. NetStep(h, q, {}) /\ \A d \in {} : OldSet(d)'
    BY <1>1, NetGone
  <2> QED
    BY <2>1
<1>12. \A h \in Groups : current'[h] # None /\ current'[h].add # None =>
         /\ current[h] # None /\ current[h].add # None
         /\ current'[h].add.id = current[h].add.id
  BY <1>9
<1> QED
  BY <1>9, <1>10, <1>11, <1>12, IdsOldStep

\* Steps that give no update id, and the one that sends a message without a set.
LEMMA IdleIds ==
  ASSUME TypeOK, TypeOK', IdsOld,
         \/ \E t \in Threads : \/ \E g \in Groups, c \in {"all", "one"} : SendGroupMessage(t, g, c)
                               \/ \E g \in Groups : LeaveGroup(t, g)
                               \/ PrepareNothing(t) \/ ListMembers(t) \/ ListOne(t)
                               \/ SendBlocks(t) \/ ProcessLeaveGroup(t)
         \/ \E g \in Groups : SiblingLeaves(g)
         \/ \E a \in back : TakeAcks(a) \/ TakeRequest(a)
         \/ \E p \in Peers : \E k \in DOMAIN net[p] : PeerMessage(p, k) \/ PeerUnknown(p, k)
         \/ Lose \/ Crash
         \/ UNCHANGED vars
  PROVE  IdsOld'
<1>1. lastId' = lastId /\ uid' \in {uid, 0} /\ pending' \subseteq pending
  BY DEF SendGroupMessage, LeaveGroup, PrepareNothing, ListMembers, ListOne, SendBlocks,
         ProcessLeaveGroup, SiblingLeaves, Forget, TakeAcks, TakeRequest, PeerMessage, PeerUnknown,
         Arrives, Lose, Crash, vars, memory, hist
<1>2. \A g \in Groups : \/ current'[g] = current[g] \/ current'[g] = None
                        \/ current'[g].add = None
  <2>1. ASSUME NEW g \in Groups, NEW t \in Threads, LeaveGroup(t, g), NEW h \in Groups
        PROVE  current'[h] = current[h] \/ current'[h].add = None
    <3> DEFINE c == [EmptyChange EXCEPT !.rm = [who |-> {Me}, id |-> NoId]]
    <3>1. current' = [current EXCEPT ![g] = c]
      BY <2>1 DEF LeaveGroup
    <3>2. c.add = None
      BY DEF EmptyChange
    <3> HIDE DEF c
    <3> QED
      BY <3>1, <3>2 DEF TypeOK, MemoryType
  <2>2. \/ current' = current \/ Crash
        \/ \E g \in Groups, t \in Threads : LeaveGroup(t, g)
    BY DEF SendGroupMessage, PrepareNothing, ListMembers, ListOne, SendBlocks,
           ProcessLeaveGroup, SiblingLeaves, Forget, TakeAcks, TakeRequest, PeerMessage, PeerUnknown,
           Arrives, Lose, vars, memory
  <2>3. Crash => \A g \in Groups : current'[g] = None
    BY DEF Crash
  <2> QED
    BY <2>1, <2>2, <2>3
<1>3. \A g \in Groups, p \in Peers : NetStep(g, p, {})
  <2>1. CASE UNCHANGED net
    BY <2>1, NetSame
  <2>2. CASE \E t \in Threads : ListOne(t)
    <3>1. PICK t \in Threads : ListOne(t)
      BY <2>2
    <3>2. PICK h \in Groups : h = grp[t]
      BY DEF TypeOK, ThreadsType
    <3>3. net' = net \/ \E q \in Peers : Post(q, Letter(h, None))
      BY <3>1, <3>2 DEF ListOne
    <3> QED
      BY <2>1, <3>3, NetPosted
  <2>3. CASE \E p \in Peers : \E k \in DOMAIN net[p] : net' = [net EXCEPT ![p] = Gone(@, k)]
    BY <2>3, NetGone
  <2> QED
    BY <2>1, <2>2, <2>3
       DEF SendGroupMessage, LeaveGroup, PrepareNothing, ListMembers, SendBlocks,
           ProcessLeaveGroup, SiblingLeaves, TakeAcks, TakeRequest, PeerMessage, PeerUnknown,
           Arrives, Lose, Crash, vars
<1>4. \A a \in back' : a \in back \/ a.acks = {}
  BY DEF SendGroupMessage, LeaveGroup, PrepareNothing, ListMembers, ListOne, SendBlocks,
         ProcessLeaveGroup, SiblingLeaves, TakeAcks, TakeRequest, PeerMessage, PeerUnknown, Reply,
         Lose, Crash, vars
<1> QED
  BY <1>1, <1>2, <1>3, <1>4, IdsOldIdle

----------------------------------------------------------------------------
(* Who was in the group and has acknowledged everything agrees on members. *)

LEMMA AgreeStep ==
  ASSUME AgreeInv, torn \subseteq torn', overtakes' = overtakes, IdsOld',
         \A h \in Groups \ torn' : GroupAgrees(h) => GroupAgrees(h)'
  PROVE  AgreeInv'
<1>1. ASSUME overtakes' = 0, NEW h \in Groups \ torn' PROVE GroupAgrees(h)'
  BY <1>1 DEF AgreeInv
<1> QED
  BY <1>1 DEF AgreeInv

LEMMA AgreeInit == Init => AgreeInv
<1> SUFFICES ASSUME Init PROVE AgreeInv
  OBVIOUS
<1>1. /\ pending = {} /\ back = {} /\ net = [p \in Peers |-> <<>>]
      /\ current = [g \in Groups |-> None] /\ inProgress = FALSE /\ uid = 0 /\ lastId = 0
      /\ members = [g \in Groups |-> IF g \in made THEN Users ELSE {}]
      /\ list = [p \in Peers |-> members] /\ overtakes = 0
  BY DEF Init
<1>2. \A g \in Groups, p \in Peers : Letters(p, g) = {}
  BY <1>1 DEF Letters
<1>3. IdsOld
  BY <1>1, <1>2 DEF IdsOld
<1>4. ASSUME NEW g \in Groups PROVE GroupAgrees(g)
  <2>1. \A p \in Peers : list[p][g] = members[g]
    BY <1>1
  <2>2. ~Prepared(g) /\ PendingOf(g) = {} /\ current[g] = None
    BY <1>1 DEF Prepared, PendingOf
  <2>3. UpdateRight(g) /\ NoSelf(g)
    BY <2>2 DEF UpdateRight, NoSelf
  <2>4. \A p \in Peers : Follows(g, p)
    BY <1>2, <2>1 DEF Follows, Applied
  <2>5. ASSUME NEW p \in Peers, p \notin members[g] PROVE Untouched(g, p)
    <3>1. members[g] = {}
      BY <1>1, <2>5 DEF Users
    <3> QED
      BY <1>2, <2>1, <3>1 DEF Untouched
  <2> QED
    BY <2>3, <2>4, <2>5 DEF GroupAgrees
<1> QED
  BY <1>1, <1>3, <1>4 DEF AgreeInv

LEMMA AgreeNext == TypeOK /\ AckInv /\ AgreeInv /\ [Next]_vars => AgreeInv'
<1> SUFFICES ASSUME TypeOK, AckInv, AgreeInv, [Next]_vars PROVE AgreeInv'
  OBVIOUS
<1>1. TypeOK' /\ IdsOld /\ overtakes \in Nat
  BY TypeStep DEF AgreeInv
<1>2. CASE UNCHANGED vars
  <2>1. UNCHANGED <<tables, memory, threads, hist, list, net, back, overtakes, torn>>
    BY <1>2 DEF vars, peers, counts, hist
  <2>2. \A h \in Groups \ torn' : GroupAgrees(h) => GroupAgrees(h)'
    BY <1>1, <2>1, GoneAgrees
  <2> QED
    BY <1>1, <1>2, <2>1, <2>2, IdleIds, AgreeStep
<1>3. ASSUME NEW g \in Groups, EditsOf(g) PROVE AgreeInv'
  <2>1. PICK c \in ChangeSets \cup {None} : EditStep(g, c)
    BY <1>3, EditCases
  <2>2. IdsOld' /\ \A h \in Groups \ torn' : GroupAgrees(h) => GroupAgrees(h)'
    BY <1>1, <2>1, EditIds, EditAgrees
  <2>3. torn \subseteq torn'
    BY <2>1 DEF EditStep, Edit
  <2>4. overtakes' = overtakes
    BY <1>3 DEF EditsOf, SetGroupName, CreateNewGroup, Revoke, CancelGroupChangeSet, AddUser,
                RemoveUser, Edits, counts
  <2> QED
    BY <2>2, <2>3, <2>4, AgreeStep
<1>4. ASSUME NEW g \in Groups, SiblingLeaves(g) PROVE AgreeInv'
  <2>1. Forget(g) /\ UNCHANGED <<threads, net, back, peers>> /\ overtakes' = overtakes
    BY <1>4 DEF SiblingLeaves
  <2>2. \A h \in Groups, p \in Peers : ToSend(h, p) => ToSend(h, p)'
    BY <2>1 DEF ToSend, threads
  <2>3. \A h \in Groups \ torn' : GroupAgrees(h) => GroupAgrees(h)'
    BY <1>1, <2>1, <2>2, ForgetAgrees
  <2>4. torn \subseteq torn'
    BY <2>1 DEF Forget
  <2> QED
    BY <1>1, <1>4, <2>1, <2>3, <2>4, IdleIds, AgreeStep
<1>5. ASSUME NEW g \in Groups, NEW t \in Threads, LeaveGroup(t, g) PROVE AgreeInv'
  <2>1. torn \subseteq torn' /\ overtakes' = overtakes
    BY <1>5 DEF LeaveGroup
  <2>2. \A h \in Groups \ torn' : GroupAgrees(h) => GroupAgrees(h)'
    BY <1>1, <1>5, LeaveAgrees
  <2> QED
    BY <1>1, <1>5, <2>1, <2>2, IdleIds, AgreeStep
<1>6. ASSUME NEW t \in Threads,
             \/ \E g \in Groups, c \in {"all", "one"} : SendGroupMessage(t, g, c)
             \/ PrepareNothing(t) \/ ListMembers(t) \/ ListOne(t) \/ SendBlocks(t)
      PROVE  AgreeInv'
  <2>1. torn \subseteq torn' /\ overtakes' = overtakes
    BY <1>6 DEF SendGroupMessage, PrepareNothing, ListMembers, ListOne, SendBlocks, hist, counts
  <2>2. \A h \in Groups \ torn' : GroupAgrees(h) => GroupAgrees(h)'
    BY <1>1, <1>6, ThreadAgrees
  <2>3. IdsOld'
    BY <1>1, <1>6, IdleIds
  <2> QED
    BY <2>1, <2>2, <2>3, AgreeStep
<1>7. ASSUME NEW g \in Groups, NEW t \in Threads, NEW p \in Peers, SendGroupCommandToMember(t, g, p)
      PROVE  AgreeInv'
  <2>1. Device(g, p) /\ UNCHANGED back /\ overtakes' = overtakes
    BY <1>7 DEF SendGroupCommandToMember
  <2>2. \A h \in Groups \ torn' : GroupAgrees(h) => GroupAgrees(h)'
    BY <1>1, <1>7, CommandAgrees
  <2>3. torn \subseteq torn'
    BY <2>1 DEF Device
  <2> QED
    BY <1>1, <2>1, <2>2, <2>3, DeviceIds, AgreeStep
<1>8. ASSUME NEW g \in Groups, NEW p \in Peers, Hello(g, p) PROVE AgreeInv'
  <2>1. torn' = torn /\ overtakes' = overtakes
    BY <1>8 DEF Hello
  <2>2. \A h \in Groups \ torn' : GroupAgrees(h) => GroupAgrees(h)'
    BY <1>1, <1>8, HelloAgrees
  <2> QED
    BY <1>1, <1>8, <2>1, <2>2, HelloIds, AgreeStep
<1>9. ASSUME NEW t \in Threads, Prepare(t) \/ PrepareFails(t) PROVE AgreeInv'
  <2>1. torn \subseteq torn' /\ overtakes' = overtakes
    BY <1>9 DEF Prepare, PrepareFails, counts
  <2>2. \A h \in Groups \ torn' : GroupAgrees(h) => GroupAgrees(h)'
    BY <1>1, <1>9, PrepareAgrees, PrepareFailsAgrees
  <2> QED
    BY <1>1, <1>9, <2>1, <2>2, PrepareIds, AgreeStep
<1>10. ASSUME NEW t \in Threads, NEW p \in Peers, SendToMember(t, p) PROVE AgreeInv'
  <2>1. /\ grp[t] \in Groups /\ Device(grp[t], p)
        /\ UNCHANGED back /\ overtakes' = overtakes
    BY <1>10 DEF SendToMember, counts, TypeOK, ThreadsType
  <2>2. \A h \in Groups \ torn' : GroupAgrees(h) => GroupAgrees(h)'
    BY <1>1, <1>10, MemberAgrees
  <2>3. torn \subseteq torn'
    BY <2>1 DEF Device
  <2> QED
    BY <1>1, <2>1, <2>2, <2>3, DeviceIds, AgreeStep
<1>11. ASSUME NEW t \in Threads, SendDone(t) PROVE AgreeInv'
  <2>1. torn \subseteq torn' /\ overtakes' = overtakes
    BY <1>11 DEF SendDone, counts
  <2>2. \A h \in Groups \ torn' : GroupAgrees(h) => GroupAgrees(h)'
    BY <1>1, <1>11, SendDoneAgrees
  <2> QED
    BY <1>1, <1>11, <2>1, <2>2, SendDoneIds, AgreeStep
<1>12. ASSUME NEW t \in Threads, ProcessLeaveGroup(t) PROVE AgreeInv'
  <2>1. PICK g \in Groups : g = grp[t]
    BY DEF TypeOK, ThreadsType
  <2>2. /\ Forget(g) /\ UNCHANGED <<net, back, peers>> /\ pc[t] = "leave"
        /\ \A u \in Threads \ {t} : pc'[u] = pc[u] /\ grp'[u] = grp[u] /\ todo'[u] = todo[u]
        /\ overtakes' = overtakes
    BY <1>12, <2>1 DEF ProcessLeaveGroup, counts, TypeOK, ThreadsType
  <2>3. \A h \in Groups, p \in Peers : ToSend(h, p) => ToSend(h, p)'
    BY <2>2, ToSendKept
  <2>4. \A h \in Groups \ torn' : GroupAgrees(h) => GroupAgrees(h)'
    BY <1>1, <2>2, <2>3, ForgetAgrees
  <2>5. torn \subseteq torn'
    BY <2>2 DEF Forget
  <2> QED
    BY <1>1, <1>12, <2>2, <2>4, <2>5, IdleIds, AgreeStep
<1>13. ASSUME NEW t \in Threads, Thread(t) PROVE AgreeInv'
  BY <1>6, <1>9, <1>10, <1>11, <1>12, <1>13 DEF Thread
<1>14. ASSUME NEW a \in back, TakeAcks(a) \/ TakeRequest(a) PROVE AgreeInv'
  <2>1. torn' = torn /\ overtakes' = overtakes
    BY <1>14 DEF TakeAcks, TakeRequest, hist, counts
  <2>2. \A h \in Groups \ torn' : GroupAgrees(h) => GroupAgrees(h)'
    BY <1>1, <1>14, TakeAcksAgrees, TakeRequestAgrees
  <2> QED
    BY <1>1, <1>14, <2>1, <2>2, IdleIds, AgreeStep
<1>15. ASSUME NEW p \in Peers, NEW k \in DOMAIN net[p], Peer(p, k) PROVE AgreeInv'
  <2>1. /\ Arrives(p, k) /\ k \in 1 .. Len(net[p])
        /\ UNCHANGED <<tables, memory, threads, hist>> /\ torn' = torn
        /\ net' = [net EXCEPT ![p] = Gone(@, k)]
        /\ overtakes' = IF k > 1 THEN overtakes + 1 ELSE overtakes
    BY <1>15, ArrivesType DEF Peer, PeerMessage, PeerUnknown, PeerChange, Arrives, hist
  <2>2. IdsOld'
    BY <1>1, <1>15, PeerChangeIds, IdleIds DEF Peer
  <2>3. CASE k > 1
    <3>1. overtakes' \in Nat /\ overtakes' # 0
      BY <1>1, <2>1, <2>3
    <3> QED
      BY <2>2, <3>1 DEF AgreeInv
  <2>4. CASE k = 1
    <3>1. CASE PeerChange(p, k)
      <4>1. \A h \in Groups : GroupAgrees(h) => GroupAgrees(h)'
        BY <1>1, <2>4, <3>1, PeerChangeAgrees
      <4> QED
        BY <2>1, <2>2, <2>4, <4>1, AgreeStep
    <3>2. CASE PeerMessage(p, k) \/ PeerUnknown(p, k)
      <4>1. list' = list /\ \A a \in back' : a \in back \/ a.acks = {}
        BY <3>2 DEF PeerMessage, PeerUnknown, peers, Reply
      <4>2. \A h \in Groups : GroupAgrees(h) => GroupAgrees(h)'
        BY <1>1, <2>1, <4>1, GoneAgrees
      <4> QED
        BY <2>1, <2>2, <2>4, <4>2, AgreeStep
    <3> QED
      BY <1>15, <3>1, <3>2 DEF Peer
  <2> QED
    BY <2>1, <2>3, <2>4
<1>16. CASE Lose
  <2>1. /\ UNCHANGED <<tables, memory, threads, hist, list>> /\ torn' = torn
        /\ overtakes' = overtakes
        /\ \/ UNCHANGED net
           \/ \E p \in Peers : \E k \in DOMAIN net[p] : net' = [net EXCEPT ![p] = Gone(@, k)]
        /\ \A a \in back' : a \in back
    BY <1>16 DEF Lose, peers, hist
  <2>2. \A h \in Groups : GroupAgrees(h) => GroupAgrees(h)'
    BY <1>1, <2>1, GoneAgrees
  <2> QED
    BY <1>1, <1>16, <2>1, <2>2, IdleIds, AgreeStep
<1>17. CASE Crash
  <2>1. torn \subseteq torn' /\ overtakes' = overtakes
    BY <1>17 DEF Crash
  <2>2. \A h \in Groups \ torn' : GroupAgrees(h) => GroupAgrees(h)'
    BY <1>1, <1>17, CrashAgrees
  <2> QED
    BY <1>1, <1>17, <2>1, <2>2, IdleIds, AgreeStep
<1>18. ASSUME NEW g \in Groups, NEW t \in Threads, NEW c \in {"all", "one"}, SendGroupMessage(t, g, c)
       PROVE  AgreeInv'
  BY <1>6, <1>18
<1> QED
  BY <1>2, <1>3, <1>4, <1>5, <1>7, <1>8, <1>13, <1>14, <1>15, <1>16, <1>17, <1>18, Steps

LEMMA AgreeFollows == TypeOK /\ AgreeInv => MembersAgree
<1> SUFFICES ASSUME TypeOK, AgreeInv, overtakes = 0, NEW g \in Groups, NEW p \in Peers,
                    Told(g, p), NoRows(g, p), <<g, p>> \notin quit \cup outside,
                    NEW u \in Users, <<g, u>> \notin quit \cup stale
             PROVE  u \in list[p][g] <=> u \in members[g]
  BY DEF MembersAgree
<1>1. Follows(g, p) /\ Insider(g, p) /\ Sound(g, u)
  BY DEF AgreeInv, GroupAgrees, Told, Insider, Sound
<1>2. Applied(g, p, u) \/ ToTell(g, p, u) \/ RowHeld(g, p, u)
  BY <1>1 DEF Follows
<1>3. ~ToTell(g, p, u)
  BY DEF Told, ToTell, ToSend
<1>4. ~RowHeld(g, p, u)
  BY DEF NoRows, RowHeld, RowHolds, Row
<1> QED
  BY <1>2, <1>3, <1>4 DEF Applied

\* MembersAgree for every number of peers, groups and threads: who was in the
\* group and has acknowledged everything has the members of this device, but for
\* the users that createChangeSetDevice copied against the table of members.
THEOREM MembersFollow == Spec => []MembersAgree
<1>1. Init => TypeOK /\ AckInv /\ AgreeInv
  BY TypeInit, AckInit, AgreeInit
<1>2. TypeOK /\ AckInv /\ AgreeInv /\ [Next]_vars => (TypeOK /\ AckInv /\ AgreeInv)'
  BY TypeStep, AckNext, AgreeNext
<1>3. TypeOK /\ AckInv /\ AgreeInv => MembersAgree
  BY AgreeFollows
<1> QED
  BY <1>1, <1>2, <1>3, PTL DEF Spec
============================================================================
