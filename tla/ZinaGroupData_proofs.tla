----------------------- MODULE ZinaGroupData_proofs -----------------------
(* Theorems about ZinaGroupData, for every group and every bound.          *)
EXTENDS ZinaGroupData, FiniteSetTheorems, TLAPS

USE ConstantsAssumption

LEMMA ClockTypes ==
  ASSUME NEW c \in Clocks, NEW d \in Devices
  PROVE  Increment(c, d) \in Clocks /\ Empty \in Clocks
  BY DEF Clocks, Increment, Empty

LEMMA UpdateTypes ==
  ASSUME NEW c \in Clocks, NEW i \in Ids, NEW n \in Names
  PROVE  /\ Update(c, i, n) \in Updates
         /\ Update(c, i, n).clock = c /\ Update(c, i, n).name = n
         /\ Update(c, i, n).id = i
  BY DEF Update, Updates

\* What a change set carries is what was put into it.
LEMMA LetterTypes ==
  ASSUME NEW u \in Updates, NEW S \in SUBSET Devices, NEW m \in To(S, u)
  PROVE  m \in Letters /\ m.clock = u.clock /\ m.name = u.name /\ m.id = u.id
  BY DEF To, Updates, Letters

LEMMA FreshIdType == FreshIds \subseteq Ids
  BY DEF FreshIds, Ids

\* If one thread may work at a time, a thread starts when all are idle.
LEMMA OpensAlone ==
  ASSUME MaxOpen <= 1, Opens, NEW d \in Devices
  PROVE  Idle(d)
<1>1. IsFiniteSet({1, 2})
  <2>1. IsFiniteSet({1})
    BY FS_Singleton
  <2>2. IsFiniteSet({1} \cup {2})
    BY <2>1, FS_AddElement
  <2>3. {1, 2} = {1} \cup {2}
    OBVIOUS
  <2> QED
    BY <2>2, <2>3
<1>2. IsFiniteSet(Devices \X {1, 2})
  BY <1>1, FS_Product
<1>3. Open \in SUBSET (Devices \X {1, 2})
  BY DEF Open
<1>4. IsFiniteSet(Open)
  BY <1>2, <1>3, FS_Subset
<1>5. Cardinality(Open) = 0
  BY <1>4, FS_CardinalityType DEF Opens
<1>6. Open = {}
  BY <1>4, <1>5, FS_EmptySet
<1> QED
  BY <1>6 DEF Open, Idle

----------------------------------------------------------------------------
(* Types.                                                                  *)

Typed == TypeOK /\ RegType /\ Len(made) <= MaxChanges

LEMMA TypeInit == Init => Typed
<1> SUFFICES ASSUME Init PROVE Typed
  OBVIOUS
<1>1. Empty \in Clocks
  BY DEF Empty, Clocks
<1>2. made \in Seq([clock : Clocks, id : Ids, after : SUBSET Names]) /\ Len(made) = 0
  BY DEF Init
<1>3. TypeOK
  BY <1>1, <1>2 DEF Init, TypeOK, Names, Ids, Letters
<1>4. RegType
  BY DEF Init, RegType
<1> QED
  BY <1>2, <1>3, <1>4 DEF Typed

LEMMA TypeStep == Typed /\ [Next]_vars => Typed'
<1> SUFFICES ASSUME Typed, [Next]_vars PROVE Typed'
  OBVIOUS
<1> USE DEF Typed
<1>1. CASE UNCHANGED vars
  BY <1>1 DEF vars, tables, TypeOK, RegType
<1>2. ASSUME NEW d \in Devices, ChangeRead(d) PROVE Typed'
  <2>1. PICK i \in FreshIds :
          /\ areg' = [areg EXCEPT ![d] = Update(Increment(clock[d], d), i, Len(made) + 1)]
          /\ made' = Append(made, [clock |-> Update(Increment(clock[d], d), i, Len(made) + 1).clock,
                                   id |-> i, after |-> seen[d]])
    BY <1>2 DEF ChangeRead
  <2>2. /\ Len(made) + 1 \in Names /\ Len(made) + 1 # 0 /\ i \in Ids
        /\ Increment(clock[d], d) \in Clocks
    BY <1>2, FreshIdType, ClockTypes DEF ChangeRead, TypeOK, Names
  <2> DEFINE u == Update(Increment(clock[d], d), i, Len(made) + 1)
  <2>3. u \in Updates /\ u.clock \in Clocks /\ u.name # 0
    BY <2>2, UpdateTypes
  <2>4. [clock |-> u.clock, id |-> i, after |-> seen[d]]
            \in [clock : Clocks, id : Ids, after : SUBSET Names]
    BY <2>2, <2>3 DEF TypeOK
  <2>5. /\ made' \in Seq([clock : Clocks, id : Ids, after : SUBSET Names])
        /\ Len(made') <= MaxChanges
    <3> HIDE DEF u
    <3> QED
      BY <1>2, <2>1, <2>4 DEF ChangeRead, TypeOK, u
  <2>6. areg' \in [Devices -> Updates \cup {NoMsg}]
    BY <2>1, <2>3 DEF TypeOK
  <2>7. TypeOK'
    BY <1>2, <2>5, <2>6 DEF ChangeRead, TypeOK, tables
  <2>8. RegType'
    <3> SUFFICES ASSUME NEW x \in Devices
                 PROVE /\ apc'[x] # "idle" => areg'[x] \in Updates /\ areg'[x].name # 0
                       /\ qpc'[x] # "idle" => qmsg'[x] \in Letters
      BY DEF RegType
    <3> HIDE DEF u
    <3>1. areg' = [areg EXCEPT ![d] = u]
      BY <2>1 DEF u
    <3> QED
      BY <1>2, <3>1, <2>3 DEF ChangeRead, TypeOK, RegType
  <2> QED
    BY <2>5, <2>7, <2>8
<1>3. ASSUME NEW d \in Devices, ChangeStore(d) PROVE Typed'
  <2>1. areg[d] \in Updates
    BY <1>3 DEF ChangeStore, RegType
  <2>2. TypeOK'
    BY <1>3, <2>1 DEF ChangeStore, TypeOK, Updates
  <2>3. RegType'
    BY <1>3 DEF ChangeStore, TypeOK, RegType
  <2> QED
    BY <1>3, <2>2, <2>3 DEF ChangeStore
<1>4. ASSUME NEW d \in Devices, ChangeName(d) PROVE Typed'
  <2>1. areg[d] \in Updates
    BY <1>4 DEF ChangeName, RegType
  <2>2. net' \subseteq Letters
    BY <1>4, <2>1, LetterTypes DEF ChangeName, TypeOK
  <2>3. TypeOK'
    BY <1>4, <2>1, <2>2 DEF ChangeName, TypeOK, Updates
  <2>4. RegType'
    BY <1>4 DEF ChangeName, TypeOK, RegType
  <2> QED
    BY <1>4, <2>3, <2>4 DEF ChangeName
<1>5. ASSUME NEW m \in net, Receive(m.to, m) PROVE Typed'
  <2>1. m \in Letters /\ m.to \in Devices /\ m.name \in Names
    BY DEF TypeOK, Letters
  <2>2. seen' \in [Devices -> SUBSET Names]
    BY <1>5, <2>1 DEF Receive, TypeOK
  <2>3. qpc' \in [Devices -> {"idle", "accepted", "named"}]
    BY <1>5, <2>1 DEF Receive, TypeOK
  <2>4. qmsg' \in [Devices -> Letters \cup {NoMsg}]
    BY <1>5, <2>1 DEF Receive, TypeOK
  <2>5. TypeOK'
    BY <1>5, <2>2, <2>3, <2>4 DEF Receive, TypeOK, tables
  <2>6. RegType'
    BY <1>5, <2>1 DEF Receive, TypeOK, RegType
  <2> QED
    BY <1>5, <2>5, <2>6 DEF Receive
<1>6. ASSUME NEW d \in Devices, ReceiveName(d) PROVE Typed'
  <2>1. qmsg[d] \in Letters
    BY <1>6 DEF ReceiveName, RegType
  <2>2. TypeOK'
    BY <1>6, <2>1 DEF ReceiveName, TypeOK, Letters
  <2>3. RegType'
    BY <1>6 DEF ReceiveName, TypeOK, RegType
  <2> QED
    BY <1>6, <2>2, <2>3 DEF ReceiveName
<1>7. ASSUME NEW d \in Devices, ReceiveStore(d) PROVE Typed'
  <2>1. qmsg[d] \in Letters
    BY <1>7 DEF ReceiveStore, RegType
  <2>2. TypeOK'
    BY <1>7, <2>1 DEF ReceiveStore, TypeOK, Letters
  <2>3. RegType'
    BY <1>7 DEF ReceiveStore, TypeOK, RegType
  <2> QED
    BY <1>7, <2>2, <2>3 DEF ReceiveStore
<1>8. ASSUME NEW d \in Devices, NEW S \in SUBSET (Devices \ {d}), Tell(d, S) PROVE Typed'
  <2>1. PICK i \in FreshIds : /\ net' = net \cup To(S, Update(clock[d], i, name[d]))
                              /\ told' = told \cup {i}
    BY <1>8 DEF Tell
  <2>2. i \in Ids /\ clock[d] \in Clocks /\ name[d] \in Names
    BY FreshIdType DEF TypeOK
  <2>3. Update(clock[d], i, name[d]) \in Updates
    BY <2>2, UpdateTypes
  <2>4. net' \subseteq Letters
    BY <2>1, <2>3, LetterTypes DEF TypeOK
  <2>5. TypeOK'
    BY <1>8, <2>1, <2>2, <2>4 DEF Tell, TypeOK, tables
  <2>6. RegType'
    BY <1>8 DEF Tell, RegType
  <2> QED
    BY <1>8, <2>5, <2>6 DEF Tell
<1> QED
  BY <1>1, <1>2, <1>3, <1>4, <1>5, <1>6, <1>7, <1>8 DEF Next

\* Tables, threads and change sets keep their types (prepareChangeSetSend,
\* processUpdateName, addMissingMetaData), however the threads overlap.
THEOREM TypeCorrect == Spec => []TypeOK
<1>1. Typed => TypeOK
  BY DEF Typed
<1> QED
  BY <1>1, TypeInit, TypeStep, PTL DEF Spec

----------------------------------------------------------------------------
(* The clock and the name.                                                 *)

DataInv == Typed /\ MadeInv /\ Alone /\ TableInv

LEMMA DataInit == Init => DataInv
<1> SUFFICES ASSUME Init PROVE DataInv
  OBVIOUS
<1>1. MadeInv
  BY DEF Init, MadeInv, MadeBy
<1>2. Alone /\ TableInv
  BY DEF Init, Alone, TableInv, ClockOf, Empty
<1> QED
  BY <1>1, <1>2, TypeInit DEF DataInv

\* A step that makes no change of the name leaves the clocks of the changes.
LEMMA ClocksStay ==
  ASSUME made' = made
  PROVE  /\ \A n : ClockOf(n)' = ClockOf(n)
         /\ \A u : MadeBy(u)' <=> u.name \in 0 .. Len(made) /\ u.clock = ClockOf(u.name)
  BY DEF ClockOf, MadeBy

LEMMA DataStep ==
  ASSUME MaxOpen <= 1, DataInv, [Next]_vars
  PROVE  DataInv'
<1> USE DEF DataInv
<1>0. Typed' /\ TypeOK /\ RegType
  BY TypeStep DEF Typed
<1>1. CASE UNCHANGED vars
  <2>1. MadeInv'
    BY <1>1 DEF vars, tables, MadeInv, MadeBy, ClockOf
  <2>2. Alone' /\ TableInv'
    BY <1>1 DEF vars, tables, Alone, TableInv, ClockOf
  <2> QED
    BY <1>0, <2>1, <2>2
<1>2. ASSUME NEW d \in Devices, ChangeRead(d) PROVE DataInv'
  <2> DEFINE n == Len(made) + 1
  <2>1. PICK i \in FreshIds :
          /\ areg' = [areg EXCEPT ![d] = Update(Increment(clock[d], d), i, n)]
          /\ made' = Append(made, [clock |-> Update(Increment(clock[d], d), i, n).clock,
                                   id |-> i, after |-> seen[d]])
    BY <1>2 DEF ChangeRead
  <2>a. Update(Increment(clock[d], d), i, n).name = n
    BY DEF Update
  <2>2. PICK u : u = Update(Increment(clock[d], d), i, n) /\ u.name = n
    BY <2>a, Zenon
  <2>3. /\ areg' = [areg EXCEPT ![d] = u]
        /\ made' = Append(made, [clock |-> u.clock, id |-> i, after |-> seen[d]])
    BY <2>1, <2>2
  <2>4. Len(made) \in Nat /\ Len(made') = n /\ n <= MaxChanges
    BY <1>0, <1>2, <2>3 DEF ChangeRead, TypeOK
  <2>5. \A k \in 0 .. Len(made) : ClockOf(k)' = ClockOf(k)
    BY <1>0, <2>3, <2>4 DEF ClockOf, TypeOK
  <2>6. MadeBy(u)'
    <3>1. made'[n] = [clock |-> u.clock, id |-> i, after |-> seen[d]]
      BY <1>0, <2>3, <2>4 DEF TypeOK
    <3> QED
      BY <2>2, <2>4, <3>1 DEF MadeBy, ClockOf
  <2>7. \A v : MadeBy(v) => (v.name \in 0 .. Len(made') /\ v.clock = ClockOf(v.name)')
    BY <2>4, <2>5 DEF MadeBy
  <2>8. MadeInv'
    <3>1. areg'[d] = u /\ \A x \in Devices \ {d} : areg'[x] = areg[x] /\ apc'[x] = apc[x]
      BY <1>0, <1>2, <2>3 DEF ChangeRead, TypeOK
    <3>2. ASSUME NEW x \in Devices, apc'[x] # "idle" PROVE MadeBy(areg[x])'
      <4>1. CASE x = d
        BY <2>6, <3>1, <4>1 DEF MadeBy
      <4>2. CASE x # d
        <5>1. areg'[x] = areg[x] /\ MadeBy(areg[x])
          BY <3>1, <3>2, <4>2 DEF MadeInv
        <5> QED
          BY <2>7, <5>1 DEF MadeBy
      <4> QED
        BY <4>1, <4>2
    <3>3. \A x \in Devices : qpc'[x] # "idle" => MadeBy(qmsg[x])'
      BY <1>2, <2>7 DEF ChangeRead, MadeInv, MadeBy
    <3>4. \A m \in net' : MadeBy(m)'
      BY <1>2, <2>7 DEF ChangeRead, MadeInv, MadeBy
    <3>5. \A x \in Devices : name'[x] \in 0 .. Len(made')
      BY <1>2, <2>4 DEF ChangeRead, MadeInv, tables
    <3> QED
      BY <2>4, <3>2, <3>3, <3>4, <3>5 DEF MadeInv
  <2>9. Alone'
    BY <1>0, <1>2, OpensAlone DEF ChangeRead, Alone, Idle, TypeOK
  <2>10. TableInv'
    <3> SUFFICES ASSUME NEW x \in Devices
                 PROVE /\ apc'[x] # "stored" /\ qpc'[x] # "named" => clock'[x] = ClockOf(name[x])'
                       /\ apc'[x] = "stored" => clock'[x] = areg'[x].clock
                       /\ qpc'[x] = "named" => name'[x] = qmsg'[x].name
      BY DEF TableInv
    <3>1. ClockOf(name[x])' = ClockOf(name[x])
      BY <1>2, <2>5 DEF ChangeRead, tables, MadeInv, ClockOf
    <3> QED
      BY <1>0, <1>2, <2>3, <3>1 DEF ChangeRead, tables, TableInv, TypeOK
  <2> QED
    BY <1>0, <2>8, <2>9, <2>10
<1>3. ASSUME NEW d \in Devices, ChangeStore(d) PROVE DataInv'
  <2>1. MadeInv'
    BY <1>0, <1>3 DEF ChangeStore, MadeInv, MadeBy, ClockOf, TypeOK
  <2>2. Alone'
    BY <1>0, <1>3 DEF ChangeStore, Alone, TypeOK
  <2>3. TableInv'
    BY <1>0, <1>3 DEF ChangeStore, TableInv, Alone, ClockOf, TypeOK
  <2> QED
    BY <1>0, <2>1, <2>2, <2>3
<1>4. ASSUME NEW d \in Devices, ChangeName(d) PROVE DataInv'
  <2>1. areg[d] \in Updates /\ MadeBy(areg[d]) /\ apc[d] = "stored"
    BY <1>0, <1>4 DEF ChangeName, RegType, MadeInv
  <2>2. \A m \in To(Devices \ {d}, areg[d]) : MadeBy(m)
    BY <2>1, LetterTypes DEF MadeBy
  <2>3. MadeInv'
    BY <1>0, <1>4, <2>1, <2>2 DEF ChangeName, MadeInv, MadeBy, ClockOf, TypeOK
  <2>4. Alone'
    BY <1>0, <1>4 DEF ChangeName, Alone, TypeOK
  <2>5. TableInv'
    BY <1>0, <1>4, <2>1 DEF ChangeName, TableInv, Alone, MadeBy, ClockOf, TypeOK
  <2> QED
    BY <1>0, <2>3, <2>4, <2>5
<1>5. ASSUME NEW m \in net, Receive(m.to, m) PROVE DataInv'
  <2>1. m.to \in Devices /\ MadeBy(m)
    BY <1>0 DEF TypeOK, Letters, MadeInv
  <2>2. MadeInv'
    BY <1>0, <1>5, <2>1 DEF Receive, MadeInv, MadeBy, ClockOf, TypeOK, tables
  <2>3. Alone'
    BY <1>0, <1>5, <2>1, OpensAlone DEF Receive, Alone, Idle, TypeOK
  <2>4. TableInv'
    BY <1>0, <1>5, <2>1 DEF Receive, TableInv, ClockOf, TypeOK, tables
  <2> QED
    BY <1>0, <2>2, <2>3, <2>4
<1>6. ASSUME NEW d \in Devices, ReceiveName(d) PROVE DataInv'
  <2>1. MadeInv'
    BY <1>0, <1>6 DEF ReceiveName, MadeInv, MadeBy, ClockOf, TypeOK
  <2>2. Alone'
    BY <1>0, <1>6 DEF ReceiveName, Alone, TypeOK
  <2>3. TableInv'
    BY <1>0, <1>6 DEF ReceiveName, TableInv, Alone, ClockOf, TypeOK
  <2> QED
    BY <1>0, <2>1, <2>2, <2>3
<1>7. ASSUME NEW d \in Devices, ReceiveStore(d) PROVE DataInv'
  <2>1. MadeBy(qmsg[d])
    BY <1>7 DEF ReceiveStore, MadeInv
  <2>2. MadeInv'
    BY <1>0, <1>7 DEF ReceiveStore, MadeInv, MadeBy, ClockOf, TypeOK
  <2>3. Alone'
    BY <1>0, <1>7 DEF ReceiveStore, Alone, TypeOK
  <2>4. TableInv'
    BY <1>0, <1>7, <2>1 DEF ReceiveStore, TableInv, Alone, MadeBy, ClockOf, TypeOK
  <2> QED
    BY <1>0, <2>2, <2>3, <2>4
<1>8. ASSUME NEW d \in Devices, NEW S \in SUBSET (Devices \ {d}), Tell(d, S) PROVE DataInv'
  <2>1. PICK i \in FreshIds : net' = net \cup To(S, Update(clock[d], i, name[d]))
    BY <1>8 DEF Tell
  <2>2. Update(clock[d], i, name[d]) \in Updates /\ Update(clock[d], i, name[d]).clock = clock[d]
        /\ Update(clock[d], i, name[d]).name = name[d]
    BY <1>0, FreshIdType, UpdateTypes DEF TypeOK
  <2>3. clock[d] = ClockOf(name[d])
    BY <1>8, OpensAlone DEF Tell, TableInv, Idle
  <2>4. \A m \in To(S, Update(clock[d], i, name[d])) : m.clock = ClockOf(m.name) /\ m.name = name[d]
    BY <2>2, <2>3, LetterTypes
  <2>5. MadeInv'
    BY <1>0, <1>8, <2>1, <2>4 DEF Tell, MadeInv, MadeBy, ClockOf, tables
  <2>6. Alone' /\ TableInv'
    BY <1>8 DEF Tell, Alone, TableInv, ClockOf, tables
  <2> QED
    BY <1>0, <2>5, <2>6
<1> QED
  BY <1>1, <1>2, <1>3, <1>4, <1>5, <1>6, <1>7, <1>8 DEF Next

\* If the operations on a device do not overlap, the stored clock is the one of
\* the change the stored name came with (processUpdateName,
\* prepareChangeSetSend), for any number of devices and changes.
THEOREM ClocksMatchNames == ASSUME MaxOpen <= 1 PROVE Spec => []NameMatchesClock
<1>1. DataInv => NameMatchesClock
  BY DEF DataInv, TableInv, NameMatchesClock, Idle
<1>2. DataInv /\ [Next]_vars => DataInv'
  BY DataStep
<1> QED
  BY <1>1, <1>2, DataInit, PTL DEF Spec
----------------------------------------------------------------------------
(* What is shown.                                                          *)

\* What a change counts for, and the update id it was made with.
Total(n) == Sum(ClockOf(n))
IdOf(n)  == IF n = 0 THEN 0 ELSE made[n].id

\* A change counts for more than those its author knew of, and has an update id
\* of its own.
RankInv ==
    /\ \A n \in DOMAIN made : 0 < Total(n) /\ 0 < made[n].id
    /\ \A n, k \in DOMAIN made : made[n].id = made[k].id => n = k
    /\ \A n \in DOMAIN made : \A k \in made[n].after : k \in DOMAIN made /\ Total(k) < Total(n)

\* The clock a device has counts for as much as all it has seen, the one it is
\* about to store for more, or as much and under a greater update id.
SeenOK(d) ==
    /\ \A k \in seen[d] : k \in DOMAIN made /\ Total(k) <= Sum(clock[d])
    /\ apc[d] = "read" => Sum(clock[d]) < Sum(areg[d].clock)
    /\ qpc[d] # "idle" => \/ Sum(clock[d]) < Sum(qmsg[d].clock)
                          \/ Sum(clock[d]) = Sum(qmsg[d].clock) /\ id[d] < qmsg[d].id
SeenInv == \A d \in Devices : SeenOK(d)

\* Without repeated change sets update ids are those of the changes.
IdsOK(d) ==
    /\ apc[d] # "idle" => areg[d].id = IdOf(areg[d].name)
    /\ qpc[d] # "idle" => qmsg[d].id = IdOf(qmsg[d].name)
    /\ apc[d] = "stored" => id[d] = areg[d].id
    /\ apc[d] # "stored" /\ qpc[d] # "named" => id[d] = IdOf(name[d])
IdsInv ==
    told = {} =>
        /\ \A m \in net : m.id = IdOf(m.name)
        /\ \A d \in Devices : IdsOK(d)

\* Of the changes a device has seen that count for as much as the one it has,
\* none has a greater update id.
TieOK(d) == \A k \in seen[d] : Total(k) = Sum(clock[d]) => IdOf(k) <= id[d]
TieInv == told = {} /\ EqualClocksEqualData => \A d \in Devices : TieOK(d)

\* A change a device has not seen is on its way to it.
Coming(n, d) ==
    \/ n \in seen[d]
    \/ \E e \in Devices : apc[e] # "idle" /\ areg[e].name = n
    \/ qpc[d] # "idle" /\ qmsg[d].name = n
    \/ \E m \in net : m.to = d /\ m.name = n
ComingInv == \A n \in DOMAIN made : \A d \in Devices : Coming(n, d)

ShownInv == RankInv /\ SeenInv /\ IdsInv /\ TieInv /\ ComingInv

LEMMA CountedFinite ==
  ASSUME NEW c \in Clocks
  PROVE  IsFiniteSet(Counted(c)) /\ Sum(c) \in Nat
<1> DEFINE f == [d \in Devices |-> {d} \X (1 .. c[d])]
           T == {{d} \X (1 .. c[d]) : d \in Devices}
<1>1. f \in Surjection(Devices, T)
  BY DEF Surjection
<1>2. IsFiniteSet(T)
  BY <1>1, FS_Surjection
<1>3. ASSUME NEW d \in Devices PROVE IsFiniteSet({d} \X (1 .. c[d]))
  <2>1. c[d] \in Nat
    BY DEF Clocks
  <2>2. IsFiniteSet({d})
    BY FS_Singleton
  <2>3. IsFiniteSet(1 .. c[d])
    BY <2>1, FS_Interval
  <2> QED
    BY <2>2, <2>3, FS_Product
<1>4. IsFiniteSet(UNION T)
  <2>1. \A S \in T : IsFiniteSet(S)
    BY <1>3
  <2> HIDE DEF T
  <2> QED
    BY <1>2, <2>1, FS_UNION
<1>5. Counted(c) = UNION T
  BY DEF Counted
<1> QED
  BY <1>4, <1>5, FS_CardinalityType DEF Sum

\* The sum of a clock grows with it.
LEMMA SumGrows ==
  ASSUME NEW x \in Clocks, NEW c \in Clocks, AtMost(x, c)
  PROVE  Sum(x) <= Sum(c) /\ (x # c => Sum(x) < Sum(c))
<1>1. IsFiniteSet(Counted(c)) /\ Sum(c) \in Nat /\ Sum(x) \in Nat
  BY CountedFinite
<1>2. \A d \in Devices : x[d] \in Nat /\ c[d] \in Nat /\ x[d] <= c[d]
  BY DEF Clocks, AtMost
<1>3. Counted(x) \in SUBSET Counted(c)
  BY <1>2 DEF Counted
<1>4. Sum(x) <= Sum(c) /\ (Sum(x) = Sum(c) => Counted(x) = Counted(c))
  BY <1>1, <1>3, FS_Subset DEF Sum
<1>5. ASSUME x # c PROVE Counted(x) # Counted(c)
  <2>1. PICK d \in Devices : x[d] # c[d]
    BY <1>5 DEF Clocks
  <2>2. x[d] < c[d] /\ c[d] \in 1 .. c[d]
    BY <1>2, <2>1
  <2>3. <<d, c[d]>> \in Counted(c)
    BY <2>2 DEF Counted
  <2>4. <<d, c[d]>> \notin Counted(x)
    BY <1>2, <2>2 DEF Counted
  <2> QED
    BY <2>3, <2>4
<1> QED
  BY <1>1, <1>4, <1>5

LEMMA SumOfIncrement ==
  ASSUME NEW c \in Clocks, NEW d \in Devices
  PROVE  Sum(c) < Sum(Increment(c, d))
<1>1. Increment(c, d) \in Clocks /\ \A x \in Devices : c[x] \in Nat
  BY ClockTypes DEF Clocks
<1>2. AtMost(c, Increment(c, d)) /\ c # Increment(c, d)
  BY <1>1 DEF AtMost, Increment, Clocks
<1> QED
  BY <1>1, <1>2, SumGrows

LEMMA ElementType ==
  ASSUME NEW T, NEW s \in Seq(T), NEW n \in 1 .. Len(s)
  PROVE  s[n] \in T
  OBVIOUS

LEMMA TotalTypes ==
  ASSUME TypeOK, NEW n \in 0 .. Len(made)
  PROVE  ClockOf(n) \in Clocks /\ Total(n) \in Nat
<1>1. ClockOf(n) \in Clocks
  <2>1. CASE n = 0
    BY <2>1 DEF ClockOf, Empty, Clocks
  <2>2. CASE n # 0
    <3>1. n \in 1 .. Len(made) /\ made \in Seq([clock : Clocks, id : Ids, after : SUBSET Names])
      BY <2>2 DEF TypeOK
    <3>2. made[n] \in [clock : Clocks, id : Ids, after : SUBSET Names]
      BY <3>1, ElementType
    <3> QED
      BY <2>2, <3>2 DEF ClockOf
  <2> QED
    BY <2>1, <2>2
<1> QED
  BY <1>1, CountedFinite DEF Total

\* A change set that is taken counts for more than what the device has, or for
\* as much under a greater update id; one that is not taken counts for less, or
\* for as much, and then it is the same change or has no greater id.
LEMMA Decided ==
  ASSUME TypeOK, NEW m \in net, NEW d \in Devices
  PROVE  /\ Accepts(m, d) => \/ Sum(clock[d]) < Sum(m.clock)
                             \/ Sum(clock[d]) = Sum(m.clock) /\ id[d] < m.id
         /\ ~Accepts(m, d) => \/ Sum(m.clock) < Sum(clock[d])
                              \/ /\ Sum(m.clock) = Sum(clock[d])
                                 /\ m.clock = clock[d] \/ m.id <= id[d]
<1>1. /\ m.clock \in Clocks /\ clock[d] \in Clocks
      /\ m.id \in Nat /\ id[d] \in Nat
  BY DEF TypeOK, Letters, Ids
<1>2. Sum(m.clock) \in Nat /\ Sum(clock[d]) \in Nat
  BY <1>1, CountedFinite
<1>3. CASE AtMost(m.clock, clock[d])
  <2>1. Sum(m.clock) <= Sum(clock[d]) /\ (m.clock # clock[d] => Sum(m.clock) < Sum(clock[d]))
    BY <1>1, <1>3, SumGrows
  <2>2. CASE m.clock = clock[d]
    BY <1>3, <2>2 DEF Accepts, After, Concurrent
  <2>3. CASE m.clock # clock[d]
    <3>1. ~AtMost(clock[d], m.clock)
      <4> SUFFICES ASSUME AtMost(clock[d], m.clock) PROVE FALSE
        OBVIOUS
      <4>1. Sum(clock[d]) <= Sum(m.clock)
        BY <1>1, SumGrows
      <4> QED
        BY <1>2, <2>1, <2>3, <4>1
    <3> QED
      BY <1>3, <2>1, <2>3, <3>1 DEF Accepts, After, Concurrent
  <2> QED
    BY <2>2, <2>3
<1>4. CASE ~AtMost(m.clock, clock[d]) /\ AtMost(clock[d], m.clock)
  <2>1. clock[d] # m.clock
    BY <1>4
  <2>2. Sum(clock[d]) < Sum(m.clock)
    BY <1>1, <1>4, <2>1, SumGrows
  <2> QED
    BY <1>4, <2>1, <2>2 DEF Accepts, After
<1>5. CASE ~AtMost(m.clock, clock[d]) /\ ~AtMost(clock[d], m.clock)
  <2>1. Accepts(m, d) <=> Wins(m, d)
    BY <1>5 DEF Accepts, After, Concurrent
  <2> QED
    BY <1>1, <1>2, <2>1 DEF Wins
<1> QED
  BY <1>3, <1>4, <1>5

LEMMA ShownInit == Init => ShownInv
<1> SUFFICES ASSUME Init PROVE ShownInv
  OBVIOUS
<1>1. DOMAIN made = {}
  BY DEF Init
<1>2. RankInv /\ ComingInv
  BY <1>1 DEF RankInv, ComingInv
<1>3. SeenInv
  BY <1>1 DEF Init, SeenInv, SeenOK
<1>4. IdsInv /\ TieInv
  BY DEF Init, IdsInv, IdsOK, TieInv, TieOK, IdOf
<1> QED
  BY <1>2, <1>3, <1>4 DEF ShownInv

LEMMA SameChanges ==
  ASSUME made' = made
  PROVE  /\ \A n : Total(n)' = Total(n) /\ IdOf(n)' = IdOf(n)
         /\ EqualClocksEqualData' <=> EqualClocksEqualData
         /\ RankInv' <=> RankInv
<1>1. \A n : Total(n)' = Total(n) /\ IdOf(n)' = IdOf(n)
  BY DEF Total, ClockOf, IdOf
<1>2. EqualClocksEqualData' <=> EqualClocksEqualData
  BY DEF EqualClocksEqualData
<1>3. RankInv' <=> RankInv
  BY <1>1 DEF RankInv
<1> QED
  BY <1>1, <1>2, <1>3

LEMMA AppendIs ==
  ASSUME NEW T, NEW s \in Seq(T), NEW e
  PROVE  /\ DOMAIN Append(s, e) = 1 .. Len(s) + 1
         /\ Append(s, e)[Len(s) + 1] = e
         /\ \A k \in DOMAIN s : Append(s, e)[k] = s[k]
  OBVIOUS

\* The change a device makes has a clock that counts for more than its own, and
\* a new update id; the changes of before stay.
NewChange(d, u) ==
    /\ areg' = [areg EXCEPT ![d] = u]
    /\ u.name = Len(made) + 1
    /\ u.clock \in Clocks /\ Sum(clock[d]) < Sum(u.clock)
    /\ u.id \in FreshIds
    /\ DOMAIN made' = DOMAIN made \cup {u.name} /\ u.name \notin DOMAIN made
    /\ made'[u.name] = [clock |-> u.clock, id |-> u.id, after |-> seen[d]]
    /\ \A k \in DOMAIN made : made'[k] = made[k]
    /\ Total(u.name)' = Sum(u.clock) /\ IdOf(u.name)' = u.id
    /\ \A k \in 0 .. Len(made) : Total(k)' = Total(k) /\ IdOf(k)' = IdOf(k)

LEMMA ChangeIs ==
  ASSUME TypeOK, NEW d \in Devices, ChangeRead(d)
  PROVE  \E u : NewChange(d, u)
<1>1. PICK i \in FreshIds :
        /\ areg' = [areg EXCEPT ![d] = Update(Increment(clock[d], d), i, Len(made) + 1)]
        /\ made' = Append(made, [clock |-> Update(Increment(clock[d], d), i, Len(made) + 1).clock,
                                 id |-> i, after |-> seen[d]])
  BY DEF ChangeRead
<1>2. PICK u : /\ u = Update(Increment(clock[d], d), i, Len(made) + 1)
               /\ u.name = Len(made) + 1 /\ u.id = i /\ u.clock = Increment(clock[d], d)
  <2> DEFINE w == Update(Increment(clock[d], d), i, Len(made) + 1)
  <2>1. w.name = Len(made) + 1 /\ w.id = i /\ w.clock = Increment(clock[d], d)
    BY DEF Update
  <2> HIDE DEF w
  <2>2. \E u : u = w /\ u.name = Len(made) + 1 /\ u.id = i /\ u.clock = Increment(clock[d], d)
    BY <2>1
  <2> QED
    BY <2>2 DEF w
<1>3. PICK v : v = [clock |-> u.clock, id |-> u.id, after |-> seen[d]]
  OBVIOUS
<1>4. areg' = [areg EXCEPT ![d] = u] /\ made' = Append(made, v)
  BY <1>1, <1>2, <1>3
<1>5. u.clock \in Clocks /\ Sum(clock[d]) < Sum(u.clock)
  BY <1>2, SumOfIncrement, ClockTypes DEF TypeOK
<1>6. /\ Len(made) \in Nat /\ DOMAIN made = 1 .. Len(made)
      /\ made \in Seq([clock : Clocks, id : Ids, after : SUBSET Names])
  BY DEF TypeOK
<1>7. DOMAIN made' = 1 .. Len(made) + 1 /\ made'[u.name] = v
      /\ \A k \in DOMAIN made : made'[k] = made[k]
  BY <1>2, <1>4, <1>6, AppendIs
<1>8. DOMAIN made' = DOMAIN made \cup {u.name} /\ u.name \notin DOMAIN made
  BY <1>2, <1>6, <1>7
<1>9. Total(u.name)' = Sum(u.clock) /\ IdOf(u.name)' = u.id
  BY <1>2, <1>3, <1>6, <1>7 DEF Total, ClockOf, IdOf
<1>10. \A k \in 0 .. Len(made) : Total(k)' = Total(k) /\ IdOf(k)' = IdOf(k)
  BY <1>6, <1>7 DEF Total, ClockOf, IdOf
<1> QED
  BY <1>1, <1>2, <1>3, <1>4, <1>5, <1>7, <1>8, <1>9, <1>10 DEF NewChange

LEMMA FreshIdNew ==
  ASSUME TypeOK, NEW i \in FreshIds
  PROVE  i \in Nat /\ 0 < i /\ \A n \in DOMAIN made : made[n].id # i
  BY DEF FreshIds

LEMMA RankStep ==
  ASSUME TypeOK, RankInv, SeenInv, [Next]_vars
  PROVE  RankInv'
<1>1. ASSUME NEW d \in Devices, ChangeRead(d) PROVE RankInv'
  <2>1. PICK u : NewChange(d, u)
    BY <1>1, ChangeIs
  <2>2. /\ DOMAIN made = 1 .. Len(made) /\ Len(made) \in Nat
        /\ \A n \in DOMAIN made : Total(n)' = Total(n) /\ made'[n] = made[n]
    BY <2>1 DEF NewChange, TypeOK
  <2>3. /\ made'[u.name].id = u.id /\ made'[u.name].after = seen[d]
        /\ Total(u.name)' = Sum(u.clock) /\ Sum(clock[d]) < Sum(u.clock)
        /\ DOMAIN made' = DOMAIN made \cup {u.name} /\ u.id \in FreshIds
    BY <2>1 DEF NewChange
  <2>4. 0 < u.id /\ \A n \in DOMAIN made : made[n].id # u.id
    BY <2>3, FreshIdNew
  <2>5. Sum(clock[d]) \in Nat
    BY CountedFinite DEF TypeOK
  <2>6. Sum(u.clock) \in Int
    BY <2>1, CountedFinite DEF NewChange
  <2>7. \A k \in seen[d] : k \in DOMAIN made /\ Total(k) \in Nat /\ Total(k) < Sum(u.clock)
    <3> SUFFICES ASSUME NEW k \in seen[d]
                 PROVE  k \in DOMAIN made /\ Total(k) \in Nat /\ Total(k) < Sum(u.clock)
      OBVIOUS
    <3>1. k \in DOMAIN made /\ Total(k) <= Sum(clock[d])
      BY DEF SeenInv, SeenOK
    <3>2. Total(k) \in Nat
      BY <2>2, <3>1, TotalTypes
    <3> QED
      BY <2>3, <2>5, <2>6, <3>1, <3>2
  <2>8. \A n \in DOMAIN made' : 0 < Total(n)' /\ 0 < made'[n].id
    BY <2>2, <2>3, <2>4, <2>5, <2>6 DEF RankInv
  <2>9. \A n, k \in DOMAIN made' : made'[n].id = made'[k].id => n = k
    BY <2>2, <2>3, <2>4 DEF RankInv
  <2>10. \A n \in DOMAIN made' : \A k \in made'[n].after : k \in DOMAIN made' /\ Total(k)' < Total(n)'
    BY <2>2, <2>3, <2>7 DEF RankInv
  <2> QED
    BY <2>8, <2>9, <2>10 DEF RankInv
<1>2. CASE made' = made
  BY <1>2, SameChanges
<1>3. (\E d \in Devices : ChangeRead(d)) \/ made' = made
  BY DEF Next, vars, ChangeStore, ChangeName, Receive, ReceiveName, ReceiveStore, Tell
<1> QED
  BY <1>1, <1>2, <1>3

\* What is stored of a device and what its threads are at.
Same(x) ==
    /\ name'[x] = name[x] /\ clock'[x] = clock[x] /\ id'[x] = id[x]
    /\ apc'[x] = apc[x] /\ areg'[x] = areg[x]
    /\ qpc'[x] = qpc[x] /\ qmsg'[x] = qmsg[x] /\ seen'[x] = seen[x]

LEMMA OtherDevices ==
  ASSUME TypeOK, NEW d \in Devices, NEW x \in Devices \ {d},
         \/ ChangeRead(d) \/ ChangeStore(d) \/ ChangeName(d)
         \/ ReceiveName(d) \/ ReceiveStore(d) \/ \E m \in net : Receive(d, m)
  PROVE  Same(x)
<1>1. CASE ChangeRead(d)
  BY <1>1 DEF ChangeRead, Same, TypeOK, tables
<1>2. CASE ChangeStore(d)
  BY <1>2 DEF ChangeStore, Same, TypeOK
<1>3. CASE ChangeName(d)
  BY <1>3 DEF ChangeName, Same, TypeOK
<1>4. CASE ReceiveName(d)
  BY <1>4 DEF ReceiveName, Same, TypeOK
<1>5. CASE ReceiveStore(d)
  BY <1>5 DEF ReceiveStore, Same, TypeOK
<1>6. CASE \E m \in net : Receive(d, m)
  BY <1>6 DEF Receive, Same, TypeOK, tables
<1> QED
  BY <1>1, <1>2, <1>3, <1>4, <1>5, <1>6

LEMMA SameTelling ==
  ASSUME NEW d \in Devices, NEW S, Tell(d, S) \/ UNCHANGED vars, NEW x \in Devices
  PROVE  Same(x) /\ made' = made
  BY DEF Tell, vars, tables, Same

\* No change is forgotten, and none changes.
Kept ==
    /\ \A k \in DOMAIN made : k \in DOMAIN made'
    /\ \A k \in 0 .. Len(made) : Total(k)' = Total(k) /\ IdOf(k)' = IdOf(k)
    /\ EqualClocksEqualData' => EqualClocksEqualData
    /\ told \subseteq told'

LEMMA ChangesAreKept ==
  ASSUME TypeOK, [Next]_vars
  PROVE  Kept
<1>1. ASSUME NEW d \in Devices, ChangeRead(d) PROVE Kept
  <2>1. PICK u : NewChange(d, u)
    BY <1>1, ChangeIs
  <2>2. EqualClocksEqualData' => EqualClocksEqualData
    BY <2>1 DEF NewChange, EqualClocksEqualData
  <2>3. told' = told
    BY <1>1 DEF ChangeRead
  <2> QED
    BY <2>1, <2>2, <2>3 DEF NewChange, Kept
<1>2. CASE made' = made /\ told \subseteq told'
  BY <1>2, SameChanges DEF Kept
<1>3. (\E d \in Devices : ChangeRead(d)) \/ (made' = made /\ told \subseteq told')
  BY DEF Next, vars, ChangeStore, ChangeName, Receive, ReceiveName, ReceiveStore, Tell
<1> QED
  BY <1>1, <1>2, <1>3

LEMMA MadeDomain ==
  ASSUME TypeOK
  PROVE  DOMAIN made = 1 .. Len(made) /\ Len(made) \in Nat
  BY DEF TypeOK

\* A device nothing happens to stays as it was.
LEMMA SameStays ==
  ASSUME TypeOK, Kept, NEW x \in Devices, Same(x)
  PROVE  /\ SeenOK(x) => SeenOK(x)'
         /\ SeenOK(x) /\ TieOK(x) => TieOK(x)'
         /\ DataInv /\ IdsOK(x) => IdsOK(x)'
<1>1. \A k \in DOMAIN made : k \in DOMAIN made' /\ Total(k)' = Total(k) /\ IdOf(k)' = IdOf(k)
  BY MadeDomain DEF Kept
<1>2. SeenOK(x) => SeenOK(x)'
  BY <1>1 DEF Same, SeenOK
<1>3. SeenOK(x) /\ TieOK(x) => TieOK(x)'
  BY <1>1 DEF Same, SeenOK, TieOK
<1>4. DataInv /\ IdsOK(x) => IdsOK(x)'
  BY DEF Same, IdsOK, Kept, DataInv, MadeInv, MadeBy
<1> QED
  BY <1>2, <1>3, <1>4

LEMMA TableTypes ==
  ASSUME DataInv, NEW d \in Devices
  PROVE  /\ TypeOK /\ clock[d] \in Clocks /\ id[d] \in Nat /\ Sum(clock[d]) \in Nat
         /\ apc[d] # "idle" => /\ areg[d].clock \in Clocks /\ areg[d].id \in Nat
                               /\ areg[d].name \in DOMAIN made
                               /\ areg[d].clock = ClockOf(areg[d].name)
         /\ qpc[d] # "idle" => /\ qmsg[d].clock \in Clocks /\ qmsg[d].id \in Nat
                               /\ qmsg[d].name \in 0 .. Len(made)
                               /\ qmsg[d].clock = ClockOf(qmsg[d].name)
<1>1. TypeOK /\ RegType /\ MadeInv
  BY DEF DataInv, Typed
<1>2. clock[d] \in Clocks /\ id[d] \in Nat
  BY <1>1 DEF TypeOK, Ids
<1>3. apc[d] # "idle" => /\ areg[d].clock \in Clocks /\ areg[d].id \in Nat
                         /\ areg[d].name \in DOMAIN made
                         /\ areg[d].clock = ClockOf(areg[d].name)
  BY <1>1, MadeDomain DEF RegType, MadeInv, MadeBy, Updates, Ids
<1>4. qpc[d] # "idle" => /\ qmsg[d].clock \in Clocks /\ qmsg[d].id \in Nat
                         /\ qmsg[d].name \in 0 .. Len(made)
                         /\ qmsg[d].clock = ClockOf(qmsg[d].name)
  BY <1>1 DEF RegType, MadeInv, MadeBy, Letters, Ids
<1> QED
  BY <1>1, <1>2, <1>3, <1>4, CountedFinite

\* If something happens to a device, it is its own step.
LEMMA OneActs ==
  ASSUME TypeOK, [Next]_vars, NEW d \in Devices, ~Same(d)
  PROVE  \/ ChangeRead(d) \/ ChangeStore(d) \/ ChangeName(d)
         \/ ReceiveName(d) \/ ReceiveStore(d) \/ \E m \in net : Receive(d, m)
<1>1. ~UNCHANGED vars
  BY SameTelling
<1>2. ASSUME NEW x \in Devices, NEW S, Tell(x, S) PROVE FALSE
  BY <1>2, SameTelling
<1>3. PICK x \in Devices : \/ ChangeRead(x) \/ ChangeStore(x) \/ ChangeName(x)
                           \/ ReceiveName(x) \/ ReceiveStore(x) \/ \E m \in net : Receive(x, m)
  <2>1. \A m \in net : m.to \in Devices
    BY DEF TypeOK, Letters
  <2> QED
    BY <1>1, <1>2, <2>1 DEF Next
<1>4. x = d
  BY <1>3, OtherDevices
<1> QED
  BY <1>3, <1>4

LEMMA SeenStep ==
  ASSUME MaxOpen <= 1, DataInv, DataInv', SeenInv, [Next]_vars
  PROVE  SeenInv'
<1>0. TypeOK /\ TypeOK' /\ Kept
  BY ChangesAreKept DEF DataInv, Typed
<1>a. \A k \in DOMAIN made : k \in DOMAIN made' /\ Total(k)' = Total(k) /\ k \in 0 .. Len(made)
  BY <1>0, MadeDomain DEF Kept
<1> SUFFICES ASSUME NEW d \in Devices, ~Same(d) PROVE SeenOK(d)'
  BY <1>0, SameStays DEF SeenInv
<1>b. SeenOK(d)
  BY DEF SeenInv
<1>c. ASSUME NEW k \in seen[d]
      PROVE  k \in DOMAIN made' /\ Total(k) \in Nat /\ Total(k)' = Total(k) /\ Total(k) <= Sum(clock[d])
  BY <1>0, <1>a, <1>b, TotalTypes DEF SeenOK
<1>1. CASE ChangeRead(d)
  <2>1. PICK u : NewChange(d, u)
    BY <1>0, <1>1, ChangeIs
  <2>2. /\ areg'[d] = u /\ apc'[d] = "read" /\ qpc'[d] = "idle"
        /\ clock' = clock /\ seen' = seen /\ Sum(clock[d]) < Sum(u.clock)
    BY <1>0, <1>1, <2>1, OpensAlone DEF ChangeRead, NewChange, TypeOK, tables, Idle
  <2> QED
    BY <1>c, <2>2 DEF SeenOK
<1>2. CASE ChangeStore(d)
  <2>1. /\ clock'[d] = areg[d].clock /\ apc'[d] = "stored" /\ qpc' = qpc /\ seen' = seen
        /\ apc[d] = "read" /\ qpc[d] = "idle"
    BY <1>0, <1>2 DEF ChangeStore, TypeOK, DataInv, Alone
  <2>2. Sum(clock[d]) < Sum(areg[d].clock) /\ Sum(areg[d].clock) \in Nat /\ Sum(clock[d]) \in Nat
    BY <1>b, <2>1, TableTypes, CountedFinite DEF SeenOK
  <2> QED
    BY <1>c, <2>1, <2>2 DEF SeenOK
<1>3. CASE ChangeName(d)
  <2>1. /\ apc[d] = "stored" /\ apc'[d] = "idle" /\ clock' = clock /\ qpc' = qpc
        /\ seen'[d] = seen[d] \cup {areg[d].name} /\ made' = made /\ qpc[d] = "idle"
    BY <1>0, <1>3 DEF ChangeName, TypeOK, DataInv, Alone
  <2>2. /\ areg[d].name \in DOMAIN made /\ areg[d].clock = ClockOf(areg[d].name)
        /\ clock[d] = areg[d].clock /\ Sum(clock[d]) \in Nat
    BY <2>1, TableTypes DEF DataInv, TableInv
  <2>3. Total(areg[d].name) = Sum(clock[d])
    BY <2>2 DEF Total
  <2> QED
    BY <1>a, <1>c, <2>1, <2>2, <2>3 DEF SeenOK
<1>4. ASSUME NEW m \in net, Receive(d, m) PROVE SeenOK(d)'
  <2>1. /\ m \in Letters /\ MadeBy(m) /\ m.clock \in Clocks /\ Sum(m.clock) \in Nat
        /\ Sum(clock[d]) \in Nat
    BY <1>0, TableTypes, CountedFinite DEF TypeOK, Letters, DataInv, MadeInv
  <2>2. /\ clock' = clock /\ apc' = apc /\ apc[d] = "idle" /\ id' = id /\ made' = made
    BY <1>4, OpensAlone DEF Receive, Idle, tables
  <2>3. CASE Accepts(m, d)
    <3>1. seen' = seen /\ qmsg'[d] = m
      BY <1>0, <1>4, <2>3 DEF Receive, TypeOK
    <3>2. \/ Sum(clock[d]) < Sum(m.clock)
          \/ Sum(clock[d]) = Sum(m.clock) /\ id[d] < m.id
      BY <1>0, <2>3, Decided
    <3> QED
      BY <1>c, <2>2, <3>1, <3>2 DEF SeenOK
  <2>4. CASE ~Accepts(m, d)
    <3>1. seen'[d] = seen[d] \cup ({m.name} \ {0}) /\ qpc' = qpc /\ qpc[d] = "idle"
      BY <1>0, <1>4, <2>4 DEF Receive, TypeOK
    <3>2. Sum(m.clock) <= Sum(clock[d])
      BY <1>0, <2>1, <2>4, Decided
    <3>3. m.name \in 0 .. Len(made) /\ Total(m.name) = Sum(m.clock)
      BY <2>1 DEF MadeBy, Total
    <3>4. m.name # 0 => m.name \in DOMAIN made
      BY <1>0, <3>3, MadeDomain
    <3> QED
      BY <1>a, <1>c, <2>2, <3>1, <3>2, <3>3, <3>4 DEF SeenOK
  <2> QED
    BY <2>3, <2>4
<1>5. CASE ReceiveName(d)
  <2>1. /\ qpc[d] = "accepted" /\ seen' = seen /\ clock' = clock /\ apc' = apc /\ areg' = areg
        /\ qmsg' = qmsg /\ id' = id
    BY <1>5 DEF ReceiveName
  <2> QED
    BY <1>b, <1>c, <2>1 DEF SeenOK
<1>6. CASE ReceiveStore(d)
  <2>1. /\ qpc[d] = "named" /\ qpc'[d] = "idle" /\ clock'[d] = qmsg[d].clock /\ apc' = apc
        /\ apc[d] = "idle" /\ seen'[d] = seen[d] \cup ({qmsg[d].name} \ {0}) /\ made' = made
    BY <1>0, <1>6 DEF ReceiveStore, TypeOK, DataInv, Alone
  <2>2. /\ Sum(clock[d]) <= Sum(qmsg[d].clock) /\ Sum(qmsg[d].clock) \in Nat
        /\ Sum(clock[d]) \in Nat
    BY <1>b, <2>1, TableTypes, CountedFinite DEF SeenOK
  <2>3. /\ qmsg[d].name \in 0 .. Len(made) /\ Total(qmsg[d].name) = Sum(qmsg[d].clock)
    BY <2>1, TableTypes DEF Total
  <2>4. qmsg[d].name # 0 => qmsg[d].name \in DOMAIN made
    BY <1>0, <2>3, MadeDomain
  <2> QED
    BY <1>a, <1>c, <2>1, <2>2, <2>3, <2>4 DEF SeenOK
<1>7. \/ ChangeRead(d) \/ ChangeStore(d) \/ ChangeName(d)
      \/ ReceiveName(d) \/ ReceiveStore(d) \/ \E m \in net : Receive(d, m)
  BY <1>0, OneActs
<1> QED
  BY <1>1, <1>2, <1>3, <1>4, <1>5, <1>6, <1>7

LEMMA IdsStep ==
  ASSUME MaxOpen <= 1, DataInv, DataInv', IdsInv, [Next]_vars
  PROVE  IdsInv'
<1>0. TypeOK /\ TypeOK' /\ RegType /\ Kept
  BY ChangesAreKept DEF DataInv, Typed
<1> SUFFICES ASSUME told' = {}
             PROVE  /\ \A m \in net' : m.id = IdOf(m.name)'
                    /\ \A d \in Devices : IdsOK(d)'
  BY DEF IdsInv
<1>1. /\ told = {} /\ \A m \in net : m.id = IdOf(m.name) /\ m.name \in 0 .. Len(made)
      /\ \A d \in Devices : IdsOK(d)
      /\ \A k \in 0 .. Len(made) : IdOf(k)' = IdOf(k)
  BY <1>0 DEF IdsInv, Kept, DataInv, MadeInv, MadeBy
<1>2. ASSUME NEW d \in Devices, ChangeName(d)
      PROVE  \A m \in To(Devices \ {d}, areg[d]) : m.id = IdOf(m.name)'
  <2>1. areg[d] \in Updates /\ areg[d].id = IdOf(areg[d].name) /\ areg[d].name \in 0 .. Len(made)
    BY <1>0, <1>1, <1>2 DEF ChangeName, RegType, IdsOK, DataInv, MadeInv, MadeBy
  <2>2. \A m \in To(Devices \ {d}, areg[d]) : m.id = areg[d].id /\ m.name = areg[d].name
    BY <2>1, LetterTypes
  <2> QED
    BY <1>1, <2>1, <2>2
<1>3. \A m \in net' : m \in net \/ m.id = IdOf(m.name)'
  <2>1. ASSUME NEW d \in Devices, NEW S, Tell(d, S) PROVE FALSE
    BY <2>1 DEF Tell
  <2>2. CASE \E d \in Devices : ChangeName(d)
    BY <1>2, <2>2 DEF ChangeName
  <2>3. CASE net' \subseteq net
    BY <2>3
  <2>4. (\E d \in Devices : ChangeName(d)) \/ net' \subseteq net
    BY <2>1 DEF Next, vars, ChangeRead, ChangeStore, Receive, ReceiveName, ReceiveStore
  <2> QED
    BY <2>2, <2>3, <2>4
<1>4. \A m \in net' : m.id = IdOf(m.name)'
  BY <1>1, <1>3
<1>5. ASSUME NEW d \in Devices PROVE IdsOK(d)'
  <2>0. IdsOK(d)
    BY <1>1
  <2>a. /\ name[d] \in 0 .. Len(made)
        /\ apc[d] # "idle" => areg[d].name \in 0 .. Len(made)
        /\ qpc[d] # "idle" => qmsg[d].name \in 0 .. Len(made)
    BY DEF DataInv, MadeInv, MadeBy
  <2>1. CASE Same(d)
    BY <1>0, <2>0, <2>1, SameStays
  <2>2. CASE ChangeRead(d)
    <3>1. PICK u : NewChange(d, u)
      BY <1>0, <2>2, ChangeIs
    <3>2. /\ areg'[d] = u /\ apc[d] = "idle" /\ apc'[d] = "read" /\ qpc[d] = "idle" /\ qpc' = qpc
          /\ id' = id /\ name' = name /\ u.id = IdOf(u.name)'
      BY <1>0, <2>2, <3>1, OpensAlone DEF ChangeRead, NewChange, TypeOK, tables, Idle
    <3>3. IdOf(name[d])' = IdOf(name[d])
      <4>1. \A k \in 0 .. Len(made) : IdOf(k)' = IdOf(k)
        BY <1>1
      <4> QED
        BY <2>a, <3>2, <4>1 DEF IdOf
    <3> QED
      BY <2>0, <3>2, <3>3 DEF IdsOK
  <2>3. CASE ChangeStore(d)
    <3>1. /\ id'[d] = areg[d].id /\ apc'[d] = "stored" /\ apc[d] = "read" /\ areg' = areg
          /\ qpc' = qpc /\ qmsg' = qmsg /\ made' = made
      BY <1>0, <2>3 DEF ChangeStore, TypeOK
    <3>2. \A n : IdOf(n)' = IdOf(n)
      BY <3>1, SameChanges
    <3> QED
      BY <2>0, <3>1, <3>2 DEF IdsOK, IdOf
  <2>4. CASE ChangeName(d)
    <3>1. /\ name'[d] = areg[d].name /\ apc'[d] = "idle" /\ apc[d] = "stored" /\ id' = id
          /\ qpc' = qpc /\ qmsg' = qmsg /\ made' = made
      BY <1>0, <2>4 DEF ChangeName, TypeOK
    <3> QED
      BY <2>0, <3>1 DEF IdsOK, IdOf
  <2>5. ASSUME NEW m \in net, Receive(d, m) PROVE IdsOK(d)'
    <3>1. id' = id /\ name' = name /\ apc' = apc /\ areg' = areg /\ made' = made
      BY <2>5 DEF Receive, tables
    <3>2. qpc[d] = "idle" /\ (qpc' = qpc \/ (qpc'[d] = "accepted" /\ qmsg'[d] = m))
      BY <1>0, <2>5 DEF Receive, TypeOK
    <3>3. m.id = IdOf(m.name)
      BY <1>1
    <3> QED
      BY <2>0, <3>1, <3>2, <3>3 DEF IdsOK, IdOf
  <2>6. CASE ReceiveName(d)
    <3>1. /\ id' = id /\ apc' = apc /\ areg' = areg /\ made' = made /\ qmsg' = qmsg
          /\ qpc[d] = "accepted" /\ qpc'[d] = "named"
      BY <1>0, <2>6 DEF ReceiveName, TypeOK
    <3> QED
      BY <2>0, <3>1 DEF IdsOK, IdOf
  <2>7. CASE ReceiveStore(d)
    <3>1. /\ id'[d] = qmsg[d].id /\ apc' = apc /\ areg' = areg /\ made' = made /\ name' = name
          /\ qpc[d] = "named" /\ qpc'[d] = "idle" /\ apc[d] = "idle" /\ name[d] = qmsg[d].name
      BY <1>0, <2>7 DEF ReceiveStore, TypeOK, DataInv, Alone, TableInv
    <3> QED
      BY <2>0, <3>1 DEF IdsOK, IdOf
  <2> QED
    BY <1>0, <2>1, <2>2, <2>3, <2>4, <2>5, <2>6, <2>7, OneActs
<1> QED
  BY <1>4, <1>5

LEMMA TieStep ==
  ASSUME MaxOpen <= 1, DataInv, DataInv', RankInv, SeenInv, IdsInv, TieInv, [Next]_vars
  PROVE  TieInv'
<1>0. TypeOK /\ TypeOK' /\ Kept
  BY ChangesAreKept DEF DataInv, Typed
<1> SUFFICES ASSUME told' = {}, EqualClocksEqualData', NEW d \in Devices
             PROVE  TieOK(d)'
  BY DEF TieInv
<1>1. told = {} /\ EqualClocksEqualData /\ TieOK(d) /\ SeenOK(d) /\ IdsOK(d)
  BY <1>0 DEF Kept, TieInv, SeenInv, IdsInv
<1>2. ASSUME NEW k \in seen[d]
      PROVE  /\ Total(k) \in Nat /\ Total(k)' = Total(k) /\ IdOf(k)' = IdOf(k)
             /\ IdOf(k) \in Nat /\ Total(k) <= Sum(clock[d])
             /\ Total(k) = Sum(clock[d]) => IdOf(k) <= id[d]
  <2>1. k \in DOMAIN made /\ k \in 1 .. Len(made) /\ Total(k) <= Sum(clock[d])
    BY <1>0, <1>1, MadeDomain DEF SeenOK
  <2>2. Total(k) \in Nat /\ Total(k)' = Total(k) /\ IdOf(k)' = IdOf(k)
    BY <1>0, <2>1, TotalTypes DEF Kept
  <2>3. IdOf(k) \in Nat
    <3>1. made \in Seq([clock : Clocks, id : Ids, after : SUBSET Names])
      BY <1>0 DEF TypeOK
    <3>2. made[k] \in [clock : Clocks, id : Ids, after : SUBSET Names]
      BY <2>1, <3>1, ElementType
    <3> QED
      BY <2>1, <3>2 DEF IdOf, Ids
  <2> QED
    BY <1>1, <2>1, <2>2, <2>3 DEF TieOK
<1>3. Sum(clock[d]) \in Nat /\ id[d] \in Nat
  BY TableTypes
<1>4. CASE Same(d)
  BY <1>0, <1>1, <1>4, SameStays
<1>5. CASE clock' = clock /\ id' = id /\ seen' = seen
  BY <1>2, <1>5 DEF TieOK
<1>6. CASE ChangeStore(d)
  <2>1. clock'[d] = areg[d].clock /\ seen' = seen /\ apc[d] = "read"
    BY <1>0, <1>6 DEF ChangeStore, TypeOK
  <2>2. Sum(clock[d]) < Sum(areg[d].clock) /\ Sum(areg[d].clock) \in Nat
    BY <1>1, <2>1, TableTypes, CountedFinite DEF SeenOK
  <2> QED
    BY <1>2, <1>3, <2>1, <2>2 DEF TieOK
<1>7. CASE ChangeName(d)
  <2>1. /\ clock' = clock /\ id' = id /\ seen'[d] = seen[d] \cup {areg[d].name}
        /\ apc[d] = "stored" /\ made' = made
    BY <1>0, <1>7 DEF ChangeName, TypeOK
  <2>2. IdOf(areg[d].name) = id[d] /\ \A n : IdOf(n)' = IdOf(n) /\ Total(n)' = Total(n)
    BY <1>1, <2>1, SameChanges DEF IdsOK
  <2> QED
    BY <1>2, <1>3, <2>1, <2>2 DEF TieOK
<1>8. ASSUME NEW m \in net, Receive(d, m) PROVE TieOK(d)'
  <2>1. /\ clock' = clock /\ id' = id /\ made' = made
        /\ clock[d] = ClockOf(name[d]) /\ id[d] = IdOf(name[d]) /\ name[d] \in 0 .. Len(made)
    BY <1>1, <1>8, OpensAlone DEF Receive, Idle, tables, IdsOK, DataInv, TableInv, MadeInv
  <2>2. m.id = IdOf(m.name) /\ m.clock = ClockOf(m.name) /\ m.name \in 0 .. Len(made)
    BY <1>1 DEF IdsInv, DataInv, MadeInv, MadeBy
  <2>3. CASE Accepts(m, d)
    <3>1. seen' = seen
      BY <1>8, <2>3 DEF Receive
    <3> QED
      BY <1>5, <2>1, <3>1
  <2>4. CASE ~Accepts(m, d)
    <3>1. seen'[d] = seen[d] \cup ({m.name} \ {0})
      BY <1>0, <1>8, <2>4 DEF Receive, TypeOK
    <3>2. Total(m.name) = Sum(m.clock) /\ Sum(m.clock) \in Nat /\ m.id \in Nat
      <4>1. Total(m.name) = Sum(m.clock) /\ Total(m.name) \in Nat
        BY <1>0, <2>2, TotalTypes DEF Total
      <4>2. m.id \in Nat
        BY <1>0 DEF TypeOK, Letters, Ids
      <4> QED
        BY <4>1, <4>2
    <3>3. ASSUME m.clock = clock[d], m.name # 0 PROVE m.id = id[d]
      <4>1. m.name \in DOMAIN made /\ 0 < Total(m.name)
        BY <1>0, <2>2, <3>3, MadeDomain DEF RankInv
      <4>2. name[d] # 0
        <5> SUFFICES ASSUME name[d] = 0 PROVE FALSE
          OBVIOUS
        <5>1. m.clock = Empty
          BY <2>1, <3>3 DEF ClockOf
        <5>2. Counted(Empty) = {}
          BY DEF Counted, Empty
        <5>3. Sum(Empty) = 0
          BY <5>2, FS_EmptySet DEF Sum
        <5> QED
          BY <3>2, <4>1, <5>1, <5>3
      <4>3. name[d] \in DOMAIN made /\ made[m.name].clock = made[name[d]].clock
        BY <1>0, <2>1, <2>2, <3>3, <4>2, MadeDomain DEF ClockOf
      <4>4. m.name = name[d]
        BY <1>1, <4>1, <4>3 DEF EqualClocksEqualData
      <4> QED
        BY <2>1, <2>2, <4>4
    <3>4. m.name # 0 => (Total(m.name) = Sum(clock[d]) => IdOf(m.name) <= id[d])
      <4>1. \/ Sum(m.clock) < Sum(clock[d])
            \/ Sum(m.clock) = Sum(clock[d]) /\ (m.clock = clock[d] \/ m.id <= id[d])
        BY <1>0, <2>4, Decided
      <4> QED
        BY <1>3, <2>2, <3>2, <3>3, <4>1
    <3>5. \A n : IdOf(n)' = IdOf(n) /\ Total(n)' = Total(n)
      BY <2>1, SameChanges
    <3> QED
      BY <1>2, <2>1, <3>1, <3>4, <3>5 DEF TieOK
  <2> QED
    BY <2>3, <2>4
<1>9. CASE ReceiveStore(d)
  <2>1. /\ clock'[d] = qmsg[d].clock /\ id'[d] = qmsg[d].id /\ made' = made
        /\ seen'[d] = seen[d] \cup ({qmsg[d].name} \ {0}) /\ qpc[d] = "named"
    BY <1>0, <1>9 DEF ReceiveStore, TypeOK
  <2>2. /\ qmsg[d].id = IdOf(qmsg[d].name) /\ qmsg[d].id \in Nat /\ Sum(qmsg[d].clock) \in Nat
        /\ \/ Sum(clock[d]) < Sum(qmsg[d].clock)
           \/ Sum(clock[d]) = Sum(qmsg[d].clock) /\ id[d] < qmsg[d].id
    BY <1>1, <2>1, TableTypes, CountedFinite DEF IdsOK, SeenOK
  <2>3. \A n : IdOf(n)' = IdOf(n) /\ Total(n)' = Total(n)
    BY <2>1, SameChanges
  <2> QED
    BY <1>2, <1>3, <2>1, <2>2, <2>3 DEF TieOK
<1>10. ChangeRead(d) \/ ReceiveName(d) => clock' = clock /\ id' = id /\ seen' = seen
  BY DEF ChangeRead, ReceiveName, tables
<1> QED
  BY <1>0, <1>4, <1>5, <1>6, <1>7, <1>8, <1>9, <1>10, OneActs

LEMMA LetterTo ==
  ASSUME NEW d \in Devices, NEW e \in Devices, d # e, NEW u
  PROVE  \E m \in To(Devices \ {e}, u) : m.to = d /\ m.name = u.name
<1> DEFINE l == [to |-> d, clock |-> u.clock, id |-> u.id, name |-> u.name]
<1>1. l \in To(Devices \ {e}, u)
  BY DEF To
<1>2. l.to = d /\ l.name = u.name
  OBVIOUS
<1> HIDE DEF l
<1> QED
  BY <1>1, <1>2

\* A change a device has not seen yet does not get lost on the way to it.
LEMMA ComingStep ==
  ASSUME MaxOpen <= 1, DataInv, DataInv', ComingInv, [Next]_vars
  PROVE  ComingInv'
<1>0. TypeOK /\ TypeOK' /\ RegType /\ Kept
  BY ChangesAreKept DEF DataInv, Typed
<1>a. \A x \in Devices : apc[x] = "idle" \/ qpc[x] = "idle"
  BY DEF DataInv, Alone
<1> SUFFICES ASSUME NEW n \in DOMAIN made', NEW x \in Devices
             PROVE  Coming(n, x)'
  BY DEF ComingInv
<1>1. CASE n \notin DOMAIN made
  <2>1. PICK d \in Devices : ChangeRead(d)
    BY <1>0, <1>1 DEF Next, vars, ChangeStore, ChangeName, Receive, ReceiveName, ReceiveStore, Tell
  <2>2. PICK u : NewChange(d, u)
    BY <1>0, <2>1, ChangeIs
  <2>3. areg'[d] = u /\ apc'[d] = "read" /\ n = u.name
    BY <1>0, <1>1, <2>1, <2>2 DEF NewChange, ChangeRead, TypeOK
  <2> QED
    BY <2>3 DEF Coming
<1>2. CASE n \in DOMAIN made
  <2>0. Coming(n, x) /\ n # 0
    BY <1>0, <1>2, MadeDomain DEF ComingInv
  <2>1. CASE n \in seen[x]
    <3>1. seen[x] \subseteq seen'[x]
      <4>1. CASE Same(x)
        BY <4>1 DEF Same
      <4>2. CASE ChangeRead(x) \/ ChangeStore(x) \/ ReceiveName(x)
        BY <4>2 DEF ChangeRead, ChangeStore, ReceiveName
      <4>3. CASE ChangeName(x)
        BY <1>0, <4>3 DEF ChangeName, TypeOK
      <4>4. CASE ReceiveStore(x)
        BY <1>0, <4>4 DEF ReceiveStore, TypeOK
      <4>5. CASE \E m \in net : Receive(x, m)
        BY <1>0, <4>5 DEF Receive, TypeOK
      <4> QED
        BY <1>0, <4>1, <4>2, <4>3, <4>4, <4>5, OneActs
    <3> QED
      BY <2>1, <3>1 DEF Coming
  <2>2. ASSUME NEW e \in Devices, apc[e] # "idle", areg[e].name = n PROVE Coming(n, x)'
    <3>1. CASE Same(e)
      BY <2>2, <3>1 DEF Same, Coming
    <3>2. CASE ChangeName(e)
      <4>1. CASE x = e
        <5>1. n \in seen'[x]
          BY <1>0, <2>2, <3>2, <4>1 DEF ChangeName, TypeOK
        <5> QED
          BY <5>1 DEF Coming
      <4>2. CASE x # e
        <5>1. \E m \in To(Devices \ {e}, areg[e]) : m.to = x /\ m.name = areg[e].name
          BY <4>2, LetterTo
        <5>2. PICK m \in To(Devices \ {e}, areg[e]) : m.to = x /\ m.name = n
          BY <2>2, <5>1
        <5>3. m \in net'
          BY <3>2 DEF ChangeName
        <5> QED
          BY <5>2, <5>3 DEF Coming
      <4> QED
        BY <4>1, <4>2
    <3>3. CASE ChangeStore(e)
      <4>1. apc'[e] = "stored" /\ areg' = areg
        BY <1>0, <3>3 DEF ChangeStore, TypeOK
      <4> QED
        BY <2>2, <4>1 DEF Coming
    <3>4. CASE \/ ChangeRead(e) \/ ReceiveName(e) \/ ReceiveStore(e)
               \/ \E m \in net : Receive(e, m)
      <4>1. apc[e] = "idle"
        <5>1. CASE \E m \in net : Receive(e, m)
          BY <5>1, OpensAlone DEF Receive, Idle
        <5>2. CASE ReceiveName(e) \/ ReceiveStore(e)
          BY <1>a, <5>2 DEF ReceiveName, ReceiveStore
        <5> QED
          BY <3>4, <5>1, <5>2 DEF ChangeRead
      <4> QED
        BY <2>2, <4>1
    <3> QED
      BY <1>0, <3>1, <3>2, <3>3, <3>4, OneActs
  <2>3. CASE qpc[x] # "idle" /\ qmsg[x].name = n
    <3>1. CASE Same(x)
      BY <2>3, <3>1 DEF Same, Coming
    <3>2. CASE ReceiveName(x)
      <4>1. qpc'[x] = "named" /\ qmsg' = qmsg
        BY <1>0, <3>2 DEF ReceiveName, TypeOK
      <4> QED
        BY <2>3, <4>1 DEF Coming
    <3>3. CASE ReceiveStore(x)
      <4>1. n \in seen'[x]
        BY <1>0, <2>0, <2>3, <3>3 DEF ReceiveStore, TypeOK
      <4> QED
        BY <4>1 DEF Coming
    <3>4. CASE \/ ChangeRead(x) \/ ChangeStore(x) \/ ChangeName(x)
               \/ \E m \in net : Receive(x, m)
      <4>1. qpc[x] = "idle"
        <5>1. CASE ChangeRead(x)
          BY <5>1, OpensAlone DEF ChangeRead, Idle
        <5>2. CASE ChangeStore(x) \/ ChangeName(x)
          BY <1>a, <5>2 DEF ChangeStore, ChangeName
        <5> QED
          BY <3>4, <5>1, <5>2 DEF Receive
      <4> QED
        BY <2>3, <4>1
    <3> QED
      BY <1>0, <3>1, <3>2, <3>3, <3>4, OneActs
  <2>4. ASSUME NEW m \in net, m.to = x, m.name = n PROVE Coming(n, x)'
    <3>1. CASE m \in net'
      BY <2>4, <3>1 DEF Coming
    <3>2. CASE m \notin net'
      <4>1. Receive(x, m)
        BY <2>4, <3>2 DEF Next, vars, ChangeRead, ChangeStore, ChangeName, Receive,
                          ReceiveName, ReceiveStore, Tell
      <4>2. CASE Accepts(m, x)
        <5>1. qpc'[x] = "accepted" /\ qmsg'[x] = m
          BY <1>0, <4>1, <4>2 DEF Receive, TypeOK
        <5> QED
          BY <2>4, <5>1 DEF Coming
      <4>3. CASE ~Accepts(m, x)
        <5>1. n \in seen'[x]
          BY <1>0, <2>0, <2>4, <4>1, <4>3 DEF Receive, TypeOK
        <5> QED
          BY <5>1 DEF Coming
      <4> QED
        BY <4>2, <4>3
    <3> QED
      BY <3>1, <3>2
  <2> QED
    BY <2>0, <2>1, <2>2, <2>3, <2>4 DEF Coming
<1> QED
  BY <1>1, <1>2

LEMMA ShownStep ==
  ASSUME MaxOpen <= 1, DataInv, ShownInv, [Next]_vars
  PROVE  DataInv' /\ ShownInv'
<1>1. DataInv' /\ TypeOK
  BY DataStep DEF DataInv, Typed
<1> QED
  BY <1>1, RankStep, SeenStep, IdsStep, TieStep, ComingStep DEF ShownInv

\* If the operations on a device do not overlap, no change is shown again once
\* one has come whose author knew of it (processUpdateName, resolveConflict),
\* in whatever order change sets arrive.
THEOREM NewestStays == ASSUME MaxOpen <= 1 PROVE Spec => []NewestIsShown
<1>1. DataInv /\ ShownInv => NewestIsShown
  <2> SUFFICES ASSUME DataInv, ShownInv, NEW d \in Devices, Idle(d), NEW n \in seen[d],
                      name[d] \in made[n].after
               PROVE  FALSE
    BY DEF NewestIsShown
  <2>1. TypeOK /\ clock[d] = ClockOf(name[d])
    BY DEF DataInv, Typed, TableInv, Idle
  <2>2. n \in DOMAIN made /\ Total(n) <= Sum(clock[d])
    BY DEF ShownInv, SeenInv, SeenOK
  <2>3. name[d] \in DOMAIN made /\ Total(name[d]) < Total(n)
    BY <2>2 DEF ShownInv, RankInv
  <2>4. Total(n) \in Nat /\ Total(name[d]) \in Nat
    BY <2>1, <2>2, <2>3, MadeDomain, TotalTypes
  <2> QED
    BY <2>1, <2>2, <2>3, <2>4 DEF Total
<1>2. DataInv /\ ShownInv /\ [Next]_vars => DataInv' /\ ShownInv'
  BY ShownStep
<1> QED
  BY <1>1, <1>2, DataInit, ShownInit, PTL DEF Spec

\* If the operations on a device do not overlap and no change set gets lost, all
\* devices end with one name (resolveConflict decides alike), unless a repeated
\* change set or a clock of two changes decided a tie.
THEOREM Converge == ASSUME MaxOpen <= 1 PROVE Spec => []Converged
<1>1. DataInv /\ ShownInv => Converged
  <2> SUFFICES ASSUME DataInv, ShownInv, Quiet, NEW d \in Devices, NEW x \in Devices,
                      name[d] # name[x]
               PROVE  /\ Sum(clock[d]) = Sum(clock[x])
                      /\ told # {} \/ ~EqualClocksEqualData
    BY DEF Converged
  <2>1. TypeOK /\ net = {} /\ \A y \in Devices : apc[y] = "idle" /\ qpc[y] = "idle"
    BY DEF DataInv, Typed, Quiet, Idle
  <2>2. ASSUME NEW y \in Devices
        PROVE  /\ clock[y] = ClockOf(name[y]) /\ Sum(clock[y]) = Total(name[y])
               /\ name[y] \in 0 .. Len(made) /\ Sum(clock[y]) \in Nat
               /\ told = {} => id[y] = IdOf(name[y])
               /\ \A n \in DOMAIN made : n \in seen[y]
    <3>1. clock[y] = ClockOf(name[y]) /\ name[y] \in 0 .. Len(made)
      BY <2>1 DEF DataInv, TableInv, MadeInv
    <3>2. \A n \in DOMAIN made : n \in seen[y]
      BY <2>1 DEF ShownInv, ComingInv, Coming
    <3>3. told = {} => id[y] = IdOf(name[y])
      BY <2>1 DEF ShownInv, IdsInv, IdsOK
    <3> QED
      BY <2>1, <3>1, <3>2, <3>3, TotalTypes DEF Total
  <2>3. ASSUME NEW y \in Devices, NEW z \in Devices
        PROVE  /\ Sum(clock[y]) <= Sum(clock[z])
               /\ \/ name[y] = 0
                  \/ /\ name[y] \in DOMAIN made /\ name[y] \in seen[z]
                     /\ Total(name[y]) = Sum(clock[y])
    <3>1. CASE name[y] = 0
      <4>1. clock[y] = Empty
        BY <2>2, <3>1 DEF ClockOf
      <4>2. Counted(Empty) = {}
        BY DEF Counted, Empty
      <4>3. Sum(clock[y]) = 0
        BY <4>1, <4>2, FS_EmptySet DEF Sum
      <4> QED
        BY <2>2, <3>1, <4>3
    <3>2. CASE name[y] # 0
      <4>1. name[y] \in DOMAIN made
        BY <2>1, <2>2, <3>2, MadeDomain
      <4>2. name[y] \in seen[z] /\ Total(name[y]) = Sum(clock[y])
        BY <2>2, <4>1
      <4>3. Total(name[y]) <= Sum(clock[z])
        BY <4>2 DEF ShownInv, SeenInv, SeenOK
      <4> QED
        BY <4>1, <4>2, <4>3
    <3> QED
      BY <3>1, <3>2
  <2>4. Sum(clock[d]) = Sum(clock[x])
    <3>1. Sum(clock[d]) <= Sum(clock[x]) /\ Sum(clock[x]) <= Sum(clock[d])
      BY <2>3
    <3> QED
      BY <2>2, <3>1
  <2>5. ASSUME told = {}, EqualClocksEqualData PROVE FALSE
    <3>1. ASSUME NEW y \in Devices, NEW z \in Devices, Sum(clock[y]) = Sum(clock[z])
          PROVE  IdOf(name[y]) <= IdOf(name[z]) /\ (name[z] = 0 => name[y] = 0)
      <4>1. IdOf(name[z]) = id[z] /\ id[z] \in Nat
        BY <2>2, <2>5, TableTypes
      <4>2. CASE name[y] = 0
        BY <4>1, <4>2 DEF IdOf
      <4>3. CASE name[y] # 0
        <5>1. name[y] \in DOMAIN made /\ name[y] \in seen[z] /\ Total(name[y]) = Sum(clock[y])
          BY <2>3, <4>3
        <5>2. TieOK(z)
          BY <2>5 DEF ShownInv, TieInv
        <5>3. IdOf(name[y]) <= id[z]
          BY <3>1, <5>1, <5>2 DEF TieOK
        <5>4. name[z] # 0
          <6>1. 0 < IdOf(name[y])
            BY <4>3, <5>1 DEF ShownInv, RankInv, IdOf
          <6>2. IdOf(name[y]) \in Nat
            BY <2>2, <2>5, TableTypes
          <6> QED
            BY <4>1, <5>3, <6>1, <6>2 DEF IdOf
        <5> QED
          BY <4>1, <5>3, <5>4
      <4> QED
        BY <4>2, <4>3
    <3>2. /\ IdOf(name[d]) <= IdOf(name[x]) /\ IdOf(name[x]) <= IdOf(name[d])
          /\ name[x] = 0 => name[d] = 0
          /\ name[d] = 0 => name[x] = 0
      BY <2>4, <3>1
    <3>3. IdOf(name[d]) \in Nat /\ IdOf(name[x]) \in Nat
      BY <2>2, <2>5, TableTypes
    <3>4. IdOf(name[d]) = IdOf(name[x])
      BY <3>2, <3>3
    <3>5. name[d] # 0 /\ name[x] # 0
      BY <3>2
    <3>6. name[d] \in DOMAIN made /\ name[x] \in DOMAIN made
      BY <2>3, <3>5
    <3> QED
      BY <3>4, <3>5, <3>6 DEF IdOf, ShownInv, RankInv
  <2> QED
    BY <2>4, <2>5
<1>2. DataInv /\ ShownInv /\ [Next]_vars => DataInv' /\ ShownInv'
  BY ShownStep
<1> QED
  BY <1>1, <1>2, DataInit, ShownInit, PTL DEF Spec
============================================================================
