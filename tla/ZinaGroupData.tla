--------------------------- MODULE ZinaGroupData ---------------------------
(***************************************************************************)
(* The data of a group that carry vector clocks: its name, its avatar and  *)
(* its burn time.  They are handled alike and apart from each other, so    *)
(* this is the model of one of them, the name.                             *)
(*                                                                         *)
(* Every device keeps the name in its group table and, in another table,   *)
(* the vector clock and the update id of the change the name came with.    *)
(* The app changes the name in a thread of its own (prepareChangeSetSend); *)
(* the thread of the run queue processes the change sets of the others     *)
(* (processUpdateName) and tells new devices about the group               *)
(* (performGroupHello).  Both threads read and write the two tables with   *)
(* single SQL statements and hold no common lock.                          *)
(*                                                                         *)
(* Change sets arrive in any order, each of them once (the ratchet and the *)
(* hash of the message see to that); what becomes of a lost one is not     *)
(* asked here.  Acknowledgements, members and pending change sets are left *)
(* out, as are SQL errors.  A name is the number of the change that made   *)
(* it, 0 the name no change made.                                          *)
(***************************************************************************)
EXTENDS Integers, Sequences, FiniteSets

CONSTANTS
    Devices,      \* the devices of the members of the group
    NoMsg,        \* no change set
    MaxChanges,   \* bound: changes of the name
    MaxTold,      \* bound: change sets that repeat the name for new devices
    MaxOpen       \* bound: threads that are in the middle of their work

ASSUME ConstantsAssumption ==
    /\ IsFiniteSet(Devices)
    /\ MaxChanges \in Nat /\ MaxTold \in Nat /\ MaxOpen \in Nat

VARIABLES
    name,        \* device -> name in the group table
    clock, id,   \* device -> stored vector clock and update id
    apc, areg,   \* device -> the thread of the app and the change it makes
    qpc, qmsg,   \* device -> the thread of the queue and its change set
    net,         \* change sets on their way
    \* history: the changes, and the changes a device has made or processed
    made, seen,
    told

tables == <<name, clock, id>>
vars == <<tables, apc, areg, qpc, qmsg, net, made, seen, told>>

----------------------------------------------------------------------------
(* VectorClock.  A node that is not in the map counts as 0.                *)

Clocks == [Devices -> Nat]
Empty  == [d \in Devices |-> 0]

\* Mutant: the clock of a change starts from nothing.
IncrementAlone(c, d) == [x \in {d} |-> c[x] + 1]
Increment(c, d) == [c EXCEPT ![d] = @ + 1]
\* sumOfValues, as the number of the changes the clock has counted.
Counted(c) == UNION {{d} \X (1 .. c[d]) : d \in Devices}
Sum(c) == Cardinality(Counted(c))

AtMost(c, x) == \A d \in Devices : c[d] <= x[d]
After(c, x)  == AtMost(x, c) /\ c # x
Concurrent(c, x) == ~AtMost(c, x) /\ ~AtMost(x, c)

\* resolveConflict: does the remote change win?  Mutants: the update id alone
\* decides; the remote change always wins.
WinsById(m, d) == m.id > id[d]
WinsAlways(m, d) == TRUE
Wins(m, d) == \/ Sum(m.clock) > Sum(clock[d])
              \/ Sum(m.clock) = Sum(clock[d]) /\ m.id > id[d]

Accepts(m, d) == \/ After(m.clock, clock[d])
                 \/ Concurrent(m.clock, clock[d]) /\ Wins(m, d)

----------------------------------------------------------------------------
Init ==
    /\ name = [d \in Devices |-> 0]
    /\ clock = [d \in Devices |-> Empty] /\ id = [d \in Devices |-> 0]
    /\ apc = [d \in Devices |-> "idle"] /\ areg = [d \in Devices |-> NoMsg]
    /\ qpc = [d \in Devices |-> "idle"] /\ qmsg = [d \in Devices |-> NoMsg]
    /\ net = {} /\ made = <<>> /\ seen = [d \in Devices |-> {}] /\ told = {}

Open == {<<d, 1>> : d \in {x \in Devices : apc[x] # "idle"}}
          \cup {<<d, 2>> : d \in {x \in Devices : qpc[x] # "idle"}}
Opens == Cardinality(Open) < MaxOpen

\* Update ids are random and do not come twice; 0 is that of no change.
FreshIds == 1 .. (MaxChanges + MaxTold)
              \ ({made[n].id : n \in DOMAIN made} \cup told)

Update(c, i, n) == [clock |-> c, id |-> i, name |-> n]
To(S, u) == {[to |-> d, clock |-> u.clock, id |-> u.id, name |-> u.name] : d \in S}

----------------------------------------------------------------------------
(* The thread of the app: prepareChangeSetSend, one at a time on a device. *)

\* prepareChangeSetClocks: the clock is read and counted up.
ChangeRead(d) ==
    /\ apc[d] = "idle" /\ Opens /\ Len(made) < MaxChanges
    /\ \E i \in FreshIds :
         LET u == Update(Increment(clock[d], d), i, Len(made) + 1)
         IN  /\ areg' = [areg EXCEPT ![d] = u]
             /\ made' = Append(made, [clock |-> u.clock, id |-> i, after |-> seen[d]])
    /\ apc' = [apc EXCEPT ![d] = "read"]
    /\ UNCHANGED <<tables, qpc, qmsg, net, seen, told>>

\* storeLocalVectorClock
ChangeStore(d) ==
    /\ apc[d] = "read"
    /\ clock' = [clock EXCEPT ![d] = areg[d].clock]
    /\ id' = [id EXCEPT ![d] = areg[d].id]
    /\ apc' = [apc EXCEPT ![d] = "stored"]
    /\ UNCHANGED <<name, areg, qpc, qmsg, net, made, seen, told>>

\* setGroupName; the change set goes to every other device.
ChangeName(d) ==
    /\ apc[d] = "stored"
    /\ name' = [name EXCEPT ![d] = areg[d].name]
    /\ net' = net \cup To(Devices \ {d}, areg[d])
    /\ seen' = [seen EXCEPT ![d] = @ \cup {areg[d].name}]
    /\ apc' = [apc EXCEPT ![d] = "idle"] /\ areg' = [areg EXCEPT ![d] = NoMsg]
    /\ UNCHANGED <<clock, id, qpc, qmsg, made, told>>

----------------------------------------------------------------------------
(* The thread of the queue: processUpdateName and performGroupHello.       *)

\* The clock is read and compared; the change set is rejected or taken.
Receive(d, m) ==
    /\ qpc[d] = "idle" /\ Opens /\ m.to = d
    /\ net' = net \ {m}
    /\ IF Accepts(m, d)
       THEN /\ qpc' = [qpc EXCEPT ![d] = "accepted"] /\ qmsg' = [qmsg EXCEPT ![d] = m]
            /\ UNCHANGED seen
       ELSE /\ seen' = [seen EXCEPT ![d] = @ \cup ({m.name} \ {0})]
            /\ UNCHANGED <<qpc, qmsg>>
    /\ UNCHANGED <<tables, apc, areg, made, told>>

\* setGroupName
ReceiveName(d) ==
    /\ qpc[d] = "accepted"
    /\ name' = [name EXCEPT ![d] = qmsg[d].name]
    /\ qpc' = [qpc EXCEPT ![d] = "named"]
    /\ UNCHANGED <<clock, id, apc, areg, qmsg, net, made, seen, told>>

\* storeLocalVectorClock: the clock of the change, not a merged one.  Mutant:
\* the stored clock stays.
ReceiveNameOnly(d) ==
    /\ qpc[d] = "named"
    /\ seen' = [seen EXCEPT ![d] = @ \cup ({qmsg[d].name} \ {0})]
    /\ qpc' = [qpc EXCEPT ![d] = "idle"] /\ qmsg' = [qmsg EXCEPT ![d] = NoMsg]
    /\ UNCHANGED <<tables, apc, areg, net, made, told>>
ReceiveStore(d) ==
    /\ qpc[d] = "named"
    /\ clock' = [clock EXCEPT ![d] = qmsg[d].clock]
    /\ id' = [id EXCEPT ![d] = qmsg[d].id]
    /\ seen' = [seen EXCEPT ![d] = @ \cup ({qmsg[d].name} \ {0})]
    /\ qpc' = [qpc EXCEPT ![d] = "idle"] /\ qmsg' = [qmsg EXCEPT ![d] = NoMsg]
    /\ UNCHANGED <<name, apc, areg, net, made, told>>

\* addMissingMetaData: name and clock as they are, under a new update id, in a
\* HELLO to one device (queue thread) or with a new member to all (app thread).
Tell(d, S) ==
    /\ Cardinality(told) < MaxTold /\ Opens
    /\ \/ Cardinality(S) = 1 /\ qpc[d] = "idle"
       \/ S = Devices \ {d} /\ apc[d] = "idle"
    /\ \E i \in FreshIds : /\ net' = net \cup To(S, Update(clock[d], i, name[d]))
                           /\ told' = told \cup {i}
    /\ UNCHANGED <<tables, apc, areg, qpc, qmsg, made, seen>>

Next ==
    \/ \E d \in Devices : \/ ChangeRead(d) \/ ChangeStore(d) \/ ChangeName(d)
                          \/ ReceiveName(d) \/ ReceiveStore(d)
    \/ \E m \in net : Receive(m.to, m)
    \/ \E d \in Devices : \E S \in SUBSET (Devices \ {d}) : Tell(d, S)

Spec == Init /\ [][Next]_vars
----------------------------------------------------------------------------
(* Properties.                                                             *)

Names   == 0 .. MaxChanges
Ids     == 0 .. MaxChanges + MaxTold
Updates == [clock : Clocks, id : Ids, name : Names]
Letters == [to : Devices, clock : Clocks, id : Ids, name : Names]

\* The types of tables, threads, change sets and history.
TypeOK ==
    /\ name \in [Devices -> Names]
    /\ clock \in [Devices -> Clocks] /\ id \in [Devices -> Ids]
    /\ apc \in [Devices -> {"idle", "read", "stored"}]
    /\ areg \in [Devices -> Updates \cup {NoMsg}]
    /\ qpc \in [Devices -> {"idle", "accepted", "named"}]
    /\ qmsg \in [Devices -> Letters \cup {NoMsg}]
    /\ net \subseteq Letters
    /\ made \in Seq([clock : Clocks, id : Ids, after : SUBSET Names])
    /\ seen \in [Devices -> SUBSET Names] /\ told \subseteq Ids

Idle(d) == apc[d] = "idle" /\ qpc[d] = "idle"

\* The stored clock is the one of the change the stored name came with: who
\* compares with the clock decides about this name (processUpdateName).
ClockOf(n) == IF n = 0 THEN Empty ELSE made[n].clock
NameMatchesClock == \A d \in Devices : Idle(d) => clock[d] = ClockOf(name[d])

\* A device never shows a name that is older than one it has made or processed:
\* a change is never undone by one its author knew of.
NewestIsShown ==
    \A d \in Devices : Idle(d) => \A n \in seen[d] : name[d] \notin made[n].after

\* Clocks that are equal belong to one change: a change set with the clock a
\* device has is dropped ("The local data and the remote data are equal").
EqualClocksEqualData ==
    \A n, k \in DOMAIN made : made[n].clock = made[k].clock => n = k

\* When every change set has been processed all devices show one name
\* (resolveConflict decides alike on all of them).  They may differ only if
\* clocks of one sum were compared by the id of a repeated change set or two
\* changes have one clock.
Quiet == net = {} /\ \A d \in Devices : Idle(d)
Converged ==
    Quiet => \A d, x \in Devices :
                \/ name[d] = name[x]
                \/ /\ Sum(clock[d]) = Sum(clock[x])
                   /\ told # {} \/ ~EqualClocksEqualData

----------------------------------------------------------------------------
(* Inductive invariants, for the proofs.                                   *)

MadeBy(u) == u.name \in 0 .. Len(made) /\ u.clock = ClockOf(u.name)

\* Threads hold updates while they work, and these have the clocks of the
\* changes that made them, as do all change sets on their way.
RegType ==
    \A d \in Devices : /\ apc[d] # "idle" => areg[d] \in Updates /\ areg[d].name # 0
                       /\ qpc[d] # "idle" => qmsg[d] \in Letters
MadeInv ==
    /\ Len(made) <= MaxChanges
    /\ \A d \in Devices : /\ name[d] \in 0 .. Len(made)
                          /\ apc[d] # "idle" => MadeBy(areg[d])
                          /\ qpc[d] # "idle" => MadeBy(qmsg[d])
    /\ \A m \in net : MadeBy(m)

\* One thread of a device works at a time; the stored clock is that of the name
\* but for the step between their two statements.
Alone == \A d \in Devices : apc[d] = "idle" \/ qpc[d] = "idle"
TableInv ==
    \A d \in Devices :
        /\ apc[d] # "stored" /\ qpc[d] # "named" => clock[d] = ClockOf(name[d])
        /\ apc[d] = "stored" => clock[d] = areg[d].clock
        /\ qpc[d] = "named" => name[d] = qmsg[d].name
============================================================================
