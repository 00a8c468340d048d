-------------------------- MODULE ZinaGroupUpdate --------------------------
(***************************************************************************)
(* How a device tells the members of its groups what has changed: change   *)
(* sets, their way to the devices of the members, acknowledgements.        *)
(*                                                                         *)
(* The app collects changes in the current change set of a group.  The     *)
(* next message to the group takes the set along: prepareChangeSetSend     *)
(* stamps it and writes it into the tables of this device, every device of *)
(* the members gets it with its copy of the message and a row in the table *)
(* of awaited acknowledgements (createChangeSetDevice), and at the end the *)
(* set is kept as the pending one (groupUpdateSendDone).  The queue thread *)
(* takes the acknowledgements.  Threads of the app share the sets, the     *)
(* flag updateInProgress and the update id, under currentChangeSetLock.    *)
(*                                                                         *)
(* This is one device and, as its peers, the devices of the other members, *)
(* one for each, which make no changes themselves.  The clock of the name  *)
(* then is a counter; ZinaGroupData has the clocks of several authors, and *)
(* avatar and burn time go the way of the name.  Burning of messages and   *)
(* devices of the own user are left out, but for a sibling that leaves.    *)
(***************************************************************************)
EXTENDS Integers, Sequences, FiniteSets

CONSTANTS
    Peers,        \* the other users, each with one device
    Me,           \* the own user
    Groups,       \* the groups of this device ...
    Started,      \* ... and those that may exist at the start
    Threads,      \* threads of the app that call group functions
    None,         \* no change set, an update that is not in a change set
    MaxNames,     \* bound: names given
    MaxEdits,     \* bound: other changes of a change set
    MaxSends,     \* bound: messages, commands, HELLOs
    MaxFaults     \* bound: messages that get lost or overtake others, SQL
                  \* statements that fail, groups left, ends of the process

ASSUME ConstantsAssumption ==
    /\ Me \notin Peers /\ Started \subseteq Groups
    /\ \A x \in Peers : x \notin Int
    /\ \A n \in {MaxNames, MaxEdits, MaxSends, MaxFaults} : n \in Nat

Users == Peers \cup {Me}

\* An update id of 0 is the one groupUpdateSendDone leaves behind, NoId that of
\* an update nobody has stamped.
NoId == -1

VARIABLES
    \* tables of this device: groups, members, names with their clock, and
    \* awaited acknowledgements
    exists, members, name, clock, rows,
    \* memory of this device
    current, pending, inProgress, uid,
    \* thread -> where it is, in which call, for which group, members to go
    pc, call, grp, todo,
    \* messages to each peer, acknowledgements and requests of the peers
    net, back,
    \* the peers: group table, member table, name, clock, requests sent
    knows, list, shown, since, asked,
    \* history: groups, update ids and names used; users who were removed, or were
    \* sent a set when they were no members; users in a set who were copied there
    \* against the table of members; users who asked to be removed; groups where
    \* the sending of a set was cut short or began under the update of another
    made, lastId, names, outside, stale, quit, torn,
    edits, sends, lost, overtakes, fails, leaves, crashes

tables  == <<exists, members, name, clock, rows>>
memory  == <<current, pending, inProgress, uid>>
threads == <<pc, call, grp, todo>>
peers   == <<knows, list, shown, since, asked>>
counts  == <<edits, sends, lost, overtakes, fails, leaves, crashes>>
hist    == <<made, lastId, names, outside, stale, quit, torn>>
vars    == <<tables, memory, threads, net, back, peers, hist, counts>>

----------------------------------------------------------------------------
(* Change sets.  Of an update the set either has none or its content; a    *)
(* list of members that is there may be empty.                             *)

EmptyChange == [name |-> None, add |-> None, rm |-> None]

Join(item, S) == IF S = {} THEN item
                 ELSE IF item = None THEN [who |-> S, id |-> NoId]
                 ELSE [item EXCEPT !.who = @ \cup S]
Without(item, u) == IF item = None THEN None ELSE [item EXCEPT !.who = @ \ {u}]
Who(item) == IF item = None THEN {} ELSE item.who
Stamp(item, id) == IF item = None THEN None ELSE [item EXCEPT !.id = id]

\* addMissingMetaData: the name goes along with new members.
WithName(c, g, id) ==
    IF c.add # None /\ c.name = None
    THEN [c EXCEPT !.name = [v |-> name[g], clk |-> clock[g], id |-> id]] ELSE c

\* getCurrentGroupChangeSet: made when there is none, for a group that exists.
CanEdit(g) == current[g] # None \/ exists[g]
Current(g) == IF current[g] = None THEN EmptyChange ELSE current[g]

\* currentChangeSetLock is only held over actions by a thread that waits for it
\* while it holds it.
Unlocked == \A t \in Threads : pc[t] # "stuck"
Idle(t) == pc[t] = "idle" /\ Unlocked

\* Room for one more fault.
Calm == lost + overtakes + fails + leaves + crashes < MaxFaults

----------------------------------------------------------------------------
Init ==
    /\ made \in SUBSET Started
    /\ exists = [g \in Groups |-> g \in made]
    /\ members = [g \in Groups |-> IF g \in made THEN Users ELSE {}]
    /\ name = [g \in Groups |-> 0] /\ clock = [g \in Groups |-> 0]
    /\ rows = {}
    /\ current = [g \in Groups |-> None] /\ pending = {}
    /\ inProgress = FALSE /\ uid = 0
    /\ pc = [t \in Threads |-> "idle"] /\ call = [t \in Threads |-> "all"]
    /\ grp \in [Threads -> Groups]
    /\ todo = [t \in Threads |-> {}]
    /\ net = [p \in Peers |-> <<>>] /\ back = {}
    /\ knows = [p \in Peers |-> made]
    /\ list = [p \in Peers |-> members]
    /\ shown = [p \in Peers |-> name] /\ since = [p \in Peers |-> clock]
    /\ asked = [p \in Peers |-> {}]
    /\ lastId = 0 /\ names = 0 /\ outside = {} /\ stale = {} /\ quit = {} /\ torn = {}
    /\ edits = 0 /\ sends = 0 /\ lost = 0 /\ overtakes = 0
    /\ fails = 0 /\ leaves = 0 /\ crashes = 0

----------------------------------------------------------------------------
(* The app edits the current change set, in a thread that is free.         *)

Edit(g, c) ==
    /\ \E t \in Threads : Idle(t)
    /\ current' = [current EXCEPT ![g] = c]
    /\ torn' = IF inProgress THEN torn \cup {g} ELSE torn
    /\ UNCHANGED <<tables, pending, inProgress, uid, threads, net, back, peers>>

\* A name that is in the set already keeps its clock and its update id.
SetGroupName(g) ==
    /\ CanEdit(g) /\ names < MaxNames /\ names' = names + 1
    /\ LET c == Current(g) IN
       Edit(g, [c EXCEPT !.name = IF @ = None
                                  THEN [v |-> names + 1, clk |-> 0, id |-> NoId]
                                  ELSE [@ EXCEPT !.v = names + 1]])
    /\ UNCHANGED <<made, lastId, outside, stale, quit, counts>>

Edits(g, c) ==
    /\ edits < MaxEdits /\ edits' = edits + 1
    /\ Edit(g, c)
    /\ UNCHANGED <<lastId, names, outside, stale, quit, sends, lost, overtakes, fails, leaves, crashes>>

\* createNewGroup; the id of the group is a new one.
CreateNewGroup(g) ==
    /\ g \notin made /\ made' = made \cup {g}
    /\ Edits(g, [EmptyChange EXCEPT !.add = [who |-> {Me}, id |-> NoId]])

AddUser(g, u) ==
    CanEdit(g) /\ UNCHANGED made /\ Edits(g, [Current(g) EXCEPT !.rm = Without(@, u), !.add = Join(@, {u})])
RemoveUser(g, u) ==
    CanEdit(g) /\ UNCHANGED made /\ Edits(g, [Current(g) EXCEPT !.add = Without(@, u), !.rm = Join(@, {u})])

\* setGroupName(null), removeUserFromAddUpdate, removeUserFromRemoveUpdate: they
\* leave an empty set where there was none.
Revoke(g) ==
    /\ CanEdit(g) /\ UNCHANGED made
    /\ \/ Edits(g, [Current(g) EXCEPT !.name = None])
       \/ \E u \in Peers : \/ Edits(g, [Current(g) EXCEPT !.add = Without(@, u)])
                           \/ Edits(g, [Current(g) EXCEPT !.rm = Without(@, u)])

CancelGroupChangeSet(g) == current[g] # None /\ UNCHANGED made /\ Edits(g, None)

----------------------------------------------------------------------------
(* sendGroupMessage, sendGroupMessageToMember and, for a group to leave,   *)
(* leaveGroup.                                                             *)

\* leaveGroup: only the own removal stays in the current change set.
LeaveGroup(t, g) ==
    /\ Idle(t) /\ exists[g] /\ Calm /\ leaves' = leaves + 1
    /\ current' = [current EXCEPT ![g] =
                     [EmptyChange EXCEPT !.rm = [who |-> {Me}, id |-> NoId]]]
    /\ pc' = [pc EXCEPT ![t] = "prepare"] /\ call' = [call EXCEPT ![t] = "leave"]
    /\ grp' = [grp EXCEPT ![t] = g]
    /\ torn' = torn \cup {g}
    /\ UNCHANGED <<tables, pending, inProgress, uid, todo, net, back, peers,
                   made, lastId, names, outside, stale, quit, edits, sends, lost, overtakes, fails, crashes>>

SendGroupMessage(t, g, c) ==
    /\ Idle(t) /\ sends < MaxSends /\ sends' = sends + 1
    /\ c \in {"all", "one"}
    /\ pc' = [pc EXCEPT ![t] = "prepare"] /\ call' = [call EXCEPT ![t] = c]
    /\ grp' = [grp EXCEPT ![t] = g]
    /\ UNCHANGED <<tables, memory, todo, net, back, peers, hist,
                   edits, lost, overtakes, fails, leaves, crashes>>

\* What follows a call that has come to its end.
Over(t) == IF call[t] = "leave" THEN "leave" ELSE "idle"

Preparing(t) == pc[t] = "prepare" /\ Unlocked

\* No current change set, or GROUP_UPDATE_RUNNING, which ends the call.
PrepareNothing(t) ==
    /\ Preparing(t)
    /\ \/ current[grp[t]] = None /\ pc' = [pc EXCEPT ![t] = "list"]
       \/ /\ current[grp[t]] # None /\ inProgress
          /\ pc' = [pc EXCEPT ![t] = Over(t)]
    /\ UNCHANGED <<tables, memory, call, grp, todo, net, back, peers, hist, counts>>

\* prepareChangeSetClocks
Clocked(c, g, id) ==
    IF c.name = None THEN c
    ELSE [c EXCEPT !.name = [v |-> @.v, clk |-> clock[g] + 1, id |-> id]]

\* prepareChangeSetSend: the set is stamped and enters the tables.  A new group
\* is inserted with the own user.  The own user is never deleted here.
Prepare(t) ==
    LET g   == grp[t]
        id  == lastId + 1
        c   == Clocked(current[g], g, id)
        all == members[g] \cup (IF exists[g] THEN {} ELSE {Me}) \cup Who(c.add)
        n   == WithName(c, g, id)
    IN  /\ Preparing(t) /\ current[g] # None /\ ~inProgress
        /\ inProgress' = TRUE /\ uid' = id /\ lastId' = id
        /\ exists' = [exists EXCEPT ![g] = TRUE]
        /\ IF c.name = None THEN UNCHANGED <<name, clock>>
           ELSE /\ name' = [name EXCEPT ![g] = c.name.v]
                /\ clock' = [clock EXCEPT ![g] = c.name.clk]
        /\ members' = [members EXCEPT ![g] = all \ (Who(c.rm) \ {Me})]
        /\ current' = [current EXCEPT ![g] =
             [name |-> n.name,
              add  |-> IF c.add = None THEN None ELSE [who |-> all, id |-> id],
              rm   |-> Stamp(c.rm, id)]]
        /\ outside' = outside \cup ({g} \X Who(c.rm))
        /\ pc' = [pc EXCEPT ![t] = "list"]
        /\ UNCHANGED <<rows, pending, call, grp, todo, net, back, peers,
                       made, names, stale, quit, torn, counts>>

\* A statement fails: the group is not inserted or the clock not stored.  The
\* call returns, the flag stays.
PrepareFails(t) ==
    LET g == grp[t]
        id == lastId + 1
    IN  /\ Preparing(t) /\ current[g] # None /\ ~inProgress
        /\ Calm /\ fails' = fails + 1
        /\ inProgress' = TRUE /\ uid' = id /\ lastId' = id
        /\ \/ ~exists[g] /\ UNCHANGED <<exists, members, current>>
           \/ /\ current[g].name # None
              /\ exists' = [exists EXCEPT ![g] = TRUE]
              /\ members' = [members EXCEPT ![g] = IF exists[g] THEN @ ELSE {Me}]
              /\ current' = [current EXCEPT ![g] = Clocked(@, g, id)]
        /\ pc' = [pc EXCEPT ![t] = Over(t)] /\ torn' = torn \cup {g}
        /\ UNCHANGED <<name, clock, rows, pending, call, grp, todo, net, back, peers,
                       made, names, outside, stale, quit,
                       edits, sends, lost, overtakes, leaves, crashes>>

\* The members are listed after the lock is given back; without a group the
\* call ends with NO_SUCH_ACTIVE_GROUP.
ListMembers(t) ==
    LET g == grp[t] IN
    /\ pc[t] = "list" /\ call[t] # "one"
    /\ IF exists[g]
       THEN todo' = [todo EXCEPT ![t] = members[g] \ {Me}] /\ pc' = [pc EXCEPT ![t] = "send"]
       ELSE pc' = [pc EXCEPT ![t] = Over(t)] /\ UNCHANGED todo
    /\ UNCHANGED <<tables, memory, call, grp, net, back, peers, hist, counts>>

Letter(g, c) == [group |-> g, set |-> c]
Post(p, letter) == net' = [net EXCEPT ![p] = Append(@, letter)]

\* sendGroupMessageToMember: one member gets the change set of all; if it names
\* a device, not even this one.
ListOne(t) ==
    LET g == grp[t] IN
    /\ pc[t] = "list" /\ call[t] = "one"
    /\ IF exists[g]
       THEN /\ \E p \in Peers : \/ todo' = [todo EXCEPT ![t] = {p}] /\ UNCHANGED net
                                \/ Post(p, Letter(g, None)) /\ UNCHANGED todo
            /\ pc' = [pc EXCEPT ![t] = "send"]
            /\ torn' = IF inProgress THEN torn \cup {g} ELSE torn
       ELSE pc' = [pc EXCEPT ![t] = "idle"] /\ UNCHANGED <<todo, net, torn>>
    /\ UNCHANGED <<tables, memory, call, grp, back, peers, made, lastId, names, outside, stale, quit, counts>>

----------------------------------------------------------------------------
(* createChangeSetDevice and the message it goes with, for one device.     *)

Row(g, p, id, type) == [group |-> g, dev |-> p, id |-> id, type |-> type]
Types == {"name", "add", "rm"}
Present(c) == {y \in Types : c[y] # None}

PendingOf(g) == {x \in pending : x.group = g}

\* hasWaitAckGroupDevice runs the statement of hasWaitAckGroupUpdate and binds
\* the device to the place of the update id.
HasWaitAckGroupDevice(g, p) == \E r \in rows : r.group = g /\ r.id = p

\* The pending sets with an update of this type the device has not acknowledged.
Owed(g, p, type) ==
    {x \in PendingOf(g) : Who(x.set[type]) # {} /\ Row(g, p, x.id, type) \in rows}
OwedUsers(g, p, type) == UNION {Who(x.set[type]) : x \in Owed(g, p, type)}

\* Users who are copied though the table of members says otherwise: the copy looks
\* at the one list only.
Contrary(g, p) ==
    (OwedUsers(g, p, "rm") \cap members[g])
      \cup (OwedUsers(g, p, "add")
               \ (members[g] \cup Who(current[g].rm) \cup OwedUsers(g, p, "rm")))

\* Mutant: they are not copied into the current set.
CollapsedAlone(g, p) == WithName(current[g], g, uid)

\* They are copied into the current set, whatever its other list says.
Collapsed(g, p) ==
    LET c == [current[g] EXCEPT !.add = Join(@, OwedUsers(g, p, "add")),
                                !.rm = Join(@, OwedUsers(g, p, "rm"))]
    IN  WithName(c, g, uid)

\* Rows of what was copied go, those of older names too, new ones come.
Awaited(g, p, c) ==
    (rows \ ({Row(g, p, x.id, "add") : x \in Owed(g, p, "add")}
              \cup {Row(g, p, x.id, "rm") : x \in Owed(g, p, "rm")}
              \cup {r \in rows : r.group = g /\ r.dev = p
                                 /\ r.type = "name" /\ c.name # None}))
      \cup {Row(g, p, uid, y) : y \in Present(c)}

\* A set travels with the next message while an update is in progress.
DeviceSet(g, p) ==
    /\ inProgress /\ current[g] \notin {None, EmptyChange}
    /\ LET c == Collapsed(g, p)
       IN  /\ current' = [current EXCEPT ![g] = c]
           /\ rows' = Awaited(g, p, c)
           /\ Post(p, Letter(g, c))
    /\ UNCHANGED <<exists, members, name, clock, pending, inProgress, uid>>

\* Without one the pending set of the group is sent again to who owes an
\* acknowledgement.
DevicePlain(g, p) ==
    /\ ~inProgress
    /\ \/ /\ PendingOf(g) = {} \/ ~HasWaitAckGroupDevice(g, p)
          /\ Post(p, Letter(g, None))
       \/ /\ HasWaitAckGroupDevice(g, p)
          /\ \E x \in PendingOf(g) : Post(p, Letter(g, x.set))
    /\ UNCHANGED <<tables, memory>>

\* GROUP_UPDATE_INCONSISTENT: this device gets no message at all.
DeviceInconsistent(g) ==
    /\ inProgress /\ current[g] = None
    /\ UNCHANGED <<tables, memory, net>>

\* One flag and one update id serve all groups: while another group is updated
\* a set that nobody has stamped goes out too.
Stamped(c) == IF c.name # None THEN c.name.id = uid
              ELSE c.add = None /\ (c.rm # None => c.rm.id = uid)
Astray(g) == IF inProgress /\ current[g] # None /\ ~Stamped(current[g]) THEN {g} ELSE {}

Device(g, p) ==
    /\ DeviceSet(g, p) \/ DevicePlain(g, p) \/ DeviceInconsistent(g)
    /\ torn' = torn \cup Astray(g)
    /\ IF inProgress /\ current[g] \notin {None, EmptyChange}
       THEN /\ stale' = stale \cup ({g} \X Contrary(g, p))
            /\ outside' = outside \cup ({g} \X ({p} \ members[g]))
       ELSE UNCHANGED <<stale, outside>>
    /\ UNCHANGED <<made, lastId, names, quit>>

SendToMember(t, p) ==
    /\ pc[t] = "send" /\ p \in todo[t] /\ Unlocked
    /\ Device(grp[t], p)
    /\ todo' = [todo EXCEPT ![t] = @ \ {p}]
    /\ UNCHANGED <<pc, call, grp, back, peers, counts>>

\* An empty set is to be removed by removeGroupFromChangeSet, which waits for
\* the lock its caller holds.
SendBlocks(t) ==
    /\ pc[t] = "send" /\ todo[t] # {} /\ Unlocked
    /\ inProgress /\ current[grp[t]] = EmptyChange
    /\ pc' = [pc EXCEPT ![t] = "stuck"]
    /\ UNCHANGED <<tables, memory, call, grp, todo, net, back, peers, hist, counts>>

\* sendGroupCommandToMember neither prepares a change set nor ends one.
SendGroupCommandToMember(t, g, p) ==
    /\ Idle(t) /\ sends < MaxSends /\ sends' = sends + 1
    /\ Device(g, p)
    /\ UNCHANGED <<threads, back, peers,
                   edits, lost, overtakes, fails, leaves, crashes>>

\* A call that ends while others send ends their update too, whatever the group.
Cut(t) == {grp[u] : u \in {x \in Threads \ {t} : pc[x] \in {"list", "send"}}}

\* Mutant: the flag stays set.
SendDoneKeepsFlag(t) ==
    /\ pc[t] = "send" /\ todo[t] = {} /\ Unlocked
    /\ current' = [current EXCEPT ![grp[t]] = None] /\ uid' = 0
    /\ pc' = [pc EXCEPT ![t] = Over(t)]
    /\ UNCHANGED <<tables, pending, inProgress, call, grp, todo, net, back, peers, hist, counts>>

\* Mutant: the current set is erased before it becomes the pending one.
SendDoneErased(t) ==
    LET g == grp[t] IN
    /\ pc[t] = "send" /\ todo[t] = {} /\ Unlocked
    /\ current' = [current EXCEPT ![g] = None] /\ uid' = 0 /\ inProgress' = FALSE
    /\ pending' = IF inProgress
                  THEN pending \cup {[id |-> uid, group |-> g, set |-> current'[g]]}
                  ELSE pending
    /\ pc' = [pc EXCEPT ![t] = Over(t)]
    /\ UNCHANGED <<tables, call, grp, todo, net, back, peers, hist, counts>>

\* groupUpdateSendDone: the current set becomes the pending one of the group.
\* Without a current set the flag stays.
SendDone(t) ==
    LET g    == grp[t]
        same == {x \in PendingOf(g) : x.id = uid}
        kept == (pending \ PendingOf(g)) \cup same
    IN  /\ pc[t] = "send" /\ todo[t] = {} /\ Unlocked
        /\ \/ ~inProgress /\ UNCHANGED memory
           \/ inProgress /\ current[g] = None
              /\ uid' = 0 /\ pending' = kept /\ UNCHANGED <<current, inProgress>>
           \/ inProgress /\ current[g] # None
              /\ uid' = 0 /\ inProgress' = FALSE
              /\ current' = [current EXCEPT ![g] = None]
              /\ pending' = IF same # {} THEN kept
                            ELSE kept \cup {[id |-> uid, group |-> g, set |-> current[g]]}
        /\ pc' = [pc EXCEPT ![t] = Over(t)]
        /\ torn' = torn \cup Astray(g) \cup (IF inProgress THEN Cut(t) ELSE {})
        /\ UNCHANGED <<tables, call, grp, todo, net, back, peers,
                       made, lastId, names, outside, stale, quit, counts>>

----------------------------------------------------------------------------
(* Leaving.  processLeaveGroup knows no lock.                              *)

Forget(g) ==
    /\ rows' = {r \in rows : r.group # g}
    /\ pending' = pending \ PendingOf(g)
    /\ exists' = [exists EXCEPT ![g] = FALSE]
    /\ members' = [members EXCEPT ![g] = {}]
    /\ name' = [name EXCEPT ![g] = 0] /\ clock' = [clock EXCEPT ![g] = 0]
    /\ torn' = torn \cup {g}
    /\ UNCHANGED <<current, inProgress, uid, made, lastId, names, outside, stale, quit>>

ProcessLeaveGroup(t) ==
    /\ pc[t] = "leave" /\ Forget(grp[t])
    /\ pc' = [pc EXCEPT ![t] = "idle"]
    /\ UNCHANGED <<call, grp, todo, net, back, peers, counts>>

\* Another device of the own user has left: its change set arrives.
SiblingLeaves(g) ==
    /\ exists[g] /\ Calm /\ leaves' = leaves + 1
    /\ Forget(g)
    /\ UNCHANGED <<threads, net, back, peers,
                   edits, sends, lost, overtakes, fails, crashes>>

----------------------------------------------------------------------------
(* The queue thread: HELLO, acknowledgements and requests to be removed.   *)

\* performGroupHello: all a device has to know, under an update id of its own;
\* no pending set.
Hello(g, p) ==
    LET id == lastId + 1
        c == WithName([EmptyChange EXCEPT !.add = [who |-> members[g], id |-> id]], g, id)
    IN  /\ exists[g] /\ p \in members[g] /\ sends < MaxSends /\ sends' = sends + 1
        /\ lastId' = id
        /\ rows' = rows \cup {Row(g, p, id, y) : y \in Present(c)}
        /\ Post(p, Letter(g, c))
        /\ UNCHANGED <<exists, members, name, clock, memory, threads, back, peers,
                       made, names, outside, stale, quit, torn,
                       edits, lost, overtakes, fails, leaves, crashes>>

\* Mutant: every row of a type goes, whatever the update id.
AcknowledgedAnyId(a) ==
    {r \in rows : r.group = a.group /\ r.dev = a.from /\ \E k \in a.acks : k.type = r.type}
Acknowledged(a) == {Row(a.group, a.from, k.id, k.type) : k \in a.acks}

\* processAcks: the rows go, and with the last row of an update its pending set.
\* Nothing is done for a group that is not there.
TakeAcks(a) ==
    LET left == rows \ Acknowledged(a) IN
    /\ a \in back /\ a.acks # {} /\ back' = back \ {a}
    /\ IF exists[a.group]
       THEN /\ rows' = left
            /\ pending' = pending \ {x \in PendingOf(a.group) :
                  /\ \E k \in a.acks : k.id = x.id
                  /\ \A r \in left : ~(r.group = a.group /\ r.id = x.id)}
       ELSE UNCHANGED <<rows, pending>>
    /\ UNCHANGED <<exists, members, name, clock, current, inProgress, uid,
                   threads, net, peers, hist, counts>>

\* processUpdateMembers on the request of a peer that does not know the group.
\* Nobody else is told.
TakeRequest(a) ==
    /\ a \in back /\ a.acks = {} /\ back' = back \ {a}
    /\ IF exists[a.group]
       THEN /\ members' = [members EXCEPT ![a.group] = @ \ {a.from}]
            /\ quit' = quit \cup {<<a.group, a.from>>}
       ELSE UNCHANGED <<members, quit>>
    /\ UNCHANGED <<exists, name, clock, rows, memory, threads, net, peers,
                   made, lastId, names, outside, stale, torn, counts>>

----------------------------------------------------------------------------
(* A peer processes a message (checkAndProcessChangeSet).                  *)

Reply(p, g, acks) == [group |-> g, from |-> p, acks |-> acks]
Gone(s, k) == SubSeq(s, 1, k - 1) \o SubSeq(s, k + 1, Len(s))

\* The k-th message on its way arrives.
Arrives(p, k) ==
    /\ k \in DOMAIN net[p]
    /\ k > 1 => Calm
    /\ net' = [net EXCEPT ![p] = Gone(@, k)]
    /\ overtakes' = IF k > 1 THEN overtakes + 1 ELSE overtakes
    /\ UNCHANGED <<tables, memory, threads, hist, edits, sends, lost, fails, leaves, crashes>>

\* No change set, and the group is known: just a message.
PeerMessage(p, k) ==
    /\ Arrives(p, k) /\ net[p][k].set = None /\ net[p][k].group \in knows[p]
    /\ UNCHANGED <<back, peers>>

\* The peer does not know the group and is not told enough to make it: it asks
\* to be removed, by change sets once only; a set that removes just itself is
\* ignored.
PeerUnknown(p, k) ==
    LET g == net[p][k].group
        c == net[p][k].set
        request == Reply(p, g, {})
    IN  /\ Arrives(p, k) /\ g \notin knows[p]
        /\ \/ c = None /\ back' = back \cup {request} /\ UNCHANGED asked
           \/ /\ c # None /\ Who(c.add) = {}
              /\ IF /\ c.name # None \/ c.rm # None
                    /\ Who(c.rm) # {p} /\ g \notin asked[p]
                 THEN /\ back' = back \cup {request}
                      /\ asked' = [asked EXCEPT ![p] = @ \cup {g}]
                 ELSE UNCHANGED <<back, asked>>
        /\ UNCHANGED <<knows, list, shown, since>>

\* processReceivedChangeSet: new members make the group.  A name is taken if its
\* clock is newer; added members are inserted, removed ones deleted, who is both
\* is removed.  All is acknowledged.
PeerChange(p, k) ==
    LET g == net[p][k].group
        c == net[p][k].set
        new == g \notin knows[p]
        newer == c.name # None /\ c.name.clk > since[p][g]
        acks == {[id |-> c[y].id, type |-> y] : y \in
                   {y \in Present(c) : y = "name" \/ Who(c.add) \cup Who(c.rm) # {}}}
    IN  /\ Arrives(p, k) /\ c # None
        /\ ~new \/ Who(c.add) # {}
        /\ knows' = [knows EXCEPT ![p] = @ \cup {g}]
        /\ shown' = IF newer \/ (new /\ c.name # None)
                    THEN [shown EXCEPT ![p][g] = c.name.v] ELSE shown
        /\ since' = IF newer THEN [since EXCEPT ![p][g] = c.name.clk] ELSE since
        /\ list' = [list EXCEPT ![p][g] =
                      (@ \cup (IF new THEN {p} ELSE {}) \cup Who(c.add)) \ Who(c.rm)]
        /\ back' = IF acks = {} THEN back ELSE back \cup {Reply(p, g, acks)}
        /\ UNCHANGED asked

Peer(p, k) == PeerMessage(p, k) \/ PeerUnknown(p, k) \/ PeerChange(p, k)

----------------------------------------------------------------------------
(* Faults.                                                                 *)

Lose ==
    /\ Calm /\ lost' = lost + 1
    /\ \/ /\ \E p \in Peers : \E k \in DOMAIN net[p] :
                net' = [net EXCEPT ![p] = Gone(@, k)]
          /\ UNCHANGED back
       \/ (\E a \in back : back' = back \ {a}) /\ UNCHANGED net
    /\ UNCHANGED <<tables, memory, threads, peers, hist,
                   edits, sends, overtakes, fails, leaves, crashes>>

\* The process ends: the change sets and the flag were in memory only.  A set
\* that is written to the tables then is with a part of the members only.
Crash ==
    /\ Calm /\ crashes' = crashes + 1
    /\ torn' = torn \cup
         {grp[t] : t \in {x \in Threads : pc[x] \in {"list", "send"} /\ inProgress}}
    /\ current' = [g \in Groups |-> None] /\ pending' = {}
    /\ inProgress' = FALSE /\ uid' = 0
    /\ pc' = [t \in Threads |-> "idle"] /\ call' = [t \in Threads |-> "all"]
    /\ todo' = [t \in Threads |-> {}] /\ UNCHANGED grp
    /\ UNCHANGED <<tables, net, back, peers, made, lastId, names, outside, stale, quit,
                   edits, sends, lost, overtakes, fails, leaves>>

App ==
    \E g \in Groups :
        \/ SetGroupName(g) \/ CreateNewGroup(g) \/ Revoke(g) \/ CancelGroupChangeSet(g)
        \/ \E u \in Peers : AddUser(g, u) \/ RemoveUser(g, u)
        \/ \E t \in Threads :
             \/ LeaveGroup(t, g)
             \/ \E c \in {"all", "one"} : SendGroupMessage(t, g, c)
             \/ \E p \in Peers : SendGroupCommandToMember(t, g, p)

Thread(t) ==
    \/ PrepareNothing(t) \/ Prepare(t) \/ PrepareFails(t)
    \/ ListMembers(t) \/ ListOne(t)
    \/ \E p \in Peers : SendToMember(t, p)
    \/ SendBlocks(t) \/ SendDone(t) \/ ProcessLeaveGroup(t)

QueueThread ==
    \/ \E g \in Groups : SiblingLeaves(g) \/ \E p \in Peers : Hello(g, p)
    \/ \E a \in back : TakeAcks(a) \/ TakeRequest(a)

Next ==
    \/ App \/ QueueThread \/ Lose \/ Crash
    \/ \E t \in Threads : Thread(t)
    \/ \E p \in Peers : \E k \in DOMAIN net[p] : Peer(p, k)

\* A thread that can go on does.
Spec == Init /\ [][Next]_vars
FairSpec == Spec /\ \A t \in Threads : WF_vars(Thread(t))

----------------------------------------------------------------------------
(* Properties.                                                             *)

Ids == Nat \cup {NoId}
Versions == 0 .. MaxNames
NameItem == [v : Versions, clk : Nat, id : Ids]
MemberItem == [who : SUBSET Users, id : Ids]
ChangeSets == [name : NameItem \cup {None}, add : MemberItem \cup {None},
               rm : MemberItem \cup {None}]
RowType == [group : Groups, dev : Peers, id : Ids, type : Types]

ASSUME NoneAssumption == None \notin ChangeSets \cup NameItem \cup MemberItem

Letterings == [group : Groups, set : ChangeSets \cup {None}]
Replies    == [group : Groups, from : Peers, acks : SUBSET [id : Ids, type : Types]]

TablesType  == /\ exists \in [Groups -> BOOLEAN] /\ members \in [Groups -> SUBSET Users]
               /\ name \in [Groups -> Versions] /\ clock \in [Groups -> Nat]
               /\ rows \subseteq RowType
MemoryType  == /\ current \in [Groups -> ChangeSets \cup {None}]
               /\ pending \subseteq [id : Ids, group : Groups, set : ChangeSets]
               /\ inProgress \in BOOLEAN /\ uid \in Ids
ThreadsType == /\ pc \in [Threads -> {"idle", "prepare", "list", "send", "leave", "stuck"}]
               /\ call \in [Threads -> {"all", "one", "leave"}]
               /\ grp \in [Threads -> Groups] /\ todo \in [Threads -> SUBSET Peers]
NetType     == net \in [Peers -> Seq(Letterings)] /\ back \subseteq Replies
PeersType   == /\ knows \in [Peers -> SUBSET Groups]
               /\ list \in [Peers -> [Groups -> SUBSET Users]]
               /\ shown \in [Peers -> [Groups -> Versions]]
               /\ since \in [Peers -> [Groups -> Nat]]
               /\ asked \in [Peers -> SUBSET Groups]
HistType    == /\ made \subseteq Groups /\ torn \subseteq Groups
               /\ lastId \in Nat /\ names \in Nat
               /\ outside \subseteq Groups \X Users /\ stale \subseteq Groups \X Users
               /\ quit \subseteq Groups \X Users

\* The types of tables, sets, threads, messages and peers.
TypeOK == TablesType /\ MemoryType /\ ThreadsType /\ NetType /\ PeersType /\ HistType

\* Nobody is about to send to the group, and all its change sets went to all
\* members.
Told(g, p) ==
    /\ exists[g] /\ g \notin torn /\ p \in members[g]
    /\ \A t \in Threads : grp[t] = g => pc[t] \notin {"list", "send", "stuck"}

NoRows(g, p) == \A r \in rows : r.group = g => r.dev # p

\* A device that owes no acknowledgement knows the group by its name, whatever
\* was lost, came late or out of order: what the rows of waitForAck are for.
AckedIsApplied ==
    \A g \in Groups : \A p \in Peers :
        Told(g, p) /\ NoRows(g, p) =>
            g \in knows[p] /\ shown[p][g] = name[g] /\ since[p][g] = clock[g]

\* ... and has the members of this device, if nothing came out of order, but for
\* users who asked to be removed and those createChangeSetDevice copied from an
\* older set against the table of members: removed ones come back, others vanish.
\* Nothing is said of a device that was out of the group: it is not told what
\* changes meanwhile.
MembersAgree ==
    overtakes = 0 =>
    \A g \in Groups : \A p \in Peers :
        Told(g, p) /\ NoRows(g, p) /\ <<g, p>> \notin quit \cup outside =>
            \A u \in Users : <<g, u>> \notin quit \cup stale =>
                (u \in list[p][g] <=> u \in members[g])

\* ... and no message for the device is on its way.
Settled(g, p) == Told(g, p) /\ \A k \in DOMAIN net[p] : net[p][k].group # g

\* When nothing was lost or came out of order, every member of the group is a
\* member on all devices.
AddedIsMember ==
    lost = 0 /\ overtakes = 0 =>
    \A g \in Groups : \A p \in Peers :
        Settled(g, p) => {u \in members[g] : <<g, u>> \notin quit} \subseteq list[p][g]

\* An update comes to its end and the next one may begin (groupUpdateSendDone),
\* unless a thread has blocked itself, a statement failed or the group was left.
UpdateEnds ==
    inProgress ~> \/ ~inProgress \/ fails > 0 \/ leaves > 0
                  \/ \E t \in Threads : pc[t] = "stuck"
----------------------------------------------------------------------------
(* An inductive invariant, for the proofs.                                 *)

\* Update ids are new ones, and 0 is none of them.
Used(id) == id <= lastId
Named(c) == c # None /\ c.name # None
Letters(p, g) == {net[p][k].set : k \in {k \in DOMAIN net[p] : net[p][k].group = g}}
Sets(g) == {x.set : x \in PendingOf(g)} \cup UNION {Letters(p, g) : p \in Peers}
IdsUsed ==
    /\ Used(uid) /\ 0 <= lastId
    /\ \A g \in Groups : \A c \in Sets(g) \cup {current[g]} : Named(c) => Used(c.name.id)
    /\ \A g \in Groups :
         current[g] # None /\ current[g].rm # None => Used(current[g].rm.id)
    /\ \A a \in back : \A k \in a.acks : k.type = "name" => Used(k.id)

\* The set of a group whose update is in progress.
Prepared(g) == inProgress /\ current[g] \notin {None, EmptyChange} /\ Stamped(current[g])

\* The names on their way, or in a pending set, are those of this device, or
\* older; so is the name a peer shows.
NamesKnown(g) ==
    /\ \A c \in Sets(g) : Named(c) =>
         c.name.clk <= clock[g] /\ (c.name.clk = clock[g] => c.name.v = name[g])
    /\ Prepared(g) /\ Named(current[g]) =>
         current[g].name.clk = clock[g] /\ current[g].name.v = name[g]
    /\ \A p \in Peers :
         since[p][g] <= clock[g] /\ (since[p][g] = clock[g] => shown[p][g] = name[g])

UpToDate(g, p) == g \in knows[p] /\ shown[p][g] = name[g] /\ since[p][g] = clock[g]

\* An update id stands for the present name: sets with it carry this name, and
\* who acknowledged it has taken it.
Fresh(g, p, id) ==
    /\ \A c \in Sets(g) : Named(c) /\ c.name.id = id => c.name.clk = clock[g]
    /\ \A a \in back : a.group = g /\ a.from = p /\ [id |-> id, type |-> "name"] \in a.acks
                         => UpToDate(g, p)

\* A member that does not have the present name will be sent it, or its row is
\* there and stays until it has.
ToSend(g, p) == \E t \in Threads :
                   grp[t] = g /\ (pc[t] = "list" \/ (pc[t] = "send" /\ p \in todo[t]))
Sending(g, p) == Prepared(g) /\ Named(current[g]) /\ ToSend(g, p)
RowKept(g, p) ==
    \E id \in NoId .. lastId : Row(g, p, id, "name") \in rows /\ Fresh(g, p, id)

Reached(g) ==
    /\ ~exists[g] => members[g] = {}
    /\ \A p \in members[g] \ {Me} : UpToDate(g, p) \/ Sending(g, p) \/ RowKept(g, p)

\* No update that is sent has the id 0.
IdsStamped(g) ==
    current[g] # None => /\ current[g].name # None => current[g].name.id # 0
                         /\ current[g].rm # None => current[g].rm.id # 0
UpdateFresh(g) == Prepared(g) => \A p \in Peers : Fresh(g, p, uid)
GroupInv(g) == IdsStamped(g) /\ NamesKnown(g) /\ UpdateFresh(g) /\ Reached(g)

UnknownIsOld == \A p \in Peers : \A g \in Groups : g \notin knows[p] => since[p][g] = 0

AckInv ==
    /\ IdsUsed
    /\ UnknownIsOld
    /\ \A g \in Groups \ torn : GroupInv(g)
----------------------------------------------------------------------------
(* An inductive invariant for MembersAgree.                                *)

\* What a set says of a user; it is right when the table of members says so too.
Says(c, u)     == u \in Who(c.add) \cup Who(c.rm)
Right(g, c, u) == Says(c, u) => (u \in Who(c.rm) <=> u \notin members[g])

\* The sets for the group on their way to the peer, from one of them on.
SetAt(p, g, k) == net[p][k].group = g /\ net[p][k].set # None
Later(p, g, k) == {net[p][j].set : j \in {j \in k .. Len(net[p]) : SetAt(p, g, j)}}

\* The peer has the user right, and no set on its way changes that, whichever of
\* them get lost.
Applied(g, p, u) ==
    /\ u \in list[p][g] <=> u \in members[g]
    /\ \A c \in Letters(p, g) \ {None} : Right(g, c, u)

\* The update stands for the user: who takes a set that bears it has the user
\* right from then on, and so has who acknowledged it.
Bears(c, id, type) == c[type] # None /\ c[type].id = id
StandsFor(g, p, u, id, type) ==
    /\ \A k \in DOMAIN net[p] :
         SetAt(p, g, k) /\ Bears(net[p][k].set, id, type) =>
            Says(net[p][k].set, u) /\ \A c \in Later(p, g, k) : Right(g, c, u)
    /\ \A a \in back : a.group = g /\ a.from = p /\ [id |-> id, type |-> type] \in a.acks
                         => Applied(g, p, u)

\* The sets of this device with the update have the user; who is copied from them
\* takes him along.
Keeps(g, u, id, type) ==
    /\ \A x \in PendingOf(g) : x.id = id => u \in Who(x.set[type])
    /\ inProgress /\ current[g] # None /\ id = uid => u \in Who(current[g][type])

\* A row that stays until the peer has the user right, or is copied on.
RowHolds(g, p, u, id, type) ==
    Row(g, p, id, type) \in rows /\ StandsFor(g, p, u, id, type) /\ Keeps(g, u, id, type)
RowHeld(g, p, u) == \E id \in 1 .. lastId : \E type \in {"add", "rm"} : RowHolds(g, p, u, id, type)

\* The update in progress went to the peer already, with what the peer owed then.
Already(g, p) ==
    \/ \E c \in Letters(p, g) \ {None} : \E type \in Types : Bears(c, uid, type)
    \/ \E a \in back : a.group = g /\ a.from = p /\ \E k \in a.acks : k.id = uid
OwesNothing(g, p) == Owed(g, p, "add") = {} /\ Owed(g, p, "rm") = {}

\* The update in progress will tell the peer.
ToTell(g, p, u) ==
    Prepared(g) /\ Says(current[g], u) /\ ToSend(g, p) /\ ~Already(g, p)

Sound(g, u)   == <<g, u>> \notin quit \cup stale
Insider(g, p) == <<g, p>> \notin quit \cup outside
Follows(g, p) ==
    Insider(g, p) =>
        \A u \in Users : Sound(g, u) =>
            Applied(g, p, u) \/ ToTell(g, p, u) \/ RowHeld(g, p, u)

\* The set of the update in progress is right, and its id is new.
UpdateRight(g) ==
    Prepared(g) =>
        /\ \A type \in {"add", "rm"} :
             current[g][type] # None => current[g][type].id \in {uid, NoId}
        /\ \A u \in Users : Sound(g, u) => Right(g, current[g], u)
        /\ \A p \in Peers : Already(g, p) => OwesNothing(g, p)
        /\ \A x \in PendingOf(g) : x.id # uid

\* Who never was in the group knows nothing of it.
Untouched(g, p) == Insider(g, p) => list[p][g] = {} /\ Letters(p, g) \subseteq {None}

\* A set to be sent never removes the own user: only who leaves does that.
NoSelf(g) ==
    /\ current[g] # None => Me \notin Who(current[g].rm)
    /\ \A x \in PendingOf(g) : Me \notin Who(x.set.rm)

GroupAgrees(g) ==
    /\ \A p \in Peers : IF p \in members[g] THEN Follows(g, p) ELSE Untouched(g, p)
    /\ UpdateRight(g)
    /\ NoSelf(g)

\* No update has an id that is yet to come.
OldSet(c) == \A type \in Types : c[type] # None => Used(c[type].id)
IdsOld ==
    /\ 0 <= uid
    /\ \A g \in Groups : current[g] # None /\ current[g].add # None => Used(current[g].add.id)
    /\ \A g \in Groups : \A p \in Peers : \A c \in Letters(p, g) \ {None} : OldSet(c)
    /\ \A a \in back : \A k \in a.acks : Used(k.id)
    /\ \A x \in pending : Used(x.id)

AgreeInv ==
    /\ overtakes \in Nat /\ IdsOld
    /\ overtakes = 0 => \A g \in Groups \ torn : GroupAgrees(g)
============================================================================
