-------------------------- MODULE MCZinaGroupData --------------------------
(* Instances of ZinaGroupData for TLC.                                     *)
EXTENDS ZinaGroupData, TLC

CONSTANTS d1, d2, d3
MCTwo   == {d1, d2}
MCThree == {d1, d2, d3}
\* The devices are alike.
MCSymmetry == Permutations(MCThree)

\* The schedules a search for a clash of clocks is confined to: update ids grow
\* in time, a device knows at most two other changes when it makes one, and at
\* most two changes are made by devices that know none.
MCFewChanges ==
    /\ \A n \in DOMAIN made : n > 1 => made[n - 1].id < made[n].id
    /\ \A n \in DOMAIN made : Cardinality(made[n].after) <= 2
    /\ Cardinality({n \in DOMAIN made : made[n].after = {}}) <= 2
    /\ \A d \in Devices : Cardinality(seen[d]) <= 3
============================================================================
