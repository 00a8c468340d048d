--------------------------- MODULE MCZinaRatchet ---------------------------
(* Instances of ZinaRatchet for TLC: two devices, alice and bob. *)
EXTENDS ZinaRatchet

MCParties == {"alice", "bob"}

\* Long conversations with one setup by alice, shorter ones with more setups or
\* re-keyings, the shortest with a context that was not stored.
Each(n) == \A p \in Parties : Cardinality(SentBy(p)) <= n
MCFewMessages ==
    \/ Len(setups) <= 1 /\ reKeys = 0 /\ handedOut["alice"] = 0 /\ unsaved = {}
    \/ Each(3) /\ unsaved = {}
    \/ Each(2)
============================================================================
