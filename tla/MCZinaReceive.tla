--------------------------- MODULE MCZinaReceive ---------------------------
(* Instances of ZinaReceive for TLC.                                        *)
EXTENDS ZinaReceive

\* The second message of each session is a command.
MCCommands == {m \in Msgs : m.i = 1}

\* Two messages with all the faults, three with errors of the app only.
MCFewFaults ==
    \/ \A m \in Msgs : m.i > 1 => handed[m] = 0
    \/ crashes + dbErrors + Cardinality(Repeated) = 0
============================================================================
