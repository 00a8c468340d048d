--------------------------- MODULE MCZinaCommands ---------------------------
(* Instances of ZinaCommands for TLC: one or two devices of the peer, two    *)
(* threads of the app that re-scan and re-key.                             *)
EXTENDS ZinaCommands

MCOneDevice  == {"d1"}
MCTwoDevices == {"d1", "d2"}
MCScanners   == {"main", "worker"}
MCKeyers     == {"main"}
=============================================================================
