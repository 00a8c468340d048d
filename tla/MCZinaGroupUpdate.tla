------------------------ MODULE MCZinaGroupUpdate ------------------------
(* Instances of ZinaGroupUpdate for TLC.                                  *)
EXTENDS ZinaGroupUpdate

CONSTANTS p1, p2, g1, t1
MCPeers   == {p1, p2}
MCGroups  == {g1}
MCThreads == {t1}
==========================================================================
