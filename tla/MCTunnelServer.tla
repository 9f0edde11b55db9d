--------------------------- MODULE MCTunnelServer ---------------------------
(* Instance of TunnelServer for TLC: two targets, and sorted lists of them  *)
(* that the operator can send, one with an address in it twice.             *)
EXTENDS TunnelServer, TLC

CONSTANTS a, b, c1, c2, s1, s2, s3, watcher, request

MCTargets == {a, b}
MCLists == {<<>>, <<a>>, <<a, a, b>>}
MCSessions == {s1, s2, s3}
MCLoaders == {watcher, request}
=============================================================================
