---------------------------- MODULE MCDockerHost ----------------------------
(* Instance of DockerHost for TLC: one host, and three container names, two  *)
(* of which (web_1 and web-1, say) lead to the same object name.             *)
EXTENDS DockerHost

CONSTANTS h1, web, webToo, db, o1, o2

MCNames == {web, webToo, db}
MCObjectName == [n \in MCNames |-> IF n = db THEN o2 ELSE o1]
MCStart == {<<h1, web>>, <<h1, db>>}
MCDrafts == {[host |-> h1, name |-> web, cfg |-> 2, mode |-> "Enforce"]}
=============================================================================
