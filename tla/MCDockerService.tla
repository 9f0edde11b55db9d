--------------------------- MODULE MCDockerService ---------------------------
(* Instance of DockerService for TLC: two containers on two hosts.           *)
EXTENDS DockerService

CONSTANTS c1, c2, h1, h2

MCContainers == {c1, c2}
MCHosts == {h1, h2}
MCHostOf == [c \in MCContainers |-> IF c = c1 THEN h1 ELSE h2]
MCStart == [c \in MCContainers |-> IF c = c1 THEN 1 ELSE 0]
MCBoth == {[form |-> "ok", who |-> {c1, c2}]}
MCSpecs == MCBoth \cup {[form |-> f, who |-> {c1}] : f \in {"refs", "selector"}}
=============================================================================
