-------------------------- MODULE MCContainerDrift --------------------------
(* Instance of ContainerDrift: two images, one with a CMD and an ENV of its  *)
(* own, memory in units of 4 instead of 1024, CPUs in hundredths with a      *)
(* 9-bit float instead of billionths with a 53-bit one.                      *)
EXTENDS ContainerDrift

NoPorts == <<>>
V4(h, c) == [host |-> h, port |-> c, proto |-> "tcp", ip |-> "v4"]
Udp(h, c) == [host |-> h, port |-> c, proto |-> "udp", ip |-> "v4"]
V6(h, c) == [host |-> h, port |-> c, proto |-> "tcp", ip |-> "v6"]

MCImageCmd == [i \in {"app", "db"} |-> IF i = "app" THEN <<>> ELSE <<"serve">>]
MCImageEnv == [i \in {"app", "db"} |->
                 IF i = "app" THEN {} ELSE {<<"PATH", "bin">>, <<"LANG", "c">>}]

MCSecrets == {[k \in {"pw"} |-> v] : v \in {"old", "new", None}}

MCFound ==
  [image : {"db"}, cmd : {<<"serve">>, <<"dump">>},
   env : {{<<"PATH", "bin">>, <<"LANG", "c">>}},
   restart : {None, "no", "always"}, nanoCPUs : {0, 50, 106}, memory : {0, 20, 32},
   ports : {NoPorts, SetToBag({V4("8080", "80"), V6("8080", "80"), V4(None, "9")}),
            SetToBag({V4("53", "53"), Udp("53", "53"), Udp("67", "67")})},
   rest : {None, "net"}]

MCWritten ==
  [image : {"app", "db"}, command : {<<>>, <<"dump">>},
   env : {{<<"PATH", "usr">>}},
   envVars : {{}, {[name |-> "PW", value |-> None, from |-> "pw"]}},
   restartPolicy : {None, "no"},
   resources : {None, [cpuLimit |-> None, memoryLimit |-> [val |-> 2, unit |-> "m"]],
                [cpuLimit |-> [whole |-> 1, frac |-> 6],
                 memoryLimit |-> [val |-> None, unit |-> ""]]},
   ports : {NoPorts, SetToBag({<<"8080", "80">>}), SetToBag({None})},
   rest : {None, "net"}]
=============================================================================
