---------------------------- MODULE ContainerSpec ----------------------------
(***************************************************************************)
(* The pure functions of the DockerContainer controller: how a spec        *)
(* becomes the configuration of a Docker container (create), how the       *)
(* configuration of a running container becomes a spec (the snapshot an    *)
(* adopted container starts from), and when the two are so far apart that  *)
(* the container has to be replaced (needsRecreate).                       *)
(*                                                                         *)
(* A spec is a record                                                      *)
(*   image, command, env, envVars, restartPolicy, resources, ports, rest   *)
(* and an inspected configuration a record                                 *)
(*   image, cmd, env, restart, nanoCPUs, memory, ports, rest,              *)
(* whose ports are the bindings the container has while it runs.           *)
(* "rest" stands for NetworkMode, VolumeMounts and HealthCheck, which      *)
(* create copies and needsRecreate never reads.  Environments are sets of  *)
(* <<key, value>> pairs.  Port lists are bags: their order means nothing   *)
(* to the daemon, but an entry may occur twice.                            *)
(***************************************************************************)
EXTENDS Integers, Sequences, FiniteSets, Bags

CONSTANTS
  None,          \* an absent pointer, an empty string, an unset key
  Kilo,          \* 1024 in the code; scaled down for TLC
  Giga,          \* 1e9 nano-CPUs per core in the code; scaled down for TLC
  Significand,   \* bits of a float's significand: 53 in the code
  HalfRange,     \* an int64 is in -HalfRange .. HalfRange - 1: 2^63 in the code
  ImageCmd,      \* image -> the CMD baked into it
  ImageEnv       \* image -> the environment baked into it

ASSUME ScaleAssumption ==
  /\ Kilo \in Nat \ {0, 1}
  /\ Giga \in Nat \ {0}
  /\ Significand \in Nat \ {0}
  /\ HalfRange \in Nat \ {0}

-----------------------------------------------------------------------------
(* Numbers as strings.                                                     *)

Mebibyte == Kilo * Kilo

\* int64 arithmetic wraps.
Wrap(n) == ((n + HalfRange) % (2 * HalfRange)) - HalfRange

\* The suffix of a memory string after ToLower, and what it multiplies by.
Multiplier(unit) ==
  CASE unit = "g" -> Kilo * Kilo * Kilo
    [] unit = "m" -> Kilo * Kilo
    [] unit = "k" -> Kilo
    [] OTHER      -> 1

\* A memory limit is None or [val, unit]; val None is a number that
\* strconv.ParseInt refuses.
parseMemoryString(s) ==
  IF s = None \/ s.val = None THEN 0 ELSE Wrap(s.val * Multiplier(s.unit))

\* Mutant: a whole number of kibibytes is taken for one of mebibytes.
formatBytesKibi(memory) ==
  IF memory > 0 /\ memory % Kilo = 0
    THEN [val |-> memory \div Mebibyte, unit |-> "m"]
    ELSE [val |-> memory, unit |-> ""]

formatBytes(memory) ==
  IF memory > 0 /\ memory % Mebibyte = 0
    THEN [val |-> memory \div Mebibyte, unit |-> "m"]
    ELSE [val |-> memory, unit |-> ""]

\* The float nearest to num/den: <<m, e>> stands for m / 2^e, ties to even.
Float(num, den) ==
  IF num = 0 THEN <<0, 0>>
  ELSE LET e == CHOOSE x \in 0..(2 * Significand + 1) :
                  num * 2^x >= den * 2^(Significand - 1)
           q == (num * 2^e) \div den
           r == 2 * ((num * 2^e) % den)
       IN  <<IF r > den \/ (r = den /\ q % 2 = 1) THEN q + 1 ELSE q, e>>

\* A CPU limit is a decimal number [whole, frac], frac in units of 1/Giga.
\* ParseFloat rounds once, the product with 1e9 rounds again, and int64()
\* cuts off what is behind the point.
parseCPU(s) ==
  LET cores == Float(s.whole * Giga + s.frac, Giga)
      nanos == Float(cores[1] * Giga, 2^cores[2])
  IN  nanos[1] \div 2^nanos[2]

\* The shortest decimal that parses back to the same float.
formatNanoCPUs(n) == [whole |-> n \div Giga, frac |-> n % Giga]

-----------------------------------------------------------------------------
(* From the spec to the container.                                         *)

buildDockerResources(r) ==
  IF r = None THEN [nanoCPUs |-> 0, memory |-> 0]
  ELSE [nanoCPUs |-> IF r.cpuLimit = None THEN 0 ELSE parseCPU(r.cpuLimit),
        memory   |-> parseMemoryString(r.memoryLimit)]

\* "hostPort:containerPort" becomes a tcp binding on 0.0.0.0; a list with an
\* entry that has no colon (None) is refused as a whole.
parsePorts(ports) ==
  LET Bind(p) == [host |-> p[1], port |-> p[2], proto |-> "tcp", ip |-> "v4"]
  IN  IF None \in DOMAIN ports THEN None
      ELSE [b \in {Bind(p) : p \in DOMAIN ports} |-> ports[<<b.host, b.port>>]]

\* Mutant: the named entries replace the literal ones.
resolveEnvVarsOnly(spec, secrets) ==
  LET Value(ev) == IF ev.from = None THEN ev.value ELSE secrets[ev.from]
  IN  IF \E ev \in spec.envVars : ev.from # None /\ secrets[ev.from] = None
        THEN None
        ELSE {<<ev.name, Value(ev)>> : ev \in spec.envVars}

\* Literal entries, then the named ones, whose value may come from a Secret
\* (secrets: key -> value); one key that is not there fails the whole.
resolveEnv(spec, secrets) ==
  LET Value(ev) == IF ev.from = None THEN ev.value ELSE secrets[ev.from]
  IN  IF \E ev \in spec.envVars : ev.from # None /\ secrets[ev.from] = None
        THEN None
        ELSE spec.env \cup {<<ev.name, Value(ev)>> : ev \in spec.envVars}

\* What the daemon makes of a Config: an image's CMD is used when none is
\* given, and its environment fills in the keys that are not set.
WithImageDefaults(cfg) ==
  [cfg EXCEPT
     !.cmd = IF cfg.cmd = <<>> THEN ImageCmd[cfg.image] ELSE cfg.cmd,
     !.env = cfg.env \cup {kv \in ImageEnv[cfg.image] :
                             \A own \in cfg.env : own[1] # kv[1]}]

\* create hands this to ContainerCreate; None when it returns before that.
createConfig(spec, secrets) ==
  LET env   == resolveEnv(spec, secrets)
      ports == parsePorts(spec.ports)
      res   == buildDockerResources(spec.resources)
  IN  IF env = None \/ ports = None THEN None
      ELSE WithImageDefaults(
             [image    |-> spec.image,
              cmd      |-> spec.command,
              env      |-> env,
              restart  |-> IF spec.restartPolicy = None THEN "always"
                                                    ELSE spec.restartPolicy,
              nanoCPUs |-> res.nanoCPUs,
              memory   |-> res.memory,
              ports    |-> ports,
              rest     |-> spec.rest])

needsRecreate(inspected, spec) ==
  \/ inspected.image # spec.image
  \/ spec.command # <<>> /\ inspected.cmd # spec.command
  \/ \E expected \in spec.env : expected \notin inspected.env
  \/ spec.restartPolicy # None /\ inspected.restart # spec.restartPolicy
  \/ /\ spec.resources # None
     /\ LET desired == buildDockerResources(spec.resources)
        IN  \/ desired.nanoCPUs # inspected.nanoCPUs
            \/ desired.memory # inspected.memory

-----------------------------------------------------------------------------
(* From the container to the spec.                                         *)

\* Mutant: a port published on several addresses is left out.
collectPortMappingsSingle(ports) ==
  LET published == {b \in DOMAIN ports : b.host # None}
      Same(p)   == {b \in published : <<b.host, b.port>> = p}
  IN  [p \in {q \in {<<b.host, b.port>> : b \in published} : Cardinality(Same(q)) = 1}
         |-> 1]

\* Protocol and address of a binding are dropped, unpublished ports skipped.
collectPortMappings(ports) ==
  LET published == {b \in DOMAIN ports : b.host # None}
      Same(p)   == {b \in published : <<b.host, b.port>> = p}
  IN  [p \in {<<b.host, b.port>> : b \in published} |-> Cardinality(Same(p))]

\* NetworkSettings.Ports, which is empty unless the container runs.
NetworkPorts(inspect, running) == IF running THEN inspect.ports ELSE <<>>

\* The rest of the configuration is not read back.
runtimeSnapshotFromInspect(inspect, running) ==
  [image         |-> inspect.image,
   command       |-> inspect.cmd,
   env           |-> inspect.env,
   envVars       |-> {},
   restartPolicy |-> inspect.restart,
   resources     |->
     IF inspect.nanoCPUs > 0 \/ inspect.memory > 0
       THEN [cpuLimit    |-> IF inspect.nanoCPUs > 0
                               THEN formatNanoCPUs(inspect.nanoCPUs) ELSE None,
             memoryLimit |-> IF inspect.memory > 0
                               THEN formatBytes(inspect.memory) ELSE None]
       ELSE None,
   ports         |-> collectPortMappings(NetworkPorts(inspect, running)),
   rest          |-> None]

\* The API server fills in the defaults the CRD declares.
Defaulted(spec) ==
  [spec EXCEPT !.restartPolicy = IF @ = None THEN "always" ELSE @]
=============================================================================
