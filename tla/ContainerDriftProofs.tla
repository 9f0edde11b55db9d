------------------------ MODULE ContainerDriftProofs ------------------------
(* What is proved of ContainerDrift for every set of configurations, specs   *)
(* and Secrets, and for the numbers of the code as well as the scaled ones.  *)
EXTENDS ContainerDrift, FiniteSetTheorems, TLAPS

\* What create makes of a spec is a configuration needsRecreate accepts for
\* that spec: sync's replacement is never replaced in turn.
LEMMA CreatedIsAccepted ==
  ASSUME NEW s, NEW sec, createConfig(s, sec) # None
  PROVE  ~needsRecreate(createConfig(s, sec), s)
<1> DEFINE env == resolveEnv(s, sec)
           cfg == [image    |-> s.image,
                   cmd      |-> s.command,
                   env      |-> env,
                   restart  |-> IF s.restartPolicy = None THEN "always"
                                                         ELSE s.restartPolicy,
                   nanoCPUs |-> buildDockerResources(s.resources).nanoCPUs,
                   memory   |-> buildDockerResources(s.resources).memory,
                   ports    |-> parsePorts(s.ports),
                   rest     |-> s.rest]
           made == WithImageDefaults(cfg)
<1>1. createConfig(s, sec) = made /\ env # None
  BY DEF createConfig
<1>2. s.env \subseteq env
  BY <1>1 DEF resolveEnv
<1>3. /\ made.image = s.image
      /\ s.command # <<>> => made.cmd = s.command
      /\ env \subseteq made.env
      /\ s.restartPolicy # None => made.restart = s.restartPolicy
      /\ made.nanoCPUs = buildDockerResources(s.resources).nanoCPUs
      /\ made.memory = buildDockerResources(s.resources).memory
  <2> HIDE DEF env
  <2> QED BY DEF WithImageDefaults
<1> QED
  <2> HIDE DEF made, env
  <2> QED BY <1>1, <1>2, <1>3 DEF needsRecreate

\* Every container sync made is accepted by the spec it was made from,
\* whatever is applied, rotated or flipped in between.
THEOREM CreateSettlesTheorem == Spec => []CreateSettles
<1>1. Init => CreateSettles
  BY DEF Init, CreateSettles
<1>2. CreateSettles /\ [Next]_vars => CreateSettles'
  <2> SUFFICES ASSUME CreateSettles, [Next]_vars PROVE CreateSettles'
    OBVIOUS
  <2>1. CASE Sync
    <3>1. inspect' = createConfig(spec, secrets) /\ origin' = spec
      BY <2>1 DEF Sync, Replacement
    <3> QED BY <3>1, CreatedIsAccepted DEF CreateSettles
  <2>2. CASE UNCHANGED <<inspect, origin>>
    BY <2>2 DEF CreateSettles
  <2> QED
    BY <2>1, <2>2 DEF Next, vars, Adopt, Flip, Apply, RotateSecrets, SyncStarts, StartOrStop
<1> QED BY <1>1, <1>2, PTL DEF Spec

-----------------------------------------------------------------------------
(* The way of a limit through text and back.                               *)

\* An int64 that is not negative is not changed by wrapping.
LEMMA WrapNat ==
  ASSUME NEW n \in 0..(HalfRange - 1)
  PROVE  Wrap(n) = n
<1>1. HalfRange \in Nat \ {0}
  BY ScaleAssumption
<1>2. ASSUME NEW a \in Nat, NEW b \in Nat \ {0}, a < b PROVE a % b = a
  BY <1>2
<1>3. (n + HalfRange) % (2 * HalfRange) = n + HalfRange
  BY <1>1, <1>2
<1> QED BY <1>1, <1>3 DEF Wrap

\* A number that m divides is its quotient times m.
LEMMA DivideExactly ==
  ASSUME NEW n \in Nat, NEW m \in Nat \ {0}, n % m = 0
  PROVE  n \div m \in Nat /\ (n \div m) * m = n
  OBVIOUS

\* A limit that is written is not an absent one.
LEMMA LimitIsThere ==
  ASSUME NEW v \in Nat, NEW w \in Nat
  PROVE  /\ v # None
         /\ [val |-> v, unit |-> "m"] # None /\ [val |-> v, unit |-> ""] # None
         /\ [whole |-> v, frac |-> w] # None
<1>1. /\ [val |-> v, unit |-> "m"] \in [val : Nat, unit : {"", "m"}]
      /\ [val |-> v, unit |-> ""] \in [val : Nat, unit : {"", "m"}]
      /\ [whole |-> v, frac |-> w] \in [whole : Nat, frac : Nat]
  OBVIOUS
<1>2. /\ None \notin Nat /\ None \notin [val : Nat, unit : {"", "m"}]
      /\ None \notin [whole : Nat, frac : Nat]
  <2> HIDE DEF Defaulted
  <2> QED BY NoneAssumption, Zenon
<1> QED BY <1>1, <1>2, Zenon

\* formatBytes writes what parseMemoryString reads back, for every limit.
LEMMA MemorySurvives ==
  ASSUME NEW n \in 0..(HalfRange - 1)
  PROVE  parseMemoryString(formatBytes(n)) = n
<1>1. HalfRange \in Nat \ {0} /\ Kilo \in Nat \ {0, 1}
  BY ScaleAssumption
<1>2. Kilo * Kilo \in Nat \ {0} /\ n \in Nat
  BY <1>1
<1>3. CASE n > 0 /\ n % Mebibyte = 0
  <2> DEFINE q == n \div (Kilo * Kilo)
  <2>1. q \in Nat /\ q * (Kilo * Kilo) = n
    BY <1>2, <1>3, DivideExactly DEF Mebibyte
  <2>2. formatBytes(n) = [val |-> q, unit |-> "m"]
    BY <1>3 DEF formatBytes, Mebibyte
  <2> HIDE DEF q
  <2>3. Multiplier("m") = Kilo * Kilo
    BY DEF Multiplier
  <2>4. [val |-> q, unit |-> "m"] # None /\ q # None
    BY <2>1, LimitIsThere
  <2>5. parseMemoryString([val |-> q, unit |-> "m"]) = Wrap(q * Multiplier("m"))
    BY <2>4 DEF parseMemoryString
  <2> QED BY <2>1, <2>2, <2>3, <2>5, WrapNat
<1>4. CASE ~(n > 0 /\ n % Mebibyte = 0)
  <2>1. formatBytes(n) = [val |-> n, unit |-> ""]
    BY <1>4 DEF formatBytes
  <2>2. Multiplier("") = 1
    BY DEF Multiplier
  <2>3. [val |-> n, unit |-> ""] # None /\ n # None
    BY <1>2, LimitIsThere
  <2>4. parseMemoryString([val |-> n, unit |-> ""]) = Wrap(n * Multiplier(""))
    BY <2>3 DEF parseMemoryString
  <2>5. n * 1 = n
    BY <1>2
  <2> QED BY <2>1, <2>2, <2>4, <2>5, WrapNat
<1> QED BY <1>3, <1>4

-----------------------------------------------------------------------------
(* Adoption.                                                               *)

\* Until a pass replaces it the container is the one that was found, and an
\* untouched CR is the snapshot of it as it ran or stood then; after that the container and the CR
\* belong together.
AdoptInv ==
  /\ secrets \in Secrets /\ running \in BOOLEAN /\ seenRunning \in BOOLEAN
  /\ spec = None => origin = None /\ mode = "Observe"
  /\ origin = None => inspect \in Found
  /\ untouched /\ origin = None
       => spec = Defaulted(runtimeSnapshotFromInspect(inspect, seenRunning))
  /\ untouched /\ origin # None => origin = spec

\* Adoption, edits, rotated Secrets and enforce passes keep this.
LEMMA AdoptNext == AdoptInv /\ [Next]_vars => AdoptInv'
<1> SUFFICES ASSUME AdoptInv, [Next]_vars PROVE AdoptInv'
  OBVIOUS
<1> USE DEF AdoptInv
<1>1. CASE Adopt
  BY <1>1 DEF Adopt
<1>2. CASE Flip
  BY <1>2 DEF Flip
<1>3. CASE Sync
  BY <1>3 DEF Sync
<1>4. ASSUME NEW s \in Written, Apply(s) PROVE AdoptInv'
  <2>1. spec' # None
    BY <1>4, NoneAssumption DEF Apply
  <2> QED BY <1>4, <2>1 DEF Apply
<1>5. ASSUME NEW new \in Secrets, RotateSecrets(new) PROVE AdoptInv'
  BY <1>5 DEF RotateSecrets
<1>6. CASE SyncStarts \/ StartOrStop
  <2>1. running' \in BOOLEAN
    BY <1>6, Zenon DEF SyncStarts, StartOrStop
  <2>2. UNCHANGED <<inspect, spec, mode, secrets, origin, untouched, seenRunning>>
    BY <1>6 DEF SyncStarts, StartOrStop
  <2> QED BY <2>1, <2>2
<1>7. CASE UNCHANGED vars
  BY <1>7 DEF vars
<1> QED BY <1>1, <1>2, <1>3, <1>4, <1>5, <1>6, <1>7 DEF Next

\* Every spec sync works on is a user's or the snapshot of what was found.
LEMMA Adoption == Spec => []AdoptInv
<1>1. Init => AdoptInv
  BY DEF Init, AdoptInv
<1> QED BY <1>1, AdoptNext, PTL DEF Spec

\* The snapshot of a container is a spec the container satisfies.
LEMMA SnapshotIsAccepted ==
  ASSUME NEW c \in Found, NEW r \in BOOLEAN, c.restart # None, Representable(c)
  PROVE  ~needsRecreate(c, Defaulted(runtimeSnapshotFromInspect(c, r)))
<1> DEFINE res == IF c.nanoCPUs > 0 \/ c.memory > 0
                    THEN [cpuLimit    |-> IF c.nanoCPUs > 0
                                            THEN formatNanoCPUs(c.nanoCPUs) ELSE None,
                          memoryLimit |-> IF c.memory > 0
                                            THEN formatBytes(c.memory) ELSE None]
                    ELSE None
           s == Defaulted(runtimeSnapshotFromInspect(c, r))
<1>1. c.nanoCPUs \in Nat /\ c.memory \in 0..(HalfRange - 1) /\ c.memory \in Nat
  BY FoundAssumption, ScaleAssumption
<1>2. /\ s.image = c.image /\ s.command = c.cmd /\ s.env = c.env
      /\ s.restartPolicy = c.restart /\ s.resources = res
  BY DEF Defaulted, runtimeSnapshotFromInspect
<1> HIDE DEF s
<1>3. ASSUME res # None
      PROVE  /\ buildDockerResources(res).nanoCPUs = c.nanoCPUs
             /\ buildDockerResources(res).memory = c.memory
  <2>1. /\ res.cpuLimit = IF c.nanoCPUs > 0 THEN formatNanoCPUs(c.nanoCPUs) ELSE None
        /\ res.memoryLimit = IF c.memory > 0 THEN formatBytes(c.memory) ELSE None
    BY <1>3
  <2> HIDE DEF res
  <2>2. /\ buildDockerResources(res).nanoCPUs =
             IF res.cpuLimit = None THEN 0 ELSE parseCPU(res.cpuLimit)
        /\ buildDockerResources(res).memory = parseMemoryString(res.memoryLimit)
    BY <1>3 DEF buildDockerResources
  <2>3. (IF res.cpuLimit = None THEN 0 ELSE parseCPU(res.cpuLimit)) = c.nanoCPUs
    <3>1. CASE c.nanoCPUs > 0
      <4>1. c.nanoCPUs \div Giga \in Nat /\ c.nanoCPUs % Giga \in Nat
        BY <1>1, ScaleAssumption
      <4>2. formatNanoCPUs(c.nanoCPUs) # None
        BY <4>1, LimitIsThere DEF formatNanoCPUs
      <4> QED BY <2>1, <3>1, <4>2 DEF Representable
    <3>2. CASE ~(c.nanoCPUs > 0)
      BY <1>1, <2>1, <3>2
    <3> QED BY <3>1, <3>2
  <2>4. parseMemoryString(res.memoryLimit) = c.memory
    <3>1. CASE c.memory > 0
      BY <1>1, <2>1, <3>1, MemorySurvives
    <3>2. CASE ~(c.memory > 0)
      BY <1>1, <2>1, <3>2 DEF parseMemoryString
    <3> QED BY <3>1, <3>2
  <2> QED BY <2>2, <2>3, <2>4
<1> HIDE DEF res
<1> QED BY <1>2, <1>3 DEF needsRecreate, s

\* Flipping a CR nobody edited to Enforce keeps the container, for every
\* container that names its restart policy and whose CPU limit survives.
THEOREM AdoptThenEnforceKeepsTheorem == Spec => []AdoptThenEnforceKeeps
<1>1. AdoptInv => AdoptThenEnforceKeeps
  BY SnapshotIsAccepted DEF AdoptInv, AdoptThenEnforceKeeps
<1> QED BY <1>1, Adoption, PTL

\* What collectPortMappings keeps of the ports a container shows parsePorts
\* publishes, all as tcp, and nothing else; and it can be published.
LEMMA PortsSurvive ==
  ASSUME NEW c \in Found, NEW r \in BOOLEAN
  PROVE  LET shown == NetworkPorts(c, r)
             list == parsePorts(collectPortMappings(shown))
         IN  /\ list # None
             /\ Mappings(list) = {<<b.host, b.port, "tcp">> :
                                    b \in {x \in DOMAIN shown : x.host # None}}
<1> DEFINE shown == NetworkPorts(c, r)
<1>0. DOMAIN shown \subseteq DOMAIN c.ports
  BY DEF NetworkPorts
<1> HIDE DEF shown
<1> DEFINE published == {b \in DOMAIN shown : b.host # None}
           pairs == {<<b.host, b.port>> : b \in published}
           Same(p) == {b \in published : <<b.host, b.port>> = p}
           ports == collectPortMappings(shown)
           Bind(p) == [host |-> p[1], port |-> p[2], proto |-> "tcp", ip |-> "v4"]
           keys == {Bind(p) : p \in pairs}
           list == [b \in keys |-> ports[<<b.host, b.port>>]]
<1>1. ports = [p \in pairs |-> Cardinality(Same(p))]
  BY DEF collectPortMappings
<1>2. \A p \in pairs : ports[p] \in Nat
  <2> SUFFICES ASSUME NEW p \in pairs PROVE Cardinality(Same(p)) \in Nat
    BY <1>1
  <2>1. IsFiniteSet(DOMAIN c.ports)
    BY FoundAssumption
  <2>2. IsFiniteSet(Same(p))
    BY <2>1, <1>0, FS_Subset
  <2> QED BY <2>2, FS_CardinalityType
<1>3. None \notin pairs
  BY <1>0, NoneAssumption
<1>4. parsePorts(ports) = list
  <2>1. DOMAIN ports = pairs
    BY <1>1
  <2> HIDE DEF ports, pairs
  <2> QED BY <1>3, <2>1 DEF parsePorts
<1>5. keys \subseteq Published(c.ports)
  BY <1>0 DEF Published
<1>6. list \in [keys -> Nat]
  <2>1. \A b \in keys : <<b.host, b.port>> \in pairs
    BY DEF pairs
  <2> HIDE DEF keys, pairs, ports
  <2> QED BY <1>2, <2>1
<1>7. list # None
  <2> HIDE DEF keys, list
  <2>1. None \notin [keys -> Nat]
    BY <1>5, NoneAssumption
  <2> QED BY <1>6, <2>1
<1>8. DOMAIN list = keys
  OBVIOUS
<1>9. Mappings(list) = {<<b.host, b.port, "tcp">> : b \in published}
  <2>1. \A b \in keys : b.host # None
    OBVIOUS
  <2>2. Mappings(list) = {<<b.host, b.port, b.proto>> : b \in keys}
    <3> HIDE DEF list, keys
    <3> QED BY <1>8, <2>1 DEF Mappings
  <2>3. {<<b.host, b.port, b.proto>> : b \in keys} = {<<b.host, b.port, "tcp">> : b \in published}
    <3>1. ASSUME NEW b \in keys
          PROVE  <<b.host, b.port, b.proto>> \in {<<x.host, x.port, "tcp">> : x \in published}
      OBVIOUS
    <3>2. ASSUME NEW x \in published
          PROVE  <<x.host, x.port, "tcp">> \in {<<b.host, b.port, b.proto>> : b \in keys}
      <4>1. Bind(<<x.host, x.port>>) \in keys
        OBVIOUS
      <4>2. PICK b \in keys : b = Bind(<<x.host, x.port>>)
        BY <4>1
      <4>3. <<b.host, b.port, b.proto>> = <<x.host, x.port, "tcp">>
        BY <4>2
      <4> HIDE DEF keys
      <4> QED BY <4>3
    <3> HIDE DEF keys, published
    <3> QED BY <3>1, <3>2
  <2> QED BY <2>2, <2>3
<1> QED BY <1>4, <1>7, <1>9 DEF shown

\* Replacing an adopted container under the CR discovery wrote keeps every tcp
\* port of one that ran then, adds none but for a udp port that comes back as
\* tcp, and does not fail: for all containers that can be found, run or stopped.
THEOREM PortsSurviveAdoptionTheorem == Spec => PortsSurviveAdoption
<1>1. CreateSettles /\ AdoptInv /\ [Next]_vars => [PortsStep]_vars
  <2> SUFFICES ASSUME CreateSettles, AdoptInv, untouched, Next, inspect # None, inspect' # inspect
               PROVE  /\ inspect' # None
                      /\ seenRunning => \A m \in Lost : m[3] # "tcp"
                      /\ \A m \in Gained :
                           m[3] = "tcp" /\ \E l \in Lost : <<l[1], l[2]>> = <<m[1], m[2]>>
    BY DEF PortsStep, vars
  <2>0. Sync
    BY DEF Next, Adopt, Flip, SyncStarts, StartOrStop, Apply, RotateSecrets
  <2> DEFINE shown == NetworkPorts(inspect, seenRunning)
             list == parsePorts(collectPortMappings(shown))
  <2>1. origin = None
    BY <2>0 DEF CreateSettles, AdoptInv, Sync
  <2>2. /\ inspect \in Found /\ seenRunning \in BOOLEAN
        /\ spec = Defaulted(runtimeSnapshotFromInspect(inspect, seenRunning))
    BY <2>1 DEF AdoptInv
  <2>3. spec.ports = collectPortMappings(shown) /\ spec.env = inspect.env /\ spec.envVars = {}
    BY <2>2 DEF Defaulted, runtimeSnapshotFromInspect
  <2>4. resolveEnv(spec, secrets) = inspect.env /\ inspect.env # None
    BY <2>2, <2>3, NoneAssumption DEF resolveEnv
  <2>5. inspect' = createConfig(spec, secrets)
    BY <2>0 DEF Sync, Replacement
  <2>6. inspect' # None /\ inspect'.ports = list
    <3>1. list # None
      BY <2>2, PortsSurvive
    <3>2. inspect' # None
      <4>1. secrets \in Secrets
        BY DEF AdoptInv
      <4> QED BY <2>2, <2>3, <2>4, <2>5, <3>1, <4>1, NoneAssumption
    <3> QED BY <2>3, <2>4, <2>5, <3>1, <3>2 DEF createConfig, WithImageDefaults
  <2> DEFINE visible == {x \in DOMAIN shown : x.host # None}
             before == {x \in DOMAIN inspect.ports : x.host # None}
  <2>7. /\ Mappings(inspect'.ports) = {<<b.host, b.port, "tcp">> : b \in visible}
        /\ Mappings(inspect.ports) = {<<b.host, b.port, b.proto>> : b \in before}
    BY <2>2, <2>6, PortsSurvive DEF Mappings
  <2>8. visible \subseteq before /\ (seenRunning => visible = before)
    BY DEF NetworkPorts
  <2> HIDE DEF visible, before, shown, list
  <2>9. ASSUME seenRunning, NEW m \in Lost PROVE m[3] # "tcp"
    <3>1. PICK b \in before : m = <<b.host, b.port, b.proto>>
      BY <2>7 DEF Lost
    <3>2. <<b.host, b.port, "tcp">> \in Mappings(inspect'.ports)
      BY <2>7, <2>8, <2>9
    <3> QED BY <3>1, <3>2 DEF Lost
  <2>10. ASSUME NEW m \in Gained
         PROVE  m[3] = "tcp" /\ \E l \in Lost : <<l[1], l[2]>> = <<m[1], m[2]>>
    <3>1. PICK b \in before : m = <<b.host, b.port, "tcp">>
      BY <2>7, <2>8 DEF Gained
    <3> DEFINE l == <<b.host, b.port, b.proto>>
    <3>2. l \in Mappings(inspect.ports)
      BY <2>7
    <3>3. b.proto # "tcp"
      BY <3>1, <3>2 DEF Gained
    <3>4. \A x \in Mappings(inspect'.ports) : x[3] = "tcp"
      BY <2>7
    <3>5. l \in Lost
      BY <3>2, <3>3, <3>4 DEF Lost
    <3> QED BY <3>1, <3>5
  <2> QED BY <2>6, <2>9, <2>10
<1> QED BY <1>1, Adoption, CreateSettlesTheorem, PTL DEF Spec, PortsSurviveAdoption
=============================================================================
