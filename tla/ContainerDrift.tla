--------------------------- MODULE ContainerDrift ---------------------------
(***************************************************************************)
(* What the spec functions do to one container over its life: a container  *)
(* somebody started is adopted, its CR is edited, Secrets rotate, the CR   *)
(* is flipped to Enforce, and sync passes run.  A pass is one step here;   *)
(* DockerContainer.tla takes it apart.                                     *)
(***************************************************************************)
EXTENDS ContainerSpec

CONSTANTS
  Found,        \* configurations a container started by hand may have
  Written,      \* specs a user may write
  Secrets,      \* functions key -> value (None when the key is missing)
  MaxWrites     \* bound on the user's writes

ASSUME WritesAssumption == MaxWrites \in Nat

\* The limits of a container that exists are int64 and not negative, and it has
\* finitely many ports.
ASSUME FoundAssumption ==
  \A c \in Found : /\ c.nanoCPUs \in Nat /\ c.memory \in 0..(HalfRange - 1)
                   /\ IsFiniteSet(DOMAIN c.ports)

\* The tcp bindings on all addresses that stand for a container's ports.
Published(ports) ==
  {[host |-> b.host, port |-> b.port, proto |-> "tcp", ip |-> "v4"] : b \in DOMAIN ports}

\* None stands for a spec, a limit, a number, an environment or a list of
\* ports that is not there, an entry of such a list that cannot be parsed, and
\* the configuration of a create that returns early: never for a real one.
ASSUME NoneAssumption ==
  /\ None \notin Nat \cup [val : Nat, unit : {"", "m"}] \cup [whole : Nat, frac : Nat]
  /\ None \notin {Defaulted(s) : s \in Written}
  /\ \A c \in Found :
       /\ c.env # None
       /\ None \notin {<<b.host, b.port>> : b \in DOMAIN c.ports}
       /\ \A list \in SUBSET Published(c.ports) : None \notin [list -> Nat]
       /\ \A sec \in Secrets, r \in BOOLEAN :
            LET s == Defaulted(runtimeSnapshotFromInspect(c, r))
            IN  createConfig(s, sec) = None
                  => resolveEnv(s, sec) = None \/ parsePorts(s.ports) = None

VARIABLES
  inspect,      \* the container's configuration, None when there is none
  running,      \* that container runs
  spec,         \* the CR's spec, None when there is no CR
  mode,         \* the CR's management mode
  secrets,      \* the Secrets of the namespace
  origin,       \* the spec sync created the container from, None when somebody else did
  untouched,    \* the CR is as adoption left it, but for the mode
  seenRunning,  \* the container ran when it was adopted
  writes

vars == <<inspect, running, spec, mode, secrets, origin, untouched, seenRunning, writes>>

Init ==
  /\ inspect \in Found /\ running \in BOOLEAN
  /\ secrets \in Secrets
  /\ spec = None /\ mode = "Observe"
  /\ origin = None
  /\ untouched = FALSE /\ seenRunning = FALSE
  /\ writes = 0

\* Host discovery creates the CR of a labelled container, which may be a
\* stopped one, from its snapshot.
Adopt ==
  /\ spec = None /\ inspect # None
  /\ spec' = Defaulted(runtimeSnapshotFromInspect(inspect, running))
  /\ mode' = "Observe"
  /\ untouched' = TRUE /\ seenRunning' = running
  /\ UNCHANGED <<inspect, running, secrets, origin, writes>>

\* Somebody starts or stops the container on its host.
StartOrStop ==
  /\ inspect # None
  /\ running' = ~running
  /\ UNCHANGED <<inspect, spec, mode, secrets, origin, untouched, seenRunning, writes>>

\* A user applies a spec, over an adopted CR or as a new one.
Apply(s) ==
  /\ writes < MaxWrites
  /\ spec' = Defaulted(s)
  /\ untouched' = FALSE
  /\ writes' = writes + 1
  /\ UNCHANGED <<inspect, running, mode, secrets, origin, seenRunning>>

Flip ==
  /\ spec # None /\ mode = "Observe"
  /\ mode' = "Enforce"
  /\ UNCHANGED <<inspect, running, spec, secrets, origin, untouched, seenRunning, writes>>

RotateSecrets(new) ==
  /\ writes < MaxWrites
  /\ new # secrets
  /\ secrets' = new
  /\ writes' = writes + 1
  /\ UNCHANGED <<inspect, running, spec, mode, origin, untouched, seenRunning>>

\* The new container of a pass.  The old one is removed before createConfig
\* is evaluated: a spec that cannot be turned into one leaves none at all.
Replacement == createConfig(spec, secrets)

\* One Enforce pass of sync with no failing call, which creates or replaces
\* the container, or starts it.
Sync ==
  /\ mode = "Enforce"
  /\ inspect # None => needsRecreate(inspect, spec)
  /\ inspect' = Replacement
  /\ running' = (inspect' # None)
  /\ origin' = spec
  /\ UNCHANGED <<spec, mode, secrets, untouched, seenRunning, writes>>

SyncStarts ==
  /\ mode = "Enforce" /\ inspect # None
  /\ ~needsRecreate(inspect, spec) /\ ~running
  /\ running' = TRUE
  /\ UNCHANGED <<inspect, spec, mode, secrets, origin, untouched, seenRunning, writes>>

Next ==
  \/ Adopt \/ Flip \/ Sync \/ SyncStarts \/ StartOrStop
  \/ \E s \in Written : Apply(s)
  \/ \E new \in Secrets : RotateSecrets(new)

Spec == Init /\ [][Next]_vars

-----------------------------------------------------------------------------

\* The container a pass created is one the same spec accepts: if not, every
\* pass would replace it again, once a minute for ever.  This is about the
\* agreement of create's defaults (restart policy, image CMD and ENV, limits
\* cut to integers) with what needsRecreate compares.
CreateSettles ==
  (inspect # None /\ origin # None) => ~needsRecreate(inspect, origin)

\* Numbers an adopted spec carries as text and that come back unchanged.
Representable(cfg) ==
  cfg.nanoCPUs > 0 => parseCPU(formatNanoCPUs(cfg.nanoCPUs)) = cfg.nanoCPUs

\* Flipping a CR nobody edited to Enforce keeps the container, when it names
\* its restart policy and its CPU limit survives the way through text: what
\* runtimeSnapshotFromInspect writes is what needsRecreate reads.
AdoptThenEnforceKeeps ==
  (/\ untouched /\ origin = None /\ inspect # None
   /\ inspect.restart # None /\ Representable(inspect))
     => ~needsRecreate(inspect, spec)

\* The ports that are published: on the host, in the container, protocol.
Mappings(ports) == {<<b.host, b.port, b.proto>> : b \in {x \in DOMAIN ports : x.host # None}}

\* What this step takes away or adds of them.
Lost == Mappings(inspect.ports) \ Mappings(inspect'.ports)
Gained == Mappings(inspect'.ports) \ Mappings(inspect.ports)

PortsStep ==
  (untouched /\ inspect # None /\ inspect' # inspect) =>
    /\ inspect' # None
    /\ seenRunning => \A m \in Lost : m[3] # "tcp"
    /\ \A m \in Gained : m[3] = "tcp" /\ \E l \in Lost : <<l[1], l[2]>> = <<m[1], m[2]>>

\* A container replaced under the CR adoption wrote publishes every tcp port
\* its predecessor did, if that one ran when it was adopted, and no port the
\* predecessor did not.  What collectPortMappings and parsePorts do not carry
\* over is the protocol, so that a udp port comes back as tcp; and a container
\* that was stopped when it was adopted shows no ports to carry over.
PortsSurviveAdoption == [][PortsStep]_vars
=============================================================================
