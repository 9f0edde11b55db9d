# Verification of kdop-operator

TLA+ models of the kdop operator, the TLC runs that check them on small
instances, and TLAPS proofs of the properties that matter most for instances of
any size. Paths below are relative to the repository (`src/`).

## 1. The system

kdop is a Kubernetes operator that manages containers on Docker hosts. Five
custom resources each have a controller; a tunnel carries traffic, and the
Docker API itself, to hosts that only dial out.

| Part | Code | State it keeps | Operations | Correct when |
| --- | --- | --- | --- | --- |
| Container specs | `dockercontainer_controller.go`, `dockercontainer_adopt.go` | none (pure functions) | spec → container configuration, inspected container → spec, `needsRecreate` | what create makes is what `needsRecreate` accepts; adoption loses nothing that a replacement needs |
| DockerContainer controller | `internal/controller/dockercontainer_controller.go` | CR (spec, mode, finalizer, status), container on the host | `Reconcile`: finalizer, deletion, `sync`, `observeRuntime`, `create`, `writeStatus` | only drifted enforced containers are removed; observed ones are left alone; no orphans; it settles |
| DockerJob controller | `internal/controller/dockerjob_controller.go` | job status (phase, attempts, times), container | `Reconcile`, `syncJob`, `createAndStartContainer`, `handleTTLCleanup` | a job runs as often as it should, ends, stays ended, leaves no container |
| DockerDeployment controller | `internal/controller/dockerdeployment_controller.go` | owned DockerContainers, `AvailableReplicas` | `Reconcile`, `listOwnedContainers`, `constructContainer` | N children, the right ones removed, a true count |
| DockerHost controller | `internal/controller/dockerhost_controller.go` | host status, adopted CRs | discovery, `upsertAdoptedContainer` | every labelled container has one CR, users' edits are kept |
| DockerService controller | `internal/controller/dockerservice_controller.go` | Service, ConfigMap, Deployment, Secret, tunnel client | `Reconcile`, `reconcileTunnelServer/Client`, `triggerTunnelReload` | the tunnel ends up with the addresses of the selected containers |
| Tunnel server and client | `internal/tunnel/server.go`, `client.go` | targets, last push, sessions, round-robin index | `handleTCP`, `handleWS`, `handleReload`, `loadTargetsFromFile`; `connectAndServe` | a push holds, the file wins at last, sessions are registered exactly, the client comes back |
| WebSocket adapter, gateway | `internal/tunnel/conn.go`, `gateway.go` | one socket; one server | `Read`, `Write`, ping loop; `RunGateway` | one writer at a time, dead peers noticed |
| Docker client factory | `internal/docker/client.go` | none | `NewClient` | a client or an error |

How they interact. The controllers share the API server: a DockerDeployment
creates DockerContainers, the DockerContainer controller runs them and writes
their status, the DockerService controller reads that status for target
addresses, puts them in a ConfigMap and pushes them to the tunnel server, and
the server's client relays connections to the containers. A DockerHost
controller creates DockerContainers from containers that carry a label.

What is hard. A pass reads from informer caches that lag and makes a sequence
of API and Docker calls; users, other controllers and people on the hosts act
between any two of them. A call may fail, or succeed with its answer lost.
Status writes carry a resourceVersion and may be refused, and the job controller
ignores that. The process may die anywhere. In the tunnel every connection,
session and request is a goroutine. `PROJECT.json` lists these hazards at their
lines.

## 2. Modules

| Module | Models | Proofs |
| --- | --- | --- |
| `ContainerSpec` | the pure functions of the container controller | |
| `ContainerDrift` | what these functions do to one container over its life | `ContainerDriftProofs` |
| `DockerContainer` | one CR, one container name, one host, all calls of a pass | `DockerContainerProofs` |
| `DockerJob` | one job and its container, all calls of a pass | `DockerJobProofs` |
| `DockerDeployment` | one deployment, its children, the calls of a pass | `DockerDeploymentProofs` |
| `TunnelServer` | the server's goroutines, its client, the file and the pushes | `TunnelServerProofs` |
| `DockerService` | one service: the calls of a pass, its four objects, pod and tunnel clients | `DockerServiceProofs` |
| `TargetFeed` | abstract: what operator and server promise about targets | |
| `TunnelPipeline` | `DockerService` composed with `TunnelServer`; implements `TargetFeed` | `TunnelPipelineProofs` |
| `DockerHost` | the discovery of labelled containers, beside the container controller | `DockerHostProofs` |

`MC*` modules give the constants their values for TLC.

### ContainerSpec and ContainerDrift

Specs and configurations are records. Environments are sets of pairs, port lists
are bags, because an entry may occur twice. Network mode, volumes and health
check are one field `rest`: create copies them and `needsRecreate` never looks.
Numbers keep what matters of their representation: `Wrap` is int64
multiplication, `Float` rounds to a significand of `Significand` bits, and
`parseCPU` rounds twice and truncates as `int64(cpuFloat * 1e9)` does. TLC uses
a small significand, `Kilo` and `Giga`; the proof is for all of them.
`ContainerDrift` lets a container be adopted (`upsertAdoptedContainer`), its CR
edited and flipped, Secrets rotated, and enforce passes run. The container may run
or be stopped when it is adopted, and be started or stopped later (`StartOrStop`;
`SyncStarts` is the pass that starts one it keeps): discovery lists both kinds, and
the snapshot is taken from `NetworkSettings.Ports` (`NetworkPorts`), which shows the
ports of a running container only. A binding has its protocol.

### DockerContainer

`pc` is the next call of the running pass, `work` its copy of the CR and `match`
what the list told it. `fresh` says whether `work` is the stored version: an
update is refused when it is not. One action per call: `Get`, `AddFinalizer`,
`List`, `ObserveRuntime`, `Inspect`, `Stop`, `Remove`, `Start`, `Create`,
`Upload`, `StartNew`, `InspectNew`, `WriteStatus`, and for deletions
`DeleteContainer`, `DeleteTunnels`, `RemoveFinalizer`. `secretVolumes` is a field of
the spec, edited like the others; `create` uploads one Secret after the other, and
`missing` is what of them a container has not got. `interrupted` is history: the
containers whose create ended between `ContainerCreate` and the last upload. A call
that changes something ends `"ok"`, `"lost"` (effect, but an error is returned) or `"fail"`.
What the code ignores the model ignores: the error of `ContainerStop`, of
`deleteExternalResources`, of the last inspection. The environment writes, edits
and deletes the CR, touches the container, starts tunnel containers and kills
the operator. `Requeue` is a delayed request that comes due.

### DockerJob

The same frame. `Report` and `Finish` are the status writes whose errors are
ignored; the pass goes on with its own copy. Times are ages that `Tick` raises
in every copy. `starts` and `succeeded` are history: how often a process of the
stored job was started and whether one exited with 0.

### DockerDeployment

`kids` are the stored children, `kidCache` what a pass reads of them: owner,
creation time, state. That a child is on its way out is not part of it, because
the code does not look. `Youngest` is `sort.Slice` by a timestamp in seconds,
which is not stable: of equal ones any may be last. `Panic` is the index that
leaves the list when `replicas` is negative. The DockerContainer controller and
the garbage collector are surroundings (`KidTaken`, `KidRuns`, `KidGone`,
`Collect`). The nil check of `spec.replicas` is not modelled, since the API server
stores 1.

### TunnelServer

What a goroutine does under the mutex is one step; reading the file is one of
its own before it. `served` counts connections for each entry of the target list, since
an address may be in it twice. `lastPush` is the age of the last push. `Cut` breaks a link
that neither side notices until `Expire` (the keep-alive) and `HangUp`.
A file that cannot be read leaves everything as it is, so that case is a step in
which nothing happens. `AcceptPush`, `StartLoad`, `RefreshFile` and `StartServer`
are what happens to the server; `Push`, `ReadFile`, `WriteFile` and `Restart` are
the same as events of an unknown environment. The pipeline uses the former.

### DockerService

`objs` are the Service, Secret, ConfigMap and Deployment of the tunnel server,
each with its owner's uid and the value that matters: the target list of the
ConfigMap, the token of the Secret, replicas, token and image of the Deployment.
The informers for these four queue nothing, so their caches are modelled where
they are read: `current` says whether a read has the last change, and a read that
has not returns what the last pass saw (`objCache`). The service's and the
containers' informers are actions of their own, since they start passes.
`Result` is `controllerutil.CreateOrUpdate` with `SetControllerReference`: created,
updated, left alone, or refused by a conflict, by an object the cache missed, or
by an owner that is gone. Services and Deployments come back from the API server
with defaults the code does not set, so `CreateOrUpdate` sends them in every pass.
`tokens` numbers the random tokens. A tunnel client has its token and image,
whether it runs, and whether `NetworkConnect` was done. The status is a merge
patch: `Patched` replaces the fields in which the new status differs from the one
the pass read. An invalid selector is reported twice.
`buildTargetIPs` keeps what the code appends: containers on two hosts may have the
same address, and then the list has it twice. `pod` is the newest pod of the tunnel
server. The code sets no Strategy, so while a rollout goes on an older pod may still
run beside it; its connections and the clients that still dial it are not modelled.
Left out: image pulls and the node lookup (they change no state here), the legacy
client name, and an empty `spec.ports`, which the CRD forbids.

### TunnelPipeline and TargetFeed

The pipeline instantiates `TunnelServer` with the addresses of the service. Its
steps are those of the controller, of the kubelet (`NewPod`, `Mount`), of the
pushes (`PushReaches`, `PushLost`) and of the server's goroutines (`Watch`, `Load`,
`Age`). `TargetFeed` knows three things: the last published list, all that were
ever published, and the list the server has. It promises that the server only has
lists that were published, and that it does not stay without the last one. The
refinement mapping is `have <- targets`; `published` is the ConfigMap's content,
`<<>>` when there is none or neither a server nor a Deployment that asks for one:
a pass that fails between the two and then selects nothing leaves a ConfigMap nobody
reads. `Withdraw` is the server's end. `past` is history.

### DockerHost

A pass pings one host, writes its status, lists the containers and takes the
labelled ones in any order. `snap` is the snapshot at hand, `obj` and `work` the
DockerContainer it belongs to. `Observe`, `Enforce` and `DeleteCR` are what a whole
pass of the container controller does, as far as this controller can see it:
`DockerContainer` has it in detail. `ObjectName` stands for `adoptedObjectName`, which
maps different names (`web_1`, `web-1`) and the same name on two hosts to one
object. Two objects that enforce one container replace it in turns for ever;
`Alone` keeps users from writing that.

## 3. Runs

Passing runs:

| Run | Configuration | Checks |
| --- | --- | --- |
| `container_drift` | `ContainerDrift.cfg` | `CreateSettles`, `AdoptThenEnforceKeeps`, `PortsSurviveAdoption` |
| `container_life` | `DockerContainer.cfg` | `TypeOK`, `RemovesOnlyDrifted`, `ObservedIsLeftAlone`, `SettlesEventually`, with both modes |
| `container_enforce` | `ContainerEnforce.cfg` | `NoOrphan`, `SecretsUnlessInterrupted`, with SecretVolumes and a tunnel container |
| `job_once` | `DockerJob.cfg` | `TypeOK`, `NoContainerOutlivesJob`, `TerminalSticky`, `SucceedsOnce`, without deadline and TTL |
| `job_times` | `JobLive.cfg` | `FinishedIsStopped`, `JobFinishes`, `TtlCleansUp`, with deadline and TTL |
| `deployment_safety` | `DockerDeployment.cfg` | `TypeOK`, `OvershootBounded`, `TakesOnlyItsOwn`, `KeepsOldest` |
| `deployment_live` | `DeploymentLive.cfg` | `Converges`, `AvailableSettles` |
| `tunnel_server` | `TunnelServer.cfg` | `TypeOK`, `PushHolds`, `RegistryExact`, `SpreadEven`, `ClientReconnects`, `NoConnStuck` |
| `service` | `DockerService.cfg` | `TypeOK`, `TokensAgree`, `NoClientLeaks`, `ServiceSettles`, `QuietAtLast` |
| `pipeline` | `TunnelPipeline.cfg` | `FeedImplemented` (the refinement of `TargetFeed`), `TargetsArrive` |
| `host` | `DockerHost.cfg` | `TypeOK`, `ClaimedOnce`, `EditsKept`, `AdoptsAtLast`, `WritersAgree` |

One run shows a disagreement between the code and what a test of it says:
`replicas_run`. The CRD's Observe default for `managementMode` defeats the Enforce
default of `constructContainer`, so no child of a deployment runs anything.

Other behaviour the models show and that a reader of the documentation may not
expect. The properties above are stated so that they hold beside it, and
`PROJECT.json` has most of it among the hazards:

- changed ports, envVars, volumes, network or secretVolumes never reach an enforced
  container (`needsRecreate` does not look at them), so `SecretsUnlessInterrupted` is
  about the Secrets of the spec a container was created from;
- an adopted container that is replaced publishes its udp ports as tcp, and none at all
  if it was stopped when it was adopted (hence the conditions of `PortsStep`); a port
  bound on IPv4 and on IPv6, or for tcp and for udp, is written twice into its spec;
- flipping an unedited adopted CR to Enforce replaces its container if it has no
  restart policy or a CPU limit that does not survive the conversion, such as
  1.001 (hence `Representable` in `AdoptThenEnforceKeeps`);
- an interrupted upload of Secrets is never repeated: the next pass starts that
  container without them (hence the condition of `SecretsUnlessInterrupted`);
- a refused status write of a job loses an attempt, or its StartTime and with it
  the deadline (hence `Undisturbed` in `JobFinishes`), and under `OnFailure` the
  daemon restarts the process without a count;
- a pass on a stale copy starts a job again that was stopped for its deadline
  (hence the conditions of `SucceedsOnce` and `FinishedIsStopped`);
- terminating children still count and ties in age are broken at random, so two
  passes in a row may scale down too far for a while;
- a negative `replicas` makes every pass panic before it writes the status, so that
  the old count stays for ever (hence the condition of `AvailableSettles`);
- a changed template never reaches the children that exist;
- a job's container that was created and not started stays in state created, and
  the job waits for it for ever;
- an Observe CR that is deleted before its first status write is stored takes the
  user's container with it, although README.md:39 says "status only" (hence
  `cr.adopted` in `ObservedIsLeftAlone`);
- with TTL 0 a refused terminal write of a job is followed by the removal of its
  container, and the next pass runs a successful job again, although
  `dockerjob_types.go:112` calls it one-off (hence the conditions of `SucceedsOnce`);
- a service that selects nothing any more keeps its server and its old targets
  (hence `Resolved`);
- a tunnel client that runs keeps its token when the Secret is new, and one whose
  `NetworkConnect` was interrupted is never connected (hence the condition of
  `TokensAgree`);
- a service that is deleted leaves a client on every host whose containers it no
  longer selects, and on those it cannot reach (hence those of `NoClientLeaks`);
- the container whose host gets the client is the first of an unordered list, so
  that clients may come to be on several hosts, while the status says 1;
- if the first container does not exist on its host the pass skips the client and
  reports Active all the same;
- an invalid selector makes passes follow each other without pause, since each
  writes the status twice (hence the exception in `QuietAtLast`);
- labelled containers whose names lead to the same object end the discovery of
  their host in every pass (hence `Clear`), and a renamed one gets a second object
  (hence the condition of `ClaimedOnce`);
- containers of two hosts with the same bridge address get two shares of the
  connections, which end on the host of the client that relays them (`SpreadEven`
  counts entries, not containers).

Three things are outside what the models let the environment do. `spec.containerName`
and `spec.dockerHostRef` can be edited in the code, but a CR keeps them in the models:
after such an edit the old container stays behind, which `NoOrphan` and
`NoContainerOutlivesJob` do not speak of, and two objects may come to name one
container, which `ClaimedOnce` excludes by hypothesis only for renamed containers and
objects made by hand. A `docker update` that changes limits in place, between the
inspection that found drift and the removal, is not among the outside changes of
`DockerContainer`; replacing the container is. And the overlap of two pods during a
rollout, as said above.

### Bounds

Budgets limit what the environment may do (`MaxFaults`, `MaxEdits`,
`MaxOutside`, `MaxCrashes`, `MaxStale`, ...), never what the controllers do. The
later modules have one budget for everything: `Troubles` names what may happen and
`MaxTrouble` how much of it all together (`MaxEvents` in `TunnelServer`), so that
every pair of troubles is tried in every order. One or two of each is enough for each
hazard on the list: they need one write between two calls, one lost answer, one crash, one stale read, or
two of these together, and the budgets are combined in one run. The clocks of
jobs stop at `MaxAge`, which is beyond deadline and TTL; the age of a push stops
at `Window`. Deployments have up to two children wanted. The safety run has four names: at one
stale list that is the bound of `OvershootBounded` itself, so TLC tests it without
stale lists and the theorem has the rest. The live run asks for -1, 0 or 1 and has
one stale list, so that it shows recovery from one and from a panic. The enforce
run has specs with no Secret, with one and with two, and three edits among them.
Two target addresses, in lists of which one has an address twice, and two
connections show an uneven share;
three sessions cover one cut, one restart and the session in use.
The service has two containers on two hosts, one of them without an address at
first, two addresses, one upgrade, and one successor after a deletion. The pipeline
has two hosts, so that an address may occur twice, no successor, a second container
that comes later, and two pushes under
way at once, enough for one to overtake another; `Window` is 1, because only whether
a push still wins matters. The discovery has one host, three container names of
which two collide, and two object names; containers of one name on two hosts
collide in the same way.
Deadlock is not checked: a system whose environment's budget is spent may stop.
The job runs use `restartPolicy: Never`, under which the controller's own retries
happen; `OnFailure` is covered by the proofs.
Names of children are interchangeable in the safety runs and TLC uses that.

### Fairness

Weak fairness of a controller's steps: controller-runtime's worker takes the
next request and runs a pass to its end, provided calls return (without TLS
`client.go` sets no timeout, so this is an assumption about the hosts). Weak
fairness of informer delivery and of time. `RequeueAfter` timers are fair in
`DockerDeployment`; in the container and job modules a request that is put back
is simply queued. The container's own process, users, hosts and the network owe
nothing. In `DockerDeployment` the collector and the container controller are
fair, and a free random name is drawn at last (strong fairness: 36^5 names). In
`TunnelServer` goroutines, the 5-second ticker, the client's redial loop and the
keep-alive are fair; no connection need ever end by itself. In `DockerService` and
the pipeline the worker, the informers, the collector, the Deployment's roll-out and
the kubelet are fair, and a push that was sent ends, at the server or nowhere. In
`DockerHost` every queued host is taken in turn (strong fairness, a work queue is
first in, first out) and so is every object by the container controller.

## 4. Proofs

Every safety invariant and every action property that a run checks is also a
theorem: the run shows it on a small instance, the proof for all values of the
constants that the named assumptions allow. Each inductive invariant was checked by
TLC on the run's instance before it was proved.

Assumptions. They are stated where the constants are declared, and TLC evaluates
them in every run.

- `ScaleAssumption`, `FoundAssumption`, `WritesAssumption`: number scales are positive;
  the limits of a container that exists are int64 and not negative, as the daemon
  has them; its port list is finite.
- `ContainerAssumption`, `JobAssumption`: kinds of modes, limits and budgets.
- `DeploymentAssumption`: finitely many names for children and a largest value of
  `spec.replicas` (the code has 36^5 names per deployment and an int32).
- `ServerAssumption`: lists of targets, with repetitions or without, the empty one
  among them; a window of at least 1.
- `ServiceAssumption`: every container is on a host, addresses are positive numbers.
- `HostAssumption`: every container name has an object name (not one of its own), and
  finitely many containers exist at first.
- `NoneAssumption`, `NoJobAssumption`: `None`, which stands for what is not there, is
  not one of the records it is absent for.

### Container specs (`ContainerDriftProofs`)

- `CreateSettlesTheorem`: inductive on its own. The argument is about defaults and
  image ENV, whatever the number conversions do, because both sides use the same
  `buildDockerResources`.
- `AdoptThenEnforceKeepsTheorem`, `PortsSurviveAdoptionTheorem`. The invariant
  `AdoptInv` says that until a pass replaces it the container is the one that was
  found, that an untouched CR is its snapshot as it ran or stood when it was adopted,
  and that later ones are made from that CR. The lemmas under it are about the
  conversions: `MemorySurvives` (`parseMemoryString` reads back what `formatBytes`
  writes, for every non-negative int64, wrapping included), `SnapshotIsAccepted`,
  `PortsSurvive` (every tcp binding of a container that ran is in what `parsePorts`
  makes of the snapshot, and nothing is that was not published under some protocol).
  The CPU limit is a condition of the theorem: limits that do not
  survive exist.

### DockerContainer (`DockerContainerProofs`)

`TypeCorrect`, `RemovesOnlyDriftedTheorem`, `ObservedIsLeftAloneTheorem`,
`NoOrphanTheorem`, `SecretsUnlessInterruptedTheorem`. The inductive invariant adds
to the types what a pass may rely on between calls: `fresh` means that `work` agrees
with the stored CR in what it decides by; a pass about to remove works on an
enforced spec and the container with the matched ID, if it still exists, is drifted;
container IDs are never reused; copies of a CR that was never enforced and is stored
as adopted cannot lead to a call that changes the container. `SecretsInv`: a container
of the operator's that lacks a Secret, and whose create was not interrupted, was never
started and is the one the running pass is uploading to.
`NoOrphanTheorem` is for CRs that are always enforced: with Observe in play an adopted
CR may be deleted without its container, as documented.

### DockerJob (`DockerJobProofs`)

`TypeCorrect`, `NoContainerOutlivesJobTheorem`, `TerminalStickyTheorem`,
`SucceedsOnceTheorem`, `FinishedIsStoppedTheorem`. The invariant has a part for fresh
copies, one for the life of a job (whatever can create a container has a stored job
with a finalizer), one for passes that outlive their job, one for terminal phases,
one for container IDs, one that says that the exited container is the record of a
success as long as nobody removes it, and `StoppedInv`: as long as nothing failed and
no copy was stale, a pass that works on a container has an unfinished job and knows
which container there is.

### DockerDeployment (`DockerDeploymentProofs`)

`TypeCorrect`, `OvershootBoundedTheorem`, `TakesOnlyItsOwnTheorem`, `KeepsOldestTheorem`.
`OvershootBounded` is not inductive: `CreateInv` adds what a pass that creates has
still to do, and the step that reads a list needs that only a list counted as stale
misses a child. `OwnerInv` orders the identities of deployments, of the pass and of
stored and cached children, so that what a pass listed under a name is, if it is
still there, its own; `DeleteInv` adds that without stale lists everything it owns
was listed.

The attempt to prove `KeepsOldest` showed that the model had called too few lists
stale: it compared names, so a name that was deleted by a user and drawn again counted
as listed although its cached creation time was the old one. `Listed` compares what
`listOwnedContainers` returns, creation times included.

### TunnelServer (`TunnelServerProofs`)

`TypeCorrect`, `PushHoldsTheorem` (with the type of the push's age it is inductive: a
loader applies a list inside the window only if it is the pushed one),
`RegistryExactTheorem` (a handler removes the position at which its own session is,
and what is registered once is removed once), `SpreadEvenTheorem`. The latter's
invariant, `SpreadInv`, says where the round is: there are a base m and a position b
such that the entries from b up to the round-robin index, going round, have served
m + 1 and all others m. Equal counts alone do not tell which entry is next. Entries
are places in the list, so nothing is asked of the addresses.

### DockerService (`DockerServiceProofs`)

`TypeCorrect`, `TokensAgreeTheorem`, `NoClientLeaksTheorem`. `LifeInv`: a pass that goes by
a copy with the finalizer works for the service that is stored, since passes of one
service do not overlap and only a pass that found it deleted lets it go. `TokenInv`: one
token at most is drawn while the Secret is left alone, because `Create` refuses a
second one. `SelectInv` and `ClientInv`: caches know the hosts of all clients, so that
the deletion, which asks those of what is selected then, visits them.

### TunnelPipeline (`TunnelPipelineProofs`)

`FeedSafe`: the pipeline starts where `TargetFeed` does, and every step of it is a step
of `TargetFeed` or leaves it alone. `FeedInv` says that wherever a list is (ConfigMap,
mounted file, loader, push under way, server) it was published. It uses the invariant
of `DockerService`, which the pipeline inherits. The run's `FeedImplemented` is this and
the fairness of `TargetFeed`, which stays with TLC.

### DockerHost (`DockerHostProofs`)

`TypeCorrect`, `ClaimedOnceTheorem`, `EditsKeptTheorem`. `ClaimedOnce` needs more than the
objects: `ClaimInv` says that, while nobody renames containers or makes objects by
hand, one function from IDs to names fits every daemon, object, cached copy and
snapshot at hand; two objects for one container would then have one name.
`EditsKept` rests on `FreshInv`: a copy whose update is accepted is what is stored, and
what discovery changes in it is not what users write.

### Checked by TLC only

Liveness: `SettlesEventually`, `JobFinishes`, `TtlCleansUp`, `Converges`,
`AvailableSettles`, `ClientReconnects`, `NoConnStuck`, `ServiceSettles`, `QuietAtLast`,
`TargetsArrive`, the fairness in `FeedImplemented`, `AdoptsAtLast`, `WritersAgree`. They
rest on fairness and ENABLED, which the prover does not handle. That a sorted target
list is sorted is not proved either (that `SortSeq` finds an order takes induction over
its argument); no theorem needs it.

## 5. Not modelled

Bytes on the wire, image pulls and credentials beyond "the call fails", health
check timing, TLS material, metrics, manager flags, manifests, Helm, Terraform
and scripts, generated deep copies. The gateway (`gateway.go`) is a stateless
reverse proxy. Of the WebSocket adapter (`conn.go`) only the effects are modelled: a
link that breaks and is noticed by the keep-alive, a process that panics because two
goroutines write to one socket. What such a race does to frames unnoticed is up to
the library.

## 6. Plan

1. Done: container specs and controller, jobs, deployments, tunnel server, with
   the proofs above; services, their pipeline to the server with its abstract
   specification, and the discovery of labelled containers.
2. Done: proofs of all safety and action properties, and of the safety half of the
   refinement.
3. The safety facts that the liveness properties rest on (a pass ends after a bounded
   number of calls; whoever left work undone has queued a request), as invariants of
   their own.
4. `DockerDeployment` and `DockerHost` composed with `DockerContainer`, so that the
   surroundings of the one are implemented by the other.
