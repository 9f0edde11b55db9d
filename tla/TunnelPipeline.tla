--------------------------- MODULE TunnelPipeline ---------------------------
(***************************************************************************)
(* From the containers' addresses to the targets of the tunnel server:     *)
(* DockerService composed with TunnelServer.  The list travels twice, in   *)
(* the ConfigMap that the kubelet mounts into the pod, and in the pushes   *)
(* of triggerTunnelReload, each a goroutine of its own.                    *)
(***************************************************************************)
EXTENDS DockerService

CONSTANT Window   \* how long the server prefers a push

ASSUME PipelineAssumption == Window \in Nat \ {0}

VARIABLES
  \* of the server; its sessions and connections play no part here, and its
  \* surroundings are these, so that events stays 0
  targets, pushTargets, lastPush, rrIndex, sessions, loaded, ws, conns,
  file, client, up, closed, served, events,
  \* history, for the abstract specification
  published, past

Server == INSTANCE TunnelServer WITH
  Targets <- Addrs, Conns <- {}, Sessions <- {}, TokenAccepted <- TRUE,
  Loaders <- {"watcher", "request"}, Watcher <- "watcher",
  MaxEvents <- 0

serverVars == <<targets, pushTargets, lastPush, rrIndex, sessions, loaded, ws, conns,
                file, client, up, closed, served, events>>
pipelineVars == <<vars, serverVars, published, past>>

PipelineInit ==
  /\ Init
  /\ Server!Init /\ file = <<>>
  /\ published = <<>> /\ past = {<<>>}

-----------------------------------------------------------------------------

\* What the operator publishes is what the ConfigMap says: nothing when it is
\* gone, and nothing while there is no server and none is asked for.
Publishes ==
  /\ published' = IF objs'["cm"] = None \/ (pod' = None /\ PodWanted' = None)
                    THEN <<>> ELSE objs'["cm"].val
  /\ past' = past \cup {published'}

Operate == Pass /\ UNCHANGED serverVars /\ Publishes

Deliver == Informers /\ UNCHANGED <<serverVars, published, past>>

Disturb == Others /\ UNCHANGED serverVars /\ Publishes

\* The pod is replaced, comes or goes, and the server with it.
NewPod == RollOut /\ Server!StartServer /\ UNCHANGED events /\ Publishes

\* A push ends, at the pod or nowhere; they overtake each other.
PushArrives(i) ==
  /\ i \in 1..Len(inFlight)
  /\ inFlight' = RemoveAt(inFlight, i)
  /\ UNCHANGED <<apiVars, dcVars, objVars, pod, clients, image, passVars, budgetVars>>

\* A push reaches the server.  One without targets makes it read the file.
PushReaches(i) ==
  /\ pod # None
  /\ PushArrives(i)
  /\ IF inFlight[i] = <<>> THEN Server!StartLoad("request")
                           ELSE Server!AcceptPush(inFlight[i])
  /\ UNCHANGED <<events, published, past>>

\* The pod's address is no longer its own, or the POST fails; nobody notices.
PushLost(i) == PushArrives(i) /\ UNCHANGED <<serverVars, published, past>>

\* The kubelet brings the mounted file up to date.
Mount ==
  /\ pod # None /\ objs["cm"] # None
  /\ Server!RefreshFile(objs["cm"].val)
  /\ UNCHANGED <<vars, events, published, past>>

\* The server's own goroutines.
Running == pod # None /\ UNCHANGED <<vars, published, past>>
Watch == Running /\ Server!StartLoad("watcher") /\ UNCHANGED events
Load(l) == Running /\ Server!LoadTargets(l)
Age == Running /\ Server!Tick

\* The garbage collector, after a deletion.
Gone(k) == Collect(k) /\ UNCHANGED serverVars /\ Publishes

PipelineNext ==
  \/ Operate \/ Deliver \/ Disturb \/ NewPod \/ Mount \/ Watch \/ Age
  \/ \E k \in Kinds : Gone(k)
  \/ \E l \in {"watcher", "request"} : Load(l)
  \/ \E i \in 1..Len(inFlight) : PushReaches(i) \/ PushLost(i)

\* The worker, the informers, the cluster, the server's goroutines and its
\* clock run on.  A push that was sent arrives or is lost.
PipelineSpec ==
  /\ PipelineInit /\ [][PipelineNext]_pipelineVars
  /\ WF_pipelineVars(Operate)
  /\ WF_pipelineVars(SyncService /\ UNCHANGED <<serverVars, published, past>>)
  /\ WF_pipelineVars(SyncContainers /\ UNCHANGED <<serverVars, published, past>>)
  /\ WF_pipelineVars(NewPod) /\ WF_pipelineVars(Mount) /\ WF_pipelineVars(Watch)
  /\ WF_pipelineVars(Age)
  /\ WF_pipelineVars(\E k \in Kinds : Gone(k))
  /\ \A l \in {"watcher", "request"} : WF_pipelineVars(Load(l))
  /\ WF_pipelineVars(\E i \in 1..Len(inFlight) : PushReaches(i) \/ PushLost(i))

-----------------------------------------------------------------------------
(* Properties.                                                             *)

Feed == INSTANCE TargetFeed WITH have <- targets

\* ConfigMap, file, pushes and server implement the promise about targets:
\* the server only ever has a list that was published, whole, whatever is lost,
\* late or restarted, and does not stay without the last one.
FeedImplemented == Feed!Spec

\* When the containers stop moving the server's targets are the addresses of
\* the selected ones.
TargetsArrive == <>[](Resolved => targets = Wanted)
=============================================================================
