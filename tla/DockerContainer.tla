--------------------------- MODULE DockerContainer ---------------------------
(***************************************************************************)
(* DockerContainerReconciler at work on one DockerContainer CR and the     *)
(* container name it manages on one Docker host.                           *)
(*                                                                         *)
(* A pass of Reconcile is taken apart into the calls it makes: between any *)
(* two of them the user may write the CR, somebody on the host may touch   *)
(* the container, and the operator may be killed.  A call may fail, or     *)
(* take effect and lose its answer.  The CR is read from the informer's    *)
(* cache, which lags, and written with its resourceVersion, so that a      *)
(* write that was overtaken is refused.                                    *)
(*                                                                         *)
(* A spec has one field more than in ContainerSpec: secretVolumes, the     *)
(* Secrets whose files create uploads and needsRecreate never looks at.    *)
(***************************************************************************)
EXTENDS ContainerSpec

CONSTANTS
  Specs,               \* specs a user may write
  Modes,               \* values of managementMode a user may write
  Found,               \* configurations of containers others start under this name
  OwnedByDeployment,   \* the CR has a DockerDeployment as its controller
  Vault,               \* the Secrets of the namespace: key -> value
  TunnelNames,         \* names of tunnel containers that belong to the CR
  MaxFaults, MaxEdits, MaxOutside, MaxCrashes   \* bounds on the environment

ASSUME ContainerAssumption ==
  /\ Modes \subseteq {"", "Observe", "Enforce"}
  /\ OwnedByDeployment \in BOOLEAN
  /\ MaxFaults \in Nat /\ MaxEdits \in Nat /\ MaxOutside \in Nat /\ MaxCrashes \in Nat

SecretNames == UNION {s.secretVolumes : s \in Specs}

VARIABLES
  \* The API server and the informer.
  cr,          \* the stored CR, or None
  cached,      \* the informer's copy of it
  cacheFresh,  \* cached is the stored version
  \* The Docker host.
  ctr,         \* the container of this name, or None
  tunnels,     \* tunnel containers that exist
  lastId,      \* the last container ID given out
  interrupted, \* history: containers whose create ended before all uploads
  \* The operator.
  queued,      \* the request is in the work queue
  pc,          \* the next call of the running pass
  work,        \* the pass's copy of the CR
  fresh,       \* work is the stored version
  match,       \* what the pass knows of the container: [id, state, ip], or None
  \* History.
  observeOnly, \* the stored CR has never been in Enforce mode
  faults, edits, outside, crashes

apiVars == <<cr, cached, cacheFresh, observeOnly>>
hostVars == <<ctr, tunnels, lastId, interrupted>>
passVars == <<queued, pc, work, fresh, match>>
budgetVars == <<faults, edits, outside, crashes>>
vars == <<apiVars, hostVars, passVars, budgetVars>>

States == {"created", "running", "exited"}
Calls == {"addFinalizer", "delete", "deleteTunnels", "unfinalize", "list",
          "observe", "inspect", "stop", "remove", "create", "upload", "startNew",
          "inspectNew", "start", "status"}

NoStatus == [id |-> 0, state |-> "", ip |-> FALSE]

\* A container's address exists while it runs.
Seen(c) == [id |-> c.id, state |-> c.state, ip |-> c.state = "running"]

-----------------------------------------------------------------------------
(* Pure parts of the controller.                                           *)

managementModeFor(c) ==
  CASE c.mode = "Enforce" -> "Enforce"
    [] c.mode = "Observe" -> "Observe"
    [] OTHER -> IF OwnedByDeployment THEN "Enforce" ELSE "Observe"

\* Mutant: the last container seen decides, not the adoption.
shouldSkipIfSeen(c) ==
  c.status.id # 0 /\ managementModeFor(c) = "Observe"

shouldSkipRuntimeDeletion(c) ==
  c.adopted /\ managementModeFor(c) = "Observe"

Init ==
  /\ cr = None /\ cached = None /\ cacheFresh = TRUE
  /\ observeOnly = TRUE
  /\ ctr \in {None} \cup
       {[id |-> 1, state |-> s, cfg |-> c, missing |-> {}, owner |-> "outsider"] :
          s \in {"running", "exited"}, c \in Found}
  /\ tunnels = {}
  /\ lastId = 1 /\ interrupted = {}
  /\ queued = FALSE /\ pc = "idle" /\ work = None /\ fresh = FALSE /\ match = None
  /\ faults = 0 /\ edits = 0 /\ outside = 0 /\ crashes = 0

-----------------------------------------------------------------------------
(* How calls end.  "lost": the call took effect and the caller sees an     *)
(* error; "fail": it did not.                                              *)

Outcomes == {"ok", "lost", "fail"}

Pay(o) ==
  /\ o # "ok" => faults < MaxFaults
  /\ faults' = IF o = "ok" THEN faults ELSE faults + 1
  /\ UNCHANGED <<edits, outside, crashes>>

\* Mutant: the request is not put back.
ReturnForget(again) ==
  /\ pc' = "idle"
  /\ queued' = queued
  /\ UNCHANGED <<work, fresh, match>>

\* The end of a pass; again: an error or RequeueAfter puts the request back.
Return(again) ==
  /\ pc' = "idle"
  /\ queued' = (queued \/ again)
  /\ UNCHANGED <<work, fresh, match>>

Goto(step) == pc' = step /\ UNCHANGED queued

\* An Update of the CR, refused when work is not the stored version.  A write
\* that changes nothing produces no new version.
Update(o, new) ==
  /\ Pay(o)
  /\ IF fresh /\ o # "fail"
       THEN cr' = new /\ cacheFresh' = (cacheFresh /\ new = cr)
       ELSE UNCHANGED <<cr, cacheFresh>>
  /\ UNCHANGED <<cached, observeOnly>>

Refused(o) == o # "ok" \/ ~fresh

\* The container a call by ID reaches.
Reached == match # None /\ ctr # None /\ ctr.id = match.id

\* A call by ID on the container: effect when it is there, error when not.
\* When it answers the pass goes on to next, otherwise it returns the error.
\* cut: the containers whose create ends with such an error.
OnContainer(o, new, next, cut) ==
  /\ Pay(o)
  /\ ctr' = IF Reached /\ o # "fail" THEN new ELSE ctr
  /\ IF Reached /\ o = "ok"
       THEN Goto(next) /\ UNCHANGED <<work, fresh, match>>
       ELSE Return(TRUE)
  /\ interrupted' = IF Reached /\ o = "ok" THEN interrupted ELSE interrupted \cup cut
  /\ UNCHANGED <<apiVars, tunnels, lastId>>

-----------------------------------------------------------------------------
(* Reconcile.                                                              *)

\* Mutant: a CR that is not found is worked on all the same.
GetIgnoresNotFound ==
  /\ pc = "idle" /\ queued
  /\ queued' = FALSE
  /\ work' = cached
  /\ fresh' = cacheFresh
  /\ match' = None
  /\ pc' = IF cached = None THEN "list"
           ELSE IF cached.deleting
             THEN IF cached.finalizer THEN "delete" ELSE "idle"
             ELSE IF cached.finalizer THEN "list" ELSE "addFinalizer"
  /\ UNCHANGED <<apiVars, hostVars, budgetVars>>

\* Mutant: the container is synced before the finalizer is there.
GetWithoutFinalizer ==
  /\ pc = "idle" /\ queued
  /\ queued' = FALSE
  /\ work' = cached
  /\ fresh' = cacheFresh
  /\ match' = None
  /\ pc' = IF cached = None THEN "idle"
           ELSE IF cached.deleting
             THEN IF cached.finalizer THEN "delete" ELSE "idle"
             ELSE "list"
  /\ UNCHANGED <<apiVars, hostVars, budgetVars>>

\* The request is taken from the queue and the CR read from the cache.
Get ==
  /\ pc = "idle" /\ queued
  /\ queued' = FALSE
  /\ work' = cached
  /\ fresh' = cacheFresh
  /\ match' = None
  /\ pc' = IF cached = None THEN "idle"
           ELSE IF cached.deleting
             THEN IF cached.finalizer THEN "delete" ELSE "idle"
             ELSE IF cached.finalizer THEN "list" ELSE "addFinalizer"
  /\ UNCHANGED <<apiVars, hostVars, budgetVars>>

\* Success puts nothing back: the update's own event starts the next pass.
AddFinalizer(o) ==
  /\ pc = "addFinalizer"
  /\ Update(o, [work EXCEPT !.finalizer = TRUE])
  /\ Return(Refused(o))
  /\ UNCHANGED hostVars

\* docker.NewClient fails: the DockerHost or its Secret cannot be read.  A
\* deletion goes on without having removed anything.
NoClient ==
  /\ pc \in {"delete", "list"}
  /\ Pay("fail")
  /\ IF pc = "delete"
       THEN Goto("unfinalize") /\ UNCHANGED <<work, fresh, match>>
       ELSE Return(TRUE)
  /\ UNCHANGED <<apiVars, hostVars>>

\* deleteExternalResources: the container is removed by name, whoever made it.
\* An error skips the tunnels, and Reconcile ignores it.
DeleteContainer(o) ==
  /\ pc = "delete"
  /\ shouldSkipRuntimeDeletion(work) => o = "ok"
  /\ Pay(o)
  /\ IF shouldSkipRuntimeDeletion(work)
       THEN Goto("unfinalize") /\ UNCHANGED ctr
       ELSE /\ ctr' = IF o = "fail" THEN ctr ELSE None
            /\ Goto(IF o = "ok" THEN "deleteTunnels" ELSE "unfinalize")
  /\ UNCHANGED <<apiVars, tunnels, lastId, interrupted, work, fresh, match>>

\* Every tunnel name is tried; one that fails is logged.
DeleteTunnels ==
  /\ pc = "deleteTunnels"
  /\ \E left \in SUBSET tunnels :
       /\ Pay(IF left = {} THEN "ok" ELSE "fail")
       /\ tunnels' = left
  /\ Goto("unfinalize")
  /\ UNCHANGED <<apiVars, ctr, lastId, interrupted, work, fresh, match>>

\* Without its finalizer a CR that is being deleted is gone.
RemoveFinalizer(o) ==
  /\ pc = "unfinalize"
  /\ Update(o, None)
  /\ Return(Refused(o))
  /\ UNCHANGED hostVars

-----------------------------------------------------------------------------
(* sync and observeRuntime.                                                *)

\* ContainerList and findContainerByName.
List ==
  /\ pc = "list"
  /\ match' = IF ctr = None THEN None ELSE Seen(ctr)
  /\ LET observe == managementModeFor(work) = "Observe"
         missing == observe /\ ctr = None
     IN  /\ Goto(IF missing THEN "status" ELSE IF observe THEN "observe"
                 ELSE IF ctr = None THEN "create" ELSE "inspect")
         /\ work' = IF missing
                      THEN [work EXCEPT !.adopted = TRUE,
                                        !.status = [NoStatus EXCEPT !.state = "missing"]]
                      ELSE work
  /\ UNCHANGED <<apiVars, hostVars, budgetVars, fresh>>

\* A call that only reads, or that fails before the container exists
\* (list, inspect, image pull, Secret lookup), returns an error.
CallFails ==
  /\ pc \in {"list", "observe", "inspect", "create"}
  /\ Pay("fail")
  /\ Return(TRUE)
  /\ UNCHANGED <<apiVars, hostVars>>

\* ContainerInspect on the ID the list gave; not found is an error.
Gone ==
  /\ pc \in {"observe", "inspect"} /\ ~Reached
  /\ Return(TRUE)
  /\ UNCHANGED <<apiVars, hostVars, budgetVars>>

\* State from the list, address from the inspection after it.
ObserveRuntime ==
  /\ pc = "observe" /\ Reached
  /\ work' = [work EXCEPT !.adopted = TRUE,
                          !.status = [match EXCEPT !.ip = Seen(ctr).ip]]
  /\ Goto("status")
  /\ UNCHANGED <<apiVars, hostVars, budgetVars, fresh, match>>

\* The state compared with "running" is the list's; the address written is
\* the one inspected before the container is started.
Inspect ==
  /\ pc = "inspect" /\ Reached
  /\ LET seen == [match EXCEPT !.ip = Seen(ctr).ip]
         next == IF needsRecreate(ctr.cfg, work.spec) THEN "stop"
                 ELSE IF match.state # "running" THEN "start" ELSE "status"
     IN  /\ Goto(next)
         /\ work' = IF next = "stop" THEN work
                    ELSE [work EXCEPT !.status = [seen EXCEPT !.state = "running"]]
  /\ UNCHANGED <<apiVars, hostVars, budgetVars, fresh, match>>

\* An error of ContainerStop is ignored.
Stop ==
  /\ pc = "stop"
  /\ ctr' \in {ctr} \cup
       (IF Reached /\ ctr.state = "running" THEN {[ctr EXCEPT !.state = "exited"]} ELSE {})
  /\ Goto("remove")
  /\ UNCHANGED <<apiVars, tunnels, lastId, interrupted, budgetVars, work, fresh, match>>

\* Mutant: the container is removed by its name.
RemoveByName(o) ==
  /\ pc = "remove"
  /\ Pay(o)
  /\ ctr' = IF o = "fail" THEN ctr ELSE None
  /\ IF o = "ok"
       THEN Goto("create") /\ UNCHANGED <<work, fresh, match>>
       ELSE Return(TRUE)
  /\ UNCHANGED <<apiVars, tunnels, lastId, interrupted>>

\* By ID; a container that is gone already is an error too.
Remove(o) == pc = "remove" /\ OnContainer(o, None, "create", {})

\* ContainerStart; work holds the status to write.
Start(o) ==
  pc = "start" /\ OnContainer(o, [ctr EXCEPT !.state = "running"], "status", {})

-----------------------------------------------------------------------------
(* create.                                                                 *)

NewContainer ==
  [id |-> lastId + 1, state |-> "created", cfg |-> createConfig(work.spec, Vault),
   missing |-> work.spec.secretVolumes, owner |-> "operator"]

\* Mutant: the container is started before the Secrets are uploaded.
CreateThenStart(o) ==
  /\ pc = "create"
  /\ LET possible == ctr = None /\ createConfig(work.spec, Vault) # None
     IN  /\ Pay(o)
         /\ IF possible /\ o # "fail"
              THEN ctr' = NewContainer /\ lastId' = lastId + 1
              ELSE UNCHANGED <<ctr, lastId>>
         /\ interrupted' = IF possible /\ o = "lost" /\ work.spec.secretVolumes # {}
                             THEN interrupted \cup {lastId + 1} ELSE interrupted
         /\ IF possible /\ o = "ok"
              THEN /\ match' = Seen(NewContainer)
                   /\ Goto("startNew")
                   /\ UNCHANGED <<work, fresh>>
              ELSE Return(TRUE)
  /\ UNCHANGED <<apiVars, tunnels>>

\* ContainerCreate: a taken name or a spec without a configuration is an error.
Create(o) ==
  /\ pc = "create"
  /\ LET possible == ctr = None /\ createConfig(work.spec, Vault) # None
     IN  /\ Pay(o)
         /\ IF possible /\ o # "fail"
              THEN ctr' = NewContainer /\ lastId' = lastId + 1
              ELSE UNCHANGED <<ctr, lastId>>
         /\ interrupted' = IF possible /\ o = "lost" /\ work.spec.secretVolumes # {}
                             THEN interrupted \cup {lastId + 1} ELSE interrupted
         /\ IF possible /\ o = "ok"
              THEN /\ match' = Seen(NewContainer)
                   /\ Goto(IF work.spec.secretVolumes = {} THEN "startNew" ELSE "upload")
                   /\ UNCHANGED <<work, fresh>>
              ELSE Return(TRUE)
  /\ UNCHANGED <<apiVars, tunnels>>

\* uploadSecretToContainer, once for every SecretVolume.
Upload(v, o) ==
  /\ pc = "upload" /\ v \in work.spec.secretVolumes
  /\ Reached => v \in ctr.missing
  /\ OnContainer(o, [ctr EXCEPT !.missing = @ \ {v}],
                 IF Reached /\ ctr.missing = {v} THEN "startNew" ELSE "upload",
                 {match.id})

StartNew(o) ==
  pc = "startNew" /\ OnContainer(o, [ctr EXCEPT !.state = "running"], "inspectNew", {})

\* An error of this inspection is ignored and leaves the address empty.
InspectNew ==
  /\ pc = "inspectNew"
  /\ \E ip \in {FALSE, Reached /\ Seen(ctr).ip} :
       work' = [work EXCEPT !.status = [id |-> match.id, state |-> "running", ip |-> ip]]
  /\ Goto("status")
  /\ UNCHANGED <<apiVars, hostVars, budgetVars, fresh, match>>

\* writeStatus; a pass that succeeds comes back in a minute.
WriteStatus(o) ==
  /\ pc = "status"
  /\ Update(o, work)
  /\ Return(TRUE)
  /\ UNCHANGED hostVars

Reconcile ==
  \/ Get \/ NoClient \/ DeleteTunnels \/ List \/ CallFails \/ Gone
  \/ ObserveRuntime \/ Inspect \/ Stop \/ InspectNew
  \/ \E o \in Outcomes :
       \/ AddFinalizer(o) \/ DeleteContainer(o) \/ RemoveFinalizer(o)
       \/ Remove(o) \/ Start(o) \/ Create(o) \/ StartNew(o)
       \/ \E v \in SecretNames : Upload(v, o)
       \/ WriteStatus(o)

-----------------------------------------------------------------------------
(* The informer, the users, the host's other users, and the process.       *)

\* The watch delivers the stored version and enqueues the request.
CacheSync ==
  /\ ~cacheFresh
  /\ cached' = cr
  /\ cacheFresh' = TRUE
  /\ queued' = TRUE
  /\ UNCHANGED <<cr, observeOnly, hostVars, pc, work, fresh, match, budgetVars>>

\* A request that an earlier pass delayed comes due, or the informer resyncs;
\* nothing cancels the one when a later pass overtakes it.
Requeue ==
  /\ cached # None /\ ~queued
  /\ queued' = TRUE
  /\ UNCHANGED <<apiVars, hostVars, pc, work, fresh, match, budgetVars>>

\* A write to the CR by somebody else than the pass.
UserWrite(new) ==
  /\ edits < MaxEdits
  /\ edits' = edits + 1
  /\ cr' = new
  /\ cacheFresh' = FALSE
  /\ fresh' = FALSE
  /\ UNCHANGED <<cached, hostVars, queued, pc, work, match, faults, outside, crashes>>

CreateCR(s, m) ==
  LET new == [spec |-> s, mode |-> m, deleting |-> FALSE, finalizer |-> FALSE,
              adopted |-> FALSE, status |-> NoStatus]
  IN  /\ cr = None
      /\ UserWrite(new)
      /\ observeOnly' = (managementModeFor(new) = "Observe")

EditSpec(s) ==
  /\ cr # None /\ s # cr.spec
  /\ UserWrite([cr EXCEPT !.spec = s])
  /\ UNCHANGED observeOnly

SetMode(m) ==
  /\ cr # None /\ m # cr.mode
  /\ UserWrite([cr EXCEPT !.mode = m])
  /\ observeOnly' = (observeOnly /\ managementModeFor([cr EXCEPT !.mode = m]) = "Observe")

DeleteCR ==
  /\ cr # None /\ ~cr.deleting
  /\ UserWrite(IF cr.finalizer THEN [cr EXCEPT !.deleting = TRUE] ELSE None)
  /\ UNCHANGED observeOnly

\* Somebody on the host removes or stops the container, or starts one of the
\* same name; a DockerService starts a tunnel container beside it.
OutsideTouch(c, ts) ==
  /\ outside < MaxOutside
  /\ outside' = outside + 1
  /\ ctr' = c /\ tunnels' = ts
  /\ UNCHANGED <<apiVars, passVars, interrupted, faults, edits, crashes>>

OutsideRemove == ctr # None /\ OutsideTouch(None, tunnels) /\ UNCHANGED lastId

OutsideStop ==
  /\ ctr # None /\ ctr.state = "running"
  /\ OutsideTouch([ctr EXCEPT !.state = "exited"], tunnels) /\ UNCHANGED lastId

OutsideRun(cfg) ==
  /\ ctr = None
  /\ OutsideTouch([id |-> lastId + 1, state |-> "running", cfg |-> cfg,
                   missing |-> {}, owner |-> "outsider"], tunnels)
  /\ lastId' = lastId + 1

StartTunnel(t) ==
  /\ t \notin tunnels
  /\ OutsideTouch(ctr, tunnels \cup {t}) /\ UNCHANGED lastId

\* The process dies; the new one lists the CRs first.
Crash ==
  /\ crashes < MaxCrashes
  /\ crashes' = crashes + 1
  /\ pc' = "idle" /\ work' = None /\ match' = None /\ fresh' = FALSE
  /\ cached' = cr /\ cacheFresh' = TRUE
  /\ queued' = (cr # None)
  /\ interrupted' = IF pc = "upload" THEN interrupted \cup {match.id} ELSE interrupted
  /\ UNCHANGED <<cr, observeOnly, ctr, tunnels, lastId, faults, edits, outside>>

Environment ==
  \/ DeleteCR \/ OutsideRemove \/ OutsideStop \/ Crash
  \/ \E s \in Specs : EditSpec(s)
  \/ \E m \in Modes : SetMode(m)
  \/ \E s \in Specs, m \in Modes : CreateCR(s, m)
  \/ \E cfg \in Found : OutsideRun(cfg)
  \/ \E t \in TunnelNames : StartTunnel(t)

Next == Reconcile \/ CacheSync \/ Requeue \/ Environment

\* The worker takes its next call and the watch delivers; nothing is asked of
\* the environment.
Spec == Init /\ [][Next]_vars /\ WF_vars(Reconcile) /\ WF_vars(CacheSync)

-----------------------------------------------------------------------------
(* Properties.                                                             *)

Statuses == [id : Nat, state : States \cup {"", "missing"}, ip : BOOLEAN]

CRs == [spec : Specs, mode : Modes, deleting : BOOLEAN, finalizer : BOOLEAN,
        adopted : BOOLEAN, status : Statuses]

Containers == [id : Nat, state : States,
               cfg : Found \cup {createConfig(s, Vault) : s \in Specs},
               missing : SUBSET SecretNames, owner : {"operator", "outsider"}]

Matches == [id : Nat, state : States, ip : BOOLEAN]

\* None stands for an object that is not there.
ASSUME NoneAssumption == None \notin CRs \cup Matches

FlagsOK ==
  /\ cacheFresh \in BOOLEAN /\ observeOnly \in BOOLEAN
  /\ queued \in BOOLEAN /\ fresh \in BOOLEAN

DataOK ==
  /\ cr \in CRs \cup {None}
  /\ cached \in CRs \cup {None}
  /\ work \in CRs \cup {None}
  /\ ctr \in Containers \cup {None}
  /\ tunnels \subseteq TunnelNames
  /\ match \in Matches \cup {None}
  /\ pc \in Calls \cup {"idle"}
  /\ lastId \in Nat /\ interrupted \subseteq Nat
  /\ faults \in Nat /\ edits \in Nat /\ outside \in Nat /\ crashes \in Nat
  /\ pc # "idle" => work \in CRs

\* Every variable holds what the code's types allow, and a pass that is
\* between two calls has a CR to work on: Reconcile returned when it read none.
TypeOK == FlagsOK /\ DataOK

\* The operator's steps are the ones that leave the other actors' count alone.
ByOperator == outside' = outside

DriftStep ==
  (pc = "remove" /\ ctr # None /\ ctr' # ctr /\ ByOperator)
     => managementModeFor(work) = "Enforce" /\ needsRecreate(ctr.cfg, work.spec)

\* sync removes a container only when it differs from the spec the pass read,
\* in a CR that is enforced, however the name changed hands since it was
\* listed: Stop and Remove go by the ID that was inspected.
RemovesOnlyDrifted == [][DriftStep]_vars

ObservedStep ==
  (cr # None /\ observeOnly /\ cr.adopted /\ ByOperator) => ctr' = ctr

\* A CR that was never enforced and whose first observation is stored leaves
\* the container alone for good, its own deletion included, whatever an old
\* version of it in the cache or in a running pass says.
ObservedIsLeftAlone == [][ObservedStep]_vars

\* As long as no call fails, a container the operator made always has a CR
\* that keeps its finalizer, so that deleting the CR will remove it.
NoOrphan ==
  (faults = 0 /\ ctr # None /\ ctr.owner = "operator")
     => cr # None /\ cr.finalizer

\* The operator never lets a container of its own run without one of the
\* Secrets of the spec it was created from, however passes, edits and other
\* failures follow each other, unless this very container's create was ended
\* by a failed call or a restart between ContainerCreate and the last upload:
\* then the next pass starts what it finds.  A SecretVolume that is added later
\* is not one of these, as needsRecreate does not compare them.
SecretsUnlessInterrupted ==
  (/\ ctr # None /\ ctr.owner = "operator" /\ ctr.state = "running"
   /\ ctr.id \notin interrupted)
     => ctr.missing = {}

\* Nothing is left to do: the CR is gone, or its status tells the state of the
\* container, which an enforced CR has running as specified.
Settled ==
  \/ cr = None
  \/ /\ ~cr.deleting /\ cr.finalizer
     /\ IF managementModeFor(cr) = "Enforce"
          THEN /\ ctr # None /\ ctr.state = "running"
               /\ ~needsRecreate(ctr.cfg, cr.spec)
               /\ cr.status = Seen(ctr)
          ELSE /\ cr.adopted
               /\ cr.status = IF ctr = None THEN [NoStatus EXCEPT !.state = "missing"]
                                            ELSE Seen(ctr)

\* Once users, hosts and the network leave it alone the operator reaches a
\* settled state and stays there: drift is repaired, deletions complete, and
\* no update's event is missed.
SettlesEventually == <>[]Settled
=============================================================================
