-------------------------- MODULE DockerDeployment --------------------------
(***************************************************************************)
(* The DockerDeployment controller: it keeps as many DockerContainer        *)
(* children as the deployment asks for, and reports how many run.           *)
(*                                                                         *)
(* A pass reads the deployment and its children from informer caches, which *)
(* lag, and makes one API call after the other.  Users, the garbage         *)
(* collector and the DockerContainer controller act between the calls.      *)
(***************************************************************************)
EXTENDS Integers, FiniteSets

CONSTANTS
  None,
  Names,         \* names of children, drawn at random
  Replicas,      \* values users give spec.replicas: any int32
  TemplateMode,  \* managementMode in the manifest's template; "" if left out
  MaxUid,        \* how often the deployment is created
  MaxTime,       \* seconds the model tells apart in creationTimestamp
  MaxEdits,      \* edits of the deployment
  MaxKidEdits,   \* children deleted by users, and containers that stop
  MaxFaults,     \* API calls that fail, and operator restarts
  MaxStale       \* lists answered from a cache that misses a change

ASSUME DeploymentAssumption ==
  /\ IsFiniteSet(Names)
  /\ Replicas \subseteq Int /\ \E r \in Replicas \cup {0} : \A s \in Replicas : s <= r
  /\ TemplateMode \in {"", "Observe", "Enforce"}
  /\ {MaxUid, MaxTime, MaxEdits, MaxKidEdits, MaxFaults, MaxStale} \subseteq Nat

VARIABLES
  dep, depCache, depFresh,   \* the deployment, the cached copy, is it current
  kids,                      \* name -> child or None
  kidCache,                  \* what passes read of the cached children
  queued, timer,             \* a request waits; RequeueAfter runs
  pc,                        \* the next call of the pass
  work, fresh,               \* the pass's copy of the deployment, is it current
  owned, todo,               \* children it listed and has not deleted; calls left,
                             \* at last the count it reports
  now, uids, edits, kidEdits, faults, stale

depVars == <<dep, depCache, depFresh>>
kidVars == <<kids, kidCache>>
passVars == <<queued, timer, pc, work, fresh, owned, todo>>
budgetVars == <<now, uids, edits, kidEdits, faults, stale>>
vars == <<depVars, kidVars, passVars, budgetVars>>

\* The API server fills in managementMode, here and in a template.
Admitted(mode) == IF mode = "" THEN "Observe" ELSE mode

\* Mutant: every child of the namespace is taken for the deployment's own.
OwnedInNamespace(cache, uid) == {n \in Names : cache[n] # None}

\* Children are controlled by the deployment whose UID they name.
Owned(cache, uid) == {n \in Names : cache[n] # None /\ cache[n].owner = uid}

\* What sort.Slice compares of them.
Listed(cache, uid) == {[name |-> n, created |-> cache[n].created] : n \in Owned(cache, uid)}

\* What this controller reads of a child, which is not whether it is on its
\* way out.
Seen == [n \in Names |-> IF kids[n] = None THEN None
                         ELSE [owner |-> kids[n].owner, created |-> kids[n].created,
                               running |-> kids[n].running]]

Running(cache, ns) == Cardinality({n \in ns : cache[n].running})
Live(ns) == {n \in ns : ~kids[n].terminating}

Init ==
  /\ dep = None /\ depCache = None /\ depFresh = TRUE
  /\ kids = [n \in Names |-> None] /\ kidCache = Seen
  /\ queued = FALSE /\ timer = FALSE /\ pc = "idle"
  /\ work = None /\ fresh = FALSE /\ owned = {} /\ todo = 0
  /\ now = 0 /\ uids = 0 /\ edits = 0 /\ kidEdits = 0 /\ faults = 0 /\ stale = 0

-----------------------------------------------------------------------------
(* A pass.                                                                 *)

Finish(requeue, after) ==
  /\ pc' = "idle" /\ work' = None /\ fresh' = FALSE /\ owned' = {} /\ todo' = 0
  /\ queued' = (queued \/ requeue) /\ timer' = (timer \/ after)

\* A call returns an error, or the loop panics: the request is queued again.
Fail == Finish(TRUE, FALSE)

Get ==
  /\ pc = "idle" /\ queued
  /\ queued' = FALSE
  /\ IF depCache = None \/ depCache.deleting
       THEN UNCHANGED <<timer, pc, work, fresh, owned, todo>>
       ELSE /\ pc' = "list" /\ work' = depCache /\ fresh' = depFresh
            /\ UNCHANGED <<timer, owned, todo>>
  /\ UNCHANGED <<depVars, kidVars, budgetVars>>

\* Mutant: as many children are created as are wanted, not as are missing.
DiffAll(d, ns) ==
  IF d.replicas > Cardinality(ns) THEN d.replicas ELSE d.replicas - Cardinality(ns)

Diff(d, ns) == d.replicas - Cardinality(ns)

\* listOwnedContainers and the comparison with replicas.
List ==
  /\ pc = "list"
  /\ owned' = Listed(kidCache, work.uid)
  /\ stale' = IF owned' = Listed(kids, work.uid) THEN stale ELSE stale + 1
  /\ stale' <= MaxStale
  /\ todo' = Diff(work, owned')
  /\ pc' = IF todo' > 0 THEN "create" ELSE IF todo' < 0 THEN "delete" ELSE "relist"
  /\ UNCHANGED <<queued, timer, work, fresh, depVars, kidVars,
                 now, uids, edits, kidEdits, faults>>

\* Mutant: the child has no controller reference.
constructContainerOrphan(d) ==
  [owner |-> None, created |-> now, template |-> d.template, mode |-> Admitted(d.mode),
   finalizer |-> FALSE, terminating |-> FALSE, running |-> FALSE]

\* A child of the template, in Enforce mode unless the template has one, as
\* the API server stores it.
constructContainer(d) ==
  [owner    |-> d.uid,
   created  |-> now,
   template |-> d.template,
   mode     |-> Admitted(IF d.mode = "" THEN "Enforce" ELSE d.mode),
   finalizer |-> FALSE, terminating |-> FALSE, running |-> FALSE]

\* Mutant: the loop counts down past the last child.
CreateOneMore(n) ==
  /\ pc = "create" /\ kids[n] = None
  /\ kids' = [kids EXCEPT ![n] = constructContainer(work)]
  /\ todo' = todo - 1
  /\ pc' = IF todo < 0 THEN "relist" ELSE "create"
  /\ UNCHANGED <<queued, timer, work, fresh, owned, kidCache, depVars, budgetVars>>

\* The random name may be taken.
Create(n) ==
  /\ pc = "create"
  /\ IF kids[n] = None
       THEN /\ kids' = [kids EXCEPT ![n] = constructContainer(work)]
            /\ todo' = todo - 1
            /\ pc' = IF todo' = 0 THEN "relist" ELSE "create"
            /\ UNCHANGED <<queued, timer, work, fresh, owned>>
       ELSE Fail /\ UNCHANGED kids
  /\ UNCHANGED <<kidCache, depVars, budgetVars>>

\* What the API server does to a child that is deleted.
Deleted(n) ==
  kids' = [kids EXCEPT ![n] = IF @.finalizer THEN [@ EXCEPT !.terminating = TRUE] ELSE None]

\* Mutant: the loop takes the list from its front.
Oldest(c) == \A d \in owned : d.created >= c.created

\* The youngest child goes first.  sort.Slice is not stable and the timestamps
\* have seconds, so of two that were created together either may be last.
Youngest(c) == \A d \in owned : d.created <= c.created

\* Deleting by name a child that has gone is an error.
Delete(n) ==
  /\ pc = "delete"
  /\ \E c \in owned :
       /\ c.name = n /\ Youngest(c)
       /\ IF kids[n] = None THEN Fail /\ UNCHANGED kids
          ELSE /\ Deleted(n)
               /\ owned' = owned \ {c} /\ todo' = todo + 1
               /\ pc' = IF todo' = 0 THEN "relist" ELSE "delete"
               /\ UNCHANGED <<queued, timer, work, fresh>>
  /\ UNCHANGED <<kidCache, depVars, budgetVars>>

\* A negative replicas asks for more victims than there are: the index leaves
\* the list and the pass panics, which controller-runtime turns into an error.
Panic ==
  /\ pc = "delete" /\ owned = {}
  /\ Fail
  /\ UNCHANGED <<depVars, kidVars, budgetVars>>

\* Mutant: the report only ever rises.
RelistUpwards ==
  /\ pc = "relist"
  /\ IF Running(kidCache, Owned(kidCache, work.uid)) <= work.available
       THEN Finish(FALSE, TRUE)
       ELSE /\ pc' = "status"
            /\ todo' = Running(kidCache, Owned(kidCache, work.uid))
            /\ UNCHANGED <<queued, timer, work, fresh, owned>>
  /\ UNCHANGED <<depVars, kidVars, budgetVars>>

\* The children are listed again and the running ones counted.
Relist ==
  /\ pc = "relist"
  /\ IF Running(kidCache, Owned(kidCache, work.uid)) = work.available
       THEN Finish(FALSE, TRUE)
       ELSE /\ pc' = "status"
            /\ todo' = Running(kidCache, Owned(kidCache, work.uid))
            /\ UNCHANGED <<queued, timer, work, fresh, owned>>
  /\ UNCHANGED <<depVars, kidVars, budgetVars>>

\* The write is refused if the deployment was changed since it was read.
UpdateStatus ==
  /\ pc = "status"
  /\ IF fresh THEN /\ dep' = [dep EXCEPT !.available = todo] /\ depFresh' = FALSE
                   /\ Finish(FALSE, TRUE)
              ELSE Fail /\ UNCHANGED <<dep, depFresh>>
  /\ UNCHANGED <<depCache, kidVars, budgetVars>>

\* Any call to the API server may fail.
CallFails ==
  /\ pc \in {"create", "delete", "status"} /\ faults < MaxFaults
  /\ faults' = faults + 1
  /\ Fail
  /\ UNCHANGED <<depVars, kidVars, now, uids, edits, kidEdits, stale>>

\* RequeueAfter.
Requeue ==
  /\ timer /\ timer' = FALSE /\ queued' = TRUE
  /\ UNCHANGED <<depVars, kidVars, budgetVars, pc, work, fresh, owned, todo>>

\* The operator dies and lists everything anew: For and Owns queue a request.
Crash ==
  /\ faults < MaxFaults /\ faults' = faults + 1
  /\ depCache' = dep /\ depFresh' = TRUE /\ kidCache' = Seen
  /\ pc' = "idle" /\ work' = None /\ fresh' = FALSE /\ owned' = {} /\ todo' = 0
  /\ queued' = TRUE /\ timer' = FALSE
  /\ UNCHANGED <<dep, kids, now, uids, edits, kidEdits, stale>>

-----------------------------------------------------------------------------
(* The informers, which deliver what changed and queue a request for it.   *)

SyncDep ==
  /\ ~depFresh
  /\ depCache' = dep /\ depFresh' = TRUE /\ queued' = TRUE
  /\ UNCHANGED <<dep, kidVars, timer, pc, work, fresh, owned, todo, budgetVars>>

SyncKids ==
  /\ kidCache # Seen
  /\ kidCache' = Seen /\ queued' = TRUE
  /\ UNCHANGED <<kids, depVars, timer, pc, work, fresh, owned, todo, budgetVars>>

-----------------------------------------------------------------------------
(* Users, the garbage collector, the clock.                                *)

StoreDep(d) ==
  /\ dep' = d /\ depFresh' = FALSE /\ fresh' = FALSE
  /\ UNCHANGED <<depCache, kidVars, queued, timer, pc, work, owned, todo>>

CreateDeployment(r) ==
  /\ dep = None /\ uids < MaxUid
  /\ uids' = uids + 1
  /\ StoreDep([uid |-> uids', replicas |-> r, template |-> 0, available |-> 0,
               mode |-> Admitted(TemplateMode), deleting |-> FALSE])
  /\ UNCHANGED <<now, edits, kidEdits, faults, stale>>

Edit(d) ==
  /\ edits < MaxEdits /\ edits' = edits + 1
  /\ StoreDep(d)
  /\ UNCHANGED <<now, uids, kidEdits, faults, stale>>

Scale(r) == dep # None /\ r # dep.replicas /\ Edit([dep EXCEPT !.replicas = r])

\* A new image in the template.
EditTemplate == dep # None /\ Edit([dep EXCEPT !.template = @ + 1])

\* In the background the deployment goes before its children, in the
\* foreground after them.
DeleteDeployment ==
  /\ dep # None
  /\ Edit(None) \/ (~dep.deleting /\ Edit([dep EXCEPT !.deleting = TRUE]))

DeleteKid(n) ==
  /\ kids[n] # None /\ ~kids[n].terminating /\ kidEdits < MaxKidEdits
  /\ kidEdits' = kidEdits + 1
  /\ Deleted(n)
  /\ UNCHANGED <<kidCache, depVars, passVars, now, uids, edits, faults, stale>>

\* The deployment a child names is gone, or waits for its children to go.
Unwanted(k) == IF dep = None THEN TRUE ELSE dep.deleting \/ dep.uid # k.owner

Collect(n) ==
  /\ kids[n] # None /\ ~kids[n].terminating /\ kids[n].owner # None /\ Unwanted(kids[n])
  /\ Deleted(n)
  /\ UNCHANGED <<kidCache, depVars, passVars, budgetVars>>

CollectDeployment ==
  /\ dep # None /\ dep.deleting /\ Owned(kids, dep.uid) = {}
  /\ StoreDep(None)
  /\ UNCHANGED budgetVars

Tick ==
  /\ now < MaxTime /\ now' = now + 1
  /\ UNCHANGED <<depVars, kidVars, passVars, uids, edits, kidEdits, faults, stale>>

-----------------------------------------------------------------------------
(* What the DockerContainer controller does to a child: it adds its         *)
(* finalizer, runs a container if the child is in Enforce mode, and takes   *)
(* the finalizer away from a child that is deleted.                         *)

KidStep(n, k) ==
  /\ kids' = [kids EXCEPT ![n] = k]
  /\ UNCHANGED <<kidCache, depVars, passVars, now, uids, edits, faults, stale>>

KidTaken(n) ==
  /\ kids[n] # None /\ ~kids[n].finalizer
  /\ KidStep(n, [kids[n] EXCEPT !.finalizer = TRUE]) /\ UNCHANGED kidEdits

KidRuns(n) ==
  /\ kids[n] # None /\ kids[n].finalizer /\ ~kids[n].terminating /\ ~kids[n].running
  /\ kids[n].mode = "Enforce"
  /\ KidStep(n, [kids[n] EXCEPT !.running = TRUE]) /\ UNCHANGED kidEdits

KidStops(n) ==
  /\ kids[n] # None /\ kids[n].running /\ kidEdits < MaxKidEdits
  /\ kidEdits' = kidEdits + 1
  /\ KidStep(n, [kids[n] EXCEPT !.running = FALSE])

KidGone(n) ==
  /\ kids[n] # None /\ kids[n].terminating
  /\ KidStep(n, None) /\ UNCHANGED kidEdits

-----------------------------------------------------------------------------

Pass ==
  \/ Get \/ List \/ Panic \/ Relist \/ UpdateStatus
  \/ \E n \in Names : Create(n) \/ Delete(n)

Surroundings ==
  \/ CollectDeployment
  \/ \E n \in Names : Collect(n) \/ KidTaken(n) \/ KidRuns(n) \/ KidGone(n)

Next ==
  \/ Pass \/ Requeue \/ SyncDep \/ SyncKids \/ Surroundings
  \/ CallFails \/ Crash \/ Tick
  \/ \E r \in Replicas : CreateDeployment(r) \/ Scale(r)
  \/ EditTemplate \/ DeleteDeployment
  \/ \E n \in Names : DeleteKid(n) \/ KidStops(n)

\* The worker, the timers and the informers run on; so do the collector and
\* the container controller, one child at a time.  A free name is drawn at
\* last.  Users, faults and the clock owe nothing.
Spec ==
  /\ Init /\ [][Next]_vars
  /\ WF_vars(Get) /\ WF_vars(List) /\ WF_vars(Panic) /\ WF_vars(Relist)
  /\ WF_vars(UpdateStatus) /\ WF_vars(\E n \in Names : Delete(n))
  /\ SF_vars(\E n \in Names : kids[n] = None /\ Create(n))
  /\ WF_vars(\E n \in Names : Create(n))
  /\ WF_vars(Requeue) /\ WF_vars(SyncDep) /\ WF_vars(SyncKids)
  /\ WF_vars(CollectDeployment)
  /\ \A n \in Names :
       WF_vars(Collect(n)) /\ WF_vars(KidTaken(n)) /\ WF_vars(KidRuns(n)) /\ WF_vars(KidGone(n))

-----------------------------------------------------------------------------
(* Properties.                                                             *)

Kid == [owner : 1..MaxUid, created : 0..MaxTime, template : 0..MaxEdits,
        mode : {"Observe", "Enforce"}, finalizer : BOOLEAN, terminating : BOOLEAN,
        running : BOOLEAN]
Deployment == [uid : 1..MaxUid, replicas : Replicas, template : 0..MaxEdits, available : Nat,
               mode : {"Observe", "Enforce"}, deleting : BOOLEAN]

\* None is no object of the cluster.
ASSUME NoneAssumption == None \notin Kid \cup Deployment

\* The stored objects and their copies are well formed, the pass's list is
\* within the names and it has something to do exactly in a loop or a write.
TypeOK ==
  /\ {dep, depCache, work} \subseteq Deployment \cup {None}
  /\ depFresh \in BOOLEAN /\ fresh \in BOOLEAN
  /\ kids \in [Names -> Kid \cup {None}] 
  /\ kidCache \in [Names -> [owner : 1..MaxUid, created : 0..MaxTime, running : BOOLEAN] \cup {None}]
  /\ queued \in BOOLEAN /\ timer \in BOOLEAN
  /\ pc \in {"idle", "list", "create", "delete", "relist", "status"}
  /\ work = None <=> pc = "idle"
  /\ owned \subseteq [name : Names, created : 0..MaxTime]
  /\ todo \in Int /\ (pc = "create" => todo > 0) /\ (pc = "delete" => todo < 0)
  /\ now \in 0..MaxTime /\ uids \in 0..MaxUid /\ edits \in 0..MaxEdits
  /\ kidEdits \in 0..MaxKidEdits /\ faults \in 0..MaxFaults /\ stale \in 0..MaxStale

Asked == CHOOSE r \in Replicas \cup {0} : \A s \in Replicas \cup {0} : s <= r

\* However often a pass fails half-way and is repeated, every list answered
\* by a lagging cache costs at most one more full set of children.
OvershootBounded ==
  \A u \in 1..MaxUid : Cardinality(Owned(kids, u)) <= Asked * (1 + stale)

\* The controller never takes away a child of another deployment, were it of
\* the same name.
TakesOnlyItsOwn ==
  [][\A n \in Names : (Delete(n) /\ kids[n] # None) => kids[n].owner = work.uid]_vars

\* Whatever fails half-way and is repeated, scaling down spares the oldest: as
\* long as no list is stale, no child that stays is younger than the one that
\* is taken.
KeepsOldest ==
  [][\A n \in Names :
       (Delete(n) /\ kids[n] # None /\ stale = 0)
         => \A m \in Live(Owned(kids, work.uid)) : kids[m].created <= kids[n].created]_vars

Wanted == IF dep = None \/ dep.deleting \/ dep.replicas < 0 THEN 0 ELSE dep.replicas

\* When users leave it alone the deployment has the children it asks for,
\* none of them on its way out, and a deleted one has none: not even of a
\* pass that was creating some when it was deleted.
Converges ==
  <>[](/\ Cardinality({n \in Names : kids[n] # None}) = Wanted
       /\ \A n \in Names : kids[n] # None => dep.uid = kids[n].owner /\ ~kids[n].terminating)

\* The reported number of replicas is at last the number that run, for a
\* deployment that asks for none or more: with a negative number every pass
\* ends in Panic, before the status is written.
AvailableSettles ==
  <>[](dep # None /\ ~dep.deleting /\ dep.replicas >= 0
         => dep.available = Running(kids, Owned(kids, dep.uid)))

\* All the children that are asked for come to run.
ReplicasRun ==
  <>[](dep # None /\ ~dep.deleting => Running(kids, Owned(kids, dep.uid)) = Wanted)
=============================================================================
