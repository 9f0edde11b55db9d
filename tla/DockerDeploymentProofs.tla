----------------------- MODULE DockerDeploymentProofs -----------------------
(***************************************************************************)
(* Proofs, for any names, replicas and bounds, that a pass creates no more *)
(* children than its list misses, deletes only children of its deployment, *)
(* and the youngest of these first.                                        *)
(***************************************************************************)
EXTENDS DockerDeployment, FiniteSetTheorems, FunctionTheorems, TLAPS

-----------------------------------------------------------------------------
(* The invariants.                                                         *)

\* The children, stored and cached, are of deployments up to u.
OwnersUpTo(u) ==
  \A n \in Names : /\ kids[n] # None => kids[n].owner <= u
                   /\ kidCache[n] # None => kidCache[n].owner <= u

\* Deployments come one after the other, and so do the passes that work for
\* them: no child is of a later deployment than the one a pass works for, and
\* no cached child of a later one than the child that is stored.
OwnerInv ==
  /\ dep # None => dep.uid = uids
  /\ depFresh => depCache = dep
  /\ fresh => dep = work
  /\ depCache # None => depCache.uid <= uids /\ OwnersUpTo(depCache.uid)
  /\ work # None => work.uid <= uids /\ OwnersUpTo(work.uid)
  /\ work # None /\ depCache # None => work.uid <= depCache.uid
  /\ OwnersUpTo(uids)
  /\ \A n \in Names : (kids[n] # None /\ kidCache[n] # None) => kidCache[n].owner <= kids[n].owner

\* While a pass deletes, what it listed and is stored is its own; and without
\* stale lists, what is its own and stays was listed.
DeleteInv ==
  pc = "delete" =>
    /\ \A c \in owned : kids[c.name] # None => kids[c.name].owner = work.uid
    /\ stale = 0 =>
         /\ \A c \in owned : kids[c.name] # None => kids[c.name].created = c.created
         /\ \A n \in Live(Owned(kids, work.uid)) :
              [name |-> n, created |-> kids[n].created] \in owned

\* While a pass creates, what there is and what it has still to create.
CreateInv ==
  pc = "create" =>
    Cardinality(Owned(kids, work.uid)) + todo <= Asked * (1 + stale)

\* A template counts the edits of the deployment; a status is a count.
CountInv ==
  /\ dep # None => dep.template <= edits
  /\ pc = "status" => todo \in Nat

-----------------------------------------------------------------------------
(* Children.                                                               *)

\* No child comes, and those that stay keep their owner and their age.
Shrinks ==
  \A n \in Names : kids'[n] # None =>
    /\ kids[n] # None
    /\ kids'[n].owner = kids[n].owner /\ kids'[n].created = kids[n].created
    /\ kids[n].terminating => kids'[n].terminating

\* What happens to a child that is not this controller's doing.
KidAction(n) ==
  DeleteKid(n) \/ Collect(n) \/ KidTaken(n) \/ KidRuns(n) \/ KidStops(n) \/ KidGone(n)

\* The bounds, one by one.
LEMMA Bounds ==
  /\ MaxUid \in Nat /\ MaxTime \in Nat /\ MaxEdits \in Nat /\ MaxKidEdits \in Nat
  /\ MaxFaults \in Nat /\ MaxStale \in Nat
  BY DeploymentAssumption

\* A deletion marks a child or takes it away, and touches no other.
LEMMA DeletedShrinks ==
  ASSUME TypeOK, NEW n \in Names, kids[n] # None, Deleted(n)
  PROVE  /\ kids' \in [Names -> Kid \cup {None}] /\ Shrinks
         /\ kids'[n] # None => kids'[n].terminating
<1>1. kids \in [Names -> Kid \cup {None}] /\ kids[n] \in Kid
  BY DEF TypeOK
<1>2. /\ [kids[n] EXCEPT !.terminating = TRUE] \in Kid
      /\ [kids[n] EXCEPT !.terminating = TRUE].owner = kids[n].owner
      /\ [kids[n] EXCEPT !.terminating = TRUE].created = kids[n].created
      /\ [kids[n] EXCEPT !.terminating = TRUE].terminating
  BY <1>1 DEF Kid
<1>3. PICK k \in Kid \cup {None} :
        /\ kids' = [kids EXCEPT ![n] = k]
        /\ k # None => k.owner = kids[n].owner /\ k.created = kids[n].created /\ k.terminating
  BY <1>1, <1>2 DEF Deleted
<1>4. kids' \in [Names -> Kid \cup {None}] /\ kids'[n] = k /\ \A m \in Names \ {n} : kids'[m] = kids[m]
  BY <1>1, <1>3
<1> QED BY <1>3, <1>4 DEF Shrinks

\* The container controller, users and the collector make no children.
LEMMA KidActionShrinks ==
  ASSUME TypeOK, NEW n \in Names, KidAction(n)
  PROVE  /\ kids' \in [Names -> Kid \cup {None}] /\ Shrinks
         /\ UNCHANGED <<kidCache, depVars, passVars, now, uids, edits, faults, stale>>
         /\ kidEdits' \in 0..MaxKidEdits
<1>1. /\ kids[n] # None /\ kids[n] \in Kid /\ kids \in [Names -> Kid \cup {None}]
      /\ UNCHANGED <<kidCache, depVars, passVars, now, uids, edits, faults, stale>>
      /\ kidEdits' \in 0..MaxKidEdits
  <2>1. /\ kids[n] # None
        /\ UNCHANGED <<kidCache, depVars, passVars, now, uids, edits, faults, stale>>
        /\ kidEdits' = kidEdits \/ (kidEdits < MaxKidEdits /\ kidEdits' = kidEdits + 1)
    BY DEF KidAction, DeleteKid, Collect, KidTaken, KidRuns, KidStops, KidGone, KidStep, budgetVars
  <2>2. kidEdits' \in 0..MaxKidEdits
    <3>1. kidEdits \in 0..MaxKidEdits
      BY DEF TypeOK
    <3> QED BY <2>1, <3>1, Bounds
  <2> QED BY <2>1, <2>2 DEF TypeOK
<1>2. CASE DeleteKid(n) \/ Collect(n)
  BY <1>1, <1>2, DeletedShrinks DEF DeleteKid, Collect
<1>3. ASSUME NEW k \in Kid \cup {None}, KidStep(n, k),
             k # None => /\ k.owner = kids[n].owner /\ k.created = kids[n].created
                         /\ kids[n].terminating => k.terminating
      PROVE  kids' \in [Names -> Kid \cup {None}] /\ Shrinks
  <2>1. /\ kids' \in [Names -> Kid \cup {None}] /\ kids'[n] = k
        /\ \A m \in Names \ {n} : kids'[m] = kids[m]
    BY <1>1, <1>3 DEF KidStep
  <2> QED BY <1>1, <1>3, <2>1 DEF Shrinks
<1>4. CASE KidTaken(n)
  <2> DEFINE k == [kids[n] EXCEPT !.finalizer = TRUE]
  <2>1. /\ k \in Kid /\ k.owner = kids[n].owner /\ k.created = kids[n].created
        /\ k.terminating = kids[n].terminating
    BY <1>1 DEF Kid
  <2>2. KidStep(n, k)
    BY <1>4 DEF KidTaken
  <2> HIDE DEF k
  <2> QED BY <1>1, <1>3, <2>1, <2>2
<1>5. ASSUME NEW b \in BOOLEAN, KidStep(n, [kids[n] EXCEPT !.running = b])
      PROVE  kids' \in [Names -> Kid \cup {None}] /\ Shrinks
  <2> DEFINE k == [kids[n] EXCEPT !.running = b]
  <2>1. /\ k \in Kid /\ k.owner = kids[n].owner /\ k.created = kids[n].created
        /\ k.terminating = kids[n].terminating
    BY <1>1 DEF Kid
  <2>2. KidStep(n, k)
    BY <1>5
  <2> HIDE DEF k
  <2> QED BY <1>3, <2>1, <2>2
<1>6. CASE KidRuns(n) \/ KidStops(n)
  BY <1>1, <1>5, <1>6 DEF KidRuns, KidStops
<1>7. CASE KidGone(n)
  BY <1>1, <1>3, <1>7 DEF KidGone
<1> QED BY <1>1, <1>2, <1>4, <1>6, <1>7 DEF KidAction

\* The children of a deployment can be counted, and do not grow in number.
LEMMA OwnedFinite ==
  ASSUME NEW cache, NEW u
  PROVE  /\ IsFiniteSet(Owned(cache, u)) /\ Cardinality(Owned(cache, u)) \in Nat
<1>1. Owned(cache, u) \subseteq Names
  BY DEF Owned
<1> QED BY <1>1, DeploymentAssumption, FS_Subset, FS_CardinalityType

\* Where none is made, nobody has more children than before.
LEMMA OwnedShrinks ==
  ASSUME Shrinks, NEW u
  PROVE  Cardinality(Owned(kids', u)) <= Cardinality(Owned(kids, u))
<1>1. Owned(kids', u) \subseteq Owned(kids, u)
  BY DEF Owned, Shrinks
<1> QED BY <1>1, OwnedFinite, FS_Subset

\* Children are listed once each.
LEMMA ListedCount ==
  ASSUME NEW cache, NEW u
  PROVE  /\ IsFiniteSet(Listed(cache, u))
         /\ Cardinality(Listed(cache, u)) = Cardinality(Owned(cache, u))
<1> DEFINE f == [n \in Owned(cache, u) |-> [name |-> n, created |-> cache[n].created]]
<1>1. f \in [Owned(cache, u) -> Listed(cache, u)]
  BY DEF Listed
<1>2. \A a, b \in Owned(cache, u) : f[a] = f[b] => a = b
  <2> TAKE a, b \in Owned(cache, u)
  <2>1. f[a].name = a /\ f[b].name = b
    OBVIOUS
  <2> QED BY <2>1
<1>3. \A t \in Listed(cache, u) : \E n \in Owned(cache, u) : f[n] = t
  BY DEF Listed
<1> HIDE DEF f
<1>4. f \in Bijection(Owned(cache, u), Listed(cache, u))
  BY <1>1, <1>2, <1>3, Fun_IsBij
<1>5. ExistsBijection(Owned(cache, u), Listed(cache, u))
  BY <1>4, Fun_ExistsBij
<1> QED BY <1>5, OwnedFinite, FS_Bijection

-----------------------------------------------------------------------------
(* Types.                                                                  *)

EditAction == (\E r \in Replicas : Scale(r)) \/ EditTemplate \/ DeleteDeployment

\* The steps, by what they change.
LEMMA NextCases ==
  ASSUME Next
  PROVE  \/ Get \/ List \/ Panic \/ Relist \/ UpdateStatus \/ Requeue \/ CallFails \/ Crash
         \/ SyncDep \/ SyncKids \/ Tick \/ CollectDeployment \/ EditAction
         \/ \E n \in Names : Create(n) \/ Delete(n) \/ KidAction(n)
         \/ \E r \in Replicas : CreateDeployment(r)
  BY Zenon DEF Next, Pass, Surroundings, EditAction, KidAction

Copy == [owner : 1..MaxUid, created : 0..MaxTime, running : BOOLEAN]

\* What the informer copies of a child is its owner, its age and its state.
LEMMA SeenType ==
  ASSUME TypeOK
  PROVE  /\ Seen \in [Names -> Copy \cup {None}]
         /\ \A n \in Names : /\ kids[n] = None => Seen[n] = None
                             /\ kids[n] # None => /\ Seen[n].owner = kids[n].owner
                                                  /\ Seen[n].created = kids[n].created
<1>1. \A n \in Names : kids[n] # None =>
        [owner |-> kids[n].owner, created |-> kids[n].created, running |-> kids[n].running] \in Copy
  BY DEF TypeOK, Kid, Copy
<1> QED BY <1>1 DEF Seen

\* AvailableReplicas is a count.
LEMMA RunningCount ==
  ASSUME NEW cache, NEW u
  PROVE  Running(cache, Owned(cache, u)) \in Nat
<1>1. {n \in Owned(cache, u) : cache[n].running} \subseteq Owned(cache, u)
  OBVIOUS
<1> QED BY <1>1, OwnedFinite, FS_Subset, FS_CardinalityType DEF Running

\* What users store is the deployment, changed, or None.
EditStored ==
  \E d \in Deployment \cup {None} :
    /\ StoreDep(d) /\ edits' = edits + 1 /\ edits < MaxEdits /\ dep # None
    /\ d # None => d.uid = dep.uid /\ d.template <= edits'
    /\ UNCHANGED <<now, uids, kidEdits, faults, stale>>

\* A user who scales, edits or deletes keeps the identity of the deployment.
LEMMA EditStores ==
  ASSUME TypeOK, CountInv, EditAction
  PROVE  EditStored
<1>1. dep # None
  BY DEF EditAction, Scale, EditTemplate, DeleteDeployment
<1>2. dep \in Deployment /\ dep.template \in 0..MaxEdits /\ dep.template <= edits /\ edits \in 0..MaxEdits
  BY <1>1 DEF TypeOK, CountInv, Deployment
<1>3. ASSUME NEW d \in Deployment \cup {None}, Edit(d),
             d # None => d.uid = dep.uid /\ d.template <= edits + 1
      PROVE  EditStored
  BY <1>1, <1>3 DEF Edit, EditStored
<1>4. ASSUME NEW r \in Replicas, Scale(r)
      PROVE  EditStored
  <2> DEFINE d == [dep EXCEPT !.replicas = r]
  <2>1. d \in Deployment /\ d.uid = dep.uid /\ d.template <= edits + 1
    BY <1>2, Bounds DEF Deployment
  <2>2. Edit(d)
    BY <1>4 DEF Scale
  <2> HIDE DEF d
  <2> QED BY <1>3, <2>1, <2>2
<1>5. ASSUME EditTemplate
      PROVE  EditStored
  <2> DEFINE d == [dep EXCEPT !.template = dep.template + 1]
  <2>1. Edit(d) /\ edits < MaxEdits
    BY <1>5 DEF EditTemplate, Edit
  <2>2. dep.template + 1 \in 0..MaxEdits /\ dep.template + 1 <= edits + 1
    BY <1>2, <2>1, Bounds
  <2>3. d \in Deployment /\ d.uid = dep.uid /\ d.template = dep.template + 1
    BY <1>2, <2>2 DEF Deployment
  <2> HIDE DEF d
  <2> QED BY <1>3, <2>1, <2>2, <2>3
<1>6. ASSUME DeleteDeployment
      PROVE  EditStored
  <2> DEFINE d == [dep EXCEPT !.deleting = TRUE]
  <2>1. d \in Deployment /\ d.uid = dep.uid /\ d.template = dep.template
    BY <1>2 DEF Deployment
  <2>2. Edit(d) \/ Edit(None)
    BY <1>6 DEF DeleteDeployment
  <2>3. dep.template <= edits + 1
    BY <1>2, Bounds
  <2> HIDE DEF d
  <2> QED BY <1>3, <2>1, <2>2, <2>3
<1> QED BY <1>4, <1>5, <1>6 DEF EditAction

\* The parts of TypeOK.
ObjectType ==
  /\ {dep, depCache, work} \subseteq Deployment \cup {None}
  /\ depFresh \in BOOLEAN /\ fresh \in BOOLEAN
KidType == kids \in [Names -> Kid \cup {None}] /\ kidCache \in [Names -> Copy \cup {None}]
QueueType == queued \in BOOLEAN /\ timer \in BOOLEAN
StepType ==
  /\ pc \in {"idle", "list", "create", "delete", "relist", "status"}
  /\ work = None <=> pc = "idle"
  /\ owned \subseteq [name : Names, created : 0..MaxTime]
  /\ todo \in Int /\ (pc = "create" => todo > 0) /\ (pc = "delete" => todo < 0)
BudgetType ==
  /\ now \in 0..MaxTime /\ uids \in 0..MaxUid /\ edits \in 0..MaxEdits
  /\ kidEdits \in 0..MaxKidEdits /\ faults \in 0..MaxFaults /\ stale \in 0..MaxStale

\* TypeOK is these parts.
LEMMA TypeParts == TypeOK <=> ObjectType /\ KidType /\ QueueType /\ StepType /\ BudgetType
  BY Zenon DEF TypeOK, ObjectType, KidType, QueueType, StepType, BudgetType, Copy

\* Each part keeps as long as its variables do.
LEMMA SamePasses ==
  /\ ObjectType /\ UNCHANGED <<dep, depCache, depFresh, work, fresh>> => ObjectType'
  /\ KidType /\ UNCHANGED <<kids, kidCache>> => KidType'
  /\ QueueType /\ UNCHANGED <<queued, timer>> => QueueType'
  /\ StepType /\ UNCHANGED <<pc, work, owned, todo>> => StepType'
  /\ BudgetType /\ UNCHANGED <<now, uids, edits, kidEdits, faults, stale>> => BudgetType'
  /\ CountInv /\ UNCHANGED <<dep, edits, pc, todo>> => CountInv'
  BY DEF ObjectType, KidType, QueueType, StepType, BudgetType, CountInv, Copy

\* The end of a pass leaves nothing to do and no copy.
LEMMA Finishes ==
  ASSUME QueueType, NEW a \in BOOLEAN, NEW b \in BOOLEAN, Finish(a, b)
  PROVE  /\ QueueType' /\ StepType' /\ pc' = "idle" /\ work' = None /\ fresh' = FALSE
<1>1. QueueType'
  BY DEF QueueType, Finish
<1> QED BY <1>1 DEF Finish, StepType

\* Every step of Reconcile and of its surroundings keeps the types.
LEMMA NextType ==
  ASSUME TypeOK, CountInv, OwnerInv, [Next]_vars
  PROVE  TypeOK' /\ CountInv'
<1> DEFINE Goal == ObjectType' /\ KidType' /\ QueueType' /\ StepType' /\ BudgetType' /\ CountInv'
<1> SUFFICES Goal
  BY Zenon DEF TypeOK, ObjectType, KidType, QueueType, StepType, BudgetType, Copy
<1>1. ObjectType /\ KidType /\ QueueType /\ StepType /\ BudgetType
  BY TypeParts
<1> USE DEF depVars, kidVars, passVars, budgetVars
<1>2. CASE UNCHANGED vars
  BY <1>1, <1>2, SamePasses DEF vars
<1>3. CASE Get
  <2>1. KidType' /\ BudgetType'
    BY <1>1, <1>3, SamePasses DEF Get
  <2>2. QueueType'
    BY <1>1, <1>3 DEF Get, QueueType
  <2>3. CASE depCache = None \/ depCache.deleting
    BY <1>1, <1>3, <2>1, <2>2, <2>3, SamePasses DEF Get
  <2>4. CASE ~(depCache = None \/ depCache.deleting)
    <3>1. ObjectType'
      BY <1>1, <1>3, <2>4 DEF Get, ObjectType
    <3>2. StepType' /\ CountInv'
      BY <1>1, <1>3, <2>4 DEF Get, StepType, CountInv
    <3> QED BY <2>1, <2>2, <3>1, <3>2
  <2> QED BY <2>3, <2>4
<1>4. CASE List
  <2>1. /\ ObjectType' /\ KidType' /\ QueueType'
    BY <1>1, <1>4, SamePasses DEF List
  <2>2. BudgetType'
    BY <1>1, <1>4, Bounds DEF List, BudgetType
  <2>3. work \in Deployment
    BY <1>1, <1>4 DEF List, StepType, ObjectType
  <2>4. owned' \subseteq [name : Names, created : 0..MaxTime]
    BY <1>1, <1>4 DEF List, Listed, Owned, KidType, Copy
  <2>5. todo' \in Int
    <3>1. Cardinality(owned') \in Nat
      BY <1>4, ListedCount, OwnedFinite DEF List
    <3>2. work.replicas \in Int
      BY <2>3, DeploymentAssumption DEF Deployment
    <3>3. todo' = work.replicas - Cardinality(owned')
      BY <1>4 DEF List, Diff
    <3> QED BY <3>1, <3>2, <3>3
  <2>6. StepType' /\ CountInv'
    BY <1>1, <1>4, <2>4, <2>5 DEF List, StepType, CountInv
  <2> QED BY <2>1, <2>2, <2>6
<1>5. ASSUME NEW a \in BOOLEAN, NEW b \in BOOLEAN, Finish(a, b), BudgetType', KidType',
             depCache' = depCache, depFresh' \in BOOLEAN, dep' \in Deployment \cup {None},
             dep' # None => dep'.template <= edits'
      PROVE  Goal
  <2>1. QueueType' /\ StepType' /\ pc' = "idle" /\ work' = None /\ fresh' = FALSE
    BY <1>1, <1>5, Finishes
  <2>2. ObjectType' /\ CountInv'
    BY <1>1, <1>5, <2>1 DEF ObjectType, CountInv
  <2> QED BY <1>5, <2>1, <2>2
<1>6. ASSUME NEW a \in BOOLEAN, NEW b \in BOOLEAN, Finish(a, b), BudgetType', KidType',
             UNCHANGED <<dep, depCache, depFresh, edits>>
      PROVE  Goal
  <2>1. /\ depFresh \in BOOLEAN /\ dep \in Deployment \cup {None}
        /\ dep # None => dep.template <= edits
    BY <1>1 DEF ObjectType, CountInv
  <2> QED BY <1>5, <1>6, <2>1
<1>7. ASSUME NEW n \in Names, Create(n)
      PROVE  Goal
  <2>1. BudgetType' /\ UNCHANGED <<dep, depCache, depFresh, edits, kidCache>>
    BY <1>1, <1>7, SamePasses DEF Create
  <2>2. CASE kids[n] = None
    <3>1. /\ kids' = [kids EXCEPT ![n] = constructContainer(work)] /\ todo' = todo - 1
          /\ pc' = IF todo' = 0 THEN "relist" ELSE "create"
          /\ UNCHANGED <<queued, timer, work, fresh, owned>> /\ pc = "create"
      BY <1>7, <2>2 DEF Create
    <3>2. work \in Deployment /\ work # None
      BY <1>1, <3>1 DEF StepType, ObjectType
    <3>3. constructContainer(work) \in Kid
      BY <1>1, <3>2 DEF constructContainer, Admitted, Kid, Deployment, BudgetType
    <3>4. KidType'
      BY <1>1, <2>1, <3>1, <3>3 DEF KidType, Copy
    <3>5. StepType' /\ CountInv'
      BY <1>1, <2>1, <3>1, <3>2 DEF StepType, CountInv
    <3>6. ObjectType' /\ QueueType'
      BY <1>1, <2>1, <3>1, SamePasses
    <3> QED BY <2>1, <3>4, <3>5, <3>6
  <2>3. CASE kids[n] # None
    BY <1>1, <1>6, <1>7, <2>1, <2>3, SamePasses DEF Create, Fail
  <2> QED BY <2>2, <2>3
<1>8. ASSUME NEW n \in Names, Delete(n)
      PROVE  Goal
  <2>1. BudgetType' /\ UNCHANGED <<dep, depCache, depFresh, edits, kidCache>>
    BY <1>1, <1>8, SamePasses DEF Delete
  <2>2. CASE kids[n] # None
    <3>1. /\ Deleted(n) /\ owned' \subseteq owned /\ todo' = todo + 1
          /\ pc' = IF todo' = 0 THEN "relist" ELSE "delete"
          /\ UNCHANGED <<queued, timer, work, fresh>> /\ pc = "delete"
      BY <1>8, <2>2 DEF Delete
    <3>2. KidType'
      BY <1>1, <2>1, <2>2, <3>1, DeletedShrinks DEF KidType, Copy
    <3>3. StepType' /\ CountInv'
      BY <1>1, <2>1, <3>1 DEF StepType, CountInv
    <3>4. ObjectType' /\ QueueType'
      BY <1>1, <2>1, <3>1, SamePasses
    <3> QED BY <2>1, <3>2, <3>3, <3>4
  <2>3. CASE kids[n] = None
    BY <1>1, <1>6, <1>8, <2>1, <2>3, SamePasses DEF Delete, Fail
  <2> QED BY <2>2, <2>3
<1>9. CASE Panic
  BY <1>1, <1>6, <1>9, SamePasses DEF Panic, Fail
<1>10. CASE Relist
  <2>1. CASE Finish(FALSE, TRUE)
    BY <1>1, <1>6, <1>10, <2>1, SamePasses DEF Relist
  <2>2. CASE ~Finish(FALSE, TRUE)
    <3>1. /\ pc' = "status" /\ pc = "relist" /\ UNCHANGED <<queued, timer, work, fresh, owned>>
          /\ todo' = Running(kidCache, Owned(kidCache, work.uid))
          /\ UNCHANGED <<depVars, kidVars, budgetVars>>
      BY <1>10, <2>2 DEF Relist
    <3>2. todo' \in Nat
      BY <3>1, RunningCount
    <3>3. StepType' /\ CountInv'
      BY <1>1, <3>1, <3>2 DEF StepType, CountInv
    <3> QED BY <1>1, <3>1, <3>3, SamePasses
  <2> QED BY <2>1, <2>2
<1>11. CASE UpdateStatus
  <2>1. BudgetType' /\ KidType' /\ depCache' = depCache /\ edits' = edits
    BY <1>1, <1>11, SamePasses DEF UpdateStatus
  <2>2. CASE ~fresh
    BY <1>6, <1>11, <2>1, <2>2 DEF UpdateStatus, Fail
  <2>3. CASE fresh
    <3>1. /\ dep' = [dep EXCEPT !.available = todo] /\ depFresh' = FALSE /\ Finish(FALSE, TRUE)
          /\ pc = "status"
      BY <1>11, <2>3 DEF UpdateStatus
    <3>2. dep \in Deployment /\ dep # None
      BY <1>1, <2>3, <3>1, NoneAssumption DEF StepType, ObjectType, OwnerInv
    <3>3. todo \in Nat
      BY <3>1 DEF CountInv
    <3>4. dep' \in Deployment /\ dep'.template = dep.template
      BY <3>1, <3>2, <3>3 DEF Deployment
    <3>5. dep'.template <= edits'
      BY <2>1, <3>2, <3>4 DEF CountInv
    <3> QED BY <1>5, <2>1, <3>1, <3>4, <3>5
  <2> QED BY <2>2, <2>3
<1>12. CASE CallFails
  <2>1. BudgetType'
    BY <1>1, <1>12, Bounds DEF CallFails, BudgetType
  <2> QED BY <1>1, <1>6, <1>12, <2>1, SamePasses DEF CallFails, Fail
<1>13. CASE Requeue
  <2>1. QueueType'
    BY <1>13 DEF Requeue, QueueType
  <2> QED BY <1>1, <1>13, <2>1, SamePasses DEF Requeue
<1>14. CASE Crash
  <2>1. BudgetType'
    BY <1>1, <1>14, Bounds DEF Crash, BudgetType
  <2>2. KidType'
    BY <1>1, <1>14, SeenType DEF Crash, KidType, Copy
  <2>3. QueueType' /\ StepType'
    <3>1. /\ queued' = TRUE /\ timer' = FALSE /\ pc' = "idle" /\ work' = None /\ owned' = {}
          /\ todo' = 0
      BY <1>14 DEF Crash
    <3>2. QueueType'
      BY <3>1, Zenon DEF QueueType
    <3> QED BY <3>1, <3>2 DEF StepType
  <2>5. CountInv'
    BY <1>14 DEF Crash, CountInv
  <2>4. ObjectType'
    BY <1>1, <1>14 DEF Crash, ObjectType
  <2> QED BY <2>1, <2>2, <2>3, <2>4, <2>5
<1>15. CASE SyncDep
  <2>1. ObjectType'
    BY <1>1, <1>15 DEF SyncDep, ObjectType
  <2>2. QueueType'
    BY <1>1, <1>15 DEF SyncDep, QueueType
  <2> QED BY <1>1, <1>15, <2>1, <2>2, SamePasses DEF SyncDep
<1>16. CASE SyncKids
  <2>1. KidType'
    BY <1>1, <1>16, SeenType DEF SyncKids, KidType, Copy
  <2>2. QueueType'
    BY <1>1, <1>16 DEF SyncKids, QueueType
  <2> QED BY <1>1, <1>16, <2>1, <2>2, SamePasses DEF SyncKids
<1>17. ASSUME NEW d \in Deployment \cup {None}, StoreDep(d), BudgetType', d # None => d.template <= edits'
       PROVE  Goal
  <2>1. ObjectType'
    BY <1>1, <1>17 DEF StoreDep, ObjectType
  <2>2. CountInv'
    BY <1>17 DEF StoreDep, CountInv
  <2> QED BY <1>1, <1>17, <2>1, <2>2, SamePasses DEF StoreDep
<1>18. ASSUME NEW r \in Replicas, CreateDeployment(r)
       PROVE  Goal
  <2>1. BudgetType' /\ uids' \in 1..MaxUid /\ edits' \in 0..MaxEdits
    BY <1>1, <1>18, Bounds DEF CreateDeployment, BudgetType
  <2> DEFINE d == [uid |-> uids', replicas |-> r, template |-> 0, available |-> 0,
                   mode |-> Admitted(TemplateMode), deleting |-> FALSE]
  <2>2. d \in Deployment /\ d.template = 0
    <3>1. Admitted(TemplateMode) \in {"Observe", "Enforce"}
      BY DeploymentAssumption DEF Admitted
    <3>2. 0 \in 0..MaxEdits
      BY Bounds
    <3> QED BY <2>1, <3>1, <3>2 DEF Deployment
  <2>3. StoreDep(d)
    BY <1>18 DEF CreateDeployment
  <2>4. 0 <= edits'
    BY <2>1, Bounds
  <2> HIDE DEF d
  <2> QED BY <1>17, <2>1, <2>2, <2>3, <2>4
<1>19. CASE EditAction
  <2>1. PICK d \in Deployment \cup {None} :
          /\ StoreDep(d) /\ edits' = edits + 1 /\ edits < MaxEdits
          /\ d # None => d.uid = dep.uid /\ d.template <= edits'
          /\ UNCHANGED <<now, uids, kidEdits, faults, stale>>
    BY <1>19, EditStores DEF EditStored
  <2>2. BudgetType'
    BY <1>1, <2>1, Bounds DEF BudgetType
  <2> QED BY <1>17, <2>1, <2>2
<1>20. CASE CollectDeployment
  BY <1>1, <1>17, <1>20, SamePasses DEF CollectDeployment
<1>21. CASE Tick
  <2>1. BudgetType'
    BY <1>1, <1>21, Bounds DEF Tick, BudgetType
  <2> QED BY <1>1, <1>21, <2>1, SamePasses DEF Tick
<1>22. ASSUME NEW n \in Names, KidAction(n)
       PROVE  Goal
  <2>1. /\ kids' \in [Names -> Kid \cup {None}]
        /\ UNCHANGED <<kidCache, depVars, passVars, now, uids, edits, faults, stale>>
        /\ kidEdits' \in 0..MaxKidEdits
    BY <1>22, KidActionShrinks
  <2>2. KidType' /\ BudgetType'
    BY <1>1, <2>1 DEF KidType, BudgetType, Copy
  <2> QED BY <1>1, <2>1, <2>2, SamePasses
<1> HIDE DEF Goal
<1> QED
  BY NextCases, <1>2, <1>3, <1>4, <1>7, <1>8, <1>9, <1>10, <1>11, <1>12, <1>13, <1>14, <1>15, <1>16,
     <1>18, <1>19, <1>20, <1>21, <1>22, Zenon

\* The initial states have them.
LEMMA InitType ==
  ASSUME Init
  PROVE  TypeOK /\ CountInv
<1>1. ObjectType /\ QueueType /\ StepType /\ CountInv
  <2>1. /\ dep = None /\ depCache = None /\ depFresh = TRUE /\ fresh = FALSE /\ work = None
        /\ queued = FALSE /\ timer = FALSE /\ pc = "idle" /\ owned = {} /\ todo = 0
    BY DEF Init
  <2>2. ObjectType
    BY <2>1, Zenon DEF ObjectType
  <2>3. QueueType
    BY <2>1, Zenon DEF QueueType
  <2> QED BY <2>1, <2>2, <2>3 DEF StepType, CountInv
<1>2. kids = [n \in Names |-> None] /\ kidCache = Seen
  BY DEF Init
<1>3. kids \in [Names -> Kid \cup {None}]
  BY <1>2
<1>4. \A n \in Names : kids[n] = None
  BY <1>2
<1>5. Seen \in [Names -> Copy \cup {None}]
  BY <1>4 DEF Seen
<1>6. KidType
  BY <1>2, <1>3, <1>5 DEF KidType
<1>7. BudgetType
  BY Bounds DEF Init, BudgetType
<1> QED BY <1>1, <1>6, <1>7, TypeParts

-----------------------------------------------------------------------------
(* Whose the children are.                                                 *)

\* Identities of deployments and the budget of stale lists are numbers.
LEMMA UidTypes ==
  ASSUME TypeOK
  PROVE  /\ uids \in Nat /\ stale \in Nat
         /\ dep # None => dep.uid \in Nat
         /\ depCache # None => depCache.uid \in Nat
         /\ work # None => work.uid \in Nat
         /\ \A n \in Names : kids[n] # None => kids[n].owner \in Nat /\ kids[n].created \in Nat
         /\ \A n \in Names : kidCache[n] # None =>
                               kidCache[n].owner \in Nat /\ kidCache[n].created \in Nat
<1>1. 1..MaxUid \subseteq Nat /\ 0..MaxUid \subseteq Nat /\ 0..MaxStale \subseteq Nat
      /\ 0..MaxTime \subseteq Nat
  BY Bounds
<1>2. /\ dep # None => dep.uid \in 1..MaxUid
      /\ depCache # None => depCache.uid \in 1..MaxUid
      /\ work # None => work.uid \in 1..MaxUid
      /\ uids \in 0..MaxUid /\ stale \in 0..MaxStale
  BY DEF TypeOK, Deployment
<1>3. \A n \in Names : kids[n] # None => kids[n].owner \in 1..MaxUid /\ kids[n].created \in 0..MaxTime
  BY DEF TypeOK, Kid
<1>4. \A n \in Names : kidCache[n] # None =>
        kidCache[n].owner \in 1..MaxUid /\ kidCache[n].created \in 0..MaxTime
  BY DEF TypeOK
<1> QED BY <1>1, <1>2, <1>3, <1>4

\* What any step has to do with the children: nothing, or it shrinks them.
Fewer == Shrinks \/ kids' = kids

\* Fewer children have no later owners.
LEMMA OwnersKept ==
  ASSUME Fewer, kidCache' = kidCache, NEW u, OwnersUpTo(u)
  PROVE  \A n \in Names : /\ kids'[n] # None => kids'[n].owner <= u
                          /\ kidCache'[n] # None => kidCache'[n].owner <= u
  BY DEF Fewer, Shrinks, OwnersUpTo

\* Steps that leave the deployment and the caches alone, and keep or drop the
\* pass's copy.
Quiet ==
  /\ UNCHANGED <<dep, depCache, depFresh, uids, kidCache>>
  /\ Fewer
  /\ UNCHANGED <<work, fresh>> \/ (work' = None /\ fresh' = FALSE)

\* Such steps keep what is known of owners.
LEMMA QuietOwner ==
  ASSUME OwnerInv, Quiet
  PROVE  OwnerInv'
<1>1. UNCHANGED <<dep, depCache, depFresh, uids, kidCache>> /\ Fewer
  BY DEF Quiet
<1>2. UNCHANGED <<work, fresh>> \/ (work' = None /\ fresh' = FALSE)
  BY DEF Quiet
<1>3. OwnersUpTo(uids)'
  BY <1>1, OwnersKept DEF OwnerInv, OwnersUpTo
<1>4. depCache # None => OwnersUpTo(depCache.uid)'
  BY <1>1, OwnersKept DEF OwnerInv, OwnersUpTo
<1>5. work' # None => work' = work /\ OwnersUpTo(work.uid)'
  BY <1>1, <1>2, OwnersKept DEF OwnerInv, OwnersUpTo
<1>6. \A n \in Names : (kids'[n] # None /\ kidCache'[n] # None) => kidCache'[n].owner <= kids'[n].owner
  BY <1>1 DEF Fewer, Shrinks, OwnerInv
<1> QED BY <1>1, <1>2, <1>3, <1>4, <1>5, <1>6 DEF OwnerInv

\* Passes and surroundings, step by step.
LEMMA DeleteSteps ==
  ASSUME TypeOK, NEW n \in Names, Delete(n)
  PROVE  /\ Quiet /\ UNCHANGED budgetVars /\ pc = "delete" /\ pc' # "create"
         /\ \/ pc' = "idle" /\ kids' = kids
            \/ /\ kids[n] # None /\ (kids'[n] # None => kids'[n].terminating)
               /\ Shrinks /\ work' = work
               /\ \E c \in owned : c.name = n /\ Youngest(c) /\ owned' = owned \ {c}
<1> USE DEF depVars, kidVars, passVars
<1>1. PICK c \in owned :
        /\ c.name = n /\ Youngest(c)
        /\ IF kids[n] = None THEN Fail /\ UNCHANGED kids
           ELSE /\ Deleted(n)
                /\ owned' = owned \ {c} /\ todo' = todo + 1
                /\ pc' = IF todo' = 0 THEN "relist" ELSE "delete"
                /\ UNCHANGED <<queued, timer, work, fresh>>
  BY DEF Delete
<1>2. UNCHANGED <<dep, depCache, depFresh, kidCache, budgetVars>> /\ uids' = uids /\ pc = "delete"
  BY DEF Delete, budgetVars
<1>3. CASE kids[n] = None
  BY <1>1, <1>2, <1>3 DEF Fail, Finish, Quiet, Fewer
<1>4. CASE kids[n] # None
  <2>1. Shrinks /\ (kids'[n] # None => kids'[n].terminating)
    BY <1>1, <1>4, DeletedShrinks
  <2> QED BY <1>1, <1>2, <1>4, <2>1 DEF Quiet, Fewer
<1> QED BY <1>3, <1>4

\* constructContainer gives the new child the deployment of the pass for its
\* owner, or the pass ends.
LEMMA CreateSteps ==
  ASSUME TypeOK, NEW n \in Names, Create(n)
  PROVE  /\ UNCHANGED <<dep, depCache, depFresh, kidCache, budgetVars>> /\ uids' = uids
         /\ \/ Quiet /\ pc' = "idle" /\ kids' = kids
            \/ /\ pc = "create" /\ kids[n] = None
               /\ UNCHANGED <<work, fresh>> /\ work # None
               /\ todo' = todo - 1 /\ pc' \in {"relist", "create"}
               /\ kids'[n] # None /\ kids'[n].owner = work.uid
               /\ \A m \in Names \ {n} : kids'[m] = kids[m]
<1> USE DEF depVars, kidVars, passVars
<1>1. UNCHANGED <<dep, depCache, depFresh, kidCache, budgetVars>> /\ uids' = uids
  BY DEF Create, budgetVars
<1>2. CASE kids[n] # None
  BY <1>1, <1>2 DEF Create, Fail, Finish, Quiet, Fewer
<1>3. CASE kids[n] = None
  <2>1. /\ kids' = [kids EXCEPT ![n] = constructContainer(work)] /\ todo' = todo - 1
        /\ pc' \in {"relist", "create"} /\ pc = "create"
        /\ UNCHANGED <<work, fresh>>
    BY <1>3 DEF Create
  <2>2. work \in Deployment /\ work # None
    BY <2>1 DEF TypeOK
  <2>3. constructContainer(work) \in Kid /\ constructContainer(work).owner = work.uid
    BY <2>2 DEF constructContainer, Admitted, Kid, Deployment, TypeOK
  <2>4. kids \in [Names -> Kid \cup {None}]
    BY DEF TypeOK
  <2>5. kids'[n] = constructContainer(work) /\ \A m \in Names \ {n} : kids'[m] = kids[m]
    BY <2>1, <2>4
  <2>6. kids'[n] # None
    BY <2>3, <2>5, NoneAssumption
  <2> QED BY <1>1, <1>3, <2>1, <2>2, <2>3, <2>5, <2>6
<1> QED BY <1>2, <1>3

\* Which steps are quiet in this sense.
LEMMA QuietSteps ==
  ASSUME TypeOK,
         \/ List \/ Panic \/ Relist \/ Requeue \/ CallFails \/ Tick \/ UNCHANGED vars
         \/ (UpdateStatus /\ ~fresh) \/ \E n \in Names : KidAction(n)
  PROVE  Quiet
<1> USE DEF depVars, kidVars, passVars, budgetVars
<1>1. CASE List \/ Requeue \/ Tick \/ UNCHANGED vars
  BY <1>1 DEF List, Requeue, Tick, vars, Quiet, Fewer
<1>2. CASE Panic \/ CallFails \/ (UpdateStatus /\ ~fresh)
  BY <1>2 DEF Panic, CallFails, UpdateStatus, Fail, Finish, Quiet, Fewer
<1>3. CASE Relist
  BY <1>3 DEF Relist, Finish, Quiet, Fewer
<1>4. ASSUME NEW n \in Names, KidAction(n)
      PROVE  Quiet
  BY <1>4, KidActionShrinks DEF Quiet, Fewer
<1> QED BY <1>1, <1>2, <1>3, <1>4

\* A deployment that is stored is the last one or the same as before.
LEMMA StoreOwner ==
  ASSUME TypeOK, OwnerInv, NEW d, StoreDep(d), uids' \in Nat, uids <= uids', d # None => d.uid = uids'
  PROVE  OwnerInv'
<1>1. /\ dep' = d /\ depFresh' = FALSE /\ fresh' = FALSE /\ UNCHANGED <<kids, kidCache, depCache, work>>
  BY DEF StoreDep, kidVars
<1>2. OwnersUpTo(uids)' /\ (depCache # None => depCache.uid <= uids') /\ (work # None => work.uid <= uids')
  BY <1>1, UidTypes DEF OwnerInv, OwnersUpTo
<1> QED BY <1>1, <1>2 DEF OwnerInv, OwnersUpTo

\* Every step keeps the order of owners.
LEMMA NextOwner ==
  ASSUME TypeOK, CountInv, OwnerInv, [Next]_vars
  PROVE  OwnerInv'
<1> USE DEF depVars, kidVars, passVars, budgetVars
<1>1. CASE Get
  <2>1. UNCHANGED <<dep, depCache, depFresh, uids, kids, kidCache>>
    BY <1>1 DEF Get
  <2>2. UNCHANGED <<work, fresh>> \/ (work' = depCache /\ fresh' = depFresh /\ depCache # None)
    BY <1>1 DEF Get
  <2>3. CASE UNCHANGED <<work, fresh>>
    BY <2>1, <2>3, QuietOwner DEF Quiet, Fewer
  <2>4. CASE work' = depCache /\ fresh' = depFresh /\ depCache # None
    <3>1. depCache.uid <= depCache.uid
      BY <2>4, UidTypes
    <3> QED BY <2>1, <2>4, <3>1 DEF OwnerInv, OwnersUpTo
  <2> QED BY <2>2, <2>3, <2>4
<1>2. ASSUME NEW n \in Names, Create(n)
      PROVE  OwnerInv'
  <2>1. UNCHANGED <<dep, depCache, depFresh, kidCache>> /\ uids' = uids
    BY <1>2, CreateSteps
  <2>2. CASE Quiet
    BY <2>2, QuietOwner
  <2>3. CASE ~Quiet
    <3>1. /\ UNCHANGED <<work, fresh>> /\ work # None
          /\ kids'[n] # None /\ kids'[n].owner = work.uid
          /\ \A m \in Names \ {n} : kids'[m] = kids[m]
      BY <1>2, <2>3, CreateSteps
    <3>2. work.uid <= work.uid /\ work.uid <= uids /\ (depCache # None => work.uid <= depCache.uid)
      BY <3>1, UidTypes DEF OwnerInv
    <3>3. OwnersUpTo(uids)' /\ OwnersUpTo(work.uid)' /\ (depCache # None => OwnersUpTo(depCache.uid)')
      BY <2>1, <3>1, <3>2 DEF OwnerInv, OwnersUpTo
    <3>4. \A m \in Names : (kids'[m] # None /\ kidCache'[m] # None) => kidCache'[m].owner <= kids'[m].owner
      BY <2>1, <3>1 DEF OwnerInv, OwnersUpTo
    <3> QED BY <2>1, <3>1, <3>2, <3>3, <3>4 DEF OwnerInv
  <2> QED BY <2>2, <2>3
<1>3. ASSUME NEW n \in Names, Delete(n)
      PROVE  OwnerInv'
  BY <1>3, DeleteSteps, QuietOwner
<1>4. CASE UpdateStatus /\ fresh
  <2>1. /\ dep' = [dep EXCEPT !.available = todo] /\ depFresh' = FALSE /\ work' = None
        /\ fresh' = FALSE /\ pc = "status" /\ UNCHANGED <<depCache, uids, kids, kidCache>>
    BY <1>4 DEF UpdateStatus, Finish
  <2>2. dep = work /\ dep # None /\ dep \in Deployment
    BY <1>4, <2>1 DEF TypeOK, OwnerInv
  <2>3. dep'.uid = dep.uid
    BY <2>1, <2>2 DEF Deployment
  <2> QED BY <2>1, <2>2, <2>3 DEF OwnerInv, OwnersUpTo
<1>5. ASSUME kidCache' = Seen, kids' = kids, NEW u, OwnersUpTo(u)
      PROVE  \A n \in Names : /\ kids'[n] # None => kids'[n].owner <= u
                              /\ kidCache'[n] # None => kidCache'[n].owner <= u
  BY <1>5, SeenType DEF OwnersUpTo
<1>6. ASSUME kidCache' = Seen, kids' = kids
      PROVE  \A n \in Names :
               (kids'[n] # None /\ kidCache'[n] # None) => kidCache'[n].owner <= kids'[n].owner
  <2>1. \A n \in Names : kids[n] # None => kids[n].owner <= kids[n].owner
    BY UidTypes
  <2> QED BY <1>6, <2>1, SeenType
<1>7. CASE Crash
  <2>1. /\ depCache' = dep /\ depFresh' = TRUE /\ kidCache' = Seen /\ work' = None /\ fresh' = FALSE
        /\ UNCHANGED <<dep, kids, uids>>
    BY <1>7 DEF Crash
  <2>2. OwnersUpTo(uids)'
    BY <1>5, <2>1 DEF OwnerInv, OwnersUpTo
  <2>3. uids <= uids
    BY UidTypes
  <2>4. dep # None => dep.uid <= uids /\ OwnersUpTo(dep.uid)'
    BY <2>1, <2>2, <2>3 DEF OwnerInv, OwnersUpTo
  <2> QED BY <1>6, <2>1, <2>2, <2>4 DEF OwnerInv, OwnersUpTo
<1>8. CASE SyncDep
  <2>1. /\ depCache' = dep /\ depFresh' = TRUE
        /\ UNCHANGED <<dep, kids, kidCache, work, fresh, uids>>
    BY <1>8 DEF SyncDep
  <2>2. uids <= uids
    BY UidTypes
  <2> QED BY <2>1, <2>2 DEF OwnerInv, OwnersUpTo
<1>9. CASE SyncKids
  <2>1. kidCache' = Seen /\ UNCHANGED <<dep, depCache, depFresh, kids, work, fresh, uids>>
    BY <1>9 DEF SyncKids
  <2>2. /\ OwnersUpTo(uids)'
        /\ depCache # None => OwnersUpTo(depCache.uid)'
        /\ work # None => OwnersUpTo(work.uid)'
    BY <1>5, <2>1 DEF OwnerInv, OwnersUpTo
  <2> QED BY <1>6, <2>1, <2>2 DEF OwnerInv
<1>10. ASSUME NEW r \in Replicas, CreateDeployment(r)
       PROVE  OwnerInv'
  <2> DEFINE d == [uid |-> uids', replicas |-> r, template |-> 0, available |-> 0,
                   mode |-> Admitted(TemplateMode), deleting |-> FALSE]
  <2>1. StoreDep(d) /\ uids' = uids + 1
    BY <1>10 DEF CreateDeployment
  <2>2. d.uid = uids'
    OBVIOUS
  <2> HIDE DEF d
  <2> QED BY <2>1, <2>2, UidTypes, StoreOwner
<1>11. ASSUME NEW d, StoreDep(d), uids' = uids, d # None => d.uid = uids
       PROVE  OwnerInv'
  BY <1>11, UidTypes, StoreOwner
<1>12. CASE EditAction
  BY <1>11, <1>12, EditStores DEF EditStored, OwnerInv
<1>13. CASE CollectDeployment
  BY <1>11, <1>13 DEF CollectDeployment
<1>14. CASE \/ List \/ Panic \/ Relist \/ Requeue \/ CallFails \/ Tick \/ UNCHANGED vars
            \/ (UpdateStatus /\ ~fresh) \/ \E n \in Names : KidAction(n)
  BY <1>14, QuietSteps, QuietOwner
<1> QED
  BY NextCases, <1>1, <1>2, <1>3, <1>4, <1>7, <1>8, <1>9, <1>10, <1>12, <1>13, <1>14, Zenon

-----------------------------------------------------------------------------
(* What a pass deletes.                                                    *)

\* Steps that are no business of the two loops, or end them.
Aside ==
  /\ Fewer /\ stale' = stale
  /\ UNCHANGED <<pc, owned, work, todo>> \/ pc' \notin {"create", "delete"}

\* All but the list and the two loops are aside from what a pass deletes.
LEMMA AsideSteps ==
  ASSUME TypeOK, CountInv, [Next]_vars
  PROVE  Aside \/ List \/ \E n \in Names : Create(n) \/ Delete(n)
<1> USE DEF depVars, kidVars, passVars, budgetVars
<1>1. CASE Get
  BY <1>1 DEF Get, Aside, Fewer
<1>2. CASE Panic \/ CallFails \/ UpdateStatus
  BY <1>2 DEF Panic, CallFails, UpdateStatus, Fail, Finish, Aside, Fewer
<1>3. CASE Relist
  BY <1>3 DEF Relist, Finish, Aside, Fewer
<1>4. CASE Requeue \/ Crash \/ Tick \/ SyncDep \/ SyncKids \/ UNCHANGED vars
  BY <1>4 DEF Requeue, Crash, Tick, SyncDep, SyncKids, vars, Aside, Fewer
<1>5. ASSUME NEW d, StoreDep(d), stale' = stale
      PROVE  Aside
  BY <1>5 DEF StoreDep, Aside, Fewer
<1>6. CASE CollectDeployment \/ EditAction \/ \E r \in Replicas : CreateDeployment(r)
  BY <1>5, <1>6, EditStores DEF EditStored, CollectDeployment, CreateDeployment
<1>7. ASSUME NEW n \in Names, KidAction(n)
      PROVE  Aside
  BY <1>7, KidActionShrinks DEF Aside, Fewer
<1> QED BY NextCases, <1>1, <1>2, <1>3, <1>4, <1>6, <1>7, Zenon

\* Every step keeps what the scale-down relies on.
LEMMA NextDelete ==
  ASSUME TypeOK, CountInv, OwnerInv, DeleteInv, [Next]_vars
  PROVE  DeleteInv'
<1>1. CASE Aside
  <2> SUFFICES ASSUME pc' = "delete"
               PROVE  DeleteInv'
    BY DEF DeleteInv
  <2>1. UNCHANGED <<pc, owned, work, stale>> /\ Fewer
    BY <1>1 DEF Aside
  <2>2. ASSUME NEW c \in owned, kids'[c.name] # None
        PROVE  /\ kids'[c.name].owner = work.uid
               /\ stale = 0 => kids'[c.name].created = c.created
    <3>1. c.name \in Names
      BY DEF TypeOK
    <3> QED BY <2>1, <2>2, <3>1 DEF Fewer, Shrinks, DeleteInv
  <2>3. ASSUME stale = 0, NEW n \in Live(Owned(kids, work.uid))'
        PROVE  [name |-> n, created |-> kids'[n].created] \in owned
    <3>1. n \in Live(Owned(kids, work.uid)) /\ kids'[n].created = kids[n].created
      BY <2>1, <2>3 DEF Fewer, Shrinks, Live, Owned
    <3> QED BY <2>1, <2>3, <3>1 DEF DeleteInv
  <2> QED BY <2>1, <2>2, <2>3 DEF DeleteInv
<1>2. CASE List
  <2> SUFFICES ASSUME pc' = "delete"
               PROVE  DeleteInv'
    BY DEF DeleteInv
  <2>1. /\ owned' = Listed(kidCache, work.uid)
        /\ stale' = IF owned' = Listed(kids, work.uid) THEN stale ELSE stale + 1
        /\ UNCHANGED <<kids, kidCache, work>> /\ pc = "list"
    BY <1>2 DEF List, kidVars
  <2>2. work # None
    BY <2>1 DEF TypeOK
  <2>3. ASSUME NEW c \in owned', kids[c.name] # None
        PROVE  kids[c.name].owner = work.uid
    <3>1. c.name \in Names /\ kidCache[c.name] # None /\ kidCache[c.name].owner = work.uid
      BY <2>1, <2>3 DEF Listed, Owned
    <3>2. kidCache[c.name].owner <= kids[c.name].owner /\ kids[c.name].owner <= work.uid
      BY <2>2, <2>3, <3>1 DEF OwnerInv, OwnersUpTo
    <3> QED BY <2>2, <2>3, <3>1, <3>2, UidTypes
  <2>4. ASSUME stale' = 0
        PROVE  owned' = Listed(kids, work.uid)
    BY <2>1, <2>4, UidTypes
  <2>5. ASSUME stale' = 0, NEW c \in owned', kids[c.name] # None
        PROVE  kids[c.name].created = c.created
    BY <2>4, <2>5 DEF Listed
  <2>6. ASSUME stale' = 0, NEW n \in Live(Owned(kids, work.uid))
        PROVE  [name |-> n, created |-> kids[n].created] \in owned'
    BY <2>4, <2>6 DEF Listed, Live
  <2>7. Live(Owned(kids, work.uid))' = Live(Owned(kids, work.uid))
    BY <2>1 DEF Live, Owned
  <2> QED BY <2>1, <2>3, <2>5, <2>6, <2>7 DEF DeleteInv
<1>3. ASSUME NEW n \in Names, Create(n)
      PROVE  DeleteInv'
  BY <1>3, CreateSteps DEF DeleteInv
<1>4. ASSUME NEW n \in Names, Delete(n)
      PROVE  DeleteInv'
  <2> SUFFICES ASSUME pc' = "delete"
               PROVE  DeleteInv'
    BY DEF DeleteInv
  <2>1. /\ kids'[n] # None => kids'[n].terminating
        /\ Shrinks /\ work' = work /\ stale' = stale /\ pc = "delete"
    BY <1>4, DeleteSteps DEF budgetVars
  <2>2. PICK c \in owned : c.name = n /\ owned' = owned \ {c}
    BY <1>4, DeleteSteps
  <2>3. ASSUME NEW e \in owned', kids'[e.name] # None
        PROVE  /\ kids'[e.name].owner = work.uid
               /\ stale = 0 => kids'[e.name].created = e.created
    <3>1. e \in owned /\ e.name \in Names
      BY <2>2 DEF TypeOK
    <3> QED BY <2>1, <2>3, <3>1 DEF Shrinks, DeleteInv
  <2>4. ASSUME stale = 0, NEW m \in Live(Owned(kids, work.uid))'
        PROVE  [name |-> m, created |-> kids'[m].created] \in owned'
    <3>1. m \in Live(Owned(kids, work.uid)) /\ kids'[m].created = kids[m].created /\ m # n
      BY <2>1, <2>4 DEF Shrinks, Live, Owned
    <3>2. [name |-> m, created |-> kids'[m].created] \in owned
      BY <2>1, <2>4, <3>1 DEF DeleteInv
    <3>3. [name |-> m, created |-> kids'[m].created] # c
      BY <2>2, <3>1
    <3> QED BY <2>2, <3>2, <3>3
  <2> QED BY <2>1, <2>3, <2>4 DEF DeleteInv
<1> QED BY AsideSteps, <1>1, <1>2, <1>3, <1>4, Zenon

-----------------------------------------------------------------------------
(* How many children there are.                                            *)

\* The most that users ask for.
LEMMA AskedMost == Asked \in Nat /\ \A r \in Replicas : r <= Asked
<1>1. PICK r \in Replicas \cup {0} : \A s \in Replicas : s <= r
  BY DeploymentAssumption
<1>2. Replicas \subseteq Int
  BY DeploymentAssumption
<1>3. \E q \in Replicas \cup {0} : \A s \in Replicas \cup {0} : s <= q
  <2>1. CASE 0 <= r
    BY <1>1, <2>1
  <2>2. CASE ~(0 <= r)
    <3>1. \A s \in Replicas : s <= 0
      BY <1>1, <1>2, <2>2
    <3> QED BY <3>1
  <2> QED BY <2>1, <2>2
<1>4. Asked \in Replicas \cup {0} /\ \A s \in Replicas \cup {0} : s <= Asked
  BY <1>3 DEF Asked
<1> QED BY <1>2, <1>4

\* One more stale list allows one more full set.
LEMMA Sets ==
  ASSUME NEW a \in Nat, NEW s \in Nat
  PROVE  a * (1 + s) \in Nat /\ a <= a * (1 + s) /\ a * (1 + (s + 1)) = a * (1 + s) + a
<1>1. a * s \in Nat /\ a * (1 + s) = a + a * s /\ a * (1 + (s + 1)) = a + (a + a * s)
  OBVIOUS
<1> QED BY <1>1

\* Every step keeps the number of children within the sets allowed: a pass
\* creates what its list lacks, and only a stale list lacks what there is.
LEMMA NextCount ==
  ASSUME TypeOK, CountInv, OvershootBounded, CreateInv, [Next]_vars
  PROVE  OvershootBounded' /\ CreateInv'
<1> DEFINE Bound == Asked * (1 + stale)
<1>1. Bound \in Nat /\ Asked <= Bound /\ Asked \in Nat /\ stale \in Nat
  BY AskedMost, Sets, UidTypes
<1>2. \A u : Cardinality(Owned(kids, u)) \in Nat /\ Cardinality(Owned(kids', u)) \in Nat
  BY OwnedFinite
<1>3. ASSUME Fewer, NEW u
      PROVE  Cardinality(Owned(kids', u)) <= Cardinality(Owned(kids, u))
  BY <1>2, <1>3, OwnedShrinks DEF Fewer
<1>4. ASSUME Fewer, stale' = stale
      PROVE  OvershootBounded'
  <2> SUFFICES ASSUME NEW u \in 1..MaxUid
               PROVE  Cardinality(Owned(kids', u)) <= Bound
    BY <1>4 DEF OvershootBounded
  <2>1. Cardinality(Owned(kids, u)) <= Bound
    BY DEF OvershootBounded
  <2> QED BY <1>1, <1>2, <1>3, <1>4, <2>1
<1>5. CASE Aside
  <2>1. OvershootBounded'
    BY <1>4, <1>5 DEF Aside
  <2>2. CASE pc' # "create"
    BY <2>1, <2>2 DEF CreateInv
  <2>3. CASE pc' = "create"
    <3>1. UNCHANGED <<pc, work, todo, stale>> /\ Fewer
      BY <1>5, <2>3 DEF Aside
    <3>2. Cardinality(Owned(kids, work.uid)) + todo <= Bound
      BY <2>3, <3>1 DEF CreateInv
    <3>3. todo \in Int
      BY DEF TypeOK
    <3>4. Cardinality(Owned(kids', work.uid)) + todo <= Bound
      BY <1>1, <1>2, <1>3, <3>1, <3>2, <3>3
    <3> QED BY <2>1, <3>1, <3>4 DEF CreateInv
  <2> QED BY <2>2, <2>3
<1>6. CASE List
  <2>1. /\ owned' = Listed(kidCache, work.uid)
        /\ stale' = IF owned' = Listed(kids, work.uid) THEN stale ELSE stale + 1
        /\ todo' = work.replicas - Cardinality(owned')
        /\ UNCHANGED <<kids, work>> /\ pc = "list"
    BY <1>6 DEF List, Diff, kidVars
  <2>2. work \in Deployment
    BY <2>1 DEF TypeOK
  <2>3. work.replicas \in Int /\ work.replicas <= Asked /\ work.uid \in 1..MaxUid
    BY <2>2, AskedMost, DeploymentAssumption DEF Deployment
  <2>4. /\ Cardinality(owned') = Cardinality(Owned(kidCache, work.uid))
        /\ Cardinality(owned') \in Nat
        /\ Cardinality(Listed(kids, work.uid)) = Cardinality(Owned(kids, work.uid))
    BY <2>1, ListedCount, OwnedFinite
  <2>5. CASE stale' = stale
    <3>1. OvershootBounded'
      BY <1>4, <2>1, <2>5 DEF Fewer
    <3>2. owned' = Listed(kids, work.uid)
      BY <1>1, <2>1, <2>5
    <3>3. Cardinality(Owned(kids, work.uid)) + todo' = work.replicas
      BY <1>2, <2>1, <2>3, <2>4, <3>2
    <3>4. Cardinality(Owned(kids, work.uid)) + todo' <= Bound
      BY <1>1, <2>3, <3>3
    <3> QED BY <2>1, <2>5, <3>1, <3>4 DEF CreateInv
  <2>6. CASE stale' = stale + 1
    <3>1. Asked * (1 + stale') = Bound + Asked
      BY <1>1, <2>6, Sets
    <3>2. \A u \in 1..MaxUid : Cardinality(Owned(kids, u)) <= Bound
      BY DEF OvershootBounded
    <3>3. \A u \in 1..MaxUid : Cardinality(Owned(kids, u)) <= Bound + Asked
      BY <1>1, <1>2, <3>2
    <3>4. todo' \in Int /\ todo' <= Asked
      BY <1>1, <2>1, <2>3, <2>4
    <3>5. Cardinality(Owned(kids, work.uid)) + todo' <= Bound + Asked
      BY <1>1, <1>2, <2>3, <3>2, <3>4
    <3> HIDE DEF Bound
    <3> QED BY <2>1, <3>1, <3>3, <3>5 DEF OvershootBounded, CreateInv
  <2> QED BY <2>1, <2>5, <2>6
<1>7. ASSUME NEW n \in Names, Create(n)
      PROVE  OvershootBounded' /\ CreateInv'
  <2>1. stale' = stale
    BY <1>7, CreateSteps DEF budgetVars
  <2>2. CASE Quiet /\ pc' = "idle"
    BY <1>4, <2>1, <2>2 DEF Quiet, CreateInv
  <2>3. CASE ~(Quiet /\ pc' = "idle")
    <3>1. /\ pc = "create" /\ kids[n] = None /\ work' = work /\ work # None
          /\ todo' = todo - 1 /\ kids'[n] # None /\ kids'[n].owner = work.uid
          /\ \A m \in Names \ {n} : kids'[m] = kids[m]
      BY <1>7, <2>3, CreateSteps
    <3>2. n \notin Owned(kids, work.uid) /\ Owned(kids', work.uid) = Owned(kids, work.uid) \cup {n}
      BY <3>1 DEF Owned
    <3>3. Cardinality(Owned(kids', work.uid)) = Cardinality(Owned(kids, work.uid)) + 1
      BY <3>2, OwnedFinite, FS_AddElement
    <3>4. Cardinality(Owned(kids, work.uid)) + todo <= Bound /\ todo \in Int /\ todo > 0
      BY <3>1 DEF CreateInv, TypeOK
    <3>5. /\ Cardinality(Owned(kids', work.uid)) + todo' <= Bound
          /\ Cardinality(Owned(kids', work.uid)) <= Bound
      BY <1>1, <1>2, <3>1, <3>3, <3>4
    <3>6. ASSUME NEW u \in 1..MaxUid, u # work.uid
          PROVE  Cardinality(Owned(kids', u)) <= Bound
      <4>1. Owned(kids', u) = Owned(kids, u)
        BY <3>1, <3>6 DEF Owned
      <4> QED BY <4>1 DEF OvershootBounded
    <3>7. \A u \in 1..MaxUid : Cardinality(Owned(kids', u)) <= Bound
      BY <3>5, <3>6
    <3> QED BY <2>1, <3>1, <3>5, <3>7 DEF OvershootBounded, CreateInv
  <2> QED BY <2>2, <2>3
<1>8. ASSUME NEW n \in Names, Delete(n)
      PROVE  OvershootBounded' /\ CreateInv'
  BY <1>4, <1>8, DeleteSteps DEF Quiet, budgetVars, CreateInv
<1> QED BY AsideSteps, <1>5, <1>6, <1>7, <1>8, Zenon

-----------------------------------------------------------------------------
(* The invariant and the theorems.                                         *)

DeploymentInv == TypeOK /\ CountInv /\ OwnerInv /\ DeleteInv /\ OvershootBounded /\ CreateInv

\* The invariant holds at first.
LEMMA InitDeployment ==
  ASSUME Init
  PROVE  DeploymentInv
<1>1. TypeOK /\ CountInv
  BY InitType
<1>2. \A n \in Names : kids[n] = None
  BY DEF Init
<1>3. \A n \in Names : kidCache[n] = None
  BY <1>2 DEF Init, Seen
<1>4. OwnerInv
  BY <1>2, <1>3 DEF Init, OwnerInv, OwnersUpTo
<1>5. \A u : Owned(kids, u) = {}
  BY <1>2 DEF Owned
<1>6. stale = 0 /\ Cardinality({}) = 0 /\ Asked \in Nat
  BY AskedMost, FS_EmptySet DEF Init
<1>7. OvershootBounded
  <2>1. Asked * (1 + stale) \in Nat
    BY <1>6, Sets
  <2> QED BY <1>5, <1>6, <2>1 DEF OvershootBounded
<1>8. DeleteInv /\ CreateInv
  BY DEF Init, DeleteInv, CreateInv
<1> QED BY <1>1, <1>4, <1>7, <1>8 DEF DeploymentInv

\* It is kept by every step.
LEMMA NextDeployment ==
  ASSUME DeploymentInv, [Next]_vars
  PROVE  DeploymentInv'
  BY NextType, NextOwner, NextDelete, NextCount DEF DeploymentInv

\* Hence it always holds.
LEMMA DeploymentInvariant == Spec => []DeploymentInv
  BY InitDeployment, NextDeployment, PTL DEF Spec

\* Every reachable state is well typed: a pass that creates or deletes has
\* something to do, and its list is of children (TypeOK).
THEOREM TypeCorrect == Spec => []TypeOK
<1>1. DeploymentInv => TypeOK
  BY DEF DeploymentInv
<1> QED BY <1>1, DeploymentInvariant, PTL

\* However passes fail, are cut off or are repeated, a deployment has at most
\* as many children as were ever asked for, and as many again for every list
\* that a lagging cache answered (listOwnedContainers and the loop that creates
\* what it misses).
THEOREM OvershootBoundedTheorem == Spec => []OvershootBounded
<1>1. DeploymentInv => OvershootBounded
  BY DEF DeploymentInv
<1> QED BY <1>1, DeploymentInvariant, PTL

\* The loop that scales down deletes by name, from a list that may be old; yet
\* the child that has the name is always one of the deployment of the pass.
THEOREM TakesOnlyItsOwnTheorem == Spec => TakesOnlyItsOwn
<1>1. ASSUME DeploymentInv, NEW n \in Names, Delete(n), kids[n] # None
      PROVE  kids[n].owner = work.uid
  <2>1. PICK c \in owned : c.name = n
    BY <1>1 DEF Delete
  <2> QED BY <1>1, <2>1 DEF DeploymentInv, DeleteInv, Delete
<1>2. DeploymentInv /\ [Next]_vars
        => [\A n \in Names : (Delete(n) /\ kids[n] # None) => kids[n].owner = work.uid]_vars
  BY <1>1
<1> QED BY <1>2, DeploymentInvariant, PTL DEF Spec, TakesOnlyItsOwn

\* As long as no list was stale the loop that scales down spares the oldest: no
\* child of the deployment that stays is younger than the one that is taken.
THEOREM KeepsOldestTheorem == Spec => KeepsOldest
<1>1. ASSUME DeploymentInv, NEW n \in Names, Delete(n), kids[n] # None, stale = 0,
             NEW m \in Live(Owned(kids, work.uid))
      PROVE  kids[m].created <= kids[n].created
  <2>1. PICK c \in owned : c.name = n /\ Youngest(c)
    BY <1>1 DEF Delete
  <2>2. pc = "delete"
    BY <1>1 DEF Delete
  <2>3. c.created = kids[n].created /\ [name |-> m, created |-> kids[m].created] \in owned
    BY <1>1, <2>1, <2>2 DEF DeploymentInv, DeleteInv
  <2> QED BY <2>1, <2>3 DEF Youngest
<1>2. DeploymentInv /\ [Next]_vars
        => [\A n \in Names :
              (Delete(n) /\ kids[n] # None /\ stale = 0)
                => \A m \in Live(Owned(kids, work.uid)) : kids[m].created <= kids[n].created]_vars
  BY <1>1
<1> QED BY <1>2, DeploymentInvariant, PTL DEF Spec, KeepsOldest
=============================================================================
