------------------------ MODULE DockerContainerProofs ------------------------
(* What is proved of DockerContainer for every set of specs, every budget of  *)
(* faults, edits, outside steps and crashes, and every interleaving of them.  *)
EXTENDS DockerContainer, TLAPS

-----------------------------------------------------------------------------
(* The inductive invariant, by the idea each part is about.                *)

DeleteCalls == {"delete", "deleteTunnels", "unfinalize"}
EnforceCalls == {"inspect", "stop", "remove", "create", "upload", "startNew",
                 "inspectNew", "start"}
SyncCalls == EnforceCalls \cup {"list", "observe", "status"}

\* IDs are given out once, and the pass only knows IDs that were.
IdsInv ==
  /\ ctr # None => ctr.id <= lastId
  /\ match # None => match.id <= lastId
  /\ pc \in {"upload", "inspectNew"} => match # None

\* What the pass is about to do was right for the copy of the CR it read.
PassInv ==
  /\ pc \in DeleteCalls => work.deleting /\ work.finalizer
  /\ pc \in SyncCalls => ~work.deleting /\ work.finalizer
  /\ pc = "addFinalizer" => ~work.deleting
  /\ pc \in EnforceCalls => managementModeFor(work) = "Enforce"
  /\ pc = "observe" => managementModeFor(work) = "Observe"

\* A container that is to be removed by its ID is one that differs.
DriftInv ==
  pc \in {"stop", "remove"} /\ ctr # None /\ match # None /\ ctr.id = match.id
    => needsRecreate(ctr.cfg, work.spec)

\* A fresh copy is the stored version in everything the pass never changes.
FreshInv ==
  /\ cacheFresh => cached = cr
  /\ pc # "idle" /\ fresh =>
       /\ cached = cr
       /\ cr # None
       /\ work.spec = cr.spec /\ work.mode = cr.mode
       /\ work.deleting = cr.deleting /\ work.finalizer = cr.finalizer

\* The cache is never behind a CR's life by more than the worker allows: the
\* finalizer is put on and taken off by passes that read the cache.
LifeInv ==
  /\ pc \in SyncCalls => cr # None /\ cr.finalizer
  /\ cached # None /\ cached.finalizer /\ ~cached.deleting => cr # None /\ cr.finalizer
  /\ cached # None /\ cached.deleting => cr = None \/ cr.deleting \/ ~cr.finalizer
  /\ pc \in DeleteCalls =>
       /\ cr = None \/ cr.deleting \/ ~cr.finalizer
       /\ cached = None \/ cached.deleting \/ ~cached.finalizer

\* Where no call failed the container is gone before the finalizer is.
OrphanInv ==
  faults = 0 /\ ctr # None /\ ctr.owner = "operator" =>
    /\ cr # None /\ cr.finalizer
    /\ pc \notin {"deleteTunnels", "unfinalize"}

\* A container of the operator's own that lacks Secrets of its spec, and whose
\* create was not interrupted, is the one a pass is just uploading them to; it
\* has never been started.
SecretsInv ==
  ctr # None /\ ctr.owner = "operator" /\ ctr.id \notin interrupted =>
    \/ ctr.missing = {}
    \/ ctr.state = "created" /\ pc = "upload" /\ Reached

\* Once an observation is stored for a CR that was never enforced, neither the
\* cache nor a running pass holds a version that would touch the container.
ObservedInv ==
  /\ cr # None /\ observeOnly => managementModeFor(cr) = "Observe"
  /\ cr # None /\ observeOnly /\ cr.adopted =>
       /\ cached # None /\ managementModeFor(cached) = "Observe"
       /\ cached.deleting => cached.adopted
       /\ pc # "idle" => managementModeFor(work) = "Observe"
       /\ pc = "delete" => work.adopted

-----------------------------------------------------------------------------
(* Type correctness.                                                       *)

\* Writing one field of a CR, in memory or in the API, gives a CR.
LEMMA CRFields ==
  ASSUME NEW c \in CRs
  PROVE  /\ \A b \in BOOLEAN : [c EXCEPT !.finalizer = b] \in CRs
         /\ \A b \in BOOLEAN : [c EXCEPT !.deleting = b] \in CRs
         /\ \A s \in Specs : [c EXCEPT !.spec = s] \in CRs
         /\ \A m \in Modes : [c EXCEPT !.mode = m] \in CRs
         /\ \A st \in Statuses : [c EXCEPT !.status = st] \in CRs
         /\ \A st \in Statuses : [c EXCEPT !.adopted = TRUE, !.status = st] \in CRs
  BY DEF CRs

\* The CR a user creates.
LEMMA NewCR ==
  ASSUME NEW s \in Specs, NEW m \in Modes
  PROVE  [spec |-> s, mode |-> m, deleting |-> FALSE, finalizer |-> FALSE,
          adopted |-> FALSE, status |-> NoStatus] \in CRs
  BY DEF CRs, NoStatus, Statuses

\* What a list or an inspection returns can be written as a status.
LEMMA MatchFields ==
  ASSUME NEW m \in Matches, NEW b \in BOOLEAN
  PROVE  /\ m.id \in Nat
         /\ [m EXCEPT !.ip = b] \in Statuses
         /\ [[m EXCEPT !.ip = b] EXCEPT !.state = "running"] \in Statuses
         /\ [id |-> m.id, state |-> "running", ip |-> b] \in Statuses
  BY DEF Matches, Statuses, States

\* What the daemon does to a container leaves a container.
LEMMA ContainerFields ==
  ASSUME NEW c \in Containers
  PROVE  /\ \A st \in States : [c EXCEPT !.state = st] \in Containers
         /\ \A m \in SUBSET SecretNames : [c EXCEPT !.missing = m] \in Containers
         /\ c.id \in Nat /\ c.missing \in SUBSET SecretNames
         /\ Seen(c) \in Matches
         /\ Seen(c).ip \in BOOLEAN
  BY DEF Containers, Seen, Matches, States

\* A container that was just made, by the operator or by others.
LEMMA NewContainers ==
  ASSUME NEW i \in Nat, NEW st \in States, NEW who \in {"operator", "outsider"},
         NEW miss \in SUBSET SecretNames,
         NEW cfg, cfg \in Found \/ \E s \in Specs : cfg = createConfig(s, Vault)
  PROVE  [id |-> i, state |-> st, cfg |-> cfg, missing |-> miss, owner |-> who]
           \in Containers
  BY DEF Containers

\* The container of a pass that creates, and what the pass keeps of it.
LEMMA MadeIsSeen ==
  ASSUME lastId \in Nat, work.spec \in Specs
  PROVE  /\ NewContainer \in Containers
         /\ Seen(NewContainer) \in Matches /\ Seen(NewContainer) # None
<1>1. work.spec.secretVolumes \in SUBSET SecretNames
  BY Zenon DEF SecretNames
<1> DEFINE cfg == createConfig(work.spec, Vault)
<1>2. lastId + 1 \in Nat /\ "created" \in States
  BY DEF States
<1>3. \E s \in Specs : cfg = createConfig(s, Vault)
  OBVIOUS
<1> HIDE DEF cfg
<1>4. [id |-> lastId + 1, state |-> "created", cfg |-> cfg,
       missing |-> work.spec.secretVolumes, owner |-> "operator"] \in Containers
  BY <1>1, <1>2, <1>3, NewContainers
<1>5. NewContainer \in Containers
  BY <1>4 DEF NewContainer, cfg
<1> QED BY <1>5, ContainerFields, NoneAssumption

\* The initial states are well formed.
LEMMA TypeInit == Init => TypeOK
<1> SUFFICES ASSUME Init PROVE TypeOK
  OBVIOUS
<1>1. ctr \in Containers \cup {None}
  BY NewContainers DEF Init, States
<1>2. DataOK
  BY <1>1 DEF Init, DataOK
<1>3. FlagsOK
  BY DEF Init, FlagsOK
<1> QED BY <1>2, <1>3 DEF TypeOK

\* Every step leaves the records well formed.
LEMMA DataNext == TypeOK /\ IdsInv /\ [Next]_vars => DataOK'
<1> SUFFICES ASSUME DataOK, IdsInv, [Next]_vars PROVE DataOK'
  BY DEF TypeOK
<1> USE DEF vars, apiVars, hostVars, passVars, budgetVars, Pay, Return, Goto, Calls
<1>1. CASE Get
  BY <1>1 DEF Get, DataOK
<1>2. CASE NoClient
  BY <1>2 DEF NoClient, DataOK
<1>3. CASE DeleteTunnels
  BY <1>3 DEF DeleteTunnels, DataOK
<1>4. CASE List
  <2>1. [NoStatus EXCEPT !.state = "missing"] \in Statuses
    BY DEF NoStatus, Statuses
  <2>2. work' \in CRs
    BY <1>4, <2>1, CRFields DEF List, DataOK
  <2>3. match' \in Matches \cup {None}
    BY <1>4, ContainerFields DEF List, DataOK
  <2> QED BY <1>4, <2>2, <2>3 DEF List, DataOK
<1>5. CASE CallFails
  BY <1>5 DEF CallFails, DataOK
<1>6. CASE Gone
  BY <1>6 DEF Gone, DataOK
<1>7. CASE ObserveRuntime
  <2>1. [match EXCEPT !.ip = Seen(ctr).ip] \in Statuses
    BY <1>7, ContainerFields, MatchFields DEF ObserveRuntime, Reached, DataOK
  <2>2. work' \in CRs
    BY <1>7, <2>1, CRFields DEF ObserveRuntime, DataOK
  <2> QED BY <1>7, <2>2 DEF ObserveRuntime, DataOK
<1>8. CASE Inspect
  <2>1. [[match EXCEPT !.ip = Seen(ctr).ip] EXCEPT !.state = "running"] \in Statuses
    BY <1>8, ContainerFields, MatchFields DEF Inspect, Reached, DataOK
  <2>2. work' \in CRs
    BY <1>8, <2>1, CRFields DEF Inspect, DataOK
  <2> QED BY <1>8, <2>2 DEF Inspect, DataOK
<1>9. CASE Stop
  <2>1. ctr' \in Containers \cup {None}
    BY <1>9, ContainerFields DEF Stop, Reached, DataOK, States
  <2> QED BY <1>9, <2>1 DEF Stop, DataOK
<1>10. CASE InspectNew
  <2>1. PICK ip \in {FALSE, Reached /\ Seen(ctr).ip} :
          work' = [work EXCEPT !.status = [id |-> match.id, state |-> "running", ip |-> ip]]
    BY <1>10 DEF InspectNew
  <2>2. ip \in BOOLEAN
    BY <2>1
  <2>3. work' \in CRs
    BY <1>10, <2>1, <2>2, MatchFields, CRFields DEF InspectNew, IdsInv, DataOK
  <2>4. pc' = "status" /\ UNCHANGED <<apiVars, hostVars, budgetVars, match>>
    BY <1>10 DEF InspectNew
  <2> QED BY <2>3, <2>4 DEF DataOK
<1>11. ASSUME NEW o \in Outcomes, AddFinalizer(o) PROVE DataOK'
  <2>1. [work EXCEPT !.finalizer = TRUE] \in CRs
    BY <1>11, CRFields DEF AddFinalizer, DataOK
  <2>2. cr' \in CRs \cup {None}
    BY <1>11, <2>1 DEF AddFinalizer, Update, DataOK
  <2>3. pc' = "idle" /\ UNCHANGED <<cached, hostVars, work, match, edits, outside, crashes>>
    BY <1>11 DEF AddFinalizer, Update
  <2>4. faults' \in Nat
    BY <1>11 DEF AddFinalizer, Update, DataOK
  <2> QED BY <2>2, <2>3, <2>4 DEF DataOK
<1>12. ASSUME NEW o \in Outcomes, DeleteContainer(o) PROVE DataOK'
  BY <1>12 DEF DeleteContainer, DataOK
<1>13. ASSUME NEW o \in Outcomes, RemoveFinalizer(o) PROVE DataOK'
  BY <1>13 DEF RemoveFinalizer, Update, Refused, DataOK
<1>14. ASSUME NEW o \in Outcomes, Remove(o) PROVE DataOK'
  BY <1>14 DEF Remove, OnContainer, DataOK
<1>15. ASSUME NEW o \in Outcomes, Start(o) PROVE DataOK'
  <2>1. ctr' \in Containers \cup {None}
    BY <1>15, ContainerFields DEF Start, OnContainer, Reached, DataOK, States
  <2> QED BY <1>15, <2>1 DEF Start, OnContainer, DataOK
<1>16. ASSUME NEW o \in Outcomes, Create(o) PROVE DataOK'
  <2>1. work.spec \in Specs
    BY <1>16 DEF Create, DataOK, CRs
  <2>2. NewContainer \in Containers /\ Seen(NewContainer) \in Matches
    BY <2>1, MadeIsSeen DEF DataOK
  <2>3. interrupted' \subseteq Nat
    BY <1>16 DEF Create, DataOK
  <2> QED BY <1>16, <2>2, <2>3 DEF Create, DataOK
<1>17. ASSUME NEW v \in SecretNames, NEW o \in Outcomes, Upload(v, o) PROVE DataOK'
  <2>1. ctr' \in Containers \cup {None}
    <3>1. Reached => ctr \in Containers /\ ctr.missing \ {v} \in SUBSET SecretNames
      BY ContainerFields DEF Reached, DataOK
    <3>2. ctr' = ctr \/ (Reached /\ ctr' = [ctr EXCEPT !.missing = ctr.missing \ {v}])
      BY <1>17 DEF Upload, OnContainer
    <3> QED BY <3>1, <3>2, ContainerFields DEF DataOK
  <2>2. match.id \in Nat
    BY <1>17, MatchFields DEF Upload, IdsInv, DataOK
  <2>3. interrupted' \subseteq Nat
    BY <1>17, <2>2 DEF Upload, OnContainer, DataOK
  <2> QED BY <1>17, <2>1, <2>3 DEF Upload, OnContainer, DataOK
<1>18. ASSUME NEW o \in Outcomes, StartNew(o) PROVE DataOK'
  <2>1. ctr' \in Containers \cup {None}
    BY <1>18, ContainerFields DEF StartNew, OnContainer, Reached, DataOK, States
  <2> QED BY <1>18, <2>1 DEF StartNew, OnContainer, DataOK
<1>19. ASSUME NEW o \in Outcomes, WriteStatus(o) PROVE DataOK'
  BY <1>19 DEF WriteStatus, Update, DataOK
<1>20. CASE CacheSync
  BY <1>20 DEF CacheSync, DataOK
<1>21. CASE DeleteCR
  <2>1. cr' \in CRs \cup {None}
    BY <1>21, CRFields DEF DeleteCR, UserWrite, DataOK
  <2> QED BY <1>21, <2>1 DEF DeleteCR, UserWrite, DataOK
<1>22. CASE OutsideRemove \/ OutsideStop
  <2>1. ctr' \in Containers \cup {None}
    BY <1>22, ContainerFields DEF OutsideRemove, OutsideStop, OutsideTouch, DataOK, States
  <2> QED BY <1>22, <2>1 DEF OutsideRemove, OutsideStop, OutsideTouch, DataOK
<1>23. CASE Crash
  <2>1. pc = "upload" => match.id \in Nat
    BY MatchFields DEF IdsInv, DataOK
  <2>2. interrupted' \subseteq Nat
    BY <1>23, <2>1 DEF Crash, DataOK
  <2> QED BY <1>23, <2>2 DEF Crash, DataOK
<1>24. ASSUME NEW s \in Specs, EditSpec(s) PROVE DataOK'
  <2>1. cr' \in CRs
    BY <1>24, CRFields DEF EditSpec, UserWrite, DataOK
  <2> QED BY <1>24, <2>1 DEF EditSpec, UserWrite, DataOK
<1>25. ASSUME NEW m \in Modes, SetMode(m) PROVE DataOK'
  <2>1. cr' \in CRs
    BY <1>25, CRFields DEF SetMode, UserWrite, DataOK
  <2> QED BY <1>25, <2>1 DEF SetMode, UserWrite, DataOK
<1>26. ASSUME NEW s \in Specs, NEW m \in Modes, CreateCR(s, m) PROVE DataOK'
  <2>1. cr' \in CRs
    BY <1>26, NewCR DEF CreateCR, UserWrite
  <2> QED BY <1>26, <2>1 DEF CreateCR, UserWrite, DataOK
<1>27. ASSUME NEW cfg \in Found, OutsideRun(cfg) PROVE DataOK'
  <2>1. ctr' \in Containers
    BY <1>27, NewContainers DEF OutsideRun, OutsideTouch, DataOK, States
  <2> QED BY <1>27, <2>1 DEF OutsideRun, OutsideTouch, DataOK
<1>28. ASSUME NEW t \in TunnelNames, StartTunnel(t) PROVE DataOK'
  BY <1>28 DEF StartTunnel, OutsideTouch, DataOK
<1>29. CASE UNCHANGED vars
  BY <1>29 DEF DataOK
<1>30. CASE Requeue
  BY <1>30 DEF Requeue, DataOK
<1> QED
  BY <1>1, <1>2, <1>3, <1>4, <1>5, <1>6, <1>7, <1>8, <1>9, <1>10, <1>11, <1>12,
     <1>13, <1>14, <1>15, <1>16, <1>17, <1>18, <1>19, <1>20, <1>21, <1>22, <1>23,
     <1>24, <1>25, <1>26, <1>27, <1>28, <1>29, <1>30
  DEF Next, Reconcile, Environment

-----------------------------------------------------------------------------
(* The other parts, each with what it needs of the ones before.            *)

\* Every step leaves the four flags Boolean.
LEMMA FlagsNext == TypeOK /\ [Next]_vars => FlagsOK'
<1> SUFFICES ASSUME TypeOK, [Next]_vars PROVE FlagsOK'
  OBVIOUS
<1> USE DEF vars, apiVars, hostVars, passVars, budgetVars, Pay, Return, Goto,
           TypeOK, FlagsOK
<1>1. CASE Get
  BY <1>1 DEF Get
<1>2. CASE NoClient
  BY <1>2 DEF NoClient
<1>3. CASE DeleteTunnels
  BY <1>3 DEF DeleteTunnels
<1>4. CASE List
  BY <1>4 DEF List
<1>5. CASE CallFails
  BY <1>5 DEF CallFails
<1>6. CASE Gone
  BY <1>6 DEF Gone
<1>7. CASE ObserveRuntime
  BY <1>7 DEF ObserveRuntime
<1>8. CASE Inspect
  BY <1>8 DEF Inspect
<1>9. CASE Stop
  BY <1>9 DEF Stop
<1>10. CASE InspectNew
  BY <1>10 DEF InspectNew
<1>11. ASSUME NEW o \in Outcomes, AddFinalizer(o) PROVE FlagsOK'
  BY <1>11 DEF AddFinalizer, Update, Refused
<1>12. ASSUME NEW o \in Outcomes, DeleteContainer(o) PROVE FlagsOK'
  BY <1>12 DEF DeleteContainer
<1>13. ASSUME NEW o \in Outcomes, RemoveFinalizer(o) PROVE FlagsOK'
  BY <1>13 DEF RemoveFinalizer, Update, Refused
<1>14. ASSUME NEW o \in Outcomes, Remove(o) PROVE FlagsOK'
  BY <1>14 DEF Remove, OnContainer
<1>15. ASSUME NEW o \in Outcomes, Start(o) PROVE FlagsOK'
  BY <1>15 DEF Start, OnContainer
<1>16. ASSUME NEW o \in Outcomes, Create(o) PROVE FlagsOK'
  BY <1>16 DEF Create
<1>17. ASSUME NEW v \in SecretNames, NEW o \in Outcomes, Upload(v, o) PROVE FlagsOK'
  BY <1>17 DEF Upload, OnContainer
<1>18. ASSUME NEW o \in Outcomes, StartNew(o) PROVE FlagsOK'
  BY <1>18 DEF StartNew, OnContainer
<1>19. ASSUME NEW o \in Outcomes, WriteStatus(o) PROVE FlagsOK'
  BY <1>19 DEF WriteStatus, Update
<1>20. CASE CacheSync
  BY <1>20 DEF CacheSync
<1>21. CASE DeleteCR
  BY <1>21 DEF DeleteCR, UserWrite
<1>22. CASE OutsideRemove
  BY <1>22 DEF OutsideRemove, OutsideTouch
<1>23. CASE OutsideStop
  BY <1>23 DEF OutsideStop, OutsideTouch
<1>24. CASE Crash
  BY <1>24 DEF Crash
<1>25. ASSUME NEW s \in Specs, EditSpec(s) PROVE FlagsOK'
  BY <1>25 DEF EditSpec, UserWrite
<1>26. ASSUME NEW m \in Modes, SetMode(m) PROVE FlagsOK'
  BY <1>26 DEF SetMode, UserWrite
<1>27. ASSUME NEW s \in Specs, NEW m \in Modes, CreateCR(s, m) PROVE FlagsOK'
  BY <1>27 DEF CreateCR, UserWrite
<1>28. ASSUME NEW cfg \in Found, OutsideRun(cfg) PROVE FlagsOK'
  BY <1>28 DEF OutsideRun, OutsideTouch
<1>29. ASSUME NEW t \in TunnelNames, StartTunnel(t) PROVE FlagsOK'
  BY <1>29 DEF StartTunnel, OutsideTouch
<1>30. CASE UNCHANGED vars
  BY <1>30
<1>31. CASE Requeue
  BY <1>31 DEF Requeue
<1> QED
  BY <1>1, <1>2, <1>3, <1>4, <1>5, <1>6, <1>7, <1>8, <1>9, <1>10, <1>11, <1>12,
     <1>13, <1>14, <1>15, <1>16, <1>17, <1>18, <1>19, <1>20, <1>21, <1>22,
     <1>23, <1>24, <1>25, <1>26, <1>27, <1>28, <1>29, <1>30, <1>31
  DEF Next, Reconcile, Environment

\* IDs grow: ContainerCreate and others' docker run take the next one.
LEMMA IdsNext == TypeOK /\ IdsInv /\ [Next]_vars => IdsInv'
<1> SUFFICES ASSUME TypeOK, IdsInv, [Next]_vars PROVE IdsInv'
  OBVIOUS
<1> USE DEF vars, apiVars, hostVars, passVars, budgetVars, Pay, Return, Goto,
           TypeOK, DataOK, IdsInv
<1>1. CASE Get
  BY <1>1 DEF Get
<1>2. CASE NoClient
  BY <1>2 DEF NoClient
<1>3. CASE DeleteTunnels
  BY <1>3 DEF DeleteTunnels
<1>4. CASE List
  BY <1>4 DEF List, Containers, Seen
<1>5. CASE CallFails
  BY <1>5 DEF CallFails
<1>6. CASE Gone
  BY <1>6 DEF Gone
<1>7. CASE ObserveRuntime
  BY <1>7 DEF ObserveRuntime
<1>8. CASE Inspect
  BY <1>8 DEF Inspect
<1>9. CASE Stop
  BY <1>9 DEF Stop, Reached, Containers
<1>10. CASE InspectNew
  BY <1>10 DEF InspectNew
<1>11. ASSUME NEW o \in Outcomes, AddFinalizer(o) PROVE IdsInv'
  BY <1>11 DEF AddFinalizer, Update, Refused
<1>12. ASSUME NEW o \in Outcomes, DeleteContainer(o) PROVE IdsInv'
  BY <1>12 DEF DeleteContainer
<1>13. ASSUME NEW o \in Outcomes, RemoveFinalizer(o) PROVE IdsInv'
  BY <1>13 DEF RemoveFinalizer, Update, Refused
<1>14. ASSUME NEW o \in Outcomes, Remove(o) PROVE IdsInv'
  BY <1>14 DEF Remove, OnContainer
<1>15. ASSUME NEW o \in Outcomes, Start(o) PROVE IdsInv'
  BY <1>15 DEF Start, OnContainer, Reached, Containers
<1>16. ASSUME NEW o \in Outcomes, Create(o) PROVE IdsInv'
  <2>1. Seen(NewContainer) # None
    <3>1. work.spec \in Specs
      BY <1>16 DEF Create, CRs
    <3> QED BY <3>1, MadeIsSeen
  <2>2. NewContainer.id = lastId + 1 /\ Seen(NewContainer).id = lastId + 1
    BY DEF NewContainer, Seen
  <2>3. \/ UNCHANGED <<ctr, lastId>>
        \/ ctr' = NewContainer /\ lastId' = lastId + 1
    BY <1>16 DEF Create
  <2>4. ctr' # None => ctr'.id <= lastId'
    BY <2>2, <2>3
  <2>5. \/ UNCHANGED match /\ pc' = "idle"
        \/ match' = Seen(NewContainer) /\ lastId' = lastId + 1
    BY <1>16 DEF Create, Outcomes
  <2>6. lastId <= lastId'
    BY <2>3
  <2>7. match' # None => match'.id <= lastId'
    <3>1. CASE UNCHANGED match
      <4>1. match # None => match.id \in Nat /\ match.id <= lastId
        BY DEF Matches
      <4>2. lastId' \in Nat
        BY <2>3
      <4> QED BY <2>6, <3>1, <4>1, <4>2
    <3>2. CASE match' = Seen(NewContainer) /\ lastId' = lastId + 1
      BY <2>2, <3>2
    <3> QED BY <2>5, <3>1, <3>2
  <2>8. pc' \in {"upload", "inspectNew"} => match' # None
    BY <2>1, <2>5
  <2> QED BY <2>4, <2>7, <2>8
<1>17. ASSUME NEW v \in SecretNames, NEW o \in Outcomes, Upload(v, o) PROVE IdsInv'
  BY <1>17 DEF Upload, OnContainer, Reached, Containers
<1>18. ASSUME NEW o \in Outcomes, StartNew(o) PROVE IdsInv'
  BY <1>18 DEF StartNew, OnContainer, Reached, Containers
<1>19. ASSUME NEW o \in Outcomes, WriteStatus(o) PROVE IdsInv'
  BY <1>19 DEF WriteStatus, Update
<1>20. CASE CacheSync
  BY <1>20 DEF CacheSync
<1>21. CASE DeleteCR
  BY <1>21 DEF DeleteCR, UserWrite
<1>22. CASE OutsideRemove
  BY <1>22 DEF OutsideRemove, OutsideTouch
<1>23. CASE OutsideStop
  BY <1>23 DEF OutsideStop, OutsideTouch, Containers
<1>24. CASE Crash
  BY <1>24 DEF Crash
<1>25. ASSUME NEW s \in Specs, EditSpec(s) PROVE IdsInv'
  BY <1>25 DEF EditSpec, UserWrite
<1>26. ASSUME NEW m \in Modes, SetMode(m) PROVE IdsInv'
  BY <1>26 DEF SetMode, UserWrite
<1>27. ASSUME NEW s \in Specs, NEW m \in Modes, CreateCR(s, m) PROVE IdsInv'
  BY <1>27 DEF CreateCR, UserWrite
<1>28. ASSUME NEW cfg \in Found, OutsideRun(cfg) PROVE IdsInv'
  BY <1>28 DEF OutsideRun, OutsideTouch, Matches
<1>29. ASSUME NEW t \in TunnelNames, StartTunnel(t) PROVE IdsInv'
  BY <1>29 DEF StartTunnel, OutsideTouch
<1>30. CASE UNCHANGED vars
  BY <1>30
<1>31. CASE Requeue
  BY <1>31 DEF Requeue
<1> QED
  BY <1>1, <1>2, <1>3, <1>4, <1>5, <1>6, <1>7, <1>8, <1>9, <1>10, <1>11, <1>12,
     <1>13, <1>14, <1>15, <1>16, <1>17, <1>18, <1>19, <1>20, <1>21, <1>22,
     <1>23, <1>24, <1>25, <1>26, <1>27, <1>28, <1>29, <1>30, <1>31
  DEF Next, Reconcile, Environment

\* The branch a pass took stays right for its own copy of the CR.
LEMMA PassNext == TypeOK /\ PassInv /\ [Next]_vars => PassInv'
<1> SUFFICES ASSUME TypeOK, PassInv, [Next]_vars PROVE PassInv'
  OBVIOUS
<1> USE DEF vars, apiVars, hostVars, passVars, budgetVars, Pay, Return, Goto,
           TypeOK, DataOK, PassInv, DeleteCalls, EnforceCalls, SyncCalls
<1>1. CASE Get
  BY <1>1 DEF Get
<1>2. CASE NoClient
  BY <1>2 DEF NoClient
<1>3. CASE DeleteTunnels
  BY <1>3 DEF DeleteTunnels
<1>4. CASE List
  BY <1>4 DEF List, CRs, managementModeFor
<1>5. CASE CallFails
  BY <1>5 DEF CallFails
<1>6. CASE Gone
  BY <1>6 DEF Gone
<1>7. CASE ObserveRuntime
  BY <1>7 DEF ObserveRuntime, CRs, managementModeFor
<1>8. CASE Inspect
  BY <1>8 DEF Inspect, CRs, managementModeFor
<1>9. CASE Stop
  BY <1>9 DEF Stop
<1>10. CASE InspectNew
  BY <1>10 DEF InspectNew, CRs, managementModeFor
<1>11. ASSUME NEW o \in Outcomes, AddFinalizer(o) PROVE PassInv'
  BY <1>11 DEF AddFinalizer, Update, Refused
<1>12. ASSUME NEW o \in Outcomes, DeleteContainer(o) PROVE PassInv'
  BY <1>12 DEF DeleteContainer
<1>13. ASSUME NEW o \in Outcomes, RemoveFinalizer(o) PROVE PassInv'
  BY <1>13 DEF RemoveFinalizer, Update, Refused
<1>14. ASSUME NEW o \in Outcomes, Remove(o) PROVE PassInv'
  BY <1>14 DEF Remove, OnContainer
<1>15. ASSUME NEW o \in Outcomes, Start(o) PROVE PassInv'
  BY <1>15 DEF Start, OnContainer
<1>16. ASSUME NEW o \in Outcomes, Create(o) PROVE PassInv'
  BY <1>16 DEF Create
<1>17. ASSUME NEW v \in SecretNames, NEW o \in Outcomes, Upload(v, o) PROVE PassInv'
  BY <1>17 DEF Upload, OnContainer
<1>18. ASSUME NEW o \in Outcomes, StartNew(o) PROVE PassInv'
  BY <1>18 DEF StartNew, OnContainer
<1>19. ASSUME NEW o \in Outcomes, WriteStatus(o) PROVE PassInv'
  BY <1>19 DEF WriteStatus, Update
<1>20. CASE CacheSync
  BY <1>20 DEF CacheSync
<1>21. CASE DeleteCR
  BY <1>21 DEF DeleteCR, UserWrite
<1>22. CASE OutsideRemove
  BY <1>22 DEF OutsideRemove, OutsideTouch
<1>23. CASE OutsideStop
  BY <1>23 DEF OutsideStop, OutsideTouch
<1>24. CASE Crash
  BY <1>24 DEF Crash
<1>25. ASSUME NEW s \in Specs, EditSpec(s) PROVE PassInv'
  BY <1>25 DEF EditSpec, UserWrite
<1>26. ASSUME NEW m \in Modes, SetMode(m) PROVE PassInv'
  BY <1>26 DEF SetMode, UserWrite
<1>27. ASSUME NEW s \in Specs, NEW m \in Modes, CreateCR(s, m) PROVE PassInv'
  BY <1>27 DEF CreateCR, UserWrite
<1>28. ASSUME NEW cfg \in Found, OutsideRun(cfg) PROVE PassInv'
  BY <1>28 DEF OutsideRun, OutsideTouch
<1>29. ASSUME NEW t \in TunnelNames, StartTunnel(t) PROVE PassInv'
  BY <1>29 DEF StartTunnel, OutsideTouch
<1>30. CASE UNCHANGED vars
  BY <1>30
<1>31. CASE Requeue
  BY <1>31 DEF Requeue
<1> QED
  BY <1>1, <1>2, <1>3, <1>4, <1>5, <1>6, <1>7, <1>8, <1>9, <1>10, <1>11, <1>12,
     <1>13, <1>14, <1>15, <1>16, <1>17, <1>18, <1>19, <1>20, <1>21, <1>22,
     <1>23, <1>24, <1>25, <1>26, <1>27, <1>28, <1>29, <1>30, <1>31
  DEF Next, Reconcile, Environment

\* A container under the inspected ID keeps its configuration, and no other
\* container gets that ID.
LEMMA DriftNext == TypeOK /\ IdsInv /\ DriftInv /\ [Next]_vars => DriftInv'
<1> SUFFICES ASSUME TypeOK, IdsInv, DriftInv, [Next]_vars PROVE DriftInv'
  OBVIOUS
<1> USE DEF vars, apiVars, hostVars, passVars, budgetVars, Pay, Return, Goto,
           TypeOK, DataOK, DriftInv
<1>1. CASE Get
  BY <1>1 DEF Get
<1>2. CASE NoClient
  BY <1>2 DEF NoClient
<1>3. CASE DeleteTunnels
  BY <1>3 DEF DeleteTunnels
<1>4. CASE List
  BY <1>4 DEF List, CRs
<1>5. CASE CallFails
  BY <1>5 DEF CallFails
<1>6. CASE Gone
  BY <1>6 DEF Gone
<1>7. CASE ObserveRuntime
  BY <1>7 DEF ObserveRuntime
<1>8. CASE Inspect
  BY <1>8 DEF Inspect, Reached
<1>9. CASE Stop
  BY <1>9 DEF Stop, Reached, Containers
<1>10. CASE InspectNew
  BY <1>10 DEF InspectNew
<1>11. ASSUME NEW o \in Outcomes, AddFinalizer(o) PROVE DriftInv'
  BY <1>11 DEF AddFinalizer, Update, Refused
<1>12. ASSUME NEW o \in Outcomes, DeleteContainer(o) PROVE DriftInv'
  BY <1>12 DEF DeleteContainer
<1>13. ASSUME NEW o \in Outcomes, RemoveFinalizer(o) PROVE DriftInv'
  BY <1>13 DEF RemoveFinalizer, Update, Refused
<1>14. ASSUME NEW o \in Outcomes, Remove(o) PROVE DriftInv'
  BY <1>14 DEF Remove, OnContainer, Reached
<1>15. ASSUME NEW o \in Outcomes, Start(o) PROVE DriftInv'
  BY <1>15 DEF Start, OnContainer, Reached
<1>16. ASSUME NEW o \in Outcomes, Create(o) PROVE DriftInv'
  BY <1>16 DEF Create
<1>17. ASSUME NEW v \in SecretNames, NEW o \in Outcomes, Upload(v, o) PROVE DriftInv'
  BY <1>17 DEF Upload, OnContainer, Reached
<1>18. ASSUME NEW o \in Outcomes, StartNew(o) PROVE DriftInv'
  BY <1>18 DEF StartNew, OnContainer, Reached
<1>19. ASSUME NEW o \in Outcomes, WriteStatus(o) PROVE DriftInv'
  BY <1>19 DEF WriteStatus, Update
<1>20. CASE CacheSync
  BY <1>20 DEF CacheSync
<1>21. CASE DeleteCR
  BY <1>21 DEF DeleteCR, UserWrite
<1>22. CASE OutsideRemove
  BY <1>22 DEF OutsideRemove, OutsideTouch
<1>23. CASE OutsideStop
  BY <1>23 DEF OutsideStop, OutsideTouch, Containers
<1>24. CASE Crash
  BY <1>24 DEF Crash
<1>25. ASSUME NEW s \in Specs, EditSpec(s) PROVE DriftInv'
  BY <1>25 DEF EditSpec, UserWrite
<1>26. ASSUME NEW m \in Modes, SetMode(m) PROVE DriftInv'
  BY <1>26 DEF SetMode, UserWrite
<1>27. ASSUME NEW s \in Specs, NEW m \in Modes, CreateCR(s, m) PROVE DriftInv'
  BY <1>27 DEF CreateCR, UserWrite
<1>28. ASSUME NEW cfg \in Found, OutsideRun(cfg) PROVE DriftInv'
  BY <1>28 DEF OutsideRun, OutsideTouch, IdsInv, Matches
<1>29. ASSUME NEW t \in TunnelNames, StartTunnel(t) PROVE DriftInv'
  BY <1>29 DEF StartTunnel, OutsideTouch
<1>30. CASE UNCHANGED vars
  BY <1>30
<1>31. CASE Requeue
  BY <1>31 DEF Requeue
<1> QED
  BY <1>1, <1>2, <1>3, <1>4, <1>5, <1>6, <1>7, <1>8, <1>9, <1>10, <1>11, <1>12,
     <1>13, <1>14, <1>15, <1>16, <1>17, <1>18, <1>19, <1>20, <1>21, <1>22,
     <1>23, <1>24, <1>25, <1>26, <1>27, <1>28, <1>29, <1>30, <1>31
  DEF Next, Reconcile, Environment

\* Every write by others makes the copies stale; only CacheSync and Get renew
\* them.
LEMMA FreshNext == TypeOK /\ FreshInv /\ [Next]_vars => FreshInv'
<1> SUFFICES ASSUME TypeOK, FreshInv, [Next]_vars PROVE FreshInv'
  OBVIOUS
<1> USE DEF vars, apiVars, hostVars, passVars, budgetVars, Pay, Return, Goto,
           TypeOK, FlagsOK, DataOK, FreshInv
<1>1. CASE Get
  BY <1>1 DEF Get
<1>2. CASE NoClient
  BY <1>2 DEF NoClient
<1>3. CASE DeleteTunnels
  BY <1>3 DEF DeleteTunnels
<1>4. CASE List
  BY <1>4 DEF List, CRs
<1>5. CASE CallFails
  BY <1>5 DEF CallFails
<1>6. CASE Gone
  BY <1>6 DEF Gone
<1>7. CASE ObserveRuntime
  BY <1>7 DEF ObserveRuntime, CRs
<1>8. CASE Inspect
  BY <1>8 DEF Inspect, CRs
<1>9. CASE Stop
  BY <1>9 DEF Stop
<1>10. CASE InspectNew
  BY <1>10 DEF InspectNew, CRs
<1>11. ASSUME NEW o \in Outcomes, AddFinalizer(o) PROVE FreshInv'
  BY <1>11 DEF AddFinalizer, Update, Refused
<1>12. ASSUME NEW o \in Outcomes, DeleteContainer(o) PROVE FreshInv'
  BY <1>12 DEF DeleteContainer
<1>13. ASSUME NEW o \in Outcomes, RemoveFinalizer(o) PROVE FreshInv'
  BY <1>13 DEF RemoveFinalizer, Update, Refused
<1>14. ASSUME NEW o \in Outcomes, Remove(o) PROVE FreshInv'
  BY <1>14 DEF Remove, OnContainer
<1>15. ASSUME NEW o \in Outcomes, Start(o) PROVE FreshInv'
  BY <1>15 DEF Start, OnContainer
<1>16. ASSUME NEW o \in Outcomes, Create(o) PROVE FreshInv'
  BY <1>16 DEF Create
<1>17. ASSUME NEW v \in SecretNames, NEW o \in Outcomes, Upload(v, o) PROVE FreshInv'
  BY <1>17 DEF Upload, OnContainer
<1>18. ASSUME NEW o \in Outcomes, StartNew(o) PROVE FreshInv'
  BY <1>18 DEF StartNew, OnContainer
<1>19. ASSUME NEW o \in Outcomes, WriteStatus(o) PROVE FreshInv'
  BY <1>19 DEF WriteStatus, Update
<1>20. CASE CacheSync
  BY <1>20 DEF CacheSync
<1>21. CASE DeleteCR
  BY <1>21 DEF DeleteCR, UserWrite
<1>22. CASE OutsideRemove
  BY <1>22 DEF OutsideRemove, OutsideTouch
<1>23. CASE OutsideStop
  BY <1>23 DEF OutsideStop, OutsideTouch
<1>24. CASE Crash
  BY <1>24 DEF Crash
<1>25. ASSUME NEW s \in Specs, EditSpec(s) PROVE FreshInv'
  BY <1>25 DEF EditSpec, UserWrite
<1>26. ASSUME NEW m \in Modes, SetMode(m) PROVE FreshInv'
  BY <1>26 DEF SetMode, UserWrite
<1>27. ASSUME NEW s \in Specs, NEW m \in Modes, CreateCR(s, m) PROVE FreshInv'
  BY <1>27 DEF CreateCR, UserWrite
<1>28. ASSUME NEW cfg \in Found, OutsideRun(cfg) PROVE FreshInv'
  BY <1>28 DEF OutsideRun, OutsideTouch
<1>29. ASSUME NEW t \in TunnelNames, StartTunnel(t) PROVE FreshInv'
  BY <1>29 DEF StartTunnel, OutsideTouch
<1>30. CASE UNCHANGED vars
  BY <1>30
<1>31. CASE Requeue
  BY <1>31 DEF Requeue
<1> QED
  BY <1>1, <1>2, <1>3, <1>4, <1>5, <1>6, <1>7, <1>8, <1>9, <1>10, <1>11, <1>12,
     <1>13, <1>14, <1>15, <1>16, <1>17, <1>18, <1>19, <1>20, <1>21, <1>22,
     <1>23, <1>24, <1>25, <1>26, <1>27, <1>28, <1>29, <1>30, <1>31
  DEF Next, Reconcile, Environment

\* The one worker puts the finalizer on and takes it off between two reads of
\* the cache, so no pass works for a CR that is gone.
LEMMA LifeNext == TypeOK /\ PassInv /\ FreshInv /\ LifeInv /\ [Next]_vars => LifeInv'
<1> SUFFICES ASSUME TypeOK, PassInv, FreshInv, LifeInv, [Next]_vars PROVE LifeInv'
  OBVIOUS
<1> USE DEF vars, apiVars, hostVars, passVars, budgetVars, Pay, Return, Goto,
           TypeOK, DataOK, LifeInv, DeleteCalls, EnforceCalls, SyncCalls
<1>1. CASE Get
  BY <1>1 DEF Get
<1>2. CASE NoClient
  BY <1>2 DEF NoClient
<1>3. CASE DeleteTunnels
  BY <1>3 DEF DeleteTunnels
<1>4. CASE List
  BY <1>4 DEF List
<1>5. CASE CallFails
  BY <1>5 DEF CallFails
<1>6. CASE Gone
  BY <1>6 DEF Gone
<1>7. CASE ObserveRuntime
  BY <1>7 DEF ObserveRuntime
<1>8. CASE Inspect
  BY <1>8 DEF Inspect
<1>9. CASE Stop
  BY <1>9 DEF Stop
<1>10. CASE InspectNew
  BY <1>10 DEF InspectNew
<1>11. ASSUME NEW o \in Outcomes, AddFinalizer(o) PROVE LifeInv'
  <2>1. CASE cr' = cr
    BY <1>11, <2>1 DEF AddFinalizer, Update
  <2>2. CASE cr' # cr
    <3>1. cr' = [work EXCEPT !.finalizer = TRUE] /\ fresh /\ work \in CRs
      BY <1>11, <2>2 DEF AddFinalizer, Update
    <3>2. cr' # None
      BY <3>1, CRFields, NoneAssumption
    <3>3. cr'.finalizer
      BY <3>1 DEF CRs
    <3>4. cached = cr /\ ~cr.deleting
      BY <1>11, <3>1 DEF AddFinalizer, PassInv, FreshInv
    <3> QED BY <1>11, <3>2, <3>3, <3>4 DEF AddFinalizer, Update
  <2> QED BY <2>1, <2>2
<1>12. ASSUME NEW o \in Outcomes, DeleteContainer(o) PROVE LifeInv'
  BY <1>12 DEF DeleteContainer
<1>13. ASSUME NEW o \in Outcomes, RemoveFinalizer(o) PROVE LifeInv'
  BY <1>13 DEF RemoveFinalizer, Update, Refused, PassInv, FreshInv, CRs
<1>14. ASSUME NEW o \in Outcomes, Remove(o) PROVE LifeInv'
  BY <1>14 DEF Remove, OnContainer
<1>15. ASSUME NEW o \in Outcomes, Start(o) PROVE LifeInv'
  BY <1>15 DEF Start, OnContainer
<1>16. ASSUME NEW o \in Outcomes, Create(o) PROVE LifeInv'
  BY <1>16 DEF Create
<1>17. ASSUME NEW v \in SecretNames, NEW o \in Outcomes, Upload(v, o) PROVE LifeInv'
  BY <1>17 DEF Upload, OnContainer
<1>18. ASSUME NEW o \in Outcomes, StartNew(o) PROVE LifeInv'
  BY <1>18 DEF StartNew, OnContainer
<1>19. ASSUME NEW o \in Outcomes, WriteStatus(o) PROVE LifeInv'
  BY <1>19, NoneAssumption DEF WriteStatus, Update, PassInv, FreshInv, CRs
<1>20. CASE CacheSync
  BY <1>20 DEF CacheSync
<1>21. CASE DeleteCR
  <2>1. CASE cr.finalizer
    <3>1. cr \in CRs /\ cr' \in CRs
      BY <1>21, <2>1, CRFields DEF DeleteCR, UserWrite
    <3>2. cr' # None /\ cr'.deleting /\ cr'.finalizer
      BY <1>21, <2>1, <3>1, NoneAssumption DEF DeleteCR, UserWrite, CRs
    <3> QED BY <1>21, <2>1, <3>2 DEF DeleteCR, UserWrite
  <2>2. CASE ~cr.finalizer
    BY <1>21, <2>2 DEF DeleteCR, UserWrite
  <2> QED BY <2>1, <2>2
<1>22. CASE OutsideRemove
  BY <1>22 DEF OutsideRemove, OutsideTouch
<1>23. CASE OutsideStop
  BY <1>23 DEF OutsideStop, OutsideTouch
<1>24. CASE Crash
  BY <1>24 DEF Crash
<1>25. ASSUME NEW s \in Specs, EditSpec(s) PROVE LifeInv'
  <2>1. cr \in CRs /\ cr' \in CRs
    BY <1>25, CRFields DEF EditSpec, UserWrite
  <2>2. cr' # None /\ cr'.deleting = cr.deleting /\ cr'.finalizer = cr.finalizer
    BY <1>25, <2>1, NoneAssumption DEF EditSpec, UserWrite, CRs
  <2> QED BY <1>25, <2>2 DEF EditSpec, UserWrite
<1>26. ASSUME NEW m \in Modes, SetMode(m) PROVE LifeInv'
  <2>1. cr \in CRs /\ cr' \in CRs
    BY <1>26, CRFields DEF SetMode, UserWrite
  <2>2. cr' # None /\ cr'.deleting = cr.deleting /\ cr'.finalizer = cr.finalizer
    BY <1>26, <2>1, NoneAssumption DEF SetMode, UserWrite, CRs
  <2> QED BY <1>26, <2>2 DEF SetMode, UserWrite
<1>27. ASSUME NEW s \in Specs, NEW m \in Modes, CreateCR(s, m) PROVE LifeInv'
  BY <1>27 DEF CreateCR, UserWrite, CRs
<1>28. ASSUME NEW cfg \in Found, OutsideRun(cfg) PROVE LifeInv'
  BY <1>28 DEF OutsideRun, OutsideTouch
<1>29. ASSUME NEW t \in TunnelNames, StartTunnel(t) PROVE LifeInv'
  BY <1>29 DEF StartTunnel, OutsideTouch
<1>30. CASE UNCHANGED vars
  BY <1>30
<1>31. CASE Requeue
  BY <1>31 DEF Requeue
<1> QED
  BY <1>1, <1>2, <1>3, <1>4, <1>5, <1>6, <1>7, <1>8, <1>9, <1>10, <1>11, <1>12,
     <1>13, <1>14, <1>15, <1>16, <1>17, <1>18, <1>19, <1>20, <1>21, <1>22,
     <1>23, <1>24, <1>25, <1>26, <1>27, <1>28, <1>29, <1>30, <1>31
  DEF Next, Reconcile, Environment

\* Adoption is stored by a pass that read the current version: from then on
\* the cache holds no version from before.
LEMMA ObservedNext == TypeOK /\ PassInv /\ FreshInv /\ ObservedInv /\ [Next]_vars => ObservedInv'
<1> SUFFICES ASSUME TypeOK, PassInv, FreshInv, ObservedInv, [Next]_vars PROVE ObservedInv'
  OBVIOUS
<1> USE DEF vars, apiVars, hostVars, passVars, budgetVars, Pay, Return, Goto,
           TypeOK, DataOK, ObservedInv
<1>1. CASE Get
  BY <1>1 DEF Get
<1>2. CASE NoClient
  BY <1>2 DEF NoClient
<1>3. CASE DeleteTunnels
  BY <1>3 DEF DeleteTunnels
<1>4. CASE List
  BY <1>4 DEF List, PassInv, FreshInv, CRs, managementModeFor, DeleteCalls,
     SyncCalls, EnforceCalls
<1>5. CASE CallFails
  BY <1>5 DEF CallFails
<1>6. CASE Gone
  BY <1>6 DEF Gone
<1>7. CASE ObserveRuntime
  BY <1>7 DEF ObserveRuntime, PassInv, FreshInv, CRs, managementModeFor,
     DeleteCalls, SyncCalls, EnforceCalls
<1>8. CASE Inspect
  BY <1>8 DEF Inspect, PassInv, FreshInv, CRs, managementModeFor, DeleteCalls,
     SyncCalls, EnforceCalls
<1>9. CASE Stop
  BY <1>9 DEF Stop
<1>10. CASE InspectNew
  BY <1>10 DEF InspectNew, PassInv, FreshInv, CRs, managementModeFor,
     DeleteCalls, SyncCalls, EnforceCalls
<1>11. ASSUME NEW o \in Outcomes, AddFinalizer(o) PROVE ObservedInv'
  BY <1>11 DEF AddFinalizer, Update, Refused, PassInv, FreshInv, CRs,
     managementModeFor, DeleteCalls, SyncCalls, EnforceCalls
<1>12. ASSUME NEW o \in Outcomes, DeleteContainer(o) PROVE ObservedInv'
  BY <1>12 DEF DeleteContainer
<1>13. ASSUME NEW o \in Outcomes, RemoveFinalizer(o) PROVE ObservedInv'
  BY <1>13 DEF RemoveFinalizer, Update, Refused, PassInv, FreshInv, CRs,
     managementModeFor, DeleteCalls, SyncCalls, EnforceCalls
<1>14. ASSUME NEW o \in Outcomes, Remove(o) PROVE ObservedInv'
  BY <1>14 DEF Remove, OnContainer
<1>15. ASSUME NEW o \in Outcomes, Start(o) PROVE ObservedInv'
  BY <1>15 DEF Start, OnContainer
<1>16. ASSUME NEW o \in Outcomes, Create(o) PROVE ObservedInv'
  BY <1>16 DEF Create
<1>17. ASSUME NEW v \in SecretNames, NEW o \in Outcomes, Upload(v, o) PROVE ObservedInv'
  BY <1>17 DEF Upload, OnContainer
<1>18. ASSUME NEW o \in Outcomes, StartNew(o) PROVE ObservedInv'
  BY <1>18 DEF StartNew, OnContainer
<1>19. ASSUME NEW o \in Outcomes, WriteStatus(o) PROVE ObservedInv'
  BY <1>19 DEF WriteStatus, Update, PassInv, FreshInv, CRs, managementModeFor,
     DeleteCalls, SyncCalls, EnforceCalls
<1>20. CASE CacheSync
  BY <1>20 DEF CacheSync
<1>21. CASE DeleteCR
  BY <1>21 DEF DeleteCR, UserWrite, PassInv, FreshInv, CRs, managementModeFor,
     DeleteCalls, SyncCalls, EnforceCalls
<1>22. CASE OutsideRemove
  BY <1>22 DEF OutsideRemove, OutsideTouch
<1>23. CASE OutsideStop
  BY <1>23 DEF OutsideStop, OutsideTouch
<1>24. CASE Crash
  BY <1>24 DEF Crash
<1>25. ASSUME NEW s \in Specs, EditSpec(s) PROVE ObservedInv'
  BY <1>25 DEF EditSpec, UserWrite, PassInv, FreshInv, CRs, managementModeFor,
     DeleteCalls, SyncCalls, EnforceCalls
<1>26. ASSUME NEW m \in Modes, SetMode(m) PROVE ObservedInv'
  BY <1>26 DEF SetMode, UserWrite, PassInv, FreshInv, CRs, managementModeFor,
     DeleteCalls, SyncCalls, EnforceCalls
<1>27. ASSUME NEW s \in Specs, NEW m \in Modes, CreateCR(s, m) PROVE ObservedInv'
  BY <1>27 DEF CreateCR, UserWrite, PassInv, FreshInv, CRs, managementModeFor,
     DeleteCalls, SyncCalls, EnforceCalls
<1>28. ASSUME NEW cfg \in Found, OutsideRun(cfg) PROVE ObservedInv'
  BY <1>28 DEF OutsideRun, OutsideTouch
<1>29. ASSUME NEW t \in TunnelNames, StartTunnel(t) PROVE ObservedInv'
  BY <1>29 DEF StartTunnel, OutsideTouch
<1>30. CASE UNCHANGED vars
  BY <1>30
<1>31. CASE Requeue
  BY <1>31 DEF Requeue
<1> QED
  BY <1>1, <1>2, <1>3, <1>4, <1>5, <1>6, <1>7, <1>8, <1>9, <1>10, <1>11, <1>12,
     <1>13, <1>14, <1>15, <1>16, <1>17, <1>18, <1>19, <1>20, <1>21, <1>22,
     <1>23, <1>24, <1>25, <1>26, <1>27, <1>28, <1>29, <1>30, <1>31
  DEF Next, Reconcile, Environment

\* No write of a user's takes the finalizer off.
LEMMA FinalizerKept ==
  ASSUME NEW c \in CRs, c.finalizer
  PROVE  /\ c # None
         /\ \A s \in Specs : [c EXCEPT !.spec = s] # None /\ [c EXCEPT !.spec = s].finalizer
         /\ \A m \in Modes : [c EXCEPT !.mode = m] # None /\ [c EXCEPT !.mode = m].finalizer
         /\ [c EXCEPT !.deleting = TRUE] # None /\ [c EXCEPT !.deleting = TRUE].finalizer
<1>1. /\ \A s \in Specs : [c EXCEPT !.spec = s].finalizer
      /\ \A m \in Modes : [c EXCEPT !.mode = m].finalizer
      /\ [c EXCEPT !.deleting = TRUE].finalizer
  BY DEF CRs
<1> QED BY <1>1, CRFields, NoneAssumption

\* Without failing calls the container is removed before the finalizer.
LEMMA OrphanNext ==
  ASSUME Modes = {"Enforce"}, TypeOK, PassInv, FreshInv, LifeInv, OrphanInv, [Next]_vars
  PROVE  OrphanInv'
<1> USE DEF vars, apiVars, hostVars, passVars, budgetVars, Pay, Return, Goto,
           TypeOK, DataOK, OrphanInv
<1>1. CASE Get
  BY <1>1 DEF Get
<1>2. CASE NoClient
  BY <1>2 DEF NoClient
<1>3. CASE DeleteTunnels
  BY <1>3 DEF DeleteTunnels
<1>4. CASE List
  BY <1>4 DEF List
<1>5. CASE CallFails
  BY <1>5 DEF CallFails
<1>6. CASE Gone
  BY <1>6 DEF Gone
<1>7. CASE ObserveRuntime
  BY <1>7 DEF ObserveRuntime
<1>8. CASE Inspect
  BY <1>8 DEF Inspect
<1>9. CASE Stop
  BY <1>9 DEF Stop, Reached, Containers
<1>10. CASE InspectNew
  BY <1>10 DEF InspectNew
<1>11. ASSUME NEW o \in Outcomes, AddFinalizer(o) PROVE OrphanInv'
  <2>1. work \in CRs
    BY <1>11 DEF AddFinalizer
  <2>2. [work EXCEPT !.finalizer = TRUE] # None
    BY <2>1, CRFields, NoneAssumption
  <2>3. [work EXCEPT !.finalizer = TRUE].finalizer
    BY <2>1 DEF CRs
  <2>4. cr' = cr \/ cr' = [work EXCEPT !.finalizer = TRUE]
    BY <1>11 DEF AddFinalizer, Update
  <2>5. faults' = 0 => faults = 0
    BY <1>11 DEF AddFinalizer, Update
  <2>6. ctr' = ctr /\ pc' = "idle"
    BY <1>11 DEF AddFinalizer
  <2> QED BY <2>2, <2>3, <2>4, <2>5, <2>6
<1>12. ASSUME NEW o \in Outcomes, DeleteContainer(o) PROVE OrphanInv'
  BY <1>12 DEF DeleteContainer, shouldSkipRuntimeDeletion, managementModeFor,
     CRs
<1>13. ASSUME NEW o \in Outcomes, RemoveFinalizer(o) PROVE OrphanInv'
  BY <1>13 DEF RemoveFinalizer, Update, Refused
<1>14. ASSUME NEW o \in Outcomes, Remove(o) PROVE OrphanInv'
  BY <1>14 DEF Remove, OnContainer
<1>15. ASSUME NEW o \in Outcomes, Start(o) PROVE OrphanInv'
  BY <1>15 DEF Start, OnContainer, Reached, Containers
<1>16. ASSUME NEW o \in Outcomes, Create(o) PROVE OrphanInv'
  BY <1>16 DEF Create, NewContainer, LifeInv, SyncCalls, EnforceCalls
<1>17. ASSUME NEW v \in SecretNames, NEW o \in Outcomes, Upload(v, o) PROVE OrphanInv'
  BY <1>17 DEF Upload, OnContainer, Reached, Containers
<1>18. ASSUME NEW o \in Outcomes, StartNew(o) PROVE OrphanInv'
  BY <1>18 DEF StartNew, OnContainer, Reached, Containers
<1>19. ASSUME NEW o \in Outcomes, WriteStatus(o) PROVE OrphanInv'
  <2>1. work # None /\ work.finalizer
    BY <1>19, NoneAssumption DEF WriteStatus, PassInv, SyncCalls
  <2> QED BY <1>19, <2>1 DEF WriteStatus, Update
<1>20. CASE CacheSync
  BY <1>20 DEF CacheSync
<1>21. CASE DeleteCR
  BY <1>21, FinalizerKept DEF DeleteCR, UserWrite
<1>22. CASE OutsideRemove
  BY <1>22 DEF OutsideRemove, OutsideTouch
<1>23. CASE OutsideStop
  BY <1>23 DEF OutsideStop, OutsideTouch, Containers
<1>24. CASE Crash
  BY <1>24 DEF Crash
<1>25. ASSUME NEW s \in Specs, EditSpec(s) PROVE OrphanInv'
  BY <1>25, FinalizerKept DEF EditSpec, UserWrite
<1>26. ASSUME NEW m \in Modes, SetMode(m) PROVE OrphanInv'
  BY <1>26, FinalizerKept DEF SetMode, UserWrite
<1>27. ASSUME NEW s \in Specs, NEW m \in Modes, CreateCR(s, m) PROVE OrphanInv'
  BY <1>27 DEF CreateCR, UserWrite
<1>28. ASSUME NEW cfg \in Found, OutsideRun(cfg) PROVE OrphanInv'
  BY <1>28 DEF OutsideRun, OutsideTouch
<1>29. ASSUME NEW t \in TunnelNames, StartTunnel(t) PROVE OrphanInv'
  BY <1>29 DEF StartTunnel, OutsideTouch
<1>30. CASE UNCHANGED vars
  BY <1>30
<1>31. CASE Requeue
  BY <1>31 DEF Requeue
<1> QED
  BY <1>1, <1>2, <1>3, <1>4, <1>5, <1>6, <1>7, <1>8, <1>9, <1>10, <1>11, <1>12,
     <1>13, <1>14, <1>15, <1>16, <1>17, <1>18, <1>19, <1>20, <1>21, <1>22,
     <1>23, <1>24, <1>25, <1>26, <1>27, <1>28, <1>29, <1>30, <1>31
  DEF Next, Reconcile, Environment

\* A new state or an upload changes nothing else of a container.
LEMMA ContainerKept ==
  ASSUME NEW c \in Containers
  PROVE  /\ \A st \in States :
              LET d == [c EXCEPT !.state = st]
              IN  d.owner = c.owner /\ d.missing = c.missing /\ d.state = st /\ d.id = c.id
         /\ \A m \in SUBSET SecretNames :
              LET d == [c EXCEPT !.missing = m]
              IN  d.owner = c.owner /\ d.missing = m /\ d.state = c.state /\ d.id = c.id
  BY DEF Containers

\* A pass that creates a container uploads its Secrets before anything else
\* happens to it; if it cannot, the container is one whose create ended early.
LEMMA SecretsNext == TypeOK /\ IdsInv /\ SecretsInv /\ [Next]_vars => SecretsInv'
<1> SUFFICES ASSUME TypeOK, IdsInv, SecretsInv, [Next]_vars
             PROVE  SecretsInv'
  OBVIOUS
<1> USE DEF vars, apiVars, hostVars, passVars, budgetVars, Pay, Return, Goto, TypeOK,
           DataOK, Reached
<1>1. ASSUME UNCHANGED <<ctr, interrupted>>, pc # "upload" PROVE SecretsInv'
  BY <1>1 DEF SecretsInv
<1>2. ASSUME UNCHANGED <<ctr, interrupted, pc, match>> PROVE SecretsInv'
  BY <1>2 DEF SecretsInv
<1>3. ASSUME Get \/ List \/ Gone \/ ObserveRuntime \/ Inspect \/ InspectNew PROVE SecretsInv'
  BY <1>1, <1>3 DEF Get, List, Gone, ObserveRuntime, Inspect, InspectNew
<1>4. ASSUME NoClient \/ CallFails \/ DeleteTunnels PROVE SecretsInv'
  BY <1>1, <1>4 DEF NoClient, CallFails, DeleteTunnels
<1>5. ASSUME NEW o \in Outcomes, AddFinalizer(o) \/ RemoveFinalizer(o) \/ WriteStatus(o)
      PROVE  SecretsInv'
  BY <1>1, <1>5 DEF AddFinalizer, RemoveFinalizer, WriteStatus, Update
\* The container stays as it is but for its state, or goes.
<1>6. ASSUME UNCHANGED interrupted, pc # "upload",
             \/ ctr' \in {ctr, None}
             \/ ctr # None /\ \E st \in States : ctr' = [ctr EXCEPT !.state = st]
      PROVE  SecretsInv'
  <2>1. ctr' # None => /\ ctr # None /\ ctr'.owner = ctr.owner
                       /\ ctr'.missing = ctr.missing /\ ctr'.id = ctr.id
    BY <1>6, ContainerKept, ZenonT(40)
  <2> QED BY <1>6, <2>1 DEF SecretsInv
<1>7. CASE Stop
  <2>1. /\ pc = "stop" /\ UNCHANGED interrupted
        /\ ctr' = ctr \/ (ctr # None /\ ctr' = [ctr EXCEPT !.state = "exited"])
    BY <1>7 DEF Stop
  <2> QED BY <1>6, <2>1 DEF States
<1>8. ASSUME NEW o \in Outcomes, DeleteContainer(o) \/ Remove(o) PROVE SecretsInv'
  <2>1. ctr' \in {ctr, None} /\ UNCHANGED interrupted /\ pc # "upload"
    BY <1>8 DEF DeleteContainer, Remove, OnContainer
  <2> QED BY <1>6, <2>1
<1>9. ASSUME NEW o \in Outcomes, Start(o) \/ StartNew(o) PROVE SecretsInv'
  <2>1. /\ UNCHANGED interrupted /\ pc # "upload"
        /\ ctr' = ctr \/ (ctr # None /\ ctr' = [ctr EXCEPT !.state = "running"])
    BY <1>9 DEF Start, StartNew, OnContainer
  <2> QED BY <1>6, <2>1 DEF States
<1>10. ASSUME NEW o \in Outcomes, Create(o) PROVE SecretsInv'
  <2>1. pc = "create" /\ interrupted \subseteq interrupted'
    BY <1>10 DEF Create
  <2>2. CASE UNCHANGED ctr
    BY <2>1, <2>2 DEF SecretsInv
  <2>3. CASE ctr' = NewContainer /\ ctr' # ctr
    <3>1. /\ NewContainer.state = "created" /\ Seen(NewContainer).id = NewContainer.id
          /\ NewContainer.missing = work.spec.secretVolumes /\ NewContainer.id = lastId + 1
      BY DEF NewContainer, Seen
    <3>2. Seen(NewContainer) # None
      <4>1. work.spec \in Specs
        BY <2>1 DEF CRs
      <4> QED BY <4>1, MadeIsSeen
    <3>3. CASE work.spec.secretVolumes = {}
      BY <2>3, <3>1, <3>3 DEF SecretsInv
    <3>4. CASE work.spec.secretVolumes # {} /\ o = "ok"
      <4>1. match' = Seen(NewContainer) /\ pc' = "upload"
        BY <1>10, <2>3, <3>4 DEF Create
      <4> QED BY <2>3, <3>1, <3>2, <4>1 DEF SecretsInv
    <3>5. CASE work.spec.secretVolumes # {} /\ o # "ok"
      <4>1. lastId + 1 \in interrupted'
        BY <1>10, <2>3, <3>5 DEF Create, Outcomes
      <4> QED BY <2>3, <3>1, <4>1 DEF SecretsInv
    <3> QED BY <3>3, <3>4, <3>5
  <2> QED BY <1>10, <2>2, <2>3 DEF Create
<1>11. ASSUME NEW v \in SecretNames, NEW o \in Outcomes, Upload(v, o) PROVE SecretsInv'
  <2>1. /\ pc = "upload" /\ interrupted \subseteq interrupted'
        /\ ctr' = IF Reached /\ o # "fail" THEN [ctr EXCEPT !.missing = ctr.missing \ {v}] ELSE ctr
    BY <1>11 DEF Upload, OnContainer
  <2>2. CASE ~Reached
    BY <2>1, <2>2 DEF SecretsInv
  <2>3. CASE Reached
    <3>1. ctr \in Containers /\ ctr.missing \ {v} \in SUBSET SecretNames
      BY <2>3, ContainerFields
    <3>2. /\ ctr'.id = ctr.id /\ ctr'.state = ctr.state /\ ctr'.owner = ctr.owner
          /\ o # "fail" => ctr'.missing = ctr.missing \ {v}
      <4>1. CASE o = "fail"
        BY <2>1, <4>1
      <4>2. CASE o # "fail"
        BY <2>1, <2>3, <3>1, <4>2, ContainerKept
      <4> QED BY <4>1, <4>2
    <3>3. CASE o # "ok"
      <4>1. match.id \in interrupted'
        BY <1>11, <3>3 DEF Upload, OnContainer
      <4> QED BY <2>3, <3>2, <4>1 DEF SecretsInv
    <3>4. CASE o = "ok" /\ ctr.missing = {v}
      <4>1. ctr'.missing = {}
        BY <3>2, <3>4
      <4> QED BY <4>1 DEF SecretsInv
    <3>5. CASE o = "ok" /\ ctr.missing # {v}
      <4>1. pc' = "upload" /\ UNCHANGED match /\ v \in ctr.missing
        BY <1>11, <2>3, <3>5 DEF Upload, OnContainer
      <4>2. ctr # None /\ ctr' # None => Reached'
        BY <2>3, <3>2, <4>1
      <4> QED BY <2>1, <2>3, <3>2, <4>1, <4>2 DEF SecretsInv
    <3> QED BY <3>3, <3>4, <3>5
  <2> QED BY <2>2, <2>3
<1>12. ASSUME CacheSync \/ Requeue PROVE SecretsInv'
  BY <1>2, <1>12 DEF CacheSync, Requeue
<1>13. ASSUME NEW new, UserWrite(new) PROVE SecretsInv'
  BY <1>2, <1>13 DEF UserWrite
<1>14. CASE OutsideRemove
  BY <1>14 DEF OutsideRemove, OutsideTouch, SecretsInv
<1>15. CASE OutsideStop
  <2>1. /\ ctr # None /\ ctr.state = "running" /\ ctr' = [ctr EXCEPT !.state = "exited"]
        /\ UNCHANGED <<interrupted, pc, match>>
    BY <1>15 DEF OutsideStop, OutsideTouch
  <2> QED BY <2>1, ContainerKept DEF SecretsInv, States
<1>16. ASSUME NEW cfg \in Found, OutsideRun(cfg) PROVE SecretsInv'
  BY <1>16 DEF OutsideRun, OutsideTouch, SecretsInv
<1>17. ASSUME NEW t \in TunnelNames, StartTunnel(t) PROVE SecretsInv'
  BY <1>2, <1>17 DEF StartTunnel, OutsideTouch
<1>18. CASE Crash
  <2>1. /\ UNCHANGED ctr /\ interrupted \subseteq interrupted'
        /\ pc = "upload" => match.id \in interrupted'
    BY <1>18 DEF Crash
  <2> QED BY <2>1 DEF SecretsInv
<1>19. CASE UNCHANGED vars
  BY <1>2, <1>19
<1> QED
  BY <1>3, <1>4, <1>5, <1>7, <1>8, <1>9, <1>10, <1>11, <1>12, <1>13, <1>14,
     <1>15, <1>16, <1>17, <1>18, <1>19
  DEF Next, Reconcile, Environment, DeleteCR, EditSpec, SetMode, CreateCR

-----------------------------------------------------------------------------
(* Theorems.                                                               *)

\* Only the host's other users change the container without the operator.
LEMMA OthersAreCounted ==
  ASSUME TypeOK, Environment, ByOperator
  PROVE  ctr' = ctr
<1> USE DEF hostVars, ByOperator
<1>1. outside \in Nat
  BY DEF TypeOK, DataOK
<1>2. ~(\E c, ts : OutsideTouch(c, ts))
  BY <1>1 DEF OutsideTouch
<1>3. ~OutsideRemove /\ ~OutsideStop
  BY <1>2 DEF OutsideRemove, OutsideStop
<1>4. ~(\E cfg \in Found : OutsideRun(cfg)) /\ ~(\E t \in TunnelNames : StartTunnel(t))
  BY <1>2 DEF OutsideRun, StartTunnel
<1>5. ASSUME NEW new, UserWrite(new) PROVE ctr' = ctr
  BY <1>5 DEF UserWrite
<1>6. Crash => ctr' = ctr
  BY DEF Crash
<1> QED
  BY <1>3, <1>4, <1>5, <1>6 DEF Environment, DeleteCR, EditSpec, SetMode, CreateCR

IInv == TypeOK /\ IdsInv /\ PassInv /\ DriftInv /\ FreshInv /\ LifeInv /\ ObservedInv

\* The parts together are inductive; none of them is alone.
THEOREM Inductive == Spec => []IInv
<1>1. Init => IInv
  <2> SUFFICES ASSUME Init PROVE IInv
    OBVIOUS
  <2>1. TypeOK
    BY TypeInit
  <2>2. IdsInv
    BY DEF Init, IdsInv
  <2>3. PassInv /\ DriftInv /\ FreshInv /\ LifeInv /\ ObservedInv
    BY DEF Init, PassInv, DriftInv, FreshInv, LifeInv, ObservedInv,
           DeleteCalls, EnforceCalls, SyncCalls
  <2> QED BY <2>1, <2>2, <2>3 DEF IInv
<1>2. IInv /\ [Next]_vars => IInv'
  BY DataNext, FlagsNext, IdsNext, PassNext, DriftNext, FreshNext, LifeNext, ObservedNext
  DEF IInv, TypeOK
<1> QED BY <1>1, <1>2, PTL DEF Spec

\* Type correctness: a pass between two calls has a CR to work on, and every
\* record the API server or the daemon holds is well formed.
THEOREM TypeCorrect == Spec => []TypeOK
<1>1. IInv => TypeOK
  BY DEF IInv
<1> QED BY <1>1, Inductive, PTL

\* What sync removes differs from the spec its pass read.
THEOREM RemovesOnlyDriftedTheorem == Spec => RemovesOnlyDrifted
<1>1. IInv /\ [Next]_vars => [DriftStep]_vars
  <2> SUFFICES ASSUME IInv, [Next]_vars, pc = "remove", ctr # None, ctr' # ctr, ByOperator
               PROVE  managementModeFor(work) = "Enforce" /\ needsRecreate(ctr.cfg, work.spec)
    BY DEF DriftStep
  <2>1. managementModeFor(work) = "Enforce"
    BY DEF IInv, PassInv, EnforceCalls
  <2>2. PICK o \in Outcomes : Remove(o)
    <3> USE DEF vars, apiVars, hostVars, passVars, budgetVars, ByOperator
    <3>1. ~Environment /\ ~CacheSync /\ ~Requeue
      BY OthersAreCounted DEF IInv, CacheSync, Requeue
    <3>2. Reconcile
      BY <3>1 DEF Next
    <3> QED
      BY <3>2 DEF Reconcile, Get, NoClient, DeleteTunnels, List, CallFails, Gone,
           ObserveRuntime, Inspect, Stop, InspectNew, AddFinalizer, DeleteContainer,
           RemoveFinalizer, Start, Create, Upload, StartNew, WriteStatus
  <2>3. Reached
    BY <2>2 DEF Remove, OnContainer
  <2>4. needsRecreate(ctr.cfg, work.spec)
    BY <2>3 DEF Reached, IInv, DriftInv
  <2> QED BY <2>1, <2>4
<1> QED BY <1>1, Inductive, PTL DEF Spec, RemovesOnlyDrifted

\* Under a CR that was never enforced and has been observed once, no step of
\* the operator changes the container, for any lag of the cache.
THEOREM ObservedIsLeftAloneTheorem == Spec => ObservedIsLeftAlone
<1>1. IInv /\ [Next]_vars => [ObservedStep]_vars
  <2> SUFFICES ASSUME IInv, [Next]_vars, cr # None, observeOnly, cr.adopted, ByOperator
               PROVE  ctr' = ctr
    BY DEF ObservedStep
  <2> USE DEF vars, apiVars, hostVars, passVars, budgetVars, ByOperator
  <2>1. pc # "idle" => managementModeFor(work) = "Observe"
    BY DEF IInv, ObservedInv
  <2>2. pc \notin EnforceCalls
    BY <2>1 DEF IInv, PassInv, EnforceCalls
  <2>3. pc = "delete" => shouldSkipRuntimeDeletion(work)
    BY <2>1 DEF IInv, ObservedInv, shouldSkipRuntimeDeletion
  <2>4. CASE Reconcile
    BY <2>2, <2>3, <2>4 DEF EnforceCalls, Reconcile, Get, NoClient, DeleteTunnels, List,
         CallFails, Gone, ObserveRuntime, Inspect, Stop, InspectNew, AddFinalizer,
         DeleteContainer, RemoveFinalizer, Remove, Start, Create, Upload, StartNew,
         WriteStatus
  <2>5. CASE Environment
    BY <2>5, OthersAreCounted DEF IInv
  <2>6. CASE CacheSync
    BY <2>6 DEF CacheSync
  <2>7. CASE Requeue
    BY <2>7 DEF Requeue
  <2> QED BY <2>4, <2>5, <2>6, <2>7 DEF Next
<1> QED BY <1>1, Inductive, PTL DEF Spec, ObservedIsLeftAlone

\* Where every CR is enforced and no call failed, no container of the
\* operator's outlives its CR.
THEOREM NoOrphanTheorem ==
  ASSUME Modes = {"Enforce"}
  PROVE  Spec => []NoOrphan
<1>1. Init => OrphanInv
  BY DEF Init, OrphanInv
<1>2. IInv /\ OrphanInv /\ [Next]_vars => OrphanInv'
  BY OrphanNext DEF IInv
<1>3. OrphanInv => NoOrphan
  BY DEF OrphanInv, NoOrphan
<1> QED BY <1>1, <1>2, <1>3, Inductive, PTL DEF Spec

\* A container of the operator's that runs has the Secrets of the spec it was
\* created from, for any specs and any edits of their secretVolumes, outside
\* steps, failures and restarts, unless its own create ended before the last
\* upload.
THEOREM SecretsUnlessInterruptedTheorem == Spec => []SecretsUnlessInterrupted
<1>1. Init => SecretsInv
  BY DEF Init, SecretsInv
<1>2. IInv /\ SecretsInv /\ [Next]_vars => SecretsInv'
  BY SecretsNext DEF IInv
<1>3. SecretsInv => SecretsUnlessInterrupted
  BY DEF SecretsInv, SecretsUnlessInterrupted
<1> QED BY <1>1, <1>2, <1>3, Inductive, PTL DEF Spec
=============================================================================
