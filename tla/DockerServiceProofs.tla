------------------------- MODULE DockerServiceProofs -------------------------
(***************************************************************************)
(* Proofs, for any containers, hosts, specs and bounds, that everybody has  *)
(* the one token and that a service that is gone left no tunnel client.     *)
(***************************************************************************)
EXTENDS DockerService, TLAPS

-----------------------------------------------------------------------------
(* The steps of a pass that reconciles server and client leave the service, *)
(* the containers and most of the pass alone.                               *)

Steps == {"svc", "secret", "cm", "dep", "rep", "clientSecret", "client",
          "remove", "create", "start", "restart", "connect"}

\* The calls of reconcileTunnelServer and reconcileTunnelClient.
StepAction ==
  \/ TargetMissing
  \/ \E o \in Outcomes :
       \/ \E current \in BOOLEAN :
            \/ ReconcileService(o, current) \/ ServerSecret(o, current)
            \/ ReconcileConfigMap(o, current) \/ ReconcileDeployment(o, current)
            \/ ClientSecret(o, current)
       \/ InspectTarget(o) \/ InspectClient(o)
       \/ RemoveClient(o) \/ CreateClient(o) \/ StartClient(o) \/ ConnectClient(o)

StepFrame ==
  /\ UNCHANGED <<ds, dsCache, dsFresh, dcs, dcCache, image, work, fresh, list, first,
                 todo, uids, deselected>>
  /\ pc \in Steps /\ pc' \in Steps \cup {"status"}
  /\ pc' = "status" => report'.status \in Status /\ report'.again \in BOOLEAN
  /\ faulted => faulted'

PassSame == UNCHANGED <<work, fresh, list, first, todo>>

\* Error, Active and Pending end the calls of a pass with a status.
LEMMA Reports ==
  ASSUME list \in Lists, NEW url \in BOOLEAN, Error(url) \/ Active \/ Pending
  PROVE  /\ pc' = "status" /\ PassSame /\ UNCHANGED token
         /\ report'.status \in Status /\ report'.again \in BOOLEAN
<1>1. ASSUME NEW phase \in {"", "Pending", "Active", "Error"}, NEW n \in {0, 1},
             NEW u \in BOOLEAN, NEW text \in {"", "none", "waiting", "ready", "error", "invalid"},
             NEW l \in Lists, Report(phase, n, u, Message(text, l), TRUE)
      PROVE  /\ pc' = "status" /\ PassSame /\ UNCHANGED token
             /\ report'.status \in Status /\ report'.again \in BOOLEAN
  <2>1. report' = [status |-> [phase |-> phase, clients |-> n, url |-> u,
                               msg |-> [text |-> text, targets |-> l]], again |-> TRUE]
    BY <1>1 DEF Report, Message
  <2>2. [phase |-> phase, clients |-> n, url |-> u, msg |-> [text |-> text, targets |-> l]]
          \in Status
    BY DEF Status
  <2>3. pc' = "status" /\ PassSame /\ UNCHANGED token
    BY <1>1 DEF Report, PassSame
  <2>4. /\ report'.status = [phase |-> phase, clients |-> n, url |-> u,
                             msg |-> [text |-> text, targets |-> l]]
        /\ report'.again = TRUE
    BY <2>1
  <2> QED BY <2>2, <2>3, <2>4
<1>2. <<>> \in Lists
  BY DEF Lists
<1> QED BY <1>1, <1>2 DEF Error, Active, Pending

\* The calls of a pass between Get and its end keep its copies, and its last
\* one has a status to write.
LEMMA StepsKeepFrame ==
  ASSUME list \in Lists, StepAction
  PROVE  StepFrame
<1> DEFINE Moves == /\ PassSame /\ pc \in Steps /\ pc' \in Steps \cup {"status"}
                    /\ pc' = "status" => report'.status \in Status /\ report'.again \in BOOLEAN
<1>1. ASSUME NEW step \in Steps, Goto(step) PROVE PassSame /\ pc' \in Steps
  BY <1>1 DEF Goto, PassSame
<1>2. ASSUME NEW url \in BOOLEAN, Error(url) \/ Active \/ Pending
      PROVE  /\ PassSame /\ pc' = "status"
             /\ report'.status \in Status /\ report'.again \in BOOLEAN
  BY <1>2, Reports
<1>3. ASSUME NEW o, NEW current, Pay(o, current)
      PROVE  UNCHANGED <<deselected, uids>> /\ (faulted => faulted')
  BY <1>3 DEF Pay, Suffer
<1>4. \A s \in Steps : s # "status"
  BY DEF Steps
<1>5. /\ {"svc", "secret", "cm", "dep", "rep", "clientSecret", "client",
          "remove", "create", "start", "restart", "connect"} \subseteq Steps
      /\ TRUE \in BOOLEAN /\ FALSE \in BOOLEAN
  BY DEF Steps
<1>6. ASSUME NEW step \in Steps, NEW url \in BOOLEAN, pc \in Steps,
             Goto(step) \/ Error(url) \/ Active \/ Pending
      PROVE  Moves
  BY <1>6, <1>1, <1>2, <1>4
<1> HIDE DEF Moves
<1>10. CASE TargetMissing
  <2>1. Moves
    BY <1>10, <1>5, <1>6 DEF TargetMissing
  <2> QED BY <1>10, <2>1 DEF TargetMissing, Suffer, apiVars, dcVars, StepFrame, Moves, PassSame
<1>11. ASSUME NEW o \in Outcomes, NEW current \in BOOLEAN, ReconcileService(o, current)
       PROVE  StepFrame
  <2>1. Moves
    BY <1>11, <1>5, <1>6 DEF ReconcileService
  <2>2. Pay(o, current)
    BY <1>11 DEF ReconcileService, CreateOrUpdate
  <2> QED BY <1>11, <2>1, <2>2, <1>3
          DEF ReconcileService, apiVars, dcVars, StepFrame, Moves, PassSame
<1>12. ASSUME NEW o \in Outcomes, NEW current \in BOOLEAN, NEW next \in Steps, NEW url \in BOOLEAN,
              pc \in Steps, EnsureTunnelAuthSecret(o, current, next, url)
       PROVE  Moves /\ Pay(o, current)
  <2>1. CASE pc' = next /\ UNCHANGED <<queued, work, fresh, list, first, todo, report>>
    BY <1>12, <2>1, <1>4 DEF EnsureTunnelAuthSecret, Moves, PassSame
  <2>2. CASE Error(url)
    BY <1>12, <2>2, <1>6 DEF EnsureTunnelAuthSecret
  <2> QED BY <1>12, <2>1, <2>2 DEF EnsureTunnelAuthSecret
<1>13. ASSUME NEW o \in Outcomes, NEW current \in BOOLEAN, ServerSecret(o, current)
       PROVE  StepFrame
  <2>1. Moves /\ Pay(o, current)
    BY <1>13, <1>5, <1>12 DEF ServerSecret
  <2> QED BY <1>13, <2>1, <1>3 DEF ServerSecret, apiVars, dcVars, StepFrame, Moves, PassSame
<1>14. ASSUME NEW o \in Outcomes, NEW current \in BOOLEAN, ClientSecret(o, current)
       PROVE  StepFrame
  <2>1. Moves /\ Pay(o, current)
    BY <1>14, <1>5, <1>12 DEF ClientSecret
  <2> QED BY <1>14, <2>1, <1>3 DEF ClientSecret, apiVars, dcVars, StepFrame, Moves, PassSame
<1>15. ASSUME NEW o \in Outcomes, NEW current \in BOOLEAN, ReconcileConfigMap(o, current)
       PROVE  StepFrame
  <2>1. Moves
    BY <1>15, <1>5, <1>6 DEF ReconcileConfigMap
  <2>2. Pay(o, current)
    BY <1>15 DEF ReconcileConfigMap, CreateOrUpdate
  <2> QED BY <1>15, <2>1, <2>2, <1>3
          DEF ReconcileConfigMap, apiVars, dcVars, StepFrame, Moves, PassSame
<1>16. ASSUME NEW o \in Outcomes, NEW current \in BOOLEAN, ReconcileDeployment(o, current)
       PROVE  StepFrame
  <2>1. Moves
    BY <1>16, <1>5, <1>6 DEF ReconcileDeployment
  <2>2. Pay(o, current)
    BY <1>16 DEF ReconcileDeployment, CreateOrUpdate
  <2> QED BY <1>16, <2>1, <2>2, <1>3
          DEF ReconcileDeployment, apiVars, dcVars, StepFrame, Moves, PassSame
<1>17. ASSUME NEW o \in Outcomes, InspectTarget(o)
       PROVE  StepFrame
  <2>1. Moves
    BY <1>17, <1>5, <1>6 DEF InspectTarget
  <2> QED BY <1>17, <2>1, <1>3 DEF InspectTarget, apiVars, dcVars, StepFrame, Moves, PassSame
<1>18. ASSUME NEW o \in Outcomes, InspectClient(o)
       PROVE  StepFrame
  <2>1. ClientStep(clients[host]) \in {"create", "remove", "keep", "restart"}
    BY DEF ClientStep
  <2>2. Moves
    BY <1>18, <2>1, <1>5, <1>6 DEF InspectClient
  <2> QED BY <1>18, <2>2, <1>3 DEF InspectClient, apiVars, dcVars, StepFrame, Moves, PassSame
<1>19. ASSUME NEW o \in Outcomes, RemoveClient(o) \/ CreateClient(o) \/ StartClient(o) \/ ConnectClient(o)
       PROVE  StepFrame
  <2>1. Moves
    BY <1>19, <1>5, <1>6 DEF RemoveClient, CreateClient, StartClient, ConnectClient, ClientCall
  <2>2. \E step, new : ClientCall(step, o, new)
    BY <1>19 DEF RemoveClient, CreateClient, StartClient, ConnectClient
  <2>3. UNCHANGED <<ds, dsCache, dsFresh, dcs, dcCache, image>> /\ Pay(o, TRUE)
    BY <2>2 DEF ClientCall, apiVars, dcVars
  <2> QED BY <2>1, <2>3, <1>3 DEF StepFrame, Moves, PassSame
<1> QED
  BY <1>10, <1>11, <1>13, <1>14, <1>15, <1>16, <1>17, <1>18, <1>19, Zenon DEF StepAction

-----------------------------------------------------------------------------
(* Types.                                                                  *)

\* A copy of the service is None or an object that was created already.
Known(x) == x = None \/ (x \in Service /\ x.uid <= uids)

\* The stored service, its copies and what a pass keeps of them.
PassType ==
  /\ uids \in 0..MaxUid /\ image \in 0..MaxUpgrades
  /\ Known(ds) /\ Known(dsCache) /\ Known(work)
  /\ dcs \in [Containers -> Addrs \cup {0, None}] /\ dcCache \in [Containers -> Addrs \cup {0, None}]
  /\ list \in Lists /\ first \in Containers \cup {None} /\ todo \subseteq Hosts
  /\ pc \in Steps \cup {"idle", "addFinalizer", "cleanup", "status"}
  /\ IF pc = "idle" THEN work = None ELSE work \in Service
  /\ pc \in Steps => first # None
  /\ pc = "status" => report.status \in Status /\ report.again \in BOOLEAN

-----------------------------------------------------------------------------
(* The invariants.                                                         *)

\* The tunnel clients a pass may have created, with tokens up to t.
ClientsUpTo(t) == [token : 1..t, image : 0..MaxUpgrades, running : BOOLEAN, net : BOOLEAN]

\* Objects of the cluster, tokens and tunnel clients.
TokenType ==
  /\ tokens \in Nat /\ lag \subseteq Kinds /\ DOMAIN objs = Kinds /\ DOMAIN objCache = Kinds
  /\ \A k \in Kinds : objs[k] # None => objs[k].owner \in 1..uids
  /\ objs["secret"] # None => objs["secret"] \in [owner : 1..uids, val : 1..tokens]
  /\ objCache["secret"] # None => objCache["secret"].val \in 1..tokens
  /\ objs["dep"] # None => objs["dep"].val.token \in 1..tokens
  /\ clients \in [Hosts -> ClientsUpTo(tokens) \cup {None}]
  /\ pc = "idle" => token = None
  /\ pc \in {"cm", "dep", "client", "remove", "create"} => token \in 1..tokens

\* The finalizer holds the service.  A copy that carries it, or a pass that goes
\* by such a copy, is of the service that is stored: only a pass that found it
\* deleted removes the finalizer, and passes of one service do not overlap.
LifeInv ==
  /\ dsFresh => dsCache = ds
  /\ pc \in {"addFinalizer", "cleanup"} /\ fresh => work = ds
  /\ pc = "addFinalizer" => ~work.finalizer
  /\ pc = "cleanup" => work.deleting
  /\ pc = "cleanup" /\ fresh => ~Live
  /\ Live => ds \in Service /\ ds.finalizer /\ ds.uid = dsCache.uid
  /\ pc \in Steps => /\ ds \in Service /\ dsCache \in Service /\ ds.finalizer
                     /\ ds.uid = work.uid /\ ds.uid = dsCache.uid

\* For one service with a Secret nobody deletes, one token is drawn at most.
TokenInv ==
  /\ tokens > 0 => uids > 0
  /\ (uids <= 1 /\ "secret" \notin Removable) =>
       tokens <= 1 /\ (ds # None /\ tokens > 0 => objs["secret"] # None)

\* As long as nothing is deselected, caches know the hosts of the clients.
SelectInv ==
  ~deselected =>
    /\ \A c \in Containers : dcCache[c] # None => dcs[c] # None
    /\ (ds # None /\ dsCache # None /\ ds.uid = dsCache.uid) => ds.spec = dsCache.spec
    /\ pc \in Steps => /\ work.spec = ds.spec /\ work.spec.form = "ok"
                       /\ first \in Selected(work.spec, dcCache)

\* A client is on a host that the deletion of the service visits.
ClientInv ==
  (~deselected /\ ~faulted) =>
    \A h \in Hosts : clients[h] # None =>
      /\ ds # None /\ dsCache # None /\ ds.uid = dsCache.uid /\ ds.finalizer
      /\ h \in CleanupHosts(ds.spec, dcCache)
      /\ pc = "cleanup" => h \in todo

\* A merge patch gives a status.
LEMMA PatchedType ==
  ASSUME NEW old \in Status, NEW read \in Status, NEW new \in Status
  PROVE  Patched(old, read, new) \in Status
<1>1. DOMAIN old = {"phase", "clients", "url", "msg"}
  BY DEF Status
<1> DEFINE p == Patched(old, read, new)
<1>2. p = [f \in {"phase", "clients", "url", "msg"} |-> IF new[f] = read[f] THEN old[f] ELSE new[f]]
  BY <1>1 DEF Patched
<1>3. /\ p["phase"] \in {old.phase, new.phase} /\ p["clients"] \in {old.clients, new.clients}
      /\ p["url"] \in {old.url, new.url} /\ p["msg"] \in {old.msg, new.msg}
  BY <1>2
<1>4. p = [phase |-> p["phase"], clients |-> p["clients"], url |-> p["url"], msg |-> p["msg"]]
  BY <1>2
<1> HIDE DEF p
<1> QED BY <1>3, <1>4 DEF Status, p

\* The statuses that passes report without reaching the server.
LEMMA BareType ==
  ASSUME NEW phase \in {"Pending", "Error"}, NEW text \in {"none", "error", "invalid"}
  PROVE  Bare(phase, text) \in Status
<1>1. <<>> \in Lists
  BY DEF Lists
<1>2. NoStatus \in Status
  BY <1>1 DEF NoStatus, Message, Status
<1>3. Message(text, <<>>) \in [text : {"", "none", "waiting", "ready", "error", "invalid"},
                               targets : Lists]
  BY <1>1 DEF Message
<1> QED BY <1>2, <1>3 DEF Bare, Status

\* buildTargetIPs yields addresses, sorted.
LEMMA TargetListsType ==
  ASSUME PassType, NEW spec \in Specs, NEW l \in TargetLists(buildTargetIPs(Selected(spec, dcCache), dcCache))
  PROVE  l \in Lists
<1>1. Selected(spec, dcCache) \subseteq Containers
      /\ \A c \in Selected(spec, dcCache) : dcCache[c] \in Addrs \cup {0}
  BY ServiceAssumption DEF Selected, PassType
<1> DEFINE cs == {d \in Selected(spec, dcCache) : dcCache[d] # 0}
           ips == buildTargetIPs(Selected(spec, dcCache), dcCache)
<1>2. cs \in SUBSET Containers /\ ips \in [cs -> Addrs]
  BY <1>1 DEF buildTargetIPs
<1>3. ips \in UNION {[d -> Addrs] : d \in SUBSET Containers}
  BY <1>2, Zenon
<1> HIDE DEF ips
<1>4. Sorted(ips) \in Lists
  BY <1>3, Zenon DEF Lists
<1> QED BY <1>4 DEF TargetLists, ips

\* The rest of Next, by what it does to the service.
UserAction == (\E s \in Specs : CreateService(s) \/ EditService(s)) \/ DeleteService
ObjectAction == (\E k \in Kinds : Collect(k)) \/ (\E k \in Removable : RemoveObject(k))

\* The steps, by what they change.
LEMMA NextCases ==
  ASSUME Next
  PROVE  \/ StepAction \/ UserAction \/ ObjectAction
         \/ GetNothing \/ GetDeleted \/ GetNew \/ GetUnresolved \/ GetTargets
         \/ \E o \in Outcomes : \/ AddFinalizer(o) \/ RemoveFinalizer(o) \/ WriteStatus(o)
                               \/ \E h \in Hosts : Cleanup(h, o)
         \/ SyncService \/ SyncContainers \/ RollOut
         \/ \E c \in Containers : \E a \in Addrs \cup {0, None} : MoveContainer(c, a)
         \/ \E h \in Hosts : TouchClient(h)
         \/ \E new \in 0..MaxUpgrades : Crash(new)
  BY Zenon DEF Next, Pass, Informers, Surroundings, Others, StepAction, UserAction, ObjectAction

\* The types hold at first.
LEMMA InitPass == Init => PassType
<1> SUFFICES ASSUME Init PROVE PassType
  OBVIOUS
<1>1. <<>> \in Lists
  BY DEF Lists
<1> QED BY <1>1, ServiceAssumption DEF Init, PassType, Known, Steps

\* Every step keeps the types of what a pass works on.
LEMMA NextPass ==
  ASSUME PassType, [Next]_vars
  PROVE  PassType'
<1> USE ServiceAssumption DEF Steps
<1>1. ASSUME UNCHANGED <<uids, image, ds, dsCache, work, dcs, dcCache, list, first, todo, pc, report>>
      PROVE  PassType'
  BY <1>1 DEF PassType, Known
<1>2. CASE StepAction
  <2>1. StepFrame
    BY <1>2, StepsKeepFrame DEF PassType
  <2> QED BY <2>1 DEF StepFrame, PassType, Known
<1>3. CASE UNCHANGED vars \/ RollOut \/ ObjectAction \/ \E h \in Hosts : TouchClient(h)
  BY <1>3, <1>1 DEF vars, apiVars, dcVars, passVars, localVars, budgetVars, RollOut, ObjectAction,
       Collect, RemoveObject, DropObject, TouchClient, Suffer
<1>4. CASE GetNothing \/ SyncContainers
  BY <1>4 DEF GetNothing, SyncContainers, PassType, Known, apiVars, dcVars, localVars, budgetVars
<1>5. CASE SyncService
  BY <1>5 DEF SyncService, PassType, Known, dcVars, localVars, budgetVars
<1>6. ASSUME NEW c \in Containers, NEW a \in Addrs \cup {0, None}, MoveContainer(c, a)
      PROVE  PassType'
  BY <1>6 DEF MoveContainer, PassType, Known, apiVars, passVars, localVars
<1>7. ASSUME NEW new \in 0..MaxUpgrades, Crash(new)
      PROVE  PassType'
  <2>1. <<>> \in Lists
    BY DEF Lists
  <2> QED BY <1>7, <2>1 DEF Crash, Forget, Suffer, PassType, Known
<1>8. ASSUME NEW o \in Outcomes, NEW h \in Hosts, Cleanup(h, o)
      PROVE  PassType'
  BY <1>8 DEF Cleanup, Pay, Suffer, PassType, Known, apiVars, dcVars
<1>9. ASSUME NEW step \in {"cleanup", "addFinalizer", "svc", "status"}, Take(step), dsCache # None,
             list' \in Lists, first' \in Containers \cup {None}, todo' \subseteq Hosts,
             step = "svc" => first' # None,
             step = "status" => report'.status \in Status /\ report'.again \in BOOLEAN
      PROVE  PassType'
  BY <1>9 DEF Take, Pay, Suffer, PassType, Known, apiVars, dcVars
<1>10. CASE GetDeleted
  <2>1. CleanupHosts(dsCache.spec, dcCache) \subseteq Hosts
    BY <1>10 DEF GetDeleted, CleanupHosts, Selected, PassType, Known, Service
  <2> QED BY <1>10, <2>1, <1>9 DEF GetDeleted, PassType
<1>11. CASE GetNew
  BY <1>11, <1>9 DEF GetNew, NothingChosen, PassType
<1>12. CASE GetUnresolved
  <2>1. report'.status \in Status /\ report'.again \in BOOLEAN
    <3>1. \E phase \in {"Pending", "Error"}, text \in {"none", "error", "invalid"}, again \in BOOLEAN :
            report' = [status |-> Bare(phase, text), again |-> again]
      BY <1>12, Zenon DEF GetUnresolved
    <3> QED BY <3>1, BareType
  <2> QED BY <1>12, <2>1, <1>9 DEF GetUnresolved, Live, PassType
<1>13. CASE GetTargets
  <2>1. dsCache.spec \in Specs /\ dsCache # None
    BY <1>13 DEF GetTargets, Live, PassType, Known, Service
  <2>2. list' \in Lists
    BY <1>13, <2>1, TargetListsType DEF GetTargets
  <2>3. first' \in Containers /\ first' # None
    BY <1>13, <2>1 DEF GetTargets, Selected
  <2> QED BY <1>13, <2>1, <2>2, <2>3, <1>9 DEF GetTargets, PassType
<1>14. ASSUME NEW o \in Outcomes, NEW new, NEW again \in BOOLEAN, Update(o, new), Return(again), Known(new)
       PROVE  PassType'
  <2>1. <<>> \in Lists
    BY DEF Lists
  <2> QED BY <1>14, <2>1 DEF Update, Return, Forget, Pay, Suffer, PassType, Known, dcVars
<1>15. ASSUME NEW o \in Outcomes, AddFinalizer(o)
       PROVE  PassType'
  <2>1. Known([work EXCEPT !.finalizer = TRUE])
    BY <1>15, NoneAssumption DEF AddFinalizer, PassType, Known, Service
  <2> QED BY <1>15, <2>1, <1>14 DEF AddFinalizer
<1>16. ASSUME NEW o \in Outcomes, RemoveFinalizer(o)
       PROVE  PassType'
  BY <1>16, <1>14 DEF RemoveFinalizer, Known
<1>17. ASSUME NEW o \in Outcomes, WriteStatus(o)
       PROVE  PassType'
  <2> DEFINE new == [ds EXCEPT !.status = Patched(ds.status, work.status, report.status)]
  <2>1. /\ ds = None \/ (ds \in Service /\ ds.uid <= uids)
        /\ work \in Service /\ work.uid <= uids /\ work.status \in Status
        /\ report.status \in Status /\ report.again \in BOOLEAN
    <3>1. pc = "status"
      BY <1>17 DEF WriteStatus
    <3>2. work \in Service /\ work.uid <= uids
      BY <3>1, NoneAssumption DEF PassType, Known
    <3>3. work.status \in Status
      BY <3>2 DEF Service
    <3>4. report.status \in Status /\ report.again \in BOOLEAN
      BY <3>1, Zenon DEF PassType
    <3>5. ds = None \/ (ds \in Service /\ ds.uid <= uids)
      BY DEF PassType, Known
    <3> QED BY <3>2, <3>3, <3>4, <3>5, Zenon
  <2>2. ASSUME ds # None
        PROVE  /\ Patched(ds.status, work.status, report.status) \in Status
               /\ new \in Service /\ new.uid <= uids
    BY <2>1, <2>2, PatchedType DEF Service
  <2>3. \/ ds' = ds
        \/ ds # None /\ ds' = new
    BY <1>17 DEF WriteStatus
  <2>4. ds' = None \/ (ds' \in Service /\ ds'.uid <= uids)
    BY <2>1, <2>2, <2>3
  <2>5. UNCHANGED <<uids, image, dsCache, dcs, dcCache>>
    BY <1>17 DEF WriteStatus, Pay, dcVars
  <2>6. CASE Return(report.again)
    <3>1. <<>> \in Lists
      BY DEF Lists
    <3> QED BY <2>4, <2>5, <2>6, <3>1 DEF Return, Forget, PassType, Known
  <2>7. CASE /\ report' = [report EXCEPT !.status = Bare("Error", "error")]
             /\ work' = [work EXCEPT !.status = IF o = "ok" /\ ds # None THEN ds'.status ELSE report.status]
             /\ UNCHANGED <<queued, pc, fresh, list, first, token, todo>>
    <3>1. Bare("Error", "error") \in Status
      BY BareType
    <3>2. ds # None => ds'.status \in Status
      BY <2>1, <2>2, <2>3 DEF Service
    <3>3. work' \in Service /\ work'.uid <= uids
      BY <2>1, <2>7, <3>2 DEF Service
    <3>4. report'.status \in Status /\ report'.again \in BOOLEAN
      BY <2>1, <2>7, <3>1
    <3> QED BY <1>17, <2>4, <2>5, <2>7, <3>3, <3>4 DEF PassType, Known, WriteStatus
  <2> QED BY <1>17, <2>6, <2>7 DEF WriteStatus
<1>18. ASSUME NEW new, Store(new), uids' \in 0..MaxUid, uids <= uids',
              new = None \/ (new \in Service /\ new.uid <= uids')
       PROVE  PassType'
  BY <1>18 DEF Store, PassType, Known, Service, dcVars
<1>19. ASSUME NEW s \in Specs, CreateService(s)
       PROVE  PassType'
  <2>1. uids' \in 0..MaxUid /\ uids' = uids + 1 /\ uids' \in 1..MaxUid
    BY <1>19 DEF CreateService, PassType
  <2>2. NoStatus \in Status
    BY DEF NoStatus, Message, Status, Lists
  <2> DEFINE new == [uid |-> uids', spec |-> s, deleting |-> FALSE, finalizer |-> FALSE,
                     status |-> NoStatus]
  <2>3. new \in Service /\ new.uid = uids'
    BY <2>1, <2>2 DEF Service
  <2> QED BY <1>19, <2>1, <2>3, <1>18 DEF CreateService, PassType
<1>20. ASSUME NEW s \in Specs, EditService(s)
       PROVE  PassType'
  <2>1. [ds EXCEPT !.spec = s] \in Service /\ [ds EXCEPT !.spec = s].uid <= uids
    BY <1>20 DEF EditService, PassType, Known, Service
  <2>2. Store([ds EXCEPT !.spec = s]) /\ uids' = uids
    BY <1>20 DEF EditService
  <2>3. uids' \in 0..MaxUid /\ uids <= uids'
    BY <2>2 DEF PassType
  <2>4. [ds EXCEPT !.spec = s].uid <= uids'
    BY <2>1, <2>2
  <2> QED BY <2>1, <2>2, <2>3, <2>4, <1>18, Zenon
<1>21. CASE DeleteService
  <2>1. [ds EXCEPT !.deleting = TRUE] \in Service /\ [ds EXCEPT !.deleting = TRUE].uid <= uids
    BY <1>21 DEF DeleteService, PassType, Known, Service
  <2>2. Store(IF ds.finalizer THEN [ds EXCEPT !.deleting = TRUE] ELSE None) /\ uids' = uids
    BY <1>21 DEF DeleteService
  <2>3. uids' \in 0..MaxUid /\ uids <= uids'
    BY <2>2 DEF PassType
  <2>4. [ds EXCEPT !.deleting = TRUE].uid <= uids'
    BY <2>1, <2>2
  <2>5. Store([ds EXCEPT !.deleting = TRUE]) \/ Store(None)
    BY <2>2, Zenon
  <2> QED BY <2>1, <2>3, <2>4, <2>5, <1>18, Zenon
<1> QED
  BY NextCases, <1>2, <1>3, <1>4, <1>5, <1>6, <1>7, <1>8, <1>10, <1>11, <1>12, <1>13, <1>15,
     <1>16, <1>17, <1>19, <1>20, <1>21, Zenon DEF UserAction

-----------------------------------------------------------------------------
(* The life of the service.                                                *)

\* Every step keeps the finalizer's promise.
LEMMA NextLife ==
  ASSUME PassType, LifeInv, [Next]_vars
  PROVE  LifeInv'
<1>1. \A s \in Steps : s \notin {"idle", "addFinalizer", "cleanup", "status"}
  BY DEF Steps
<1>2. ASSUME UNCHANGED <<ds, dsCache, dsFresh, pc, work, fresh>>
      PROVE  LifeInv'
  BY <1>2 DEF LifeInv, Live
<1>3. CASE StepAction
  <2>1. StepFrame
    BY <1>3, StepsKeepFrame DEF PassType
  <2> QED BY <2>1, <1>1 DEF StepFrame, LifeInv, Live
<1>4. CASE \/ UNCHANGED vars \/ RollOut \/ ObjectAction \/ GetNothing \/ SyncContainers
           \/ \E h \in Hosts : TouchClient(h)
           \/ \E o \in Outcomes, h \in Hosts : Cleanup(h, o)
           \/ \E c \in Containers : \E a \in Addrs \cup {0, None} : MoveContainer(c, a)
  BY <1>4, <1>2 DEF vars, apiVars, passVars, localVars, RollOut, ObjectAction, GetNothing,
       SyncContainers, Collect, RemoveObject, DropObject, TouchClient, Cleanup, MoveContainer
<1>5. CASE SyncService
  <2>1. /\ dsCache' = ds /\ dsFresh' = TRUE /\ UNCHANGED <<ds, pc, work, fresh>>
    BY <1>5 DEF SyncService, localVars
  <2>2. Known(ds)
    BY DEF PassType
  <2>3. pc = "cleanup" /\ fresh => work = ds /\ work.deleting
    BY DEF LifeInv
  <2> QED BY <2>1, <2>2, <2>3, <1>1 DEF LifeInv, Live, Known
<1>6. ASSUME NEW new \in 0..MaxUpgrades, Crash(new)
      PROVE  LifeInv'
  <2>1. dsCache' = ds /\ ds' = ds /\ pc' = "idle"
    BY <1>6 DEF Crash, Forget
  <2>2. Known(ds)
    BY DEF PassType
  <2> QED BY <2>1, <2>2, <1>1 DEF LifeInv, Known, Live
<1>7. ASSUME NEW step, Take(step)
      PROVE  /\ UNCHANGED <<ds, dsCache, dsFresh>> /\ pc' = step /\ work' = dsCache
             /\ fresh' = dsFresh /\ pc = "idle"
  BY <1>7 DEF Take, apiVars
<1>8. CASE GetDeleted \/ GetNew
  BY <1>8, <1>7, <1>1 DEF GetDeleted, GetNew, LifeInv, Live
<1>9. CASE GetUnresolved \/ GetTargets
  BY <1>9, <1>7, <1>1 DEF GetUnresolved, GetTargets, LifeInv, Live, PassType, Known
<1>10. ASSUME NEW o \in Outcomes, NEW new, NEW again, Update(o, new), Return(again)
       PROVE  /\ pc' = "idle" /\ UNCHANGED dsCache
              /\ \/ UNCHANGED <<ds, dsFresh>>
                 \/ fresh /\ ds' = new /\ dsFresh' = FALSE
  BY <1>10 DEF Update, Return, Forget
<1>11. ASSUME NEW o \in Outcomes, AddFinalizer(o)
       PROVE  LifeInv'
  <2>1. pc = "addFinalizer" /\ work \in Service
    BY <1>11 DEF AddFinalizer, PassType
  <2>2. fresh => ~Live
    BY <2>1 DEF LifeInv
  <2> QED BY <1>11, <1>10, <1>1, <2>2 DEF AddFinalizer, LifeInv, Live
<1>12. ASSUME NEW o \in Outcomes, RemoveFinalizer(o)
       PROVE  LifeInv'
  BY <1>12, <1>10, <1>1 DEF RemoveFinalizer, LifeInv, Live
<1>13. ASSUME NEW o \in Outcomes, WriteStatus(o)
       PROVE  LifeInv'
  <2> DEFINE new == [ds EXCEPT !.status = Patched(ds.status, work.status, report.status)]
  <2>1. /\ UNCHANGED dsCache /\ pc' \in {"idle", "status"}
        /\ \/ UNCHANGED <<ds, dsFresh>>
           \/ ds # None /\ ds' = new /\ dsFresh' = (dsFresh /\ new = ds)
    BY <1>13 DEF WriteStatus, Return, Forget
  <2>2. CASE UNCHANGED <<ds, dsFresh>>
    BY <2>1, <2>2, <1>1 DEF LifeInv, Live
  <2>3. CASE ds # None /\ ds' = new /\ dsFresh' = (dsFresh /\ new = ds)
    <3>1. ds' \in Service /\ ds'.uid = ds.uid /\ ds'.finalizer = ds.finalizer
      <4>1. PassType'
        BY NextPass
      <4>2. ds \in Service
        BY <2>3 DEF PassType, Known
      <4>3. ds' = new /\ ds'.uid = ds.uid /\ ds'.finalizer = ds.finalizer
        BY <2>3, <4>2 DEF Service
      <4>4. report.status \in Status /\ work.status \in Status
        BY <1>13, Zenon DEF WriteStatus, PassType, Known, Service
      <4> QED BY <4>2, <4>3, <4>4, PatchedType DEF Service
    <3>2. dsFresh' => dsCache' = ds'
      BY <2>1, <2>3 DEF LifeInv
    <3> QED BY <2>1, <3>1, <3>2, <1>1 DEF LifeInv, Live
  <2> QED BY <2>1, <2>2, <2>3
<1>14. ASSUME NEW new, Store(new)
       PROVE  /\ ds' = new /\ dsFresh' = FALSE /\ fresh' = FALSE
              /\ UNCHANGED <<dsCache, pc, work>>
  BY <1>14 DEF Store
<1>15. ASSUME NEW s \in Specs, CreateService(s)
       PROVE  LifeInv'
  <2>1. ds \notin Service
    BY <1>15, NoneAssumption DEF CreateService
  <2> QED BY <1>15, <1>14, <2>1 DEF CreateService, LifeInv, Live
<1>16. ASSUME NEW s \in Specs, EditService(s)
       PROVE  LifeInv'
  <2>1. /\ [ds EXCEPT !.spec = s] \in Service /\ [ds EXCEPT !.spec = s].uid = ds.uid
        /\ [ds EXCEPT !.spec = s].finalizer = ds.finalizer
    BY <1>16 DEF EditService, PassType, Known, Service
  <2>2. /\ ds' = [ds EXCEPT !.spec = s] /\ dsFresh' = FALSE /\ fresh' = FALSE
        /\ UNCHANGED <<dsCache, pc, work>>
    BY <1>16 DEF EditService, Store
  <2>3. ds' \in Service /\ ds'.uid = ds.uid /\ ds'.finalizer = ds.finalizer
    BY <2>1, <2>2
  <2> QED BY <2>2, <2>3 DEF LifeInv, Live
<1>17. CASE DeleteService
  <2> DEFINE new == [ds EXCEPT !.deleting = TRUE]
  <2>1. new \in Service /\ new.uid = ds.uid /\ new.finalizer = ds.finalizer
    BY <1>17 DEF DeleteService, PassType, Known, Service
  <2>2. /\ IF ds.finalizer THEN ds' = new ELSE ds' = None
        /\ dsFresh' = FALSE /\ fresh' = FALSE /\ UNCHANGED <<dsCache, pc, work>>
    BY <1>17 DEF DeleteService, Store
  <2>3. CASE ds.finalizer
    <3>1. ds' \in Service /\ ds'.uid = ds.uid /\ ds'.finalizer
      BY <2>1, <2>2, <2>3
    <3> QED BY <2>2, <3>1 DEF LifeInv, Live
  <2>4. CASE ~ds.finalizer
    BY <2>2, <2>4 DEF LifeInv, Live
  <2> QED BY <2>3, <2>4
<1> QED
  BY NextCases, <1>3, <1>4, <1>5, <1>6, <1>8, <1>9, <1>11, <1>12, <1>13, <1>15, <1>16, <1>17, Zenon
  DEF UserAction

-----------------------------------------------------------------------------
(* Tokens.                                                                 *)

\* A pass works for a service that was created.
LEMMA WorkKnown ==
  ASSUME PassType, pc \in Steps
  PROVE  work \in Service /\ work.uid \in 1..uids /\ uids \in Nat
<1>1. work \in Service /\ work # None
  BY NoneAssumption DEF PassType, Steps
<1>2. work.uid \in 1..MaxUid /\ work.uid <= uids /\ uids \in 0..MaxUid
  BY <1>1 DEF PassType, Known, Service
<1> QED BY <1>1, <1>2, ServiceAssumption

\* What a step does that writes an object of kind k, not the Secret, for the
\* DockerService of the pass.
LEMMA ObjectKept ==
  ASSUME PassType, TokenType, TokenInv, StepFrame, UNCHANGED <<clients, token>>,
         NEW k \in {"svc", "cm", "dep"}, NEW val, NEW o, NEW current,
         CreateOrUpdate(k, val, o, current), k = "dep" => val.token \in 1..tokens,
         pc' \in {"cm", "dep", "client", "remove", "create"} => token \in 1..tokens
  PROVE  TokenType' /\ TokenInv'
<1> DEFINE w == o # "fail" /\ Writes(k, val, current)
           new == [owner |-> work.uid, val |-> val]
<1>1. k \in Kinds /\ "secret" \in Kinds /\ "dep" \in Kinds /\ k # "secret"
  BY DEF Kinds
<1>2. ReadAndWrite(k, current, IF w THEN [objs EXCEPT ![k] = new] ELSE objs) /\ tokens' = tokens
  BY DEF CreateOrUpdate
<1> HIDE DEF w, new
<1>3. /\ DOMAIN objs' = Kinds /\ DOMAIN objCache' = Kinds /\ lag' \subseteq Kinds
      /\ \A j \in Kinds : objs'[j] = IF w /\ j = k THEN new ELSE objs[j]
      /\ \A j \in Kinds : objCache'[j] \in {objCache[j], objs[j]}
  BY <1>1, <1>2 DEF ReadAndWrite, Seen, TokenType
<1>4. new.owner \in 1..uids /\ new.val = val
  BY WorkKnown DEF new, StepFrame
<1>5. objs'["secret"] = objs["secret"] /\ objCache'["secret"] \in {objCache["secret"], objs["secret"]}
  BY <1>1, <1>3
<1>6. /\ uids' = uids /\ tokens' = tokens /\ ds' = ds /\ pc' # "idle"
      /\ clients' = clients /\ token' = token
  BY <1>2 DEF StepFrame, Steps
<1>7. \A j \in Kinds : objs'[j] # None => objs'[j].owner \in 1..uids
  BY <1>3, <1>4 DEF TokenType
<1>8. objs'["dep"] # None => objs'["dep"].val.token \in 1..tokens
  BY <1>1, <1>3, <1>4 DEF TokenType
<1>9. TokenType'
  BY <1>3, <1>5, <1>6, <1>7, <1>8 DEF TokenType
<1> QED BY <1>5, <1>6, <1>9 DEF TokenInv

\* ensureTunnelAuthSecret draws a token only if there is no Secret.
LEMMA SecretKept ==
  ASSUME PassType, TokenType, LifeInv, TokenInv, StepFrame, UNCHANGED clients,
         NEW o, NEW current, NEW next \in {"cm", "client"}, NEW url \in BOOLEAN,
         EnsureTunnelAuthSecret(o, current, next, url)
  PROVE  TokenType' /\ TokenInv'
<1> DEFINE s == Seen("secret", current)
           w == s = None /\ objs["secret"] = None /\ o # "fail"
           new == [owner |-> work.uid, val |-> tokens']
<1>1. "secret" \in Kinds /\ "dep" \in Kinds
  BY DEF Kinds
<1>2. /\ ReadAndWrite("secret", current, IF w THEN [objs EXCEPT !["secret"] = new] ELSE objs)
      /\ tokens' = IF w THEN tokens + 1 ELSE tokens
  BY DEF EnsureTunnelAuthSecret
<1>3. w => objs["secret"] = None
  OBVIOUS
<1>4. \/ /\ s # None /\ token' = s.val
      \/ /\ w /\ token' = tokens + 1
      \/ pc' = "status"
  BY DEF EnsureTunnelAuthSecret, Drawn, Error, Report
<1>5. s \in {objs["secret"], objCache["secret"]}
  BY DEF Seen
<1> HIDE DEF s, w, new
<1>8. /\ DOMAIN objs' = Kinds /\ DOMAIN objCache' = Kinds /\ lag' \subseteq Kinds
      /\ \A j \in Kinds : objs'[j] = IF w /\ j = "secret" THEN new ELSE objs[j]
      /\ \A j \in Kinds : objCache'[j] \in {objCache[j], objs[j]}
  BY <1>1, <1>2 DEF ReadAndWrite, Seen, TokenType
<1>9. /\ uids' = uids /\ ds' = ds /\ pc' # "idle" /\ clients' = clients
      /\ uids > 0 /\ ds \in Service /\ uids \in Nat
  BY WorkKnown DEF StepFrame, Steps, LifeInv
<1>10. tokens' \in Nat /\ tokens <= tokens' /\ (w => tokens' = tokens + 1) /\ (~w => tokens' = tokens)
  BY <1>2 DEF TokenType
<1>11. new.owner \in 1..uids /\ new.val = tokens' /\ new \in [owner : Nat, val : Nat]
  BY <1>10, WorkKnown DEF new, StepFrame
<1>12. new \in [owner : 1..uids, val : {tokens'}]
  BY <1>11 DEF new
<1>13. objs'["secret"] # None => objs'["secret"] \in [owner : 1..uids, val : 1..tokens']
  BY <1>1, <1>8, <1>10, <1>12 DEF TokenType
<1>14. objCache'["secret"] # None => objCache'["secret"].val \in 1..tokens'
  BY <1>1, <1>8, <1>10 DEF TokenType
<1>15. \A j \in Kinds : objs'[j] # None => objs'[j].owner \in 1..uids
  BY <1>8, <1>11 DEF TokenType
<1>16. objs'["dep"] # None => objs'["dep"].val.token \in 1..tokens'
  BY <1>1, <1>8, <1>10 DEF TokenType
<1>17. pc' \in {"cm", "dep", "client", "remove", "create"} => token' \in 1..tokens'
  BY <1>4, <1>5, <1>10 DEF TokenType
<1>18. clients' \in [Hosts -> ClientsUpTo(tokens') \cup {None}]
  <2>1. 1..tokens \subseteq 1..tokens'
    BY <1>10 DEF TokenType
  <2>2. ClientsUpTo(tokens) \subseteq ClientsUpTo(tokens')
    BY <2>1 DEF ClientsUpTo
  <2> QED BY <1>9, <2>2 DEF TokenType
<1>19. TokenType'
  BY <1>8, <1>9, <1>10, <1>13, <1>14, <1>15, <1>16, <1>17, <1>18 DEF TokenType, ClientsUpTo
<1>20. ds # None
  BY <1>9, NoneAssumption
<1> QED BY <1>1, <1>3, <1>8, <1>9, <1>10, <1>11, <1>19, <1>20, NoneAssumption DEF TokenInv, TokenType

\* The ways a call can end keep the token of the pass.
LEMMA ResultsKeepToken ==
  ASSUME NEW step, NEW url, Goto(step) \/ Error(url) \/ Active \/ Pending
  PROVE  UNCHANGED token
  BY DEF Goto, Error, Active, Pending, Report

\* Within a pass a token is drawn only where there is no Secret, and it is
\* given on only once it is stored.
LEMMA StepTokens ==
  ASSUME PassType, TokenType, LifeInv, TokenInv, StepAction
  PROVE  TokenType' /\ TokenInv'
<1>1. StepFrame
  BY StepsKeepFrame DEF PassType
<1>2. /\ uids' = uids /\ ds' = ds /\ pc' # "idle" /\ pc # "idle"
  BY <1>1 DEF StepFrame, Steps
<1>3. ASSUME UNCHANGED <<objs, objCache, lag, tokens, token>>,
             clients' \in [Hosts -> ClientsUpTo(tokens) \cup {None}],
             pc' \in {"cm", "dep", "client", "remove", "create"} =>
               pc \in {"cm", "dep", "client", "remove", "create"}
      PROVE  TokenType' /\ TokenInv'
  BY <1>2, <1>3 DEF TokenType, TokenInv
<1>4. CASE TargetMissing
  <2>1. UNCHANGED <<objs, objCache, lag, tokens, token, clients>> /\ pc' = "status"
    BY <1>4 DEF TargetMissing, objVars, worldVars, Active, Report
  <2> QED BY <1>3, <2>1 DEF TokenType
<1>5. ASSUME NEW o \in Outcomes, NEW current \in BOOLEAN,
             ReconcileService(o, current)
      PROVE  TokenType' /\ TokenInv'
  <2>1. /\ CreateOrUpdate("svc", 0, o, current) /\ UNCHANGED clients /\ pc' \in {"secret", "status"}
        /\ Goto("secret") \/ Error(FALSE)
    BY <1>5 DEF ReconcileService, worldVars, Goto, Error, Report
  <2> QED BY <1>1, <2>1, ResultsKeepToken, ObjectKept
<1>6. ASSUME NEW o \in Outcomes, NEW current \in BOOLEAN,
             ReconcileConfigMap(o, current)
      PROVE  TokenType' /\ TokenInv'
  <2>1. /\ CreateOrUpdate("cm", list, o, current) /\ UNCHANGED clients /\ pc = "cm"
        /\ Goto("dep") \/ Error(FALSE)
    BY <1>6 DEF ReconcileConfigMap
  <2>2. token \in 1..tokens
    BY <2>1 DEF TokenType
  <2> QED BY <1>1, <2>1, <2>2, ResultsKeepToken, ObjectKept
<1>7. ASSUME NEW o \in Outcomes, NEW current \in BOOLEAN,
             ReconcileDeployment(o, current)
      PROVE  TokenType' /\ TokenInv'
  <2> DEFINE val == [replicas |-> IF list = <<>> THEN 0 ELSE 1, token |-> token, image |-> image]
  <2>1. /\ CreateOrUpdate("dep", val, o, current) /\ UNCHANGED clients /\ pc = "dep"
        /\ Goto("rep") \/ Error(FALSE) \/ Pending
    BY <1>7, Zenon DEF ReconcileDeployment, worldVars
  <2>2. token \in 1..tokens /\ val.token = token
    BY <2>1 DEF TokenType
  <2>3. UNCHANGED token
    BY <2>1, ResultsKeepToken
  <2> HIDE DEF val
  <2> QED BY <1>1, <2>1, <2>2, <2>3, ObjectKept
<1>8. ASSUME NEW o \in Outcomes, NEW current \in BOOLEAN,
             ServerSecret(o, current) \/ ClientSecret(o, current)
      PROVE  TokenType' /\ TokenInv'
  <2>1. /\ \/ EnsureTunnelAuthSecret(o, current, "cm", FALSE)
           \/ EnsureTunnelAuthSecret(o, current, "client", TRUE)
        /\ UNCHANGED clients
    BY <1>8 DEF ServerSecret, ClientSecret, worldVars
  <2> QED BY <1>1, <2>1, SecretKept
<1>9. ASSUME NEW o \in Outcomes, InspectTarget(o) \/ InspectClient(o)
      PROVE  TokenType' /\ TokenInv'
  <2>1. /\ UNCHANGED <<objs, objCache, lag, tokens, token, clients>>
        /\ pc = "client" \/ pc' \in {"clientSecret", "status"}
    BY <1>9 DEF InspectTarget, InspectClient, objVars, worldVars, Goto, Error, Active, Report
  <2> QED BY <1>3, <2>1 DEF TokenType
<1>10. ASSUME NEW step, NEW o, NEW new, ClientCall(step, o, new), UNCHANGED token,
              new \in ClientsUpTo(tokens) \cup {None},
              pc' \in {"cm", "dep", "client", "remove", "create"} =>
                pc \in {"cm", "dep", "client", "remove", "create"}
       PROVE  TokenType' /\ TokenInv'
  <2>1. /\ UNCHANGED <<objs, objCache, lag, tokens>>
        /\ clients' = IF o = "fail" THEN clients ELSE [clients EXCEPT ![host] = new]
    BY <1>10 DEF ClientCall, objVars
  <2>2. clients' \in [Hosts -> ClientsUpTo(tokens) \cup {None}]
    BY <2>1, <1>10 DEF TokenType
  <2> QED BY <1>3, <1>10, <2>1, <2>2
<1>11. ASSUME NEW o \in Outcomes, RemoveClient(o)
       PROVE  TokenType' /\ TokenInv'
  BY <1>10, <1>11, ResultsKeepToken DEF RemoveClient, ClientCall
<1>12. ASSUME NEW o \in Outcomes, CreateClient(o)
       PROVE  TokenType' /\ TokenInv'
  <2> DEFINE new == [token |-> token, image |-> image, running |-> FALSE, net |-> FALSE]
  <2>1. ClientCall("create", o, new) /\ pc = "create" /\ (Goto("start") \/ Error(TRUE))
    BY <1>12 DEF CreateClient, ClientCall
  <2>2. new \in ClientsUpTo(tokens)
    BY <2>1 DEF TokenType, PassType, ClientsUpTo
  <2>3. UNCHANGED token
    BY <2>1, ResultsKeepToken
  <2> HIDE DEF new
  <2> QED BY <1>10, <2>1, <2>2, <2>3
<1>13. ASSUME NEW f \in {"running", "net"}
       PROVE  With(f) \in ClientsUpTo(tokens) \cup {None}
  <2>1. host \in Hosts
    BY <1>1, ServiceAssumption DEF host, StepFrame, PassType
  <2>2. clients[host] \in ClientsUpTo(tokens) \cup {None}
    BY <2>1 DEF TokenType
  <2>3. \A c \in ClientsUpTo(tokens) : [c EXCEPT ![f] = TRUE] \in ClientsUpTo(tokens)
    BY DEF ClientsUpTo
  <2> QED BY <2>2, <2>3 DEF With
<1>14. ASSUME NEW o \in Outcomes, StartClient(o)
       PROVE  TokenType' /\ TokenInv'
  <2>1. /\ ClientCall(pc, o, With("running")) /\ (Goto("connect") \/ Error(TRUE) \/ Active)
        /\ pc' \in {"connect", "status"}
    BY <1>14 DEF StartClient, Goto, Error, Active, Report
  <2> QED BY <1>10, <1>13, <2>1, ResultsKeepToken
<1>15. ASSUME NEW o \in Outcomes, ConnectClient(o)
       PROVE  TokenType' /\ TokenInv'
  <2>1. ClientCall(pc, o, With("net")) /\ Active /\ pc' = "status"
    BY <1>15 DEF ConnectClient, ClientCall, Active, Report
  <2> QED BY <1>10, <1>13, <2>1, ResultsKeepToken
<1> QED
  BY <1>4, <1>5, <1>6, <1>7, <1>8, <1>9, <1>11, <1>12, <1>14, <1>15, Zenon DEF StepAction

\* Every step keeps tokens in order.
LEMMA NextTokens ==
  ASSUME PassType, TokenType, LifeInv, TokenInv, [Next]_vars
  PROVE  TokenType' /\ TokenInv'
<1> DEFINE Late == {"cm", "dep", "client", "remove", "create"}
<1>1. ASSUME UNCHANGED <<objs, tokens, uids>>, objCache' = objCache \/ objCache' = objs,
             clients' \in [Hosts -> ClientsUpTo(tokens) \cup {None}], lag' \subseteq Kinds,
             ds' # None => ds # None,
             UNCHANGED <<pc, token>> \/ (pc' \notin Late /\ (pc' = "idle" => token' = None))
      PROVE  TokenType' /\ TokenInv'
  BY <1>1 DEF TokenType, TokenInv
<1>2. CASE StepAction
  BY <1>2, StepTokens
<1>3. CASE \/ UNCHANGED vars \/ RollOut \/ GetNothing \/ SyncService \/ SyncContainers
           \/ \E c \in Containers : \E a \in Addrs \cup {0, None} : MoveContainer(c, a)
  <2>1. UNCHANGED <<objs, objCache, tokens, uids, clients, lag, ds, pc, token>>
    BY <1>3 DEF vars, objVars, apiVars, worldVars, passVars, localVars, budgetVars, RollOut,
         GetNothing, SyncService, SyncContainers, MoveContainer
  <2> QED BY <2>1, <1>1 DEF TokenType
<1>4. CASE GetDeleted \/ GetNew \/ GetUnresolved \/ GetTargets
  <2>1. /\ UNCHANGED <<objs, objCache, tokens, uids, clients, lag, ds>>
        /\ pc' \in {"cleanup", "addFinalizer", "status", "svc"}
    BY <1>4 DEF GetDeleted, GetNew, GetUnresolved, GetTargets, Take, Pay, apiVars, objVars, worldVars
  <2> QED BY <2>1, <1>1 DEF TokenType
<1>5. ASSUME NEW new \in 0..MaxUpgrades, Crash(new)
      PROVE  TokenType' /\ TokenInv'
  BY <1>5, <1>1 DEF Crash, Forget, TokenType
<1>6. ASSUME NEW o \in Outcomes, NEW h \in Hosts, Cleanup(h, o)
      PROVE  TokenType' /\ TokenInv'
  <2>1. /\ UNCHANGED <<objs, objCache, tokens, uids, lag, ds, pc, token>>
        /\ clients' = clients \/ clients' = [clients EXCEPT ![h] = None]
    BY <1>6 DEF Cleanup, Pay, objVars, apiVars
  <2> QED BY <2>1, <1>1 DEF TokenType
<1>7. ASSUME NEW h \in Hosts, TouchClient(h)
      PROVE  TokenType' /\ TokenInv'
  <2>1. /\ UNCHANGED <<objs, objCache, tokens, uids, lag, ds, pc, token>> /\ clients[h] # None
        /\ \/ clients' = [clients EXCEPT ![h] = None]
           \/ clients' = [clients EXCEPT ![h] = [clients[h] EXCEPT !.running = FALSE]]
    BY <1>7 DEF TouchClient, objVars, apiVars, passVars, localVars
  <2>2. [clients[h] EXCEPT !.running = FALSE] \in ClientsUpTo(tokens)
    BY <2>1 DEF TokenType, ClientsUpTo
  <2>3. clients' \in [Hosts -> ClientsUpTo(tokens) \cup {None}]
    BY <2>1, <2>2 DEF TokenType
  <2> QED BY <2>1, <2>3, <1>1 DEF TokenType
<1>8. ASSUME NEW o \in Outcomes, AddFinalizer(o) \/ RemoveFinalizer(o)
      PROVE  TokenType' /\ TokenInv'
  <2>1. /\ UNCHANGED <<objs, objCache, tokens, uids, clients, lag>>
        /\ pc' = "idle" /\ token' = None
    BY <1>8 DEF AddFinalizer, RemoveFinalizer, Update, Pay, Return, Forget, objVars, worldVars
  <2>2. ds' # None => ds # None
    BY <1>8, NoneAssumption DEF AddFinalizer, RemoveFinalizer, Update, PassType, LifeInv
  <2> QED BY <2>1, <2>2, <1>1 DEF TokenType
<1>9. ASSUME NEW o \in Outcomes, WriteStatus(o)
      PROVE  TokenType' /\ TokenInv'
  <2>1. /\ UNCHANGED <<objs, objCache, tokens, uids, clients, lag>>
        /\ ds' # None => ds # None
        /\ UNCHANGED <<pc, token>> \/ (pc' = "idle" /\ token' = None)
    BY <1>9 DEF WriteStatus, Pay, Return, Forget, objVars, worldVars
  <2> QED BY <2>1, <1>1 DEF TokenType
<1>10. ASSUME NEW s \in Specs, EditService(s)
       PROVE  TokenType' /\ TokenInv'
  <2>1. UNCHANGED <<objs, objCache, tokens, uids, clients, lag, pc, token>> /\ ds # None
    BY <1>10 DEF EditService, Store, objVars, worldVars
  <2> QED BY <2>1, <1>1 DEF TokenType
<1>11. CASE DeleteService
  <2>1. UNCHANGED <<objs, objCache, tokens, uids, clients, lag, pc, token>> /\ ds # None
    BY <1>11 DEF DeleteService, Store, objVars, worldVars
  <2> QED BY <2>1, <1>1 DEF TokenType
<1>12. ASSUME NEW s \in Specs, CreateService(s)
       PROVE  TokenType' /\ TokenInv'
  <2>1. /\ UNCHANGED <<objs, objCache, tokens, clients, lag, pc, token>>
        /\ uids' = uids + 1 /\ uids \in Nat
    BY <1>12, ServiceAssumption DEF CreateService, Store, objVars, worldVars, PassType
  <2>2. 1..uids \subseteq 1..uids'
    BY <2>1
  <2>3. TokenType'
    BY <2>1, <2>2 DEF TokenType
  <2>4. (uids' <= 1) => uids = 0
    BY <2>1
  <2> QED BY <2>1, <2>3, <2>4 DEF TokenInv, TokenType
<1>13. ASSUME NEW k \in Kinds, DropObject(k), uids' = uids,
              k = "secret" => "secret" \in Removable \/ uids > 1 \/ ds = None
       PROVE  TokenType' /\ TokenInv'
  <2>1. /\ objs' = [objs EXCEPT ![k] = None] /\ lag' = lag \cup {k}
        /\ UNCHANGED <<ds, objCache, tokens, clients, pc, token>>
    BY <1>13 DEF DropObject, apiVars, worldVars, passVars, localVars
  <2>2. /\ DOMAIN objs' = Kinds
        /\ \A j \in Kinds : objs'[j] = IF j = k THEN None ELSE objs[j]
    BY <2>1 DEF TokenType
  <2>3. "secret" \in Kinds /\ "dep" \in Kinds
    BY DEF Kinds
  <2>4. /\ \A j \in Kinds : objs'[j] # None => objs'[j] = objs[j]
        /\ k # "secret" => objs'["secret"] = objs["secret"]
    BY <2>2, <2>3
  <2>5. TokenType'
    BY <1>13, <2>1, <2>2, <2>3, <2>4 DEF TokenType
  <2>6. uids \in Nat
    BY ServiceAssumption DEF PassType
  <2>7. CASE k = "secret"
    BY <1>13, <2>1, <2>5, <2>6, <2>7 DEF TokenInv
  <2>8. CASE k # "secret"
    BY <1>13, <2>1, <2>4, <2>5, <2>8 DEF TokenInv
  <2> QED BY <2>7, <2>8
<1>14. ASSUME NEW k \in Kinds, Collect(k)
       PROVE  TokenType' /\ TokenInv'
  <2>1. DropObject(k) /\ uids' = uids /\ Ownerless(k)
    BY <1>14 DEF Collect, budgetVars
  <2>2. ASSUME k = "secret", ds # None
        PROVE  uids > 1
    <3>1. /\ ds.uid \in 1..uids /\ objs[k].owner \in 1..uids /\ objs[k].owner # ds.uid
          /\ uids \in Nat
      BY <2>1, <2>2, ServiceAssumption DEF Ownerless, PassType, Known, Service, TokenType
    <3> QED BY <3>1
  <2> QED BY <1>13, <2>1, <2>2
<1>15. ASSUME NEW k \in Removable, RemoveObject(k)
       PROVE  TokenType' /\ TokenInv'
  <2>1. k \in Kinds /\ DropObject(k) /\ uids' = uids
    BY <1>15, ServiceAssumption DEF RemoveObject
  <2> QED BY <1>13, <2>1
<1> QED
  BY NextCases, <1>2, <1>3, <1>4, <1>5, <1>6, <1>7, <1>8, <1>9, <1>10, <1>11, <1>12, <1>14,
     <1>15, Zenon DEF UserAction, ObjectAction

-----------------------------------------------------------------------------
(* Selection and tunnel clients.                                           *)

\* A status patch leaves the rest of the service alone.
LEMMA StatusKeeps ==
  ASSUME PassType, NEW o \in Outcomes, WriteStatus(o)
  PROVE  /\ ds = None => ds' = None
         /\ ds # None => /\ ds' # None /\ ds'.uid = ds.uid /\ ds'.spec = ds.spec
                         /\ ds'.finalizer = ds.finalizer
<1> DEFINE new == [ds EXCEPT !.status = Patched(ds.status, work.status, report.status)]
<1>1. ds' = ds \/ (ds # None /\ ds' = new)
  BY DEF WriteStatus
<1>2. ASSUME ds # None
      PROVE  new \in Service /\ new.uid = ds.uid /\ new.spec = ds.spec /\ new.finalizer = ds.finalizer
  <2>1. ds \in Service
    BY <1>2 DEF PassType, Known
  <2>2. report.status \in Status /\ work.status \in Status
    BY Zenon DEF WriteStatus, PassType, Known, Service
  <2> QED BY <2>1, <2>2, PatchedType DEF Service
<1> QED BY <1>1, <1>2, NoneAssumption

\* A container the cache knows is still there as long as none was deleted.
LEMMA CacheSelectsLess ==
  ASSUME NEW spec \in Specs, \A c \in Containers : dcCache[c] # None => dcs[c] # None
  PROVE  /\ Selected(spec, dcCache) \subseteq Selected(spec, dcs)
         /\ CleanupHosts(spec, dcCache) \subseteq CleanupHosts(spec, dcs)
<1>1. spec.who \subseteq Containers
  BY ServiceAssumption
<1>2. Selected(spec, dcCache) \subseteq Selected(spec, dcs)
  BY <1>1 DEF Selected
<1> QED BY <1>2 DEF CleanupHosts

\* Every step keeps what caches and passes know of the selection, or counts as
\* one that deselects.
LEMMA NextSelect ==
  ASSUME PassType, LifeInv, SelectInv, [Next]_vars
  PROVE  SelectInv'
<1> USE DEF SelectInv
<1> SUFFICES ASSUME ~deselected' PROVE SelectInv'
  OBVIOUS
<1>1. \A s \in Steps : s \notin {"idle", "addFinalizer", "cleanup", "status"}
  BY DEF Steps
<1>2. ASSUME UNCHANGED <<ds, dsCache, dcs, dcCache, deselected>>,
             UNCHANGED <<pc, work, first>> \/ pc' \notin Steps
      PROVE  SelectInv'
  BY <1>2 DEF Selected
<1>3. CASE StepAction
  <2>1. StepFrame
    BY <1>3, StepsKeepFrame DEF PassType
  <2> QED BY <2>1 DEF StepFrame, Selected
<1>4. CASE \/ UNCHANGED vars \/ RollOut \/ GetNothing \/ ObjectAction
           \/ \E h \in Hosts : TouchClient(h)
           \/ \E o \in Outcomes : \E h \in Hosts : Cleanup(h, o)
  BY <1>4, <1>2 DEF vars, dcVars, apiVars, passVars, localVars, budgetVars, RollOut, GetNothing,
       ObjectAction, Collect, RemoveObject, DropObject, TouchClient, Cleanup, Pay
<1>5. CASE GetDeleted \/ GetNew \/ GetUnresolved
  BY <1>5, <1>2, <1>1 DEF GetDeleted, GetNew, GetUnresolved, Take, Pay, apiVars, dcVars
<1>6. CASE GetTargets
  <2>1. /\ UNCHANGED <<ds, dsCache, dcs, dcCache, deselected>> /\ work' = dsCache /\ Live
        /\ dsCache.spec.form = "ok" /\ first' \in Selected(dsCache.spec, dcCache)
    BY <1>6 DEF GetTargets, Take, Pay, apiVars, dcVars
  <2>2. dsCache # None /\ ds # None /\ ds.uid = dsCache.uid
    BY <2>1, NoneAssumption DEF LifeInv, Live
  <2> QED BY <2>1, <2>2 DEF Selected
<1>7. CASE SyncService
  <2>1. dsCache' = ds /\ UNCHANGED <<ds, dcs, dcCache, deselected, pc, work, first>>
    BY <1>7 DEF SyncService, dcVars, localVars, budgetVars
  <2> QED BY <2>1 DEF Selected
<1>8. CASE SyncContainers
  <2>1. dcCache' = dcs /\ UNCHANGED <<ds, dsCache, dcs, deselected, pc, work, first>>
    BY <1>8 DEF SyncContainers, apiVars, localVars, budgetVars
  <2>2. pc \in Steps => work.spec \in Specs
    BY WorkKnown DEF Service
  <2>3. pc \in Steps => first \in Selected(work.spec, dcs)
    BY <2>1, <2>2, CacheSelectsLess
  <2> QED BY <2>1, <2>3 DEF Selected
<1>9. ASSUME NEW new \in 0..MaxUpgrades, Crash(new)
      PROVE  SelectInv'
  BY <1>9, <1>1 DEF Crash, Forget
<1>10. ASSUME NEW c \in Containers, NEW a \in Addrs \cup {0, None}, MoveContainer(c, a)
       PROVE  SelectInv'
  <2>1. /\ dcs' = [dcs EXCEPT ![c] = a] /\ a # None /\ ~deselected
        /\ UNCHANGED <<ds, dsCache, dcCache, pc, work, first>>
    BY <1>10 DEF MoveContainer, apiVars, passVars, localVars
  <2> QED BY <2>1 DEF PassType, Selected
<1>11. ASSUME NEW o \in Outcomes, AddFinalizer(o)
       PROVE  SelectInv'
  <2>1. /\ UNCHANGED <<dsCache, dcs, dcCache, deselected>> /\ pc' = "idle" /\ pc = "addFinalizer"
        /\ ds' = ds \/ (fresh /\ ds' = [work EXCEPT !.finalizer = TRUE])
    BY <1>11 DEF AddFinalizer, Update, Return, Forget, Pay, dcVars
  <2>2. fresh => work = ds /\ ds \in Service /\ ds # None
    BY <2>1, NoneAssumption DEF LifeInv, PassType
  <2>3. ds' = ds \/ (ds # None /\ ds'.uid = ds.uid /\ ds'.spec = ds.spec)
    BY <2>1, <2>2 DEF Service
  <2> QED BY <2>1, <2>3, <1>1 DEF Selected
<1>12. ASSUME NEW o \in Outcomes, RemoveFinalizer(o)
       PROVE  SelectInv'
  <2>1. /\ UNCHANGED <<dsCache, dcs, dcCache, deselected>> /\ pc' = "idle"
        /\ ds' = ds \/ ds' = None
    BY <1>12 DEF RemoveFinalizer, Update, Return, Forget, Pay, dcVars
  <2> QED BY <2>1, <1>1 DEF Selected
<1>13. ASSUME NEW o \in Outcomes, WriteStatus(o)
       PROVE  SelectInv'
  <2>1. /\ UNCHANGED <<dsCache, dcs, dcCache, deselected>> /\ pc' \in {"idle", "status"}
    BY <1>13 DEF WriteStatus, Return, Forget, Pay, dcVars
  <2> QED BY <2>1, <1>1, <1>13, StatusKeeps DEF Selected
<1>14. ASSUME NEW s \in Specs, CreateService(s)
       PROVE  SelectInv'
  <2>1. /\ UNCHANGED <<dsCache, dcs, dcCache, deselected, pc, work, first>>
        /\ ds'.uid = uids + 1 /\ ds = None
    BY <1>14 DEF CreateService, Store, dcVars
  <2>2. pc \notin Steps
    BY <2>1, NoneAssumption DEF LifeInv
  <2>3. dsCache # None => dsCache.uid # uids + 1
    BY ServiceAssumption DEF PassType, Known, Service
  <2> QED BY <2>1, <2>2, <2>3
<1>15. ASSUME NEW s \in Specs, EditService(s)
       PROVE  SelectInv'
  BY <1>15 DEF EditService
<1>16. CASE DeleteService
  <2> DEFINE new == [ds EXCEPT !.deleting = TRUE]
  <2>1. /\ UNCHANGED <<dsCache, dcs, dcCache, deselected, pc, work, first>>
        /\ ds # None /\ IF ds.finalizer THEN ds' = new ELSE ds' = None
    BY <1>16 DEF DeleteService, Store, dcVars
  <2>2. new.uid = ds.uid /\ new.spec = ds.spec
    BY <2>1 DEF PassType, Known, Service
  <2>3. pc \in Steps => ds.finalizer
    BY DEF LifeInv
  <2>4. CASE ds.finalizer
    BY <2>1, <2>2, <2>4 DEF Selected
  <2>5. CASE ~ds.finalizer
    BY <2>1, <2>3, <2>5 DEF Selected
  <2> QED BY <2>4, <2>5
<1> QED
  BY NextCases, <1>3, <1>4, <1>5, <1>6, <1>7, <1>8, <1>9, <1>10, <1>11, <1>12, <1>13, <1>14,
     <1>15, <1>16, Zenon DEF UserAction

\* What a step of reconcileTunnelClient does to the clients.
LEMMA StepClients ==
  ASSUME PassType, TokenType, StepAction
  PROVE  \A h \in Hosts : clients'[h] # None => clients[h] # None \/ h = host
<1>1. ASSUME NEW step, NEW o, NEW new, ClientCall(step, o, new)
      PROVE  \A h \in Hosts : clients'[h] # None => clients[h] # None \/ h = host
  BY <1>1 DEF ClientCall, TokenType
<1>2. ASSUME NEW o \in Outcomes, RemoveClient(o) \/ CreateClient(o) \/ StartClient(o) \/ ConnectClient(o)
      PROVE  \E step, new : ClientCall(step, o, new)
  BY <1>2, Zenon DEF RemoveClient, CreateClient, StartClient, ConnectClient
<1>3. ASSUME \/ TargetMissing
             \/ \E o \in Outcomes :
                  \/ \E current \in BOOLEAN :
                       \/ ReconcileService(o, current) \/ ServerSecret(o, current)
                       \/ ReconcileConfigMap(o, current) \/ ReconcileDeployment(o, current)
                       \/ ClientSecret(o, current)
                  \/ InspectTarget(o) \/ InspectClient(o)
      PROVE  UNCHANGED clients
  BY <1>3 DEF TargetMissing, ReconcileService, ServerSecret, ReconcileConfigMap, ReconcileDeployment,
       ClientSecret, InspectTarget, InspectClient, worldVars
<1> QED BY <1>1, <1>2, <1>3 DEF StepAction

\* Every step keeps clients within the hosts a deletion visits.
LEMMA NextClient ==
  ASSUME PassType, TokenType, LifeInv, SelectInv, ClientInv, [Next]_vars
  PROVE  ClientInv'
<1> USE DEF ClientInv
<1> SUFFICES ASSUME ~deselected', ~faulted', NEW h \in Hosts, clients'[h] # None
             PROVE  /\ ds' # None /\ dsCache' # None /\ ds'.uid = dsCache'.uid /\ ds'.finalizer
                    /\ h \in CleanupHosts(ds'.spec, dcCache')
                    /\ pc' = "cleanup" => h \in todo'
  OBVIOUS
<1> DEFINE Good == /\ ds' # None /\ dsCache' # None /\ ds'.uid = dsCache'.uid /\ ds'.finalizer
                   /\ h \in CleanupHosts(ds'.spec, dcCache')
                   /\ pc' = "cleanup" => h \in todo'
<1> SUFFICES Good
  OBVIOUS
<1>1. \A s \in Steps : s \notin {"idle", "addFinalizer", "cleanup", "status"}
  BY DEF Steps
<1>2. ASSUME ~deselected, ~faulted, clients[h] # None
      PROVE  /\ ds # None /\ dsCache # None /\ ds.uid = dsCache.uid /\ ds.finalizer
             /\ ds.spec = dsCache.spec /\ ds.spec \in Specs
             /\ h \in CleanupHosts(ds.spec, dcCache) /\ h \in CleanupHosts(ds.spec, dcs)
             /\ pc = "cleanup" => h \in todo
  <2>1. /\ ds # None /\ dsCache # None /\ ds.uid = dsCache.uid /\ ds.finalizer
        /\ h \in CleanupHosts(ds.spec, dcCache)
        /\ pc = "cleanup" => h \in todo
    BY <1>2
  <2>2. ds.spec = dsCache.spec /\ ds.spec \in Specs
    BY <1>2, <2>1 DEF SelectInv, PassType, Known, Service
  <2>3. h \in CleanupHosts(ds.spec, dcs)
    BY <1>2, <2>1, <2>2, CacheSelectsLess DEF SelectInv
  <2> QED BY <2>1, <2>2, <2>3
<1>3. ASSUME ~deselected, ~faulted, clients[h] # None,
             dsCache' = dsCache \/ dsCache' = ds, dcCache' = dcCache \/ dcCache' = dcs,
             ds' # None, ds'.uid = ds.uid, ds'.spec = ds.spec, ds'.finalizer = ds.finalizer,
             UNCHANGED <<pc, todo>> \/ pc' # "cleanup"
      PROVE  Good
  BY <1>2, <1>3
<1>4. CASE StepAction
  <2>1. StepFrame /\ ~deselected /\ ~faulted
    BY <1>4, StepsKeepFrame DEF PassType, StepFrame
  <2>2. clients[h] # None \/ h = host
    BY <1>4, StepClients
  <2>3. CASE clients[h] # None
    BY <2>1, <2>3, <1>1, <1>2 DEF StepFrame
  <2>4. CASE h = host
    <3>1. /\ ds \in Service /\ dsCache \in Service /\ ds.finalizer /\ ds.uid = dsCache.uid
      BY <2>1 DEF StepFrame, LifeInv
    <3>2. /\ ds.spec.form = "ok" /\ first \in Selected(ds.spec, dcCache)
      BY <2>1 DEF StepFrame, SelectInv
    <3>3. h \in CleanupHosts(ds.spec, dcCache)
      BY <2>4, <3>2 DEF CleanupHosts, host
    <3> QED BY <2>1, <3>1, <3>3, <1>1, NoneAssumption DEF StepFrame
  <2> QED BY <2>2, <2>3, <2>4
<1>5. CASE UNCHANGED vars \/ RollOut \/ ObjectAction \/ GetNothing
  <2>1. UNCHANGED <<ds, dsCache, dcCache, pc, todo, clients, deselected>>
    BY <1>5 DEF vars, dcVars, apiVars, worldVars, passVars, localVars, budgetVars, RollOut, GetNothing,
         ObjectAction, Collect, RemoveObject, DropObject
  <2>2. ASSUME NEW k, RemoveObject(k) PROVE ~faulted
    BY <2>2 DEF RemoveObject, Suffer
  <2>3. ~faulted
    BY <1>5, <2>2 DEF vars, budgetVars, RollOut, GetNothing, ObjectAction, Collect
  <2> QED BY <2>1, <2>3, <1>2
<1>6. ASSUME NEW g \in Hosts, TouchClient(g)
      PROVE  Good
  <2>1. /\ UNCHANGED <<ds, dsCache, dcCache, pc, todo>> /\ ~deselected /\ ~faulted
    BY <1>6 DEF TouchClient, apiVars, dcVars, passVars, localVars, Suffer
  <2>2. clients[h] # None
    BY <1>6 DEF TouchClient, TokenType
  <2> QED BY <2>1, <2>2, <1>2
<1>7. ASSUME NEW c \in Containers, NEW a \in Addrs \cup {0, None}, MoveContainer(c, a)
      PROVE  Good
  <2>1. /\ UNCHANGED <<ds, dsCache, dcCache, pc, todo, clients>> /\ ~deselected /\ ~faulted
    BY <1>7 DEF MoveContainer, apiVars, worldVars, passVars, localVars, Suffer
  <2> QED BY <2>1, <1>2
<1>8. CASE SyncService \/ SyncContainers
  <2>1. /\ UNCHANGED <<ds, pc, todo, clients>> /\ ~deselected /\ ~faulted
        /\ dsCache' = dsCache \/ dsCache' = ds
        /\ dcCache' = dcCache \/ dcCache' = dcs
    BY <1>8 DEF SyncService, SyncContainers, apiVars, dcVars, worldVars, localVars, budgetVars
  <2> QED BY <2>1, <1>2, <1>3
<1>9. ASSUME NEW new \in 0..MaxUpgrades, Crash(new)
      PROVE  Good
  <2>1. /\ UNCHANGED <<ds, clients>> /\ ~deselected /\ ~faulted /\ pc' = "idle"
        /\ dsCache' = ds /\ dcCache' = dcs
    BY <1>9 DEF Crash, Suffer, Forget
  <2> QED BY <2>1, <1>2, <1>3
<1>10. CASE GetDeleted \/ GetNew \/ GetUnresolved \/ GetTargets
  <2>1. ASSUME NEW step, Take(step)
        PROVE  /\ UNCHANGED <<ds, dsCache, dcCache, clients>> /\ ~deselected /\ ~faulted
               /\ pc' = step
    BY <2>1 DEF Take, Pay, Suffer, apiVars, dcVars, worldVars
  <2>2. \E step : Take(step) /\ (step # "cleanup" \/ todo' = CleanupHosts(dsCache.spec, dcCache))
    BY <1>10 DEF GetDeleted, GetNew, GetUnresolved, GetTargets
  <2> QED BY <2>1, <2>2, <1>2
<1>11. ASSUME NEW o \in Outcomes, AddFinalizer(o)
       PROVE  Good
  <2>1. /\ UNCHANGED <<dsCache, dcCache, clients>> /\ pc' = "idle" /\ pc = "addFinalizer"
        /\ ds' = ds \/ fresh
        /\ ~deselected /\ ~faulted
    BY <1>11 DEF AddFinalizer, Update, Return, Forget, Pay, Suffer, dcVars, worldVars
  <2>2. ~fresh
    BY <2>1, <1>2 DEF LifeInv
  <2> QED BY <2>1, <2>2, <1>2
<1>12. ASSUME NEW o \in Outcomes, NEW g \in Hosts, Cleanup(g, o)
       PROVE  Good
  <2>1. /\ UNCHANGED <<ds, dsCache, dcCache, pc>> /\ ~deselected /\ ~faulted /\ o = "ok"
        /\ clients' = [clients EXCEPT ![g] = None] /\ todo' = todo \ {g}
    BY <1>12 DEF Cleanup, Pay, Suffer, apiVars, dcVars, Outcomes
  <2>2. clients[h] # None /\ h # g
    BY <2>1 DEF TokenType
  <2> QED BY <2>1, <2>2, <1>2
<1>13. ASSUME NEW o \in Outcomes, RemoveFinalizer(o)
       PROVE  Good
  <2>1. pc = "cleanup" /\ todo = {} /\ UNCHANGED clients /\ ~deselected /\ ~faulted
    BY <1>13 DEF RemoveFinalizer, Update, Pay, Suffer, worldVars
  <2> QED BY <2>1, <1>2
<1>14. ASSUME NEW o \in Outcomes, WriteStatus(o)
       PROVE  Good
  <2>1. /\ UNCHANGED <<dsCache, dcCache, clients>> /\ ~deselected /\ ~faulted
        /\ pc' \in {"idle", "status"}
    BY <1>14 DEF WriteStatus, Return, Forget, Pay, Suffer, dcVars, worldVars
  <2> QED BY <2>1, <1>2, <1>3, <1>14, StatusKeeps
<1>15. ASSUME NEW s \in Specs, CreateService(s)
       PROVE  Good
  <2>1. ds = None /\ UNCHANGED clients /\ ~deselected /\ ~faulted
    BY <1>15 DEF CreateService, Store, worldVars
  <2> QED BY <2>1, <1>2
<1>16. ASSUME NEW s \in Specs, EditService(s)
       PROVE  Good
  BY <1>16 DEF EditService
<1>17. CASE DeleteService
  <2> DEFINE new == [ds EXCEPT !.deleting = TRUE]
  <2>1. /\ UNCHANGED <<dsCache, dcCache, clients, pc, todo>> /\ ~deselected /\ ~faulted
        /\ IF ds.finalizer THEN ds' = new ELSE ds' = None
    BY <1>17 DEF DeleteService, Store, Suffer, dcVars, worldVars
  <2>2. ds.finalizer /\ ds # None
    BY <2>1, <1>2
  <2>3. /\ new \in Service /\ new.uid = ds.uid /\ new.spec = ds.spec
        /\ new.finalizer = ds.finalizer
    BY <2>2 DEF PassType, Known, Service
  <2>4. new # None
    BY <2>3, NoneAssumption
  <2> HIDE DEF new
  <2> QED BY <2>1, <2>2, <2>3, <2>4, <1>3
<1> HIDE DEF Good
<1> QED
  BY NextCases, <1>4, <1>5, <1>6, <1>7, <1>8, <1>9, <1>10, <1>11, <1>12, <1>13, <1>14, <1>15,
     <1>16, <1>17, Zenon DEF UserAction

-----------------------------------------------------------------------------
(* The theorems.                                                           *)

ServiceInv == PassType /\ TokenType /\ LifeInv /\ TokenInv /\ SelectInv /\ ClientInv

\* The invariant holds at first.
LEMMA InitService == Init => ServiceInv
<1> SUFFICES ASSUME Init PROVE ServiceInv
  OBVIOUS
<1>1. PassType
  BY InitPass
<1>2. TokenType
  BY DEF Init, TokenType, Kinds
<1>3. LifeInv /\ TokenInv /\ SelectInv /\ ClientInv
  BY DEF Init, LifeInv, Live, TokenInv, SelectInv, ClientInv, Steps
<1> QED BY <1>1, <1>2, <1>3 DEF ServiceInv

\* It is kept by every step.
LEMMA NextService == ServiceInv /\ [Next]_vars => ServiceInv'
  BY NextPass, NextLife, NextTokens, NextSelect, NextClient DEF ServiceInv

\* Hence it always holds.
LEMMA ServiceInvariant == Spec => []ServiceInv
  BY InitService, NextService, PTL DEF Spec

\* The stored and cached objects are well formed and every step of a pass has
\* what its next call needs: the container whose host it asks, and a token that
\* was drawn for a Secret.
THEOREM TypeCorrect == Spec => []TypeOK
<1>1. ServiceInv => TypeOK
  <2> SUFFICES ASSUME ServiceInv PROVE TypeOK
    OBVIOUS
  <2>1. PassType /\ TokenType
    BY DEF ServiceInv
  <2>2. {ds, dsCache, work} \subseteq Service \cup {None}
    BY <2>1 DEF PassType, Known
  <2>3. \A h \in Hosts : clients[h] # None => clients[h].token \in 1..tokens
    BY <2>1 DEF TokenType, ClientsUpTo
  <2>4. pc = "status" => report.status \in Status /\ report.again \in BOOLEAN
    BY <2>1, Zenon DEF PassType
  <2>5. /\ pc = "idle" => work = None /\ token = None
        /\ pc \in {"svc", "secret", "cm", "dep", "rep", "client", "create"} => first # None
        /\ pc \in {"cm", "dep", "client", "remove", "create"} => token \in 1..tokens
    BY <2>1 DEF PassType, TokenType, Steps
  <2>6. /\ dcs \in [Containers -> Addrs \cup {0, None}] /\ dcCache \in [Containers -> Addrs \cup {0, None}]
        /\ lag \subseteq Kinds /\ tokens \in Nat
        /\ list \in Lists /\ first \in Containers \cup {None} /\ todo \subseteq Hosts
    BY <2>1 DEF PassType, TokenType
  <2> QED BY <2>2, <2>3, <2>4, <2>5, <2>6, Zenon DEF TypeOK
<1> QED BY <1>1, ServiceInvariant, PTL

\* The tunnel server's Deployment and every tunnel client have the Secret's
\* token, though a pass reads the Secret twice from a cache that may not have it
\* yet, for a service that is created once and whose Secret nobody deletes.
THEOREM TokensAgreeTheorem == Spec => []TokensAgree
<1>1. ServiceInv => TokensAgree
  <2> SUFFICES ASSUME ServiceInv, uids <= 1, "secret" \notin Removable, objs["secret"] # None
               PROVE  /\ objs["dep"] # None => objs["dep"].val.token = objs["secret"].val
                      /\ \A h \in Hosts : clients[h] # None => clients[h].token = objs["secret"].val
    BY DEF TokensAgree
  <2>1. tokens \in Nat /\ tokens <= 1
    BY DEF ServiceInv, TokenType, TokenInv
  <2>2. \A t \in 1..tokens : t = 1
    BY <2>1
  <2>3. objs["secret"].val \in 1..tokens
    BY DEF ServiceInv, TokenType
  <2>4. /\ objs["dep"] # None => objs["dep"].val.token \in 1..tokens
        /\ \A h \in Hosts : clients[h] # None => clients[h].token \in 1..tokens
    BY DEF ServiceInv, TokenType, ClientsUpTo
  <2> QED BY <2>2, <2>3, <2>4
<1> QED BY <1>1, ServiceInvariant, PTL

\* A service that is gone has left no tunnel client on any host, as long as no
\* call failed and nothing it selected was deleted or deselected: whatever the
\* caches had missed, deleteExternalResources visited every host that had one.
THEOREM NoClientLeaksTheorem == Spec => []NoClientLeaks
<1>1. ServiceInv => NoClientLeaks
  BY DEF ServiceInv, ClientInv, NoClientLeaks
<1> QED BY <1>1, ServiceInvariant, PTL
=============================================================================
