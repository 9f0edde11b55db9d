------------------------ MODULE TunnelPipelineProofs ------------------------
(***************************************************************************)
(* Proof, for any containers, addresses, window and bounds, that every     *)
(* step of the operator and the tunnel server together is a step of        *)
(* TargetFeed: the server's targets are a list that was published, whole.  *)
(***************************************************************************)
EXTENDS TunnelPipeline, DockerServiceProofs, SequenceTheorems

PipelineLoaders == {"watcher", "request"}

\* Wherever a list is, it was published: the ConfigMap says what is, as long as
\* there is a server to tell, and file, loaders, pushes and server got what
\* they have from there.
FeedInv ==
  /\ published = IF objs["cm"] = None \/ (pod = None /\ PodWanted = None)
                   THEN <<>> ELSE objs["cm"].val
  /\ objs["cm"] # None => objs["cm"].val \in Lists
  /\ past \subseteq Lists /\ {<<>>, published, targets, file} \subseteq past
  /\ loaded \in [PipelineLoaders -> past \cup {None}]
  /\ inFlight \in Seq(past)

-----------------------------------------------------------------------------
(* Sequences.                                                              *)

\* A sequence over a set is one over any larger set.
LEMMA SeqMonotone ==
  ASSUME NEW S, NEW T, S \subseteq T
  PROVE  Seq(S) \subseteq Seq(T)
<1> SUFFICES ASSUME NEW s \in Seq(S) PROVE s \in Seq(T)
  OBVIOUS
<1>1. PICK n \in Nat : s \in [1..n -> S]
  BY SeqDef
<1>2. s \in [1..n -> T]
  BY <1>1
<1> QED BY <1>2, SeqDef

\* Removing an entry leaves the others.
LEMMA RemoveAtKeeps ==
  ASSUME NEW S, NEW s \in Seq(S), NEW i \in 1..Len(s)
  PROVE  RemoveAt(s, i) \in Seq(S)
<1>1. Len(s) \in Nat /\ \A j \in 1..Len(s) : s[j] \in S
  BY LenProperties, ElementOfSeq
<1>2. SubSeq(s, 1, i - 1) \in Seq(S)
  BY <1>1, SubSeqProperties
<1>3. SubSeq(s, i + 1, Len(s)) \in Seq(S)
  BY <1>1, SubSeqProperties
<1> QED BY <1>2, <1>3, ConcatProperties DEF RemoveAt

-----------------------------------------------------------------------------
(* What the operator does to the ConfigMap and to its pushes.              *)

\* The target list of the ConfigMap is one.
ListsOnly(o) == o["cm"] # None => o["cm"].val \in Lists

\* CreateOrUpdate stores a target list in the ConfigMap, or nothing.
LEMMA CreateOrUpdateLists ==
  ASSUME TokenType, ListsOnly(objs), NEW k \in Kinds, NEW val, NEW o, NEW current,
         CreateOrUpdate(k, val, o, current), k = "cm" => val \in Lists
  PROVE  /\ ListsOnly(objs')
         /\ o # "fail" /\ Writes(k, val, current) =>
              objs'[k] = [owner |-> work.uid, val |-> val]
<1> DEFINE w == o # "fail" /\ Writes(k, val, current)
           new == [owner |-> work.uid, val |-> val]
<1>1. ReadAndWrite(k, current, IF w THEN [objs EXCEPT ![k] = new] ELSE objs)
  BY DEF CreateOrUpdate
<1>2. new.val = val
  OBVIOUS
<1>3. "cm" \in Kinds
  BY DEF Kinds
<1> HIDE DEF w, new
<1>4. \A j \in Kinds : objs'[j] = IF w /\ j = k THEN new ELSE objs[j]
  BY <1>1 DEF ReadAndWrite, TokenType
<1>5. ListsOnly(objs')
  BY <1>2, <1>3, <1>4 DEF ListsOnly
<1> QED BY <1>4, <1>5 DEF w, new

\* A step of the operator sends what it stores, if it sends anything.
LEMMA NextPushes ==
  ASSUME ServiceInv, ListsOnly(objs), Next
  PROVE  /\ ListsOnly(objs')
         /\ \/ UNCHANGED inFlight
            \/ inFlight' = <<>>
            \/ /\ UNCHANGED pod /\ pod # None /\ objs'["cm"] # None
               /\ inFlight' = Append(inFlight, objs'["cm"].val)
<1> DEFINE Goal == /\ ListsOnly(objs')
                   /\ \/ UNCHANGED inFlight
                      \/ inFlight' = <<>>
                      \/ /\ UNCHANGED pod /\ pod # None /\ objs'["cm"] # None
                         /\ inFlight' = Append(inFlight, objs'["cm"].val)
<1> SUFFICES Goal
  OBVIOUS
<1> USE DEF ServiceInv
<1>1. ASSUME UNCHANGED <<objs, inFlight>> PROVE Goal
  BY <1>1
<1>2. ASSUME NEW o \in Outcomes, NEW current \in BOOLEAN, ReconcileService(o, current)
      PROVE  Goal
  <2>1. CreateOrUpdate("svc", 0, o, current) /\ UNCHANGED inFlight /\ "svc" \in Kinds
    BY <1>2 DEF ReconcileService, worldVars, Kinds
  <2> QED BY <2>1, CreateOrUpdateLists
<1>3. ASSUME NEW o \in Outcomes, NEW current \in BOOLEAN, ReconcileDeployment(o, current)
      PROVE  Goal
  <2> DEFINE val == [replicas |-> IF list = <<>> THEN 0 ELSE 1, token |-> token, image |-> image]
  <2>1. CreateOrUpdate("dep", val, o, current) /\ UNCHANGED inFlight /\ "dep" \in Kinds
    BY <1>3, Zenon DEF ReconcileDeployment, worldVars, Kinds
  <2> HIDE DEF val
  <2> QED BY <2>1, CreateOrUpdateLists
<1>4. ASSUME NEW o \in Outcomes, NEW current \in BOOLEAN, ReconcileConfigMap(o, current)
      PROVE  Goal
  <2>1. /\ CreateOrUpdate("cm", list, o, current) /\ "cm" \in Kinds /\ UNCHANGED pod
        /\ inFlight' = IF o = "ok" /\ Result("cm", list, current) = "updated"
                          THEN Sent(list) ELSE inFlight
    BY <1>4 DEF ReconcileConfigMap, Kinds
  <2>2. list \in Lists
    BY DEF PassType
  <2>3. /\ ListsOnly(objs')
        /\ o # "fail" /\ Writes("cm", list, current) =>
             objs'["cm"] = [owner |-> work.uid, val |-> list]
    BY <2>1, <2>2, CreateOrUpdateLists
  <2>4. CASE UNCHANGED inFlight
    BY <2>3, <2>4
  <2>5. CASE ~UNCHANGED inFlight
    <3>1. o = "ok" /\ Result("cm", list, current) = "updated" /\ inFlight' = Sent(list)
      BY <2>1, <2>5
    <3>2. pod # None /\ inFlight' = Append(inFlight, list)
      BY <2>5, <3>1 DEF Sent
    <3>3. objs'["cm"] = [owner |-> work.uid, val |-> list]
      BY <2>3, <3>1 DEF Writes
    <3>4. pc \in Steps
      BY <1>4 DEF ReconcileConfigMap, Steps
    <3>5. work.uid \in Nat
      BY <3>4, WorkKnown
    <3>6. [owner |-> work.uid, val |-> list] \in [owner : Nat, val : Nat \cup Lists]
      BY <2>2, <3>5
    <3>7. objs'["cm"] # None /\ objs'["cm"].val = list
      BY <3>3, <3>6, NoneAssumption
    <3> QED BY <2>1, <2>3, <3>2, <3>7
  <2> QED BY <2>4, <2>5
<1>5. ASSUME NEW o \in Outcomes, NEW current \in BOOLEAN,
             ServerSecret(o, current) \/ ClientSecret(o, current)
      PROVE  Goal
  <2> DEFINE w == Seen("secret", current) = None /\ objs["secret"] = None /\ o # "fail"
             new == [owner |-> work.uid, val |-> tokens']
  <2>1. /\ ReadAndWrite("secret", current, IF w THEN [objs EXCEPT !["secret"] = new] ELSE objs)
        /\ UNCHANGED inFlight
    BY <1>5 DEF ServerSecret, ClientSecret, EnsureTunnelAuthSecret, worldVars
  <2>2. "cm" \in Kinds /\ "secret" \in Kinds
    BY DEF Kinds
  <2> HIDE DEF w, new
  <2>3. \A j \in Kinds : objs'[j] = IF w /\ j = "secret" THEN new ELSE objs[j]
    BY <2>1, <2>2 DEF ReadAndWrite, Seen, TokenType
  <2>4. objs'["cm"] = objs["cm"]
    BY <2>2, <2>3
  <2> QED BY <2>1, <2>4 DEF ListsOnly
<1>6. ASSUME NEW o \in Outcomes,
             \/ InspectTarget(o) \/ InspectClient(o) \/ RemoveClient(o) \/ CreateClient(o)
             \/ StartClient(o) \/ ConnectClient(o)
      PROVE  Goal
  <2>1. UNCHANGED <<objs, inFlight>>
    BY <1>6 DEF InspectTarget, InspectClient, RemoveClient, CreateClient, StartClient, ConnectClient,
         ClientCall, objVars, worldVars
  <2> QED BY <2>1, <1>1
<1>7. CASE TargetMissing
  BY <1>7, <1>1 DEF TargetMissing, objVars, worldVars
<1>8. CASE StepAction
  BY <1>8, <1>2, <1>3, <1>4, <1>5, <1>6, <1>7, Zenon DEF StepAction
<1>9. CASE \/ UserAction \/ GetNothing \/ GetDeleted \/ GetNew \/ GetUnresolved \/ GetTargets
           \/ SyncService \/ SyncContainers \/ RollOut
  <2>1. UNCHANGED <<objs, inFlight>>
    BY <1>9 DEF UserAction, CreateService, EditService, DeleteService, Store, GetNothing, GetDeleted,
         GetNew, GetUnresolved, GetTargets, Take, SyncService, SyncContainers, RollOut, objVars, worldVars
  <2> QED BY <2>1, <1>1
<1>10. CASE \E o \in Outcomes : \/ AddFinalizer(o) \/ RemoveFinalizer(o) \/ WriteStatus(o)
                               \/ \E h \in Hosts : Cleanup(h, o)
  <2>1. UNCHANGED <<objs, inFlight>>
    BY <1>10 DEF AddFinalizer, RemoveFinalizer, Update, WriteStatus, Cleanup, objVars, worldVars
  <2> QED BY <2>1, <1>1
<1>11. CASE \/ \E c \in Containers : \E a \in Addrs \cup {0, None} : MoveContainer(c, a)
            \/ \E h \in Hosts : TouchClient(h)
  <2>1. UNCHANGED <<objs, inFlight>>
    BY <1>11 DEF MoveContainer, TouchClient, objVars, worldVars
  <2> QED BY <2>1, <1>1
<1>12. ASSUME NEW new \in 0..MaxUpgrades, Crash(new)
       PROVE  Goal
  BY <1>12 DEF Crash
<1>13. CASE ObjectAction
  <2>1. PICK k \in Kinds : DropObject(k)
    BY <1>13, ServiceAssumption DEF ObjectAction, Collect, RemoveObject
  <2>2. objs' = [objs EXCEPT ![k] = None] /\ UNCHANGED inFlight
    BY <2>1 DEF DropObject, worldVars
  <2>3. "cm" \in Kinds
    BY DEF Kinds
  <2> QED BY <2>2, <2>3 DEF ListsOnly, TokenType
<1> HIDE DEF Goal
<1> QED BY NextCases, <1>8, <1>9, <1>10, <1>11, <1>12, <1>13, Zenon

-----------------------------------------------------------------------------
(* The composition.                                                        *)

\* Everything of DockerService but the pushes on their way.
NotPushes == UNCHANGED <<apiVars, dcVars, objVars, pod, clients, image, passVars, budgetVars>>

\* A step of the pipeline is one of the operator or leaves it alone.
LEMMA OperatorSteps ==
  ASSUME [PipelineNext]_pipelineVars
  PROVE  [Next]_vars \/ NotPushes
<1>1. ASSUME NEW i, PushReaches(i) \/ PushLost(i) PROVE NotPushes
  BY <1>1 DEF PushReaches, PushLost, PushArrives, NotPushes
<1>2. ASSUME NEW k \in Kinds, Gone(k) PROVE Next
  BY <1>2, Zenon DEF Gone, Next, Surroundings
<1>3. CASE Operate \/ Deliver \/ Disturb \/ NewPod
  BY <1>3, Zenon DEF Operate, Deliver, Disturb, NewPod, Next, Surroundings
<1>4. CASE Mount \/ Watch \/ Age \/ \E l \in {"watcher", "request"} : Load(l)
  BY <1>4 DEF Mount, Watch, Age, Load, Running
<1>5. CASE UNCHANGED pipelineVars
  BY <1>5 DEF pipelineVars
<1> QED BY <1>1, <1>2, <1>3, <1>4, <1>5, Zenon DEF PipelineNext

\* The operator's invariant holds in the pipeline too.
LEMMA PipelineService == ServiceInv /\ [PipelineNext]_pipelineVars => ServiceInv'
<1> SUFFICES ASSUME ServiceInv, [PipelineNext]_pipelineVars PROVE ServiceInv'
  OBVIOUS
<1>1. CASE [Next]_vars
  BY <1>1, NextService
<1>2. CASE NotPushes
  <2>1. /\ UNCHANGED <<ds, dsCache, dsFresh, dcs, dcCache, objs, objCache, lag, tokens, pod, clients>>
        /\ UNCHANGED <<image, queued, pc, work, fresh, list, first, token, todo, report>>
        /\ UNCHANGED <<deselected, faulted, troubles, uids>>
    BY <1>2 DEF NotPushes, apiVars, dcVars, objVars, passVars, localVars, budgetVars
  <2>2. PassType'
    BY <2>1 DEF ServiceInv, PassType, Known
  <2>3. TokenType' /\ LifeInv' /\ TokenInv'
    BY <2>1 DEF ServiceInv, TokenType, LifeInv, Live, TokenInv
  <2>4. SelectInv' /\ ClientInv'
    BY <2>1 DEF ServiceInv, SelectInv, Selected, ClientInv, CleanupHosts
  <2> QED BY <2>2, <2>3, <2>4 DEF ServiceInv
<1> QED BY <1>1, <1>2, OperatorSteps

\* The operator publishes; the server keeps what it has.
LEMMA PublishStep ==
  ASSUME ServiceInv, FeedInv, Next, UNCHANGED serverVars, Publishes
  PROVE  FeedInv' /\ Feed!Next
<1>1. UNCHANGED <<targets, file, loaded>>
  BY DEF serverVars
<1>2. ListsOnly(objs)
  BY DEF FeedInv, ListsOnly
<1>3. /\ ListsOnly(objs')
      /\ \/ UNCHANGED inFlight
         \/ inFlight' = <<>>
         \/ /\ UNCHANGED pod /\ pod # None /\ objs'["cm"] # None
            /\ inFlight' = Append(inFlight, objs'["cm"].val)
  BY <1>2, NextPushes
<1>4. published' = IF objs'["cm"] = None \/ (pod' = None /\ PodWanted' = None)
                     THEN <<>> ELSE objs'["cm"].val
  BY DEF Publishes
<1>5. past' = past \cup {published'}
  BY DEF Publishes
<1>6. published' \in Lists
  BY <1>3, <1>4 DEF ListsOnly, Lists
<1>7. past \subseteq past' /\ past' \subseteq Lists /\ {<<>>, published', targets, file} \subseteq past'
  BY <1>5, <1>6 DEF FeedInv
<1>8. loaded \in [PipelineLoaders -> past' \cup {None}]
  BY <1>7 DEF FeedInv
<1>9. inFlight' \in Seq(past')
  <2>1. inFlight \in Seq(past')
    BY <1>7, SeqMonotone DEF FeedInv
  <2>2. CASE UNCHANGED inFlight \/ inFlight' = <<>>
    BY <2>1, <2>2, EmptySeq
  <2>3. CASE pod' # None /\ objs'["cm"] # None /\ inFlight' = Append(inFlight, objs'["cm"].val)
    <3>1. objs'["cm"].val \in past'
      BY <2>3, <1>4, <1>5
    <3> QED BY <2>1, <2>3, <3>1, AppendProperties
  <2> QED BY <2>2, <2>3, <1>3
<1>10. FeedInv'
  BY <1>1, <1>3, <1>4, <1>7, <1>8, <1>9 DEF FeedInv, ListsOnly, PipelineLoaders
<1>11. Feed!Publish(published')
  BY <1>1, <1>5 DEF Feed!Publish
<1> QED BY <1>6, <1>10, <1>11 DEF Feed!Next

\* A server that comes has no list yet, one that goes takes its list away.
LEMMA NewPodStep ==
  ASSUME FeedInv, NewPod
  PROVE  FeedInv' /\ Feed!Next
<1>1. /\ targets' = <<>> /\ UNCHANGED file
      /\ loaded' = [l \in PipelineLoaders |-> None]
  BY DEF NewPod, Server!StartServer, PipelineLoaders
<1>2. /\ UNCHANGED <<objs, inFlight>> /\ pod' = PodWanted /\ pod # PodWanted
      /\ PodWanted' = PodWanted
  BY DEF NewPod, RollOut, objVars, PodWanted
<1>3. published' = IF objs["cm"] = None \/ PodWanted = None THEN <<>> ELSE objs["cm"].val
  BY <1>2 DEF NewPod, Publishes
<1>4. past' = past \cup {published'}
  BY DEF NewPod, Publishes
<1>5. published' = <<>> \/ published' = published
  BY <1>2, <1>3 DEF FeedInv
<1>6. past' = past
  BY <1>4, <1>5 DEF FeedInv
<1>7. published' \in past
  BY <1>5 DEF FeedInv
<1>8. FeedInv'
  BY <1>1, <1>2, <1>3, <1>6, <1>7 DEF FeedInv, PipelineLoaders
<1>9. CASE published' = <<>>
  BY <1>1, <1>6, <1>8, <1>9 DEF Feed!Next, Feed!Withdraw
<1>10. CASE published' = published
  <2>1. <<>> \in past /\ <<>> \in Lists
    BY DEF FeedInv
  <2>2. Feed!Follow(<<>>)
    BY <1>1, <1>6, <1>10, <2>1 DEF Feed!Follow
  <2> QED BY <1>8, <2>1, <2>2 DEF Feed!Next
<1> QED BY <1>5, <1>9, <1>10

\* The server's own steps: what it takes was published.
LEMMA ServerStep ==
  ASSUME FeedInv, UNCHANGED <<objs, pod, published, past>>,
         inFlight' \in Seq(past), file' \in past,
         loaded' \in [PipelineLoaders -> past \cup {None}],
         targets' \in past
  PROVE  FeedInv' /\ [Feed!Next]_(Feed!vars)
<1>1. FeedInv'
  BY DEF FeedInv, PodWanted, PipelineLoaders
<1>2. targets' \in Lists
  BY DEF FeedInv
<1>3. Feed!Follow(targets')
  BY DEF Feed!Follow
<1> QED BY <1>1, <1>2, <1>3 DEF Feed!Next

\* Every step of the pipeline is one of the feed or leaves it alone.
LEMMA FeedStep ==
  ASSUME ServiceInv, FeedInv, [PipelineNext]_pipelineVars
  PROVE  FeedInv' /\ [Feed!Next]_(Feed!vars)
<1> DEFINE Goal == FeedInv' /\ [Feed!Next]_(Feed!vars)
<1>1. CASE Operate \/ Disturb \/ \E k \in Kinds : Gone(k)
  <2>1. Next /\ UNCHANGED serverVars /\ Publishes
    BY <1>1, Zenon DEF Operate, Disturb, Gone, Next, Surroundings
  <2> QED BY <2>1, PublishStep
<1>2. CASE NewPod
  BY <1>2, NewPodStep
<1>3. ASSUME UNCHANGED <<objs, pod, inFlight, published, past, targets, file, loaded>>
      PROVE  Goal
  BY <1>3, ServerStep DEF FeedInv
<1>4. CASE Deliver
  <2>1. UNCHANGED <<objs, pod, inFlight, published, past, targets, file, loaded>>
    BY <1>4 DEF Deliver, Informers, SyncService, SyncContainers, objVars, worldVars, serverVars
  <2> QED BY <2>1, <1>3
<1>5. CASE UNCHANGED pipelineVars
  BY <1>5, <1>3 DEF pipelineVars, vars, objVars, worldVars, serverVars
<1>6. CASE Mount
  <2>1. /\ UNCHANGED <<objs, pod, inFlight, published, past, targets, loaded>>
        /\ pod # None /\ objs["cm"] # None /\ file' = objs["cm"].val
    BY <1>6 DEF Mount, Server!RefreshFile, Server!targetVars, vars, objVars, worldVars
  <2>2. file' \in past
    BY <2>1 DEF FeedInv
  <2> QED BY <2>1, <2>2, ServerStep DEF FeedInv
<1>7. ASSUME NEW l \in PipelineLoaders, Server!StartLoad(l)
      PROVE  UNCHANGED <<targets, file>> /\ loaded' \in [PipelineLoaders -> past \cup {None}]
  BY <1>7 DEF Server!StartLoad, Server!targetVars, FeedInv
<1>8. CASE Watch
  <2>1. UNCHANGED <<objs, pod, inFlight, published, past>> /\ Server!StartLoad("watcher")
    BY <1>8 DEF Watch, Running, vars, objVars, worldVars
  <2>2. UNCHANGED <<targets, file>> /\ loaded' \in [PipelineLoaders -> past \cup {None}]
    BY <2>1, <1>7 DEF PipelineLoaders
  <2> QED BY <2>1, <2>2, ServerStep DEF FeedInv
<1>9. CASE Age
  <2>1. UNCHANGED <<objs, pod, inFlight, published, past, targets, file, loaded>>
    BY <1>9 DEF Age, Running, Server!Tick, vars, objVars, worldVars
  <2> QED BY <2>1, <1>3
<1>10. ASSUME NEW l \in {"watcher", "request"}, Load(l)
       PROVE  Goal
  <2>1. /\ UNCHANGED <<objs, pod, inFlight, published, past, file>>
        /\ loaded[l] # None /\ loaded' = [loaded EXCEPT ![l] = None]
        /\ targets' = targets \/ targets' = loaded[l]
    BY <1>10 DEF Load, Running, Server!LoadTargets, Server!SetTargets, Server!targetVars, vars,
         objVars, worldVars
  <2>2. loaded' \in [PipelineLoaders -> past \cup {None}] /\ targets' \in past
    BY <2>1 DEF FeedInv, PipelineLoaders
  <2> QED BY <2>1, <2>2, ServerStep DEF FeedInv
<1>11. ASSUME NEW i \in 1..Len(inFlight), PushReaches(i) \/ PushLost(i)
       PROVE  Goal
  <2>1. UNCHANGED <<objs, pod, published, past>> /\ inFlight' = RemoveAt(inFlight, i)
    BY <1>11 DEF PushReaches, PushLost, PushArrives, objVars
  <2>2. inFlight' \in Seq(past) /\ inFlight[i] \in past
    BY <2>1, RemoveAtKeeps, ElementOfSeq DEF FeedInv
  <2>3. \/ UNCHANGED <<targets, file, loaded>>
        \/ Server!StartLoad("request")
        \/ targets' = inFlight[i] /\ UNCHANGED <<file, loaded>>
    BY <1>11 DEF PushReaches, PushLost, serverVars, Server!AcceptPush, Server!SetTargets
  <2>4. targets' \in past /\ file' \in past /\ loaded' \in [PipelineLoaders -> past \cup {None}]
    BY <2>2, <2>3, <1>7 DEF FeedInv, PipelineLoaders
  <2> QED BY <2>1, <2>2, <2>4, ServerStep
<1> HIDE DEF Goal
<1>12. Goal
  BY <1>1, <1>2, <1>4, <1>5, <1>6, <1>8, <1>9, <1>10, <1>11, Zenon DEF PipelineNext, Goal
<1> QED BY <1>12 DEF Goal

\* The pipeline starts where the feed does.
LEMMA PipelineInitial == PipelineInit => ServiceInv /\ FeedInv /\ Feed!Init
<1> SUFFICES ASSUME PipelineInit PROVE ServiceInv /\ FeedInv /\ Feed!Init
  OBVIOUS
<1>1. Init /\ published = <<>> /\ past = {<<>>} /\ file = <<>>
  BY DEF PipelineInit
<1>2. targets = <<>> /\ loaded = [l \in PipelineLoaders |-> None]
  BY DEF PipelineInit, Server!Init, PipelineLoaders
<1>3. ServiceInv
  BY <1>1, InitService
<1>4. objs["cm"] = None /\ inFlight = <<>>
  BY <1>1 DEF Init, Kinds
<1>5. <<>> \in Lists
  BY DEF Lists
<1>6. FeedInv
  BY <1>1, <1>2, <1>4, <1>5, EmptySeq DEF FeedInv, PipelineLoaders
<1> QED BY <1>1, <1>2, <1>3, <1>6 DEF Feed!Init

\* Operator, ConfigMap, file, pushes and server implement TargetFeed as far as
\* safety goes: whatever is lost, late, overtaken or restarted, the server's
\* targets only ever become a list that was published, whole, or none.
THEOREM FeedSafe == PipelineSpec => Feed!Init /\ [][Feed!Next]_(Feed!vars)
<1>1. PipelineInit => ServiceInv /\ FeedInv /\ Feed!Init
  BY PipelineInitial
<1>2. ServiceInv /\ FeedInv /\ [PipelineNext]_pipelineVars =>
        ServiceInv' /\ FeedInv' /\ [Feed!Next]_(Feed!vars)
  BY PipelineService, FeedStep
<1> QED BY <1>1, <1>2, PTL DEF PipelineSpec
=============================================================================
