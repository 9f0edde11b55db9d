-------------------------- MODULE DockerHostProofs --------------------------
(***************************************************************************)
(* Proofs, for any hosts, names and objects and any mapping from container *)
(* names to object names, that passes leave what users wrote alone and     *)
(* that a container is claimed by one object at most.                      *)
(***************************************************************************)
EXTENDS DockerHost, FiniteSetTheorems, FunctionTheorems, TLAPS

-----------------------------------------------------------------------------
(* The invariants.                                                         *)

Container == [id : 1..ids, cfg : Cfgs, adopt : BOOLEAN]
Snapshot == [name : Names, id : 1..ids, cfg : Cfgs]

DaemonType == ids \in Nat /\ daemon \in [Hosts -> [Names -> Container \cup {None}]]

StatusType ==
  /\ {status, statusCache} \subseteq [Hosts -> Statuses \cup {None}]
  /\ hostLag \subseteq Hosts /\ report \in Statuses

ObjectType == {crs, crCache} \subseteq [Objects -> CR \cup {None}] /\ lag \subseteq Objects

\* A pass has a snapshot from Inspect on, and an object's copy while it writes.
Visiting == pc \in {"upsert", "create", "update", "observed"}
Writing == pc \in {"update", "observed"}

PassType ==
  /\ queued \subseteq Hosts /\ todo \subseteq 1..ids
  /\ pc = "idle" => cur = None
  /\ pc # "idle" => cur \in Hosts
  /\ Visiting => snap \in Snapshot /\ snap.id \notin todo
  /\ Writing => obj \in Objects /\ work \in CR /\ Of(work, cur, snap.name)

\* A copy that counts as current is what is stored, and so is the cached copy
\* of an object that did not change.
FreshInv ==
  /\ fresh \in BOOLEAN /\ (fresh => Writing /\ crs[obj] = work)
  /\ \A o \in Objects \ lag : crCache[o] = crs[o]

\* What an object says of a container: its own name comes from the container's,
\* which is the one that has the ID.
Claim(cr, o, nm) ==
  cr # None => o = ObjectName[cr.name] /\ cr.from \in 1..ids /\ nm[cr.from] = cr.name

NamedBy(nm) ==
  /\ \A h \in Hosts, n \in Names : daemon[h][n] # None => nm[daemon[h][n].id] = n
  /\ \A o \in Objects : Claim(crs[o], o, nm) /\ Claim(crCache[o], o, nm)
  /\ Writing => Claim(work, obj, nm)
  /\ Visiting => nm[snap.id] = snap.name

\* While nobody renames containers or makes objects by hand, an ID stands for
\* one name wherever it is: on a daemon, in an object, in a cached or a read
\* copy.
ClaimInv ==
  had \cap {"rename", "hand"} = {} => \E nm \in [1..ids -> Names] : NamedBy(nm)

\* The steps, by who takes them.
LEMMA NextCases ==
  ASSUME [Next]_vars
  PROVE  \/ \E h \in Hosts : Get(h) \/ SyncHost(h) \/ ChangeHost(h) \/ Reach(h)
         \/ \E o \in Outcomes : \/ Ping(o) \/ WriteHost(o) \/ List(o)
                                \/ UpdateMeta(o) \/ UpdateStatus(o) \/ Create(o)
                                \/ \E id \in todo : Inspect(id, o)
         \/ \E current \in BOOLEAN : Upsert(current)
         \/ Crash \/ NoClient \/ UNCHANGED vars
         \/ \E o \in Objects : \/ Observe(o) \/ Enforce(o)
                               \/ \E taken \in BOOLEAN : DeleteCR(o, taken)
                               \/ \E mode \in Modes, cfg \in Cfgs : EditCR(o, mode, cfg)
                               \/ \E d \in Drafts : HandMade(o, d)
         \/ \E h \in Hosts, n \in Names : \/ RemoveContainer(h, n)
                                          \/ \E cfg \in Cfgs : StartContainer(h, n, cfg)
                                          \/ \E m \in Names : Rename(h, m, n)
  BY Zenon DEF Next, Pass, Others

-----------------------------------------------------------------------------
(* Daemons.                                                                *)

\* What may happen to a daemon: containers go, one comes under a new ID, one
\* gets another name.
Thins ==
  /\ ids' = ids
  /\ \A h \in Hosts, n \in Names : daemon'[h][n] \in {None, daemon[h][n]}

Grows(h, n) ==
  /\ ids' = ids + 1
  /\ daemon'[h][n] # None => daemon'[h][n].id = ids'
  /\ \A g \in Hosts, m \in Names : (g # h \/ m # n) => daemon'[g][m] = daemon[g][m]

\* A host whose containers are replaced leaves the other hosts alone.
LEMMA DaemonSet ==
  ASSUME DaemonType, NEW h \in Hosts, NEW new \in [Names -> Container' \cup {None}],
         ids' \in Nat, ids <= ids', daemon' = [daemon EXCEPT ![h] = new]
  PROVE  /\ DaemonType' /\ daemon'[h] = new
         /\ \A g \in Hosts \ {h} : daemon'[g] = daemon[g]
<1>1. Container \subseteq Container'
  <2>1. 1..ids \subseteq 1..ids'
    BY DEF DaemonType
  <2> QED BY <2>1 DEF Container
<1>2. daemon \in [Hosts -> [Names -> Container \cup {None}]]
  BY DEF DaemonType
<1>3. [Names -> Container \cup {None}] \subseteq [Names -> Container' \cup {None}]
  BY <1>1
<1>4. daemon \in [Hosts -> [Names -> Container' \cup {None}]]
  BY <1>2, <1>3
<1>5. daemon' \in [Hosts -> [Names -> Container' \cup {None}]]
  BY <1>4
<1> QED BY <1>2, <1>5 DEF DaemonType

\* A container comes or goes.
Becomes(h, n, c) ==
  /\ daemon'[h][n] = c
  /\ \A g \in Hosts, m \in Names : (g # h \/ m # n) => daemon'[g][m] = daemon[g][m]

\* A container that is set leaves the others of its host alone.
LEMMA ContainerSet ==
  ASSUME DaemonType, NEW h \in Hosts, NEW n \in Names, NEW c, c \in Container' \cup {None},
         ids' \in Nat, ids <= ids', NEW new, new = [daemon[h] EXCEPT ![n] = c],
         daemon' = [daemon EXCEPT ![h] = new]
  PROVE  DaemonType' /\ Becomes(h, n, c)
<1>1. 1..ids \subseteq 1..ids'
  BY DEF DaemonType
<1>2. Container \subseteq Container'
  BY <1>1 DEF Container
<1>3. daemon[h] \in [Names -> Container' \cup {None}]
  BY <1>2 DEF DaemonType
<1>4. new \in [Names -> Container' \cup {None}]
  BY <1>3
<1>5. /\ DaemonType' /\ daemon'[h] = new
      /\ \A g \in Hosts \ {h} : daemon'[g] = daemon[g]
  BY <1>4, DaemonSet
<1>6. new[n] = c /\ \A m \in Names \ {n} : new[m] = daemon[h][m]
  BY <1>3
<1> QED BY <1>5, <1>6 DEF Becomes

\* An object that is stored is well formed.
LEMMA ObjectFields ==
  ASSUME ObjectType, NEW o \in Objects, crs[o] # None
  PROVE  crs[o] \in CR /\ crs[o].host \in Hosts /\ crs[o].name \in Names /\ crs[o].cfg \in Cfgs
  BY DEF ObjectType, CR

\* Only an enforced object and somebody on the host start a container, under
\* an ID that was not given out before.
LEMMA GrowSteps ==
  ASSUME DaemonType, ObjectType,
         \/ \E o \in Objects : Enforce(o)
         \/ \E h \in Hosts, n \in Names, cfg \in Cfgs : StartContainer(h, n, cfg)
  PROVE  /\ DaemonType' /\ ids' \in Nat /\ ids <= ids'
         /\ \E h \in Hosts, n \in Names : Grows(h, n)
         /\ UNCHANGED <<crVars, passVars, statusVars>>
         /\ had \subseteq had'
<1>1. ASSUME NEW h \in Hosts, NEW n \in Names, NEW cfg \in Cfgs, NEW b \in BOOLEAN, ids' = ids + 1,
             daemon' = [daemon EXCEPT ![h] = [daemon[h] EXCEPT ![n] = Run(ids', cfg, b)]]
      PROVE  DaemonType' /\ ids' \in Nat /\ ids <= ids' /\ Grows(h, n)
  <2>1. ids' \in Nat /\ ids <= ids' /\ ids' \in 1..ids'
    BY <1>1 DEF DaemonType
  <2>2. Run(ids', cfg, b) \in Container' /\ Run(ids', cfg, b).id = ids'
    <3>1. Run(ids', cfg, b) \in Container'
      BY <2>1, Zenon DEF Run, Container
    <3> QED BY <3>1 DEF Run
  <2>3. DaemonType' /\ Becomes(h, n, Run(ids', cfg, b))
    <3>1. PICK new : new = [daemon[h] EXCEPT ![n] = Run(ids', cfg, b)]
      OBVIOUS
    <3>2. daemon' = [daemon EXCEPT ![h] = new]
      BY <1>1, <3>1
    <3> QED BY <2>1, <2>2, <3>1, <3>2, ContainerSet
  <2> QED BY <1>1, <2>1, <2>2, <2>3 DEF Becomes, Grows
<1>2. ASSUME NEW o \in Objects, Enforce(o)
      PROVE  /\ DaemonType' /\ ids' \in Nat /\ ids <= ids'
             /\ \E h \in Hosts, n \in Names : Grows(h, n)
             /\ UNCHANGED <<crVars, passVars, statusVars>> /\ had' = had
  <2>1. /\ crs[o] # None /\ ids' = ids + 1
        /\ daemon' = [daemon EXCEPT ![crs[o].host][crs[o].name] = Run(ids', crs[o].cfg, FALSE)]
        /\ UNCHANGED <<crVars, passVars, statusVars>> /\ had' = had
    BY <1>2 DEF Enforce, budgetVars
  <2>2. crs[o].host \in Hosts /\ crs[o].name \in Names /\ crs[o].cfg \in Cfgs
    BY <2>1, ObjectFields
  <2>3. daemon' = [daemon EXCEPT ![crs[o].host] =
                     [daemon[crs[o].host] EXCEPT ![crs[o].name] = Run(ids', crs[o].cfg, FALSE)]]
    BY <2>1
  <2>4. DaemonType' /\ ids' \in Nat /\ ids <= ids' /\ Grows(crs[o].host, crs[o].name)
    BY <1>1, <2>1, <2>2, <2>3
  <2> QED BY <2>1, <2>2, <2>4
<1>3. ASSUME NEW h \in Hosts, NEW n \in Names, NEW cfg \in Cfgs, StartContainer(h, n, cfg)
      PROVE  /\ DaemonType' /\ ids' \in Nat /\ ids <= ids' /\ Grows(h, n)
             /\ UNCHANGED <<crVars, passVars, statusVars>> /\ had \subseteq had'
  <2>1. /\ ids' = ids + 1
        /\ daemon' = [daemon EXCEPT ![h] = [daemon[h] EXCEPT ![n] = Run(ids', cfg, TRUE)]]
        /\ UNCHANGED <<crVars, passVars, statusVars>> /\ had \subseteq had'
    BY <1>3 DEF StartContainer, Docker, Suffer
  <2> QED BY <1>1, <2>1
<1> QED BY <1>2, <1>3

\* A container that goes leaves the others.
LEMMA ContainerGoes ==
  ASSUME DaemonType, NEW h \in Hosts, NEW n \in Names, ids' = ids,
         daemon' = [daemon EXCEPT ![h] = [daemon[h] EXCEPT ![n] = None]]
  PROVE  DaemonType' /\ Thins
<1>1. PICK new : new = [daemon[h] EXCEPT ![n] = None]
  OBVIOUS
<1>2. daemon' = [daemon EXCEPT ![h] = new]
  BY <1>1
<1>3. ids' \in Nat /\ ids <= ids'
  BY DEF DaemonType
<1>4. DaemonType' /\ Becomes(h, n, None)
  BY <1>1, <1>2, <1>3, ContainerSet
<1> QED BY <1>4 DEF Becomes, Thins

\* Nothing happens on the hosts.
LEMMA SameDaemon ==
  ASSUME DaemonType, UNCHANGED <<daemon, ids>>
  PROVE  DaemonType' /\ Thins
  BY DEF DaemonType, Container, Thins

\* A rename keeps every ID.
LEMMA RenameDaemon ==
  ASSUME DaemonType, NEW h \in Hosts, NEW m \in Names, NEW n \in Names, Rename(h, m, n)
  PROVE  DaemonType' /\ ids' = ids /\ UNCHANGED <<crVars, passVars, statusVars>> /\ "rename" \in had'
<1>1. /\ daemon' = [daemon EXCEPT ![h] = [daemon[h] EXCEPT ![n] = daemon[h][m], ![m] = None]]
      /\ ids' = ids /\ UNCHANGED <<crVars, passVars, statusVars>> /\ "rename" \in had'
  BY DEF Rename, Docker, Suffer
<1>2. PICK new : new = [daemon[h] EXCEPT ![n] = daemon[h][m], ![m] = None]
  OBVIOUS
<1>3. daemon' = [daemon EXCEPT ![h] = new]
  BY <1>1, <1>2
<1>4. ids' \in Nat /\ ids <= ids' /\ Container' = Container
  BY <1>1 DEF DaemonType, Container
<1>5. new \in [Names -> Container' \cup {None}]
  BY <1>2, <1>4 DEF DaemonType
<1> QED BY <1>1, <1>3, <1>4, <1>5, DaemonSet

\* The deletion of an object takes at most its container.
LEMMA DeleteDaemon ==
  ASSUME DaemonType, ObjectType, NEW o \in Objects, NEW taken \in BOOLEAN, DeleteCR(o, taken)
  PROVE  DaemonType' /\ Thins
<1>1. crs[o] # None /\ ids' = ids
  BY DEF DeleteCR
<1>2. crs[o].host \in Hosts /\ crs[o].name \in Names
  BY <1>1, ObjectFields
<1>3. \/ daemon' = daemon
      \/ daemon' = [daemon EXCEPT ![crs[o].host] = [daemon[crs[o].host] EXCEPT ![crs[o].name] = None]]
  BY DEF DeleteCR
<1> QED BY <1>1, <1>2, <1>3, SameDaemon, ContainerGoes

\* Somebody on the host removes a container.
LEMMA RemoveDaemon ==
  ASSUME DaemonType, NEW h \in Hosts, NEW n \in Names, RemoveContainer(h, n)
  PROVE  DaemonType' /\ Thins
<1>1. daemon' = [daemon EXCEPT ![h] = [daemon[h] EXCEPT ![n] = None]] /\ ids' = ids
  BY DEF RemoveContainer, Docker
<1> QED BY <1>1, ContainerGoes

\* The steps that leave the daemons alone.
LEMMA StillSteps ==
  ASSUME \/ \E h \in Hosts : Get(h) \/ SyncHost(h) \/ ChangeHost(h) \/ Reach(h)
         \/ \E o \in Outcomes : \/ Ping(o) \/ WriteHost(o) \/ List(o)
                                \/ UpdateMeta(o) \/ UpdateStatus(o) \/ Create(o)
                                \/ \E id \in todo : Inspect(id, o)
         \/ \E current \in BOOLEAN : Upsert(current)
         \/ Crash \/ NoClient \/ UNCHANGED vars
         \/ \E o \in Objects : \/ Observe(o)
                               \/ \E mode \in Modes, cfg \in Cfgs : EditCR(o, mode, cfg)
                               \/ \E d \in Drafts : HandMade(o, d)
  PROVE  UNCHANGED <<daemon, ids>>
<1> USE DEF hostVars
<1>1. CASE \E h \in Hosts : Get(h) \/ SyncHost(h) \/ ChangeHost(h) \/ Reach(h)
  BY <1>1 DEF Get, SyncHost, ChangeHost, Reach
<1>2. CASE \E o \in Outcomes : Ping(o) \/ WriteHost(o) \/ List(o) \/ Create(o) \/ \E id \in todo : Inspect(id, o)
  BY <1>2 DEF Ping, WriteHost, List, Inspect, Create
<1>3. CASE \E o \in Outcomes : UpdateMeta(o) \/ UpdateStatus(o)
  BY <1>3 DEF UpdateMeta, UpdateStatus, PutBack
<1>4. CASE (\E current \in BOOLEAN : Upsert(current)) \/ Crash \/ NoClient \/ UNCHANGED vars
  BY <1>4 DEF Upsert, Crash, NoClient, vars
<1>5. CASE \E o \in Objects : \/ Observe(o)
                              \/ \E mode \in Modes, cfg \in Cfgs : EditCR(o, mode, cfg)
                              \/ \E d \in Drafts : HandMade(o, d)
  BY <1>5 DEF Observe, EditCR, HandMade
<1> QED BY <1>1, <1>2, <1>3, <1>4, <1>5, Zenon

\* What a step may do on the hosts.
LEMMA NextDaemon ==
  ASSUME DaemonType, ObjectType, [Next]_vars
  PROVE  /\ DaemonType' /\ ids' \in Nat /\ ids <= ids'
         /\ Thins \/ "rename" \in had' \/ \E h \in Hosts, n \in Names : Grows(h, n)
<1>1. ids \in Nat /\ ids <= ids
  BY DEF DaemonType
<1>2. ASSUME DaemonType', Thins
      PROVE  DaemonType' /\ ids' \in Nat /\ ids <= ids'
  BY <1>1, <1>2 DEF Thins
<1>3. ASSUME NEW o \in Objects, NEW taken \in BOOLEAN, DeleteCR(o, taken)
      PROVE  DaemonType' /\ Thins
  BY <1>3, DeleteDaemon
<1>4. ASSUME NEW h \in Hosts, NEW n \in Names, RemoveContainer(h, n)
      PROVE  DaemonType' /\ Thins
  BY <1>4, RemoveDaemon
<1>5. ASSUME NEW h \in Hosts, NEW n \in Names, NEW m \in Names, Rename(h, m, n)
      PROVE  DaemonType' /\ ids' = ids /\ "rename" \in had'
  BY <1>5, RenameDaemon
<1>6. CASE \/ \E o \in Objects : Enforce(o)
           \/ \E h \in Hosts, n \in Names, cfg \in Cfgs : StartContainer(h, n, cfg)
  BY <1>6, GrowSteps
<1>7. CASE UNCHANGED <<daemon, ids>>
  BY <1>1, <1>2, <1>7, SameDaemon
<1>8. \/ UNCHANGED <<daemon, ids>>
      \/ \E o \in Objects : Enforce(o) \/ \E taken \in BOOLEAN : DeleteCR(o, taken)
      \/ \E h \in Hosts, n \in Names : \/ RemoveContainer(h, n)
                                       \/ \E cfg \in Cfgs : StartContainer(h, n, cfg)
                                       \/ \E m \in Names : Rename(h, m, n)
  BY NextCases, StillSteps, Zenon
<1>9. CASE \E o \in Objects : Enforce(o) \/ \E taken \in BOOLEAN : DeleteCR(o, taken)
  BY <1>2, <1>3, <1>6, <1>9
<1>10. CASE \E h \in Hosts, n \in Names : \/ RemoveContainer(h, n)
                                          \/ \E cfg \in Cfgs : StartContainer(h, n, cfg)
                                          \/ \E m \in Names : Rename(h, m, n)
  BY <1>1, <1>2, <1>4, <1>5, <1>6, <1>10
<1> QED BY <1>7, <1>8, <1>9, <1>10, Zenon

-----------------------------------------------------------------------------
(* Passes.                                                                 *)

\* The end of a pass forgets its copies.
LEMMA Ended ==
  ASSUME PassType, cur \in Hosts, Return
  PROVE  PassType' /\ report' = "" /\ fresh' = FALSE /\ pc' = "idle"
  BY DEF Return, Forget, PassType, Visiting, Writing

\* So does going on to the next container.
LEMMA Advanced ==
  ASSUME PassType, cur \in Hosts, ids' = ids, NEW left, left \subseteq 1..ids, NextContainer(left)
  PROVE  PassType' /\ report' \in {report, ""} /\ fresh' = FALSE /\ pc' \in {"idle", "inspect"}
<1>1. CASE left = {}
  BY <1>1, Ended DEF NextContainer
<1>2. CASE left # {}
  BY <1>2 DEF NextContainer, PassType, Visiting, Writing
<1> QED BY <1>1, <1>2

\* A pass stays well formed while more IDs are given out.
LEMMA SamePass ==
  ASSUME PassType, ids \in Nat, ids' \in Nat, ids <= ids',
         UNCHANGED <<queued, pc, cur, todo, snap, obj, work>>
  PROVE  PassType'
<1>1. 1..ids \subseteq 1..ids'
  OBVIOUS
<1>2. Snapshot \subseteq Snapshot'
  BY <1>1 DEF Snapshot
<1>3. queued' \subseteq Hosts /\ todo' \subseteq 1..ids' /\ (pc' = "idle" => cur' = None)
      /\ (pc' # "idle" => cur' \in Hosts)
  BY <1>1 DEF PassType
<1>4. Visiting' => snap' \in Snapshot' /\ snap'.id \notin todo'
  BY <1>2 DEF PassType, Visiting
<1>5. Writing' => obj' \in Objects /\ work' \in CR /\ Of(work', cur', snap'.name)
  BY DEF PassType, Writing
<1> QED BY <1>3, <1>4, <1>5 DEF PassType, Of, Visiting, Writing

\* The status of the hosts does while nobody writes it.
LEMMA SameStatus ==
  ASSUME StatusType, UNCHANGED statusVars, report' \in {report, ""}
  PROVE  StatusType'
  BY DEF StatusType, statusVars, Statuses

\* So do the objects.
LEMMA SameObjects ==
  ASSUME ObjectType, UNCHANGED crVars
  PROVE  ObjectType'
  BY DEF ObjectType, crVars

\* A copy stays current while nobody writes an object, or is given up.
LEMMA SameFresh ==
  ASSUME FreshInv, UNCHANGED crVars, UNCHANGED <<pc, fresh, obj, work>> \/ fresh' = FALSE
  PROVE  FreshInv'
<1>1. fresh' \in BOOLEAN
  BY Zenon DEF FreshInv
<1>2. fresh' => Writing' /\ crs'[obj'] = work'
  BY DEF FreshInv, crVars, Writing
<1> QED BY <1>1, <1>2 DEF FreshInv, crVars

\* What passes and others keep: the types and that current copies are what is
\* stored.
Sound == StatusType /\ ObjectType /\ PassType /\ FreshInv

\* A pass is about a host.
LEMMA CurHost ==
  ASSUME PassType, pc # "idle"
  PROVE  cur \in Hosts
  BY DEF PassType

\* A pass that ends keeps the invariant.
LEMMA ReturnSound ==
  ASSUME Sound, pc # "idle", Return, UNCHANGED <<statusVars, crVars>>
  PROVE  Sound'
  BY CurHost, Ended, SameStatus, SameObjects, SameFresh DEF Sound

\* So does one that goes on to the next container.
LEMMA AdvanceSound ==
  ASSUME Sound, pc # "idle", NEW left, left \subseteq 1..ids, NextContainer(left),
         UNCHANGED <<ids, statusVars, crVars>>
  PROVE  Sound'
  BY CurHost, Advanced, SameStatus, SameObjects, SameFresh DEF Sound

\* Reconcile reads the host from the cache.
LEMMA GetSound ==
  ASSUME Sound, NEW h \in Hosts, Get(h)
  PROVE  Sound'
<1>1. /\ UNCHANGED <<ids, statusVars, crVars, todo, snap, obj, work, fresh>> /\ pc = "idle"
      /\ queued' \subseteq queued
  BY DEF Get, hostVars, copyVars
<1>2. ObjectType'
  BY <1>1, SameObjects DEF Sound
<1>3. ~fresh
  BY <1>1 DEF Sound, FreshInv, Writing
<1>4. FreshInv'
  BY <1>1, <1>3, SameFresh DEF Sound, FreshInv
<1>5. CASE statusCache[h] = None
  <2>1. UNCHANGED <<pc, cur, report>>
    BY <1>5 DEF Get
  <2>2. PassType'
    BY <1>1, <2>1 DEF Sound, PassType, Visiting, Writing
  <2> QED BY <1>1, <1>2, <1>4, <2>1, <2>2, SameStatus DEF Sound
<1>6. CASE statusCache[h] # None
  <2>1. pc' = "client" /\ cur' = h /\ report' = statusCache[h]
    BY <1>6 DEF Get
  <2>2. PassType'
    BY <1>1, <2>1 DEF Sound, PassType, Visiting, Writing
  <2>3. StatusType'
    BY <1>1, <1>6, <2>1 DEF Sound, StatusType, statusVars
  <2> QED BY <1>2, <1>4, <2>2, <2>3 DEF Sound
<1> QED BY <1>5, <1>6

\* The status the pass will write.
LEMMA ReportSound ==
  ASSUME Sound, pc = "client", NEW new \in Statuses, Report(new), UNCHANGED <<ids, statusVars, crVars>>
  PROVE  Sound'
<1>1. /\ pc' = "status" /\ report' = new
      /\ UNCHANGED <<queued, cur, todo, snap, obj, work, fresh>>
  BY DEF Report, copyVars
<1>2. PassType'
  BY <1>1 DEF Sound, PassType, Visiting, Writing
<1>3. FreshInv'
  BY <1>1, SameFresh DEF Sound, FreshInv, Writing
<1>4. StatusType'
  BY <1>1 DEF Sound, StatusType, statusVars
<1> QED BY <1>2, <1>3, <1>4, SameObjects DEF Sound

\* The pass goes on to discovery.
LEMMA ListNextSound ==
  ASSUME Sound, pc \in {"client", "status"}, Goto("list"), ids' = ids
  PROVE  PassType' /\ fresh' = FALSE /\ report' = report
<1>1. /\ pc' = "list" /\ UNCHANGED <<queued, cur, report, todo, snap, obj, work, fresh>>
  BY DEF Goto, copyVars
<1>2. fresh = FALSE
  BY DEF Sound, FreshInv, Writing
<1> QED BY <1>1, <1>2 DEF Sound, PassType, Visiting, Writing

\* The ping of the daemon.
LEMMA PingSound ==
  ASSUME Sound, NEW o \in Outcomes, Ping(o)
  PROVE  Sound'
<1>1. pc = "client" /\ UNCHANGED <<ids, statusVars, crVars>>
  BY DEF Ping, hostVars
<1>2. \/ Report("connected") \/ Report("no answer") \/ Goto("list") \/ Return
  BY DEF Ping
<1>3. CASE Goto("list")
  BY <1>1, <1>3, ListNextSound, SameStatus, SameObjects, SameFresh DEF Sound
<1> QED BY <1>1, <1>2, <1>3, ReportSound, ReturnSound DEF Statuses

\* The host whose client cannot be made.
LEMMA NoClientSound ==
  ASSUME Sound, NoClient
  PROVE  Sound'
<1>1. pc = "client" /\ UNCHANGED <<ids, statusVars, crVars>> /\ Report("no client")
  BY DEF NoClient, hostVars
<1> QED BY <1>1, ReportSound DEF Statuses

\* The write of the host's status.
LEMMA WriteHostSound ==
  ASSUME Sound, NEW o \in Outcomes, WriteHost(o)
  PROVE  Sound'
<1>1. pc = "status" /\ UNCHANGED <<ids, statusCache, crVars>> /\ (Goto("list") \/ Return)
  BY DEF WriteHost, hostVars
<1>2. cur \in Hosts
  BY <1>1, CurHost DEF Sound
<1>3. PassType' /\ fresh' = FALSE /\ report' \in Statuses
  <2>1. PassType' /\ fresh' = FALSE /\ report' \in {report, ""}
    BY <1>1, <1>2, Ended, ListNextSound DEF Sound
  <2> QED BY <2>1 DEF Sound, StatusType, Statuses
<1>4. \/ UNCHANGED <<status, hostLag>>
      \/ status' = [status EXCEPT ![cur] = report] /\ hostLag' = hostLag \cup {cur}
  BY DEF WriteHost
<1>5. status' \in [Hosts -> Statuses \cup {None}] /\ hostLag' \subseteq Hosts
  BY <1>2, <1>4 DEF Sound, StatusType
<1>6. StatusType'
  BY <1>1, <1>3, <1>5 DEF Sound, StatusType
<1> QED BY <1>1, <1>3, <1>6, SameObjects, SameFresh DEF Sound

\* The list of labelled containers.
LEMMA ListSound ==
  ASSUME Sound, DaemonType, NEW o \in Outcomes, List(o)
  PROVE  Sound'
<1>1. pc = "list" /\ UNCHANGED <<ids, statusVars, crVars>>
  BY DEF List, hostVars
<1>2. Return \/ NextContainer({daemon[cur][n].id : n \in Labelled(cur)})
  BY DEF List
<1>3. cur \in Hosts
  BY <1>1, CurHost DEF Sound
<1>4. \A n \in Names : daemon[cur][n] # None => daemon[cur][n].id \in 1..ids
  BY <1>3 DEF DaemonType, Container
<1>5. {daemon[cur][n].id : n \in Labelled(cur)} \subseteq 1..ids
  BY <1>4 DEF Labelled
<1> QED BY <1>1, <1>2, <1>5, ReturnSound, AdvanceSound

\* The inspection of one of them.
LEMMA InspectSound ==
  ASSUME Sound, DaemonType, NEW o \in Outcomes, NEW id \in todo, Inspect(id, o)
  PROVE  Sound'
<1>1. pc = "inspect" /\ UNCHANGED <<ids, statusVars, crVars>>
  BY DEF Inspect, hostVars
<1>2. cur \in Hosts /\ id \in 1..ids
  BY <1>1, CurHost DEF Sound, PassType
<1>3. CASE Return
  BY <1>1, <1>3, ReturnSound
<1>4. CASE ~Return
  <2>1. /\ pc' = "upsert" /\ todo' = todo \ {id}
        /\ UNCHANGED <<queued, cur, report, obj, work, fresh>>
        /\ snap' \in {[name |-> n, id |-> id, cfg |-> daemon[cur][n].cfg] :
                        n \in {n \in Names : daemon[cur][n] # None /\ daemon[cur][n].id = id}}
    BY <1>4 DEF Inspect, copyVars
  <2>2. PICK n \in Names : /\ daemon[cur][n] # None
                           /\ snap' = [name |-> n, id |-> id, cfg |-> daemon[cur][n].cfg]
    BY <2>1
  <2>3. daemon[cur][n].cfg \in Cfgs
    BY <1>2, <2>2 DEF DaemonType, Container
  <2>4. snap' \in Snapshot /\ snap'.id = id
    BY <1>2, <2>2, <2>3 DEF Snapshot
  <2>5. snap' \in Snapshot' /\ todo' \subseteq 1..ids'
    BY <1>1, <2>1, <2>4 DEF Snapshot, Sound, PassType
  <2>6. PassType'
    BY <1>1, <1>2, <2>1, <2>4, <2>5 DEF Sound, PassType, Visiting, Writing
  <2>7. fresh = FALSE
    BY <1>1 DEF Sound, FreshInv, Writing
  <2> QED BY <1>1, <2>1, <2>6, <2>7, SameStatus, SameObjects, SameFresh DEF Sound
<1> QED BY <1>3, <1>4

\* What a pass makes of an object is an object of the same host, container and
\* specification.
LEMMA ClaimedType ==
  ASSUME NEW cr \in CR, snap \in Snapshot, ids \in Nat
  PROVE  /\ Claimed(cr) \in CR
         /\ Claimed(cr).host = cr.host /\ Claimed(cr).name = cr.name
         /\ Claimed(cr).cfg = cr.cfg /\ Claimed(cr).mode = cr.mode /\ Claimed(cr).from = snap.id
<1>1. snap.id \in Nat \cup {None}
  BY DEF Snapshot
<1>2. Claimed(cr) = [cr EXCEPT !.managed = TRUE, !.from = snap.id]
  BY DEF Claimed
<1> QED BY <1>1, <1>2 DEF CR

\* The observation changes nothing that users write.
LEMMA ObservedType ==
  ASSUME NEW cr \in CR, snap \in Snapshot
  PROVE  /\ Observed(cr) \in CR
         /\ Observed(cr).host = cr.host /\ Observed(cr).name = cr.name
         /\ Observed(cr).cfg = cr.cfg /\ Observed(cr).mode = cr.mode /\ Observed(cr).from = cr.from
<1>1. snap.cfg \in Cfgs \cup {None}
  BY DEF Snapshot
<1>2. Observed(cr) = [cr EXCEPT !.adopted = TRUE, !.hash = snap.cfg]
  BY DEF Observed, ObservedHash
<1> QED BY <1>1, <1>2 DEF CR

\* The search for the container's object among the cached ones.
LEMMA UpsertSound ==
  ASSUME Sound, ids \in Nat, NEW current \in BOOLEAN, Upsert(current)
  PROVE  /\ Sound' /\ crs' = crs /\ UNCHANGED <<ids, statusVars>>
         /\ crCache' \in {crs, crCache}
         /\ \/ pc' \in {"idle", "inspect"}
            \/ pc' = "create" /\ snap' = snap
            \/ /\ pc' \in {"update", "observed"} /\ snap' = snap
               /\ obj' \in Objects /\ work' # None /\ work' = crCache'[obj']
<1> DEFINE list == IF current THEN crs ELSE crCache
<1>1. pc = "upsert" /\ UNCHANGED <<ids, statusVars, crs>>
  BY DEF Upsert, hostVars
<1>2. crCache' = list /\ lag' = IF current THEN {} ELSE lag
  BY DEF Upsert
<1>3. list \in [Objects -> CR \cup {None}] /\ list \in {crs, crCache}
  BY DEF Sound, ObjectType
<1>4. ObjectType'
  BY <1>1, <1>2, <1>3 DEF Sound, ObjectType
<1>5. \A o \in Objects \ lag' : crCache'[o] = crs'[o]
  BY <1>1, <1>2 DEF Sound, FreshInv
<1>6. ASSUME fresh' = FALSE, PassType', report' \in {report, ""}
      PROVE  Sound'
  <2>1. FreshInv'
    BY <1>5, <1>6, Zenon DEF FreshInv
  <2> QED BY <1>1, <1>4, <1>6, <2>1, SameStatus DEF Sound
<1>7. /\ cur \in Hosts /\ todo \subseteq 1..ids /\ fresh = FALSE
      /\ snap \in Snapshot /\ snap.id \notin todo /\ queued \subseteq Hosts
  BY <1>1 DEF Sound, PassType, FreshInv, Visiting, Writing
<1>8. CASE Goto("create")
  <2>1. pc' = "create" /\ UNCHANGED <<queued, cur, report, todo, snap, obj, work, fresh>>
    BY <1>8 DEF Goto, copyVars
  <2>2. PassType'
    BY <1>1, <1>7, <2>1 DEF PassType, Visiting, Writing, Snapshot
  <2> QED BY <1>1, <1>2, <1>3, <1>6, <1>7, <2>1, <2>2
<1>9. CASE NextContainer(todo)
  BY <1>1, <1>2, <1>3, <1>6, <1>7, <1>9, Advanced DEF Sound
<1>10. ASSUME NEW o \in Mine(list), obj' = o, work' = list[o], fresh' = (o \notin lag'),
              pc' \in {"update", "observed"}, UNCHANGED <<queued, cur, hostFresh, report, todo, snap>>
       PROVE  /\ Sound'
              /\ obj' \in Objects /\ work' # None /\ work' = crCache'[obj']
  <2>1. o \in Objects /\ Of(list[o], cur, snap.name)
    BY <1>10 DEF Mine
  <2>2. list[o] \in CR
    BY <1>3, <2>1 DEF Of
  <2>3. PassType'
    BY <1>1, <1>7, <1>10, <2>1, <2>2 DEF PassType, Visiting, Writing, Snapshot, Of
  <2>4. fresh' \in BOOLEAN
    BY <1>10, Zenon
  <2>5. fresh' => crs'[obj'] = work'
    BY <1>2, <1>5, <1>10, <2>1
  <2>6. FreshInv'
    BY <1>5, <1>10, <2>4, <2>5 DEF FreshInv, Writing
  <2>7. StatusType'
    BY <1>1, <1>10, SameStatus DEF Sound
  <2> QED BY <1>2, <1>4, <1>10, <2>1, <2>3, <2>6, <2>7 DEF Sound, Of
<1>11. \/ Goto("create") \/ NextContainer(todo)
       \/ \E o \in Mine(list) : /\ obj' = o /\ work' = list[o] /\ fresh' = (o \notin lag')
                                /\ pc' \in {"update", "observed"}
                                /\ UNCHANGED <<queued, cur, hostFresh, report, todo, snap>>
  BY DEF Upsert
<1> HIDE DEF list
<1>12. CASE \E o \in Mine(list) : /\ obj' = o /\ work' = list[o] /\ fresh' = (o \notin lag')
                                  /\ pc' \in {"update", "observed"}
                                  /\ UNCHANGED <<queued, cur, hostFresh, report, todo, snap>>
  BY <1>1, <1>2, <1>3, <1>10, <1>12
<1> QED BY <1>8, <1>9, <1>11, <1>12

\* A write changes one object, if it is taken.
Stores(o, new) ==
  /\ crs[o] # None /\ fresh
  /\ crs' = [crs EXCEPT ![o] = new] /\ lag' = lag \cup {o}

\* An update puts the whole copy back, if it is current.
LEMMA PutBackStores ==
  ASSUME Sound, Writing, NEW o \in Outcomes, NEW new \in CR, PutBack(o, new)
  PROVE  /\ ObjectType' /\ UNCHANGED <<ids, daemon, statusVars, crCache>>
         /\ \A p \in Objects \ lag' : crCache'[p] = crs'[p]
         /\ crs' = crs \/ Stores(obj, new)
         /\ Accepted(o) => Stores(obj, new) /\ crs'[obj] = new
<1>1. UNCHANGED <<ids, daemon, statusVars, crCache>>
  BY DEF PutBack, hostVars
<1>2. /\ crs \in [Objects -> CR \cup {None}] /\ crCache \in [Objects -> CR \cup {None}]
      /\ lag \subseteq Objects /\ obj \in Objects
      /\ \A p \in Objects \ lag : crCache[p] = crs[p]
  BY DEF Sound, ObjectType, PassType, FreshInv
<1>3. CASE Accepted(o)
  <2>1. crs' = [crs EXCEPT ![obj] = new] /\ lag' = lag \cup {obj} /\ crs[obj] # None /\ fresh
    BY <1>3 DEF PutBack, Accepted
  <2>2. crs' \in [Objects -> CR \cup {None}] /\ crs'[obj] = new /\ \A p \in Objects \ {obj} : crs'[p] = crs[p]
    BY <1>2, <2>1
  <2> QED BY <1>1, <1>2, <2>1, <2>2 DEF ObjectType, Stores
<1>4. CASE ~Accepted(o)
  <2>1. UNCHANGED <<crs, lag>>
    BY <1>4 DEF PutBack
  <2> QED BY <1>1, <1>2, <1>4, <2>1 DEF ObjectType
<1> QED BY <1>3, <1>4

\* The update of labels and claim.
LEMMA UpdateMetaSound ==
  ASSUME Sound, ids \in Nat, NEW o \in Outcomes, UpdateMeta(o)
  PROVE  /\ Sound' /\ Writing /\ UNCHANGED <<ids, daemon, crCache>>
         /\ crs' = crs \/ Stores(obj, Claimed(work))
         /\ \/ pc' \in {"idle", "inspect"}
            \/ pc' = "observed" /\ UNCHANGED <<cur, obj, snap>> /\ work' = Claimed(work)
<1>1. pc = "update" /\ PutBack(o, Claimed(work)) /\ Writing /\ Visiting
  BY DEF UpdateMeta, Writing, Visiting
<1>2. /\ cur \in Hosts /\ todo \subseteq 1..ids /\ work \in CR /\ snap \in Snapshot /\ obj \in Objects
      /\ snap.id \notin todo /\ queued \subseteq Hosts /\ Of(work, cur, snap.name)
  BY <1>1 DEF Sound, PassType
<1>3. Claimed(work) \in CR /\ Claimed(work).host = work.host /\ Claimed(work).name = work.name
  BY <1>2, ClaimedType
<1>4. /\ ObjectType' /\ UNCHANGED <<ids, daemon, statusVars, crCache>>
      /\ \A p \in Objects \ lag' : crCache'[p] = crs'[p]
      /\ crs' = crs \/ Stores(obj, Claimed(work))
      /\ Accepted(o) => Stores(obj, Claimed(work)) /\ crs'[obj] = Claimed(work)
  BY <1>1, <1>3, PutBackStores
<1>5. ASSUME fresh' = FALSE, PassType', report' \in {report, ""}
      PROVE  Sound'
  <2>1. FreshInv'
    BY <1>4, <1>5, Zenon DEF FreshInv
  <2> QED BY <1>4, <1>5, <2>1, SameStatus DEF Sound
<1>6. CASE Return
  BY <1>1, <1>2, <1>4, <1>5, <1>6, Ended DEF Sound
<1>7. CASE NextContainer(todo)
  BY <1>1, <1>2, <1>4, <1>5, <1>7, Advanced DEF Sound
<1>8. CASE ~Return /\ ~NextContainer(todo)
  <2>1. /\ pc' = "observed" /\ work' = Claimed(work) /\ Accepted(o)
        /\ UNCHANGED <<queued, cur, hostFresh, report, todo, snap, obj, fresh>>
    BY <1>8 DEF UpdateMeta
  <2>2. Of(work', cur', snap'.name)
    BY <1>2, <1>3, <2>1, NoneAssumption DEF Of
  <2>3. PassType'
    BY <1>2, <1>3, <1>4, <2>1, <2>2 DEF PassType, Visiting, Writing, Snapshot
  <2>4. fresh \in BOOLEAN
    BY Zenon DEF Sound, FreshInv
  <2>5. FreshInv'
    BY <1>4, <2>1, <2>4 DEF FreshInv, Writing
  <2> QED BY <1>1, <1>4, <2>1, <2>3, <2>5, SameStatus DEF Sound
<1> QED BY <1>6, <1>7, <1>8

\* The update of the status.
LEMMA UpdateStatusSound ==
  ASSUME Sound, ids \in Nat, NEW o \in Outcomes, UpdateStatus(o)
  PROVE  /\ Sound' /\ Writing /\ UNCHANGED <<ids, daemon, crCache>>
         /\ crs' = crs \/ Stores(obj, Observed(work))
         /\ pc' \in {"idle", "inspect"}
<1>1. /\ pc = "observed" /\ PutBack(o, Observed(work)) /\ Writing /\ Visiting
      /\ Return \/ NextContainer(todo)
  BY DEF UpdateStatus, Writing, Visiting
<1>2. cur \in Hosts /\ todo \subseteq 1..ids /\ work \in CR /\ snap \in Snapshot
  BY <1>1 DEF Sound, PassType
<1>3. Observed(work) \in CR
  BY <1>2, ObservedType
<1>4. /\ ObjectType' /\ UNCHANGED <<ids, daemon, statusVars, crCache>>
      /\ \A p \in Objects \ lag' : crCache'[p] = crs'[p]
      /\ crs' = crs \/ Stores(obj, Observed(work))
  BY <1>1, <1>3, PutBackStores
<1>5. PassType' /\ fresh' = FALSE /\ report' \in {report, ""} /\ pc' \in {"idle", "inspect"}
  BY <1>1, <1>2, <1>4, Ended, Advanced DEF Sound
<1>6. FreshInv'
  BY <1>4, <1>5, Zenon DEF FreshInv
<1> QED BY <1>1, <1>4, <1>5, <1>6, SameStatus DEF Sound

\* The object discovery creates is of the container at hand.
LEMMA AdoptedType ==
  ASSUME cur \in Hosts, snap \in Snapshot, ids \in Nat
  PROVE  /\ Adopted \in CR
         /\ Adopted.name = snap.name /\ Adopted.from = snap.id
<1>1. snap.id \in Nat /\ snap.name \in Names /\ snap.cfg \in Cfgs
  BY DEF Snapshot
<1> QED BY <1>1 DEF Adopted, CR, Modes

\* The creation of the object; a name that is taken ends the pass.
LEMMA CreateSound ==
  ASSUME Sound, ids \in Nat, NEW o \in Outcomes, Create(o)
  PROVE  /\ Sound' /\ pc = "create" /\ UNCHANGED <<ids, daemon, crCache>>
         /\ pc' \in {"idle", "inspect"} /\ snap \in Snapshot
         /\ ObjectName[snap.name] \in Objects
         /\ \/ crs' = crs
            \/ /\ crs[ObjectName[snap.name]] = None
               /\ crs' = [crs EXCEPT ![ObjectName[snap.name]] = Adopted]
<1>1. pc = "create" /\ UNCHANGED <<ids, daemon, statusVars, crCache>> /\ Visiting
  BY DEF Create, hostVars, Visiting
<1>2. cur \in Hosts /\ todo \subseteq 1..ids /\ snap \in Snapshot
  BY <1>1 DEF Sound, PassType
<1>3. ObjectName[snap.name] \in Objects
  BY <1>2, HostAssumption DEF Snapshot
<1>4. PICK new : new = ObjectName[snap.name]
  OBVIOUS
<1>5. /\ \/ UNCHANGED <<crs, lag>>
         \/ crs[new] = None /\ crs' = [crs EXCEPT ![new] = Adopted] /\ lag' = lag \cup {new}
      /\ Return \/ NextContainer(todo)
  BY <1>4 DEF Create, NewNames
<1>6. PassType' /\ fresh' = FALSE /\ report' \in {report, ""} /\ pc' \in {"idle", "inspect"}
  BY <1>1, <1>2, <1>5, Ended, Advanced DEF Sound
<1>7. Adopted \in CR
  BY <1>2, AdoptedType
<1>8. ObjectType' /\ \A p \in Objects \ lag' : crCache'[p] = crs'[p]
  <2>1. /\ crs \in [Objects -> CR \cup {None}] /\ crCache \in [Objects -> CR \cup {None}]
        /\ lag \subseteq Objects /\ \A p \in Objects \ lag : crCache[p] = crs[p]
    BY DEF Sound, ObjectType, FreshInv
  <2>2. CASE UNCHANGED <<crs, lag>>
    BY <1>1, <2>1, <2>2 DEF ObjectType
  <2>3. CASE crs' = [crs EXCEPT ![new] = Adopted] /\ lag' = lag \cup {new}
    BY <1>1, <1>3, <1>4, <1>7, <2>1, <2>3 DEF ObjectType
  <2> QED BY <1>5, <2>2, <2>3
<1>9. FreshInv'
  BY <1>6, <1>8, Zenon DEF FreshInv
<1> QED BY <1>1, <1>2, <1>3, <1>4, <1>5, <1>6, <1>8, <1>9, SameStatus DEF Sound

-----------------------------------------------------------------------------
(* Everybody else.                                                         *)

\* A write by somebody else makes the copy at hand an old one.
LEMMA WriteSound ==
  ASSUME Sound, ids \in Nat, ids' \in Nat, ids <= ids',
         NEW o \in Objects, NEW new \in CR \cup {None}, Write(o, new)
  PROVE  Sound'
<1>1. /\ crs' = [crs EXCEPT ![o] = new] /\ lag' = lag \cup {o} /\ fresh' = (fresh /\ o # obj)
      /\ UNCHANGED <<statusVars, crCache, queued, pc, cur, report, todo, snap, obj, work>>
  BY DEF Write
<1>2. /\ crs \in [Objects -> CR \cup {None}] /\ crCache \in [Objects -> CR \cup {None}]
      /\ lag \subseteq Objects /\ \A p \in Objects \ lag : crCache[p] = crs[p]
  BY DEF Sound, ObjectType, FreshInv
<1>3. /\ crs' \in [Objects -> CR \cup {None}] /\ \A p \in Objects \ {o} : crs'[p] = crs[p]
  BY <1>1, <1>2
<1>4. ObjectType'
  BY <1>1, <1>2, <1>3 DEF ObjectType
<1>5. PassType' /\ StatusType'
  BY <1>1, SamePass, SameStatus DEF Sound
<1>6. fresh' \in BOOLEAN
  BY <1>1, Zenon
<1>7. fresh' => Writing' /\ crs'[obj'] = work'
  <2>1. SUFFICES ASSUME fresh'
                 PROVE  Writing' /\ crs'[obj'] = work'
    OBVIOUS
  <2>2. fresh /\ o # obj
    BY <1>1, <2>1
  <2>3. Writing /\ crs[obj] = work /\ obj \in Objects
    BY <2>2 DEF Sound, FreshInv, PassType
  <2> QED BY <1>1, <1>3, <2>2, <2>3 DEF Writing
<1>8. FreshInv'
  BY <1>1, <1>2, <1>3, <1>6, <1>7 DEF FreshInv
<1> QED BY <1>4, <1>5, <1>8 DEF Sound

\* Steps that touch neither objects nor status nor pass.
LEMMA QuietSound ==
  ASSUME Sound, ids \in Nat, ids' \in Nat, ids <= ids', UNCHANGED <<crVars, passVars, statusVars>>
  PROVE  Sound'
  BY SamePass, SameStatus, SameObjects, SameFresh DEF Sound, passVars, copyVars

\* Events about a host.
LEMMA HostSound ==
  ASSUME Sound, ids \in Nat, NEW h \in Hosts, SyncHost(h) \/ ChangeHost(h)
  PROVE  Sound'
<1>1. UNCHANGED <<ids, crVars, pc, cur, report, todo, snap, obj, work, fresh>> /\ queued' \subseteq queued \cup {h}
  BY DEF SyncHost, ChangeHost, hostVars, copyVars
<1>2. /\ status \in [Hosts -> Statuses \cup {None}] /\ statusCache \in [Hosts -> Statuses \cup {None}]
      /\ hostLag \subseteq Hosts
  BY DEF Sound, StatusType
<1>3. status' \in [Hosts -> Statuses \cup {None}] /\ statusCache' \in [Hosts -> Statuses \cup {None}]
  <2>1. CASE SyncHost(h)
    BY <1>2, <2>1 DEF SyncHost
  <2>2. CASE ChangeHost(h)
    <3>1. (IF status[h] = None THEN "" ELSE None) \in Statuses \cup {None}
      BY DEF Statuses
    <3>2. statusCache' = statusCache /\ status' = [status EXCEPT ![h] = IF status[h] = None THEN "" ELSE None]
      BY <2>2 DEF ChangeHost
    <3> QED BY <1>2, <3>1, <3>2
  <2> QED BY <2>1, <2>2
<1>4. hostLag' \subseteq Hosts
  BY <1>2 DEF SyncHost, ChangeHost
<1>5. StatusType'
  BY <1>1, <1>3, <1>4 DEF Sound, StatusType
<1>6. PassType'
  BY <1>1 DEF Sound, PassType, Visiting, Writing, Snapshot
<1> QED BY <1>1, <1>5, <1>6, SameObjects, SameFresh DEF Sound

\* A restart reads everything anew.
LEMMA CrashSound ==
  ASSUME Sound, Crash
  PROVE  Sound'
<1>1. /\ Forget /\ queued' \subseteq Hosts /\ statusCache' = status /\ hostLag' = {} /\ crCache' = crs
      /\ lag' = {} /\ UNCHANGED <<status, crs>>
  BY DEF Crash
<1>2. PassType'
  BY <1>1 DEF Forget, PassType, Visiting, Writing
<1>3. StatusType'
  BY <1>1 DEF Forget, Sound, StatusType, Statuses
<1>4. ObjectType'
  BY <1>1 DEF Sound, ObjectType
<1>5. fresh' = FALSE
  BY <1>1 DEF Forget
<1>6. FreshInv'
  <2>1. \A o \in Objects \ lag' : crCache'[o] = crs'[o]
    BY <1>1
  <2> QED BY <1>5, <2>1, Zenon DEF FreshInv
<1> QED BY <1>2, <1>3, <1>4, <1>6 DEF Sound

\* What others write of an object, and what it leaves alone.
Rewrites(o) ==
  \E new \in CR \cup {None} :
    /\ Write(o, new) /\ crs[o] # None
    /\ new # None => new.host = crs[o].host /\ new.name = crs[o].name /\ new.from = crs[o].from

\* The container controller and users keep what an object is about.
LEMMA WriteSteps ==
  ASSUME Sound, DaemonType, NEW o \in Objects,
         \/ Observe(o) \/ \E taken \in BOOLEAN : DeleteCR(o, taken)
         \/ \E mode \in Modes, cfg \in Cfgs : EditCR(o, mode, cfg)
  PROVE  Rewrites(o)
<1>1. crs[o] # None
  BY DEF Observe, DeleteCR, EditCR
<1>2. crs[o] \in CR /\ crs[o].host \in Hosts /\ crs[o].name \in Names
  BY <1>1, ObjectFields DEF Sound
<1>3. ASSUME Observe(o)
      PROVE  Rewrites(o)
  <2>1. PICK hash : hash = IF There(crs[o]) = None THEN None ELSE There(crs[o]).cfg
    OBVIOUS
  <2>2. hash \in Cfgs \cup {None}
    BY <1>2, <2>1 DEF There, DaemonType, Container
  <2>3. Write(o, [crs[o] EXCEPT !.adopted = TRUE, !.hash = hash])
    BY <1>3, <2>1 DEF Observe
  <2>4. PICK new : new = [crs[o] EXCEPT !.adopted = TRUE, !.hash = hash]
    OBVIOUS
  <2>5. /\ new \in CR /\ new.host = crs[o].host /\ new.name = crs[o].name /\ new.from = crs[o].from
    BY <1>2, <2>2, <2>4 DEF CR
  <2>6. Write(o, new)
    BY <2>3, <2>4
  <2> QED BY <1>1, <2>5, <2>6 DEF Rewrites
<1>4. ASSUME NEW taken \in BOOLEAN, DeleteCR(o, taken)
      PROVE  Rewrites(o)
  BY <1>1, <1>4 DEF DeleteCR, Rewrites
<1>5. ASSUME NEW mode \in Modes, NEW cfg \in Cfgs, EditCR(o, mode, cfg)
      PROVE  Rewrites(o)
  <2>1. PICK new : new = [crs[o] EXCEPT !.mode = mode, !.cfg = cfg]
    OBVIOUS
  <2>2. /\ new \in CR /\ new.host = crs[o].host /\ new.name = crs[o].name /\ new.from = crs[o].from
    BY <1>2, <2>1 DEF CR
  <2>3. Write(o, new)
    BY <1>5, <2>1 DEF EditCR
  <2> QED BY <1>1, <2>2, <2>3 DEF Rewrites
<1> QED BY <1>3, <1>4, <1>5

\* An object made by hand is one of the drafts, and is remembered.
LEMMA HandSteps ==
  ASSUME NEW o \in Objects, NEW d \in Drafts, HandMade(o, d)
  PROVE  "hand" \in had' /\ \E new \in CR : Write(o, new)
<1>1. d \in [host : Hosts, name : Names, cfg : Cfgs, mode : {"Observe", "Enforce"}]
  BY HostAssumption
<1>2. PICK new : new = [host |-> d.host, name |-> d.name, cfg |-> d.cfg, mode |-> d.mode,
                        managed |-> FALSE, from |-> None, adopted |-> FALSE, hash |-> None]
  OBVIOUS
<1>3. new \in CR
  BY <1>1, <1>2 DEF CR, Modes
<1>4. Write(o, new)
  BY <1>2 DEF HandMade
<1>5. "hand" \in had'
  BY DEF HandMade, Suffer
<1> QED BY <1>3, <1>4, <1>5

\* Every step keeps statuses, objects, pass and copies sound.
LEMMA NextSound ==
  ASSUME Sound, DaemonType, [Next]_vars
  PROVE  Sound'
<1>1. ids \in Nat /\ ids' \in Nat /\ ids <= ids'
  BY NextDaemon DEF DaemonType, Sound
<1>2. CASE \E h \in Hosts : Get(h) \/ SyncHost(h) \/ ChangeHost(h) \/ Reach(h)
  <2>1. ASSUME NEW h \in Hosts, Reach(h)
        PROVE  Sound'
    BY <1>1, <2>1, QuietSound DEF Reach
  <2> QED BY <1>1, <1>2, <2>1, GetSound, HostSound
<1>3. CASE \E o \in Outcomes : \/ Ping(o) \/ WriteHost(o) \/ List(o)
                               \/ UpdateMeta(o) \/ UpdateStatus(o) \/ Create(o)
                               \/ \E id \in todo : Inspect(id, o)
  BY <1>1, <1>3, PingSound, WriteHostSound, ListSound, UpdateMetaSound, UpdateStatusSound, CreateSound,
     InspectSound
<1>4. CASE \E current \in BOOLEAN : Upsert(current)
  BY <1>1, <1>4, UpsertSound
<1>5. CASE Crash \/ NoClient
  BY <1>5, CrashSound, NoClientSound
<1>6. CASE UNCHANGED vars
  BY <1>1, <1>6, QuietSound DEF vars
<1>7. ASSUME NEW o \in Objects, Rewrites(o)
      PROVE  Sound'
  BY <1>1, <1>7, WriteSound DEF Rewrites
<1>8. ASSUME NEW o \in Objects, NEW d \in Drafts, HandMade(o, d)
      PROVE  Sound'
  BY <1>1, <1>8, HandSteps, WriteSound
<1>9. CASE \/ \E o \in Objects : Enforce(o)
           \/ \E h \in Hosts, n \in Names, cfg \in Cfgs : StartContainer(h, n, cfg)
  BY <1>1, <1>9, GrowSteps, QuietSound DEF Sound
<1>10. ASSUME NEW h \in Hosts, NEW n \in Names, RemoveContainer(h, n)
       PROVE  Sound'
  BY <1>1, <1>10, QuietSound DEF RemoveContainer, Docker
<1>11. ASSUME NEW h \in Hosts, NEW n \in Names, NEW m \in Names, Rename(h, m, n)
       PROVE  Sound'
  BY <1>1, <1>11, RenameDaemon, QuietSound
<1>12. CASE \E o \in Objects : \/ Observe(o) \/ Enforce(o)
                               \/ \E taken \in BOOLEAN : DeleteCR(o, taken)
                               \/ \E mode \in Modes, cfg \in Cfgs : EditCR(o, mode, cfg)
                               \/ \E d \in Drafts : HandMade(o, d)
  BY <1>7, <1>8, <1>9, <1>12, WriteSteps
<1>13. CASE \E h \in Hosts, n \in Names : \/ RemoveContainer(h, n)
                                          \/ \E cfg \in Cfgs : StartContainer(h, n, cfg)
                                          \/ \E m \in Names : Rename(h, m, n)
  BY <1>9, <1>10, <1>11, <1>13
<1> QED BY NextCases, <1>2, <1>3, <1>4, <1>5, <1>6, <1>12, <1>13, Zenon

-----------------------------------------------------------------------------
(* Which container an object claims.                                       *)

\* What happened is not forgotten.
LEMMA HadGrows ==
  ASSUME [Next]_vars
  PROVE  had \subseteq had'
<1>1. ASSUME NEW ts, Suffer(ts)
      PROVE  had \subseteq had'
  BY <1>1 DEF Suffer
<1>2. ASSUME NEW o, Pay(o)
      PROVE  had \subseteq had'
  BY <1>1, <1>2 DEF Pay
<1>3. CASE \E h \in Hosts : Get(h) \/ SyncHost(h) \/ ChangeHost(h) \/ Reach(h)
  BY <1>1, <1>3 DEF Get, SyncHost, ChangeHost, Reach, budgetVars
<1>4. CASE \E o \in Outcomes : \/ Ping(o) \/ WriteHost(o) \/ List(o)
                               \/ UpdateMeta(o) \/ UpdateStatus(o) \/ Create(o)
                               \/ \E id \in todo : Inspect(id, o)
  BY <1>2, <1>4 DEF Ping, WriteHost, List, UpdateMeta, UpdateStatus, PutBack, Create, Inspect
<1>5. CASE (\E current \in BOOLEAN : Upsert(current)) \/ Crash \/ NoClient
  BY <1>1, <1>5 DEF Upsert, Crash, NoClient
<1>6. CASE UNCHANGED vars
  BY <1>6 DEF vars, budgetVars
<1>7. CASE \E o \in Objects : \/ Observe(o) \/ Enforce(o)
                              \/ \E taken \in BOOLEAN : DeleteCR(o, taken)
                              \/ \E mode \in Modes, cfg \in Cfgs : EditCR(o, mode, cfg)
                              \/ \E d \in Drafts : HandMade(o, d)
  BY <1>1, <1>7 DEF Observe, Enforce, DeleteCR, EditCR, HandMade, budgetVars
<1>8. CASE \E h \in Hosts, n \in Names : \/ RemoveContainer(h, n)
                                         \/ \E cfg \in Cfgs : StartContainer(h, n, cfg)
                                         \/ \E m \in Names : Rename(h, m, n)
  BY <1>1, <1>8 DEF RemoveContainer, StartContainer, Rename
<1> QED BY NextCases, <1>3, <1>4, <1>5, <1>6, <1>7, <1>8, Zenon

\* A new container: its ID gets its name.
LEMMA GrowClaims ==
  ASSUME DaemonType, Sound, NEW nm \in [1..ids -> Names], NamedBy(nm),
         NEW h \in Hosts, NEW n \in Names, Grows(h, n), UNCHANGED <<crVars, passVars>>
  PROVE  \E mn \in [1..ids' -> Names] : NamedBy(mn)'
<1>1. ids \in Nat /\ ids' = ids + 1
  BY DEF DaemonType, Grows
<1>2. PICK mn \in [1..ids' -> Names] :
        mn[ids'] = n /\ \A i \in 1..ids : i \in 1..ids' /\ mn[i] = nm[i]
  <2> DEFINE mn == [i \in 1..ids' |-> IF i = ids' THEN n ELSE nm[i]]
  <2>1. mn \in [1..ids' -> Names] /\ mn[ids'] = n /\ \A i \in 1..ids : i \in 1..ids' /\ mn[i] = nm[i]
    BY <1>1
  <2> HIDE DEF mn
  <2> QED BY <2>1
<1>3. ASSUME NEW g \in Hosts, NEW m \in Names, daemon'[g][m] # None
      PROVE  mn[daemon'[g][m].id] = m
  <2>1. CASE g = h /\ m = n
    BY <1>2, <1>3, <2>1 DEF Grows
  <2>2. CASE ~(g = h /\ m = n)
    <3>1. daemon'[g][m] = daemon[g][m]
      BY <2>2 DEF Grows
    <3>2. daemon[g][m].id \in 1..ids
      BY <1>3, <3>1 DEF DaemonType, Container
    <3> QED BY <1>2, <1>3, <3>1, <3>2 DEF NamedBy
  <2> QED BY <2>1, <2>2
<1>4. ASSUME NEW cr, NEW o, Claim(cr, o, nm)
      PROVE  cr # None => o = ObjectName[cr.name] /\ cr.from \in 1..ids' /\ mn[cr.from] = cr.name
  BY <1>2, <1>4 DEF Claim
<1>5. UNCHANGED <<crs, crCache, pc, work, obj, snap>>
  BY DEF crVars, passVars, copyVars
<1>6. \A o \in Objects : Claim(crs[o], o, mn)' /\ Claim(crCache[o], o, mn)'
  <2>1. \A o \in Objects : Claim(crs[o], o, nm) /\ Claim(crCache[o], o, nm)
    BY DEF NamedBy
  <2> QED BY <1>4, <1>5, <2>1 DEF Claim
<1>7. Writing' => Claim(work, obj, mn)'
  <2>1. Writing => Claim(work, obj, nm)
    BY DEF NamedBy
  <2> QED BY <1>4, <1>5, <2>1 DEF Claim, Writing
<1>8. Visiting' => mn[snap'.id] = snap'.name
  <2>1. Visiting => snap.id \in 1..ids /\ nm[snap.id] = snap.name
    BY DEF NamedBy, Sound, PassType, Snapshot
  <2> QED BY <1>2, <1>5, <2>1 DEF Visiting
<1>9. NamedBy(mn)'
  BY <1>3, <1>6, <1>7, <1>8 DEF NamedBy
<1> QED BY <1>2, <1>9

\* Containers go, and objects, copies and snapshot agree with the names.
LEMMA ThinClaims ==
  ASSUME NEW nm \in [1..ids -> Names], NamedBy(nm), Thins,
         \A o \in Objects : Claim(crs'[o], o, nm) /\ Claim(crCache'[o], o, nm),
         Writing' => Claim(work', obj', nm),
         Visiting' => nm[snap'.id] = snap'.name
  PROVE  \E mn \in [1..ids' -> Names] : NamedBy(mn)'
<1>1. ids' = ids
  BY DEF Thins
<1>2. \A h \in Hosts, n \in Names : daemon'[h][n] # None => nm[daemon'[h][n].id] = n
  BY DEF Thins, NamedBy
<1>3. /\ \A o \in Objects : Claim(crs[o], o, nm)' /\ Claim(crCache[o], o, nm)'
      /\ Writing' => Claim(work, obj, nm)'
  BY <1>1 DEF Claim
<1>4. NamedBy(nm)'
  BY <1>2, <1>3 DEF NamedBy
<1> QED BY <1>1, <1>4

\* Steps that give no object to a container.
LEMMA OutsideSteps ==
  ASSUME \/ \E h \in Hosts : Get(h) \/ SyncHost(h) \/ ChangeHost(h) \/ Reach(h)
         \/ \E o \in Outcomes : Ping(o) \/ WriteHost(o) \/ List(o)
         \/ Crash \/ NoClient \/ UNCHANGED vars
         \/ \E h \in Hosts, n \in Names : RemoveContainer(h, n)
  PROVE  /\ crs' = crs /\ crCache' \in {crs, crCache}
         /\ UNCHANGED <<pc, work, obj, snap>> \/ ~Visiting'
<1> USE DEF crVars, passVars, copyVars, Visiting
<1>1. CASE \E h \in Hosts : Get(h) \/ SyncHost(h) \/ ChangeHost(h) \/ Reach(h)
  BY <1>1 DEF Get, SyncHost, ChangeHost, Reach
<1>2. ASSUME NEW o \in Outcomes, Ping(o) \/ WriteHost(o) \/ List(o)
      PROVE  UNCHANGED <<crs, crCache>> /\ ~Visiting'
  <2>1. UNCHANGED <<crs, crCache>>
    BY <1>2 DEF Ping, WriteHost, List
  <2>2. Return => ~Visiting'
    BY DEF Return, Forget
  <2>3. (Goto("list") \/ Report("connected") \/ Report("no answer")) => ~Visiting'
    BY DEF Goto, Report
  <2>4. \A left : NextContainer(left) => ~Visiting'
    BY DEF NextContainer, Return, Forget
  <2>5. \/ Return \/ Goto("list") \/ Report("connected") \/ Report("no answer")
        \/ NextContainer({daemon[cur][n].id : n \in Labelled(cur)})
    BY <1>2 DEF Ping, WriteHost, List
  <2> QED BY <2>1, <2>2, <2>3, <2>4, <2>5
<1>3. CASE Crash
  BY <1>3 DEF Crash, Forget
<1>4. CASE NoClient
  BY <1>4 DEF NoClient, Report
<1>5. CASE UNCHANGED vars
  BY <1>5 DEF vars
<1>6. CASE \E h \in Hosts, n \in Names : RemoveContainer(h, n)
  BY <1>6 DEF RemoveContainer, Docker
<1> QED BY <1>1, <1>2, <1>3, <1>4, <1>5, <1>6

\* Every step keeps the names of IDs: a new one gets the name it was started under, and what
\* discovery writes is the snapshot of a container of that name.
LEMMA NextClaim ==
  ASSUME DaemonType, Sound, ClaimInv, [Next]_vars
  PROVE  ClaimInv'
<1> DEFINE Goal == \E mn \in [1..ids' -> Names] : NamedBy(mn)'
<1> SUFFICES ASSUME had' \cap {"rename", "hand"} = {}
             PROVE  Goal
  BY DEF ClaimInv
<1>1. had \cap {"rename", "hand"} = {} /\ "rename" \notin had' /\ "hand" \notin had'
  BY HadGrows
<1>2. PICK nm \in [1..ids -> Names] : NamedBy(nm)
  BY <1>1 DEF ClaimInv
<1>3. ids \in Nat /\ (Thins \/ \E h \in Hosts, n \in Names : Grows(h, n))
  BY <1>1, NextDaemon DEF DaemonType, Sound
<1>4. /\ \A o \in Objects : Claim(crs[o], o, nm) /\ Claim(crCache[o], o, nm)
      /\ Writing => Claim(work, obj, nm)
      /\ Visiting => nm[snap.id] = snap.name /\ snap \in Snapshot
  BY <1>2 DEF NamedBy, Sound, PassType
<1>5. ASSUME UNCHANGED <<daemon, ids>>
      PROVE  Thins
  BY <1>5 DEF Thins
<1>6. CASE \/ \E o \in Objects : Enforce(o)
           \/ \E h \in Hosts, n \in Names, cfg \in Cfgs : StartContainer(h, n, cfg)
  <2>1. /\ UNCHANGED <<crVars, passVars>>
        /\ \E h \in Hosts, n \in Names : Grows(h, n)
    BY <1>6, GrowSteps DEF Sound
  <2> QED BY <1>2, <2>1, GrowClaims
<1>7. CASE \/ \E h \in Hosts : Get(h) \/ SyncHost(h) \/ ChangeHost(h) \/ Reach(h)
           \/ \E o \in Outcomes : Ping(o) \/ WriteHost(o) \/ List(o)
           \/ Crash \/ NoClient \/ UNCHANGED vars
           \/ \E h \in Hosts, n \in Names : RemoveContainer(h, n)
  <2>1. /\ crs' = crs /\ crCache' \in {crs, crCache}
        /\ UNCHANGED <<pc, work, obj, snap>> \/ ~Visiting'
    BY <1>7, OutsideSteps
  <2>2. Thins
    <3>1. CASE \E h \in Hosts, n \in Names : RemoveContainer(h, n)
      BY <3>1, RemoveDaemon
    <3>2. CASE ~\E h \in Hosts, n \in Names : RemoveContainer(h, n)
      BY <1>5, <1>7, <3>2, StillSteps
    <3> QED BY <3>1, <3>2
  <2>3. /\ \A o \in Objects : Claim(crs'[o], o, nm) /\ Claim(crCache'[o], o, nm)
    BY <1>4, <2>1
  <2>4. /\ Writing' => Claim(work', obj', nm)
        /\ Visiting' => nm[snap'.id] = snap'.name
    BY <1>4, <2>1 DEF Writing, Visiting
  <2> QED BY <1>2, <2>2, <2>3, <2>4, ThinClaims
<1>8. ASSUME NEW o \in Objects, Rewrites(o), Thins
      PROVE  Goal
  <2>1. PICK new \in CR \cup {None} :
          /\ Write(o, new) /\ crs[o] # None
          /\ new # None => new.host = crs[o].host /\ new.name = crs[o].name /\ new.from = crs[o].from
    BY <1>8 DEF Rewrites
  <2>2. /\ crs' = [crs EXCEPT ![o] = new] /\ UNCHANGED <<crCache, pc, work, obj, snap>>
    BY <2>1 DEF Write
  <2>3. crs'[o] = new /\ \A p \in Objects \ {o} : crs'[p] = crs[p]
    BY <2>2 DEF Sound, ObjectType
  <2>4. Claim(new, o, nm)
    BY <1>4, <2>1 DEF Claim
  <2>5. \A p \in Objects : Claim(crs'[p], p, nm) /\ Claim(crCache'[p], p, nm)
    BY <1>4, <2>2, <2>3, <2>4
  <2>6. /\ Writing' => Claim(work', obj', nm)
        /\ Visiting' => nm[snap'.id] = snap'.name
    BY <1>4, <2>2 DEF Writing, Visiting
  <2> QED BY <1>2, <1>8, <2>5, <2>6, ThinClaims
<1>9. CASE \E o \in Objects : \/ Observe(o)
                              \/ \E taken \in BOOLEAN : DeleteCR(o, taken)
                              \/ \E mode \in Modes, cfg \in Cfgs : EditCR(o, mode, cfg)
  <2>1. PICK o \in Objects : \/ Observe(o)
                             \/ \E taken \in BOOLEAN : DeleteCR(o, taken)
                             \/ \E mode \in Modes, cfg \in Cfgs : EditCR(o, mode, cfg)
    BY <1>9
  <2>2. Rewrites(o)
    BY <2>1, WriteSteps
  <2>3. Thins
    <3>1. CASE \E taken \in BOOLEAN : DeleteCR(o, taken)
      BY <3>1, DeleteDaemon DEF Sound
    <3>2. CASE ~\E taken \in BOOLEAN : DeleteCR(o, taken)
      BY <1>5, <2>1, <3>2, StillSteps
    <3> QED BY <3>1, <3>2
  <2> QED BY <1>8, <2>2, <2>3
<1>10. ASSUME NEW o \in Outcomes, NEW id \in todo, Inspect(id, o)
       PROVE  Goal
  <2>1. Thins
    BY <1>5, <1>10, StillSteps
  <2>2. UNCHANGED <<crs, crCache>> /\ pc = "inspect"
    BY <1>10 DEF Inspect, crVars
  <2>3. pc' \in {"idle", "upsert"}
    BY <1>10 DEF Inspect, Return, Forget
  <2>4. pc' = "upsert" => nm[snap'.id] = snap'.name
    <3>1. SUFFICES ASSUME pc' = "upsert"
                   PROVE  nm[snap'.id] = snap'.name
      OBVIOUS
    <3>2. snap' \in {[name |-> n, id |-> id, cfg |-> daemon[cur][n].cfg] :
                       n \in {n \in Names : daemon[cur][n] # None /\ daemon[cur][n].id = id}}
      BY <1>10, <3>1 DEF Inspect, Return, Forget
    <3>3. PICK n \in Names : /\ daemon[cur][n] # None /\ daemon[cur][n].id = id
                             /\ snap' = [name |-> n, id |-> id, cfg |-> daemon[cur][n].cfg]
      BY <3>2
    <3>4. cur \in Hosts
      BY <2>2, CurHost DEF Sound
    <3>5. nm[id] = n
      BY <1>2, <3>3, <3>4 DEF NamedBy
    <3> QED BY <3>3, <3>5
  <2>5. /\ Writing' => Claim(work', obj', nm)
        /\ Visiting' => nm[snap'.id] = snap'.name
    BY <2>3, <2>4 DEF Writing, Visiting
  <2> QED BY <1>2, <1>4, <2>1, <2>2, <2>5, ThinClaims
<1>11. ASSUME NEW current \in BOOLEAN, Upsert(current)
       PROVE  Goal
  <2>1. Thins
    BY <1>5, <1>11, StillSteps
  <2>2. /\ crs' = crs /\ crCache' \in {crs, crCache}
        /\ \/ pc' \in {"idle", "inspect"}
           \/ pc' = "create" /\ snap' = snap
           \/ /\ pc' \in {"update", "observed"} /\ snap' = snap
              /\ obj' \in Objects /\ work' # None /\ work' = crCache'[obj']
    BY <1>3, <1>11, UpsertSound
  <2>3. Visiting
    BY <1>11 DEF Upsert, Visiting
  <2>4. \A o \in Objects : Claim(crs'[o], o, nm) /\ Claim(crCache'[o], o, nm)
    BY <1>4, <2>2
  <2>5. Writing' => Claim(work', obj', nm)
    BY <2>2, <2>4 DEF Writing
  <2>6. Visiting' => nm[snap'.id] = snap'.name
    BY <1>4, <2>2, <2>3 DEF Visiting
  <2> QED BY <1>2, <2>1, <2>4, <2>5, <2>6, ThinClaims
<1>12. ASSUME NEW new, crs' = crs \/ Stores(obj, new), Writing, Claim(new, obj, nm), crCache' = crCache, Thins,
              \/ pc' \in {"idle", "inspect"}
              \/ pc' = "observed" /\ UNCHANGED <<obj, snap>> /\ work' = new
       PROVE  Goal
  <2>1. obj \in Objects /\ Visiting
    BY <1>12 DEF Sound, PassType, Writing, Visiting
  <2>2. \A o \in Objects : Claim(crs'[o], o, nm)
    <3>1. CASE crs' = crs
      BY <1>4, <3>1
    <3>2. CASE Stores(obj, new)
      <4>1. crs'[obj] = new /\ \A p \in Objects \ {obj} : crs'[p] = crs[p]
        BY <2>1, <3>2 DEF Stores, Sound, ObjectType
      <4> QED BY <1>4, <1>12, <4>1
    <3> QED BY <1>12, <3>1, <3>2
  <2>3. /\ Writing' => Claim(work', obj', nm)
        /\ Visiting' => nm[snap'.id] = snap'.name
    BY <1>4, <1>12, <2>1 DEF Writing, Visiting
  <2> QED BY <1>2, <1>4, <1>12, <2>2, <2>3, ThinClaims
<1>13. ASSUME Writing
       PROVE  /\ work \in CR /\ snap \in Snapshot /\ work.name = snap.name /\ snap.id \in 1..ids
              /\ Claim(work, obj, nm) /\ work # None /\ nm[snap.id] = snap.name
  BY <1>4, <1>13 DEF Sound, PassType, Writing, Visiting, Snapshot, Of
<1>14. ASSUME NEW o \in Outcomes, UpdateMeta(o)
       PROVE  Goal
  <2>1. Thins
    BY <1>5, <1>14, StillSteps
  <2>2. /\ Writing /\ crCache' = crCache
        /\ crs' = crs \/ Stores(obj, Claimed(work))
        /\ \/ pc' \in {"idle", "inspect"}
           \/ pc' = "observed" /\ UNCHANGED <<cur, obj, snap>> /\ work' = Claimed(work)
    BY <1>3, <1>14, UpdateMetaSound
  <2>3. Claimed(work).name = work.name /\ Claimed(work).from = snap.id
    BY <1>3, <1>13, <2>2, ClaimedType
  <2>4. Claim(Claimed(work), obj, nm)
    BY <1>13, <2>2, <2>3 DEF Claim
  <2> QED BY <1>12, <2>1, <2>2, <2>4
<1>15. ASSUME NEW o \in Outcomes, UpdateStatus(o)
       PROVE  Goal
  <2>1. Thins
    BY <1>5, <1>15, StillSteps
  <2>2. /\ Writing /\ crCache' = crCache /\ (crs' = crs \/ Stores(obj, Observed(work)))
        /\ pc' \in {"idle", "inspect"}
    BY <1>3, <1>15, UpdateStatusSound
  <2>3. Observed(work).name = work.name /\ Observed(work).from = work.from
    BY <1>3, <1>13, <2>2, ObservedType
  <2>4. Claim(Observed(work), obj, nm)
    BY <1>13, <2>2, <2>3 DEF Claim
  <2> QED BY <1>12, <2>1, <2>2, <2>4
<1>16. ASSUME NEW o \in Outcomes, Create(o)
       PROVE  Goal
  <2>1. Thins
    BY <1>5, <1>16, StillSteps
  <2>2. /\ pc = "create" /\ crCache' = crCache /\ pc' \in {"idle", "inspect"} /\ snap \in Snapshot
        /\ ObjectName[snap.name] \in Objects
        /\ crs' = crs \/ crs' = [crs EXCEPT ![ObjectName[snap.name]] = Adopted]
    BY <1>3, <1>16, CreateSound
  <2>3. Adopted.name = snap.name /\ Adopted.from = snap.id /\ snap.id \in 1..ids /\ nm[snap.id] = snap.name
    BY <1>3, <1>4, <2>2, CurHost, AdoptedType DEF Sound, Visiting, Snapshot
  <2>4. Claim(Adopted, ObjectName[snap.name], nm)
    BY <2>3 DEF Claim
  <2>5. \A p \in Objects : crs'[p] = crs[p] \/ (p = ObjectName[snap.name] /\ crs'[p] = Adopted)
    BY <2>2 DEF Sound, ObjectType
  <2>6. \A p \in Objects : Claim(crs'[p], p, nm) /\ Claim(crCache'[p], p, nm)
    BY <1>4, <2>2, <2>4, <2>5
  <2>7. ~Writing' /\ ~Visiting'
    BY <2>2 DEF Writing, Visiting
  <2> QED BY <1>2, <2>1, <2>6, <2>7, ThinClaims
<1>17. ASSUME NEW h \in Hosts, NEW n \in Names, NEW m \in Names, Rename(h, m, n)
       PROVE  FALSE
  BY <1>1, <1>17, RenameDaemon
<1>18. ASSUME NEW o \in Objects, NEW d \in Drafts, HandMade(o, d)
       PROVE  FALSE
  BY <1>1, <1>18, HandSteps
<1> HIDE DEF Goal
<1> QED
  BY NextCases, <1>6, <1>7, <1>9, <1>10, <1>11, <1>14, <1>15, <1>16, <1>17, <1>18, Zenon

-----------------------------------------------------------------------------
(* The invariant and the theorems.                                         *)

HostInv == DaemonType /\ Sound /\ ClaimInv

\* The first containers have IDs of their own.
LEMMA InitDaemon ==
  ASSUME Init
  PROVE  /\ DaemonType /\ \E nm \in [1..ids -> Names] :
              \A h \in Hosts, n \in Names : daemon[h][n] # None => nm[daemon[h][n].id] = n
<1> DEFINE C == Cardinality(Start)
           Distinct(f) == \A s, t \in Start : f[s] = f[t] => s = t
<1>1. C \in Nat /\ ExistsBijection(1..C, Start)
  BY HostAssumption, FS_CardinalityType
<1>2. ExistsBijection(Start, 1..C)
  BY <1>1, Fun_ExistsBijSymmetric
<1>3. PICK g : g \in Bijection(Start, 1..C)
  BY <1>2, Fun_ExistsBij
<1>4. g \in [Start -> 1..C] /\ Distinct(g)
  BY <1>3, Fun_BijectionProperties
<1> DEFINE f == CHOOSE x \in [Start -> 1..C] : Distinct(x)
           c == CHOOSE x \in Cfgs : TRUE
<1>5. f \in [Start -> 1..C] /\ Distinct(f)
  BY <1>4
<1>6. c \in Cfgs
  BY HostAssumption
<1>7. ids = C /\ daemon = [h \in Hosts |-> [n \in Names |->
                             IF <<h, n>> \in Start THEN Run(f[<<h, n>>], c, TRUE) ELSE None]]
  BY Zenon DEF Init
<1> HIDE DEF f, c
<1>8. \A h \in Hosts, n \in Names : <<h, n>> \in Start => Run(f[<<h, n>>], c, TRUE) \in Container
  <2> SUFFICES ASSUME NEW s \in Start
               PROVE  Run(f[s], c, TRUE) \in Container
    OBVIOUS
  <2>1. f[s] \in 1..ids
    BY <1>5, <1>7
  <2> QED BY <1>6, <2>1, Zenon DEF Run, Container
<1>9. DaemonType
  BY <1>1, <1>7, <1>8 DEF DaemonType
<1>10. Start \subseteq Hosts \X Names
  BY HostAssumption
<1>11. ASSUME NEW i \in 1..C
       PROVE  \E n \in Names : \A s \in Start : f[s] = i => s[2] = n
  <2>1. CASE \E s \in Start : f[s] = i
    <3>1. PICK s \in Start : f[s] = i
      BY <2>1
    <3>2. s[2] \in Names
      BY <1>10
    <3>3. \A t \in Start : f[t] = i => t[2] = s[2]
      BY <1>5, <3>1
    <3> QED BY <3>2, <3>3
  <2>2. CASE ~\E s \in Start : f[s] = i
    <3>1. Start # {}
      <4>1. Cardinality({}) = 0
        BY FS_EmptySet
      <4>2. C # 0
        BY <1>1, <1>11
      <4> QED BY <4>1, <4>2
    <3>2. Names # {}
      BY <1>10, <3>1
    <3> QED BY <2>2, <3>2
  <2> QED BY <2>1, <2>2
<1> DEFINE nm == [i \in 1..C |-> CHOOSE n \in Names : \A s \in Start : f[s] = i => s[2] = n]
<1>12. nm \in [1..C -> Names] /\ \A s \in Start : nm[f[s]] = s[2]
  <2>1. \A i \in 1..C : nm[i] \in Names /\ \A s \in Start : f[s] = i => s[2] = nm[i]
    BY <1>11
  <2>2. nm \in [1..C -> Names]
    BY <2>1
  <2> HIDE DEF nm
  <2> QED BY <1>5, <2>1, <2>2
<1> HIDE DEF nm
<1>13. ASSUME NEW h \in Hosts, NEW n \in Names, daemon[h][n] # None
       PROVE  nm[daemon[h][n].id] = n
  <2>1. <<h, n>> \in Start /\ daemon[h][n] = Run(f[<<h, n>>], c, TRUE)
    BY <1>7, <1>13
  <2>2. daemon[h][n].id = f[<<h, n>>]
    BY <2>1 DEF Run
  <2>3. nm[f[<<h, n>>]] = <<h, n>>[2]
    BY <1>12, <2>1
  <2> QED BY <2>2, <2>3
<1> QED BY <1>7, <1>9, <1>12, <1>13

\* The invariant holds at first: every container has an ID of its own.
LEMMA InitHost ==
  ASSUME Init
  PROVE  HostInv
<1>1. DaemonType
  BY InitDaemon
<1>2. /\ status = [h \in Hosts |-> ""] /\ statusCache = status /\ hostLag = {} /\ report = ""
      /\ crs = [o \in Objects |-> None] /\ crCache = crs /\ lag = {}
      /\ queued = Hosts /\ pc = "idle" /\ cur = None /\ todo = {} /\ fresh = FALSE
  BY DEF Init
<1>3. StatusType
  <2>1. "" \in Statuses
    BY DEF Statuses
  <2> QED BY <1>2, <2>1 DEF StatusType
<1>4. ObjectType
  BY <1>2 DEF ObjectType
<1>5. PassType
  BY <1>2 DEF PassType, Visiting, Writing
<1>6. FreshInv
  <2>1. \A o \in Objects \ lag : crCache[o] = crs[o]
    BY <1>2
  <2> QED BY <1>2, <2>1, Zenon DEF FreshInv
<1>7. ClaimInv
  <2>1. PICK nm \in [1..ids -> Names] :
          \A h \in Hosts, n \in Names : daemon[h][n] # None => nm[daemon[h][n].id] = n
    BY InitDaemon
  <2>2. \A o \in Objects : crs[o] = None /\ crCache[o] = None
    BY <1>2
  <2>3. NamedBy(nm)
    BY <1>2, <2>1, <2>2 DEF NamedBy, Claim, Visiting, Writing
  <2> QED BY <2>3 DEF ClaimInv
<1> QED BY <1>1, <1>3, <1>4, <1>5, <1>6, <1>7 DEF HostInv, Sound

\* It is kept by every step.
LEMMA NextHost ==
  ASSUME HostInv, [Next]_vars
  PROVE  HostInv'
  BY NextDaemon, NextSound, NextClaim DEF HostInv, Sound

\* Hence it always holds.
LEMMA HostInvariant == Spec => []HostInv
  BY InitHost, NextHost, PTL DEF Spec

\* Every reachable state is well typed: a pass that visits a container holds its
\* snapshot, one that writes an object holds a copy of one that is of this host
\* and this container (TypeOK).
THEOREM TypeCorrect == Spec => []TypeOK
<1>1. HostInv => TypeOK
  <2> SUFFICES ASSUME HostInv
               PROVE  TypeOK
    OBVIOUS
  <2>1. \A h \in Hosts : \A n \in Names :
          daemon[h][n] # None => daemon[h][n] \in [id : 1..ids, cfg : Cfgs, adopt : BOOLEAN]
    BY DEF HostInv, DaemonType, Container
  <2>2. /\ status \in [Hosts -> Statuses \cup {None}] /\ hostLag \subseteq Hosts
        /\ crs \in [Objects -> CR \cup {None}] /\ lag \subseteq Objects
    BY DEF HostInv, Sound, StatusType, ObjectType
  <2>3. ASSUME Visiting
        PROVE  snap # None /\ snap.id \notin todo
    <3>1. snap \in Snapshot /\ snap.id \notin todo /\ ids \in Nat
      BY <2>3 DEF HostInv, Sound, PassType, DaemonType
    <3>2. snap \in [name : Names, id : Nat, cfg : Cfgs]
      BY <3>1 DEF Snapshot
    <3> QED BY <3>1, <3>2, NoneAssumption
  <2> QED BY <2>1, <2>2, <2>3 DEF HostInv, Sound, PassType, Visiting, Writing, TypeOK
<1> QED BY <1>1, HostInvariant, PTL

\* Two objects of a host never name the same container in adopted-from, however
\* stale the lists were that upsertAdoptedContainer created them by, unless
\* somebody renamed a container or made an object by hand.
THEOREM ClaimedOnceTheorem == Spec => []ClaimedOnce
<1>1. HostInv => ClaimedOnce
  <2> SUFFICES ASSUME HostInv, had \cap {"rename", "hand"} = {}, NEW o \in Objects, NEW p \in Objects,
                      crs[o] # None, crs[p] # None, crs[o].from = crs[p].from
               PROVE  o = p
    BY DEF ClaimedOnce
  <2>1. PICK nm \in [1..ids -> Names] : NamedBy(nm)
    BY DEF HostInv, ClaimInv
  <2> QED BY <2>1 DEF NamedBy, Claim
<1> QED BY <1>1, HostInvariant, PTL

\* A pass of this controller, whatever it read before other calls, neither
\* removes an object nor changes the specification that users gave it: a copy
\* goes back only over the version it was made of.
THEOREM EditsKeptTheorem == Spec => EditsKept
<1>1. ASSUME HostInv, Pass, NEW o \in Objects
      PROVE  Spared(crs[o], crs'[o])
  <2>1. ids \in Nat /\ Sound /\ DaemonType /\ crs \in [Objects -> CR \cup {None}]
    BY <1>1 DEF HostInv, DaemonType, Sound, ObjectType
  <2>2. CASE crs' = crs
    BY <2>2 DEF Spared
  <2>3. ASSUME Writing, NEW new \in CR, Stores(obj, new),
               new.host = work.host, new.name = work.name, new.cfg = work.cfg, new.mode = work.mode
        PROVE  Spared(crs[o], crs'[o])
    <3>1. obj \in Objects /\ crs[obj] = work
      BY <2>1, <2>3 DEF Sound, PassType, FreshInv, Stores
    <3>2. crs'[obj] = new /\ (o # obj => crs'[o] = crs[o])
      BY <2>1, <2>3, <3>1 DEF Stores
    <3> QED BY <2>3, <3>1, <3>2, NoneAssumption DEF Spared
  <2>4. ASSUME Writing
        PROVE  work \in CR /\ snap \in Snapshot
    BY <2>1, <2>4 DEF Sound, PassType, Writing, Visiting
  <2>5. ASSUME NEW c \in Outcomes, UpdateMeta(c)
        PROVE  Spared(crs[o], crs'[o])
    BY <2>1, <2>2, <2>3, <2>4, <2>5, UpdateMetaSound, ClaimedType
  <2>6. ASSUME NEW c \in Outcomes, UpdateStatus(c)
        PROVE  Spared(crs[o], crs'[o])
    BY <2>1, <2>2, <2>3, <2>4, <2>6, UpdateStatusSound, ObservedType
  <2>7. ASSUME NEW c \in Outcomes, Create(c)
        PROVE  Spared(crs[o], crs'[o])
    <3>1. /\ ObjectName[snap.name] \in Objects
          /\ \/ crs' = crs
             \/ /\ crs[ObjectName[snap.name]] = None
                /\ crs' = [crs EXCEPT ![ObjectName[snap.name]] = Adopted]
      BY <2>1, <2>7, CreateSound
    <3>2. crs[o] # None => crs'[o] = crs[o]
      BY <2>1, <3>1
    <3> QED BY <3>2 DEF Spared
  <2>8. ASSUME \/ \E h \in Hosts : Get(h)
               \/ \E c \in Outcomes : \/ Ping(c) \/ WriteHost(c) \/ List(c)
                                      \/ \E id \in todo : Inspect(id, c)
               \/ \E current \in BOOLEAN : Upsert(current)
        PROVE  crs' = crs
    BY <2>8 DEF Get, Ping, WriteHost, List, Inspect, Upsert, crVars
  <2> QED BY <1>1, <2>2, <2>5, <2>6, <2>7, <2>8, Zenon DEF Pass
<1>2. HostInv /\ [Next]_vars => [Pass => \A o \in Objects : Spared(crs[o], crs'[o])]_vars
  BY <1>1
<1> QED BY <1>2, HostInvariant, PTL DEF Spec, EditsKept
=============================================================================
