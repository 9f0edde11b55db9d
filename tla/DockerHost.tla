----------------------------- MODULE DockerHost -----------------------------
(***************************************************************************)
(* DockerHostReconciler, and what it shares with DockerContainerReconciler.*)
(*                                                                         *)
(* A pass pings the daemon of one DockerHost, writes its status, and goes  *)
(* through the labelled containers of the daemon: each one gets a          *)
(* DockerContainer in Observe mode, or has the one of its name brought up  *)
(* to date.  The object's name is derived from the container's, so that    *)
(* different containers may claim the same object.                         *)
(***************************************************************************)
EXTENDS Integers, FiniteSets

CONSTANTS
  None,
  Hosts,
  Names,        \* of containers
  Objects,      \* names of DockerContainers
  Cfgs,         \* what observedSpecHash tells apart
  ObjectName,   \* adoptedObjectName: lower case, other characters become dashes
  Start,        \* the labelled containers there are at first, <<host, name>>
  Drafts,       \* [host, name, cfg, mode]: the DockerContainers users write
  Troubles,     \* what may happen besides, see AllTroubles
  MaxTrouble    \* and how much of it, all together

\* A call fails, the operator dies, a list misses changes, somebody starts or
\* removes a container, renames one, edits or deletes a DockerContainer, makes
\* one by hand, deletes or creates a DockerHost, a daemon goes or comes.
AllTroubles == {"fault", "crash", "stale", "outside", "rename", "edit", "hand", "host", "reach"}

ASSUME HostAssumption ==
  /\ ObjectName \in [Names -> Objects]
  /\ Start \subseteq Hosts \X Names /\ IsFiniteSet(Start) /\ Cfgs # {}
  /\ Drafts \subseteq [host : Hosts, name : Names, cfg : Cfgs, mode : {"Observe", "Enforce"}]
  /\ None \notin Hosts \cup Names \cup Objects \cup Cfgs \cup Nat
  /\ Troubles \subseteq AllTroubles /\ MaxTrouble \in Nat

VARIABLES
  \* the hosts
  daemon,        \* host -> name -> [id, cfg, adopt] or None
  ids,           \* containers made so far
  reachable,     \* hosts that answer
  \* the API server and the informers
  status,        \* host -> status of its DockerHost, None without one
  statusCache, hostLag,  \* the cached statuses, hosts where they are not current
  crs,           \* object -> DockerContainer or None
  crCache, lag,  \* what passes last read of them; objects changed since
  \* the pass
  queued,        \* hosts
  pc, cur,       \* the next call, and the host it is about
  hostFresh,     \* the DockerHost the pass read is the stored one
  report,        \* the status to write
  todo,          \* IDs of labelled containers not yet visited
  snap,          \* [name, id, cfg] of the one at hand
  obj, work, fresh, \* the DockerContainer it belongs to, the copy, is it current
  \* history and bounds
  had, troubles

hostVars == <<daemon, ids, reachable>>
statusVars == <<status, statusCache, hostLag>>
crVars == <<crs, crCache, lag>>
copyVars == <<obj, work, fresh>>
passVars == <<queued, pc, cur, hostFresh, report, todo, snap, copyVars>>
budgetVars == <<had, troubles>>
vars == <<hostVars, statusVars, crVars, passVars, budgetVars>>

Run(id, cfg, adopt) == [id |-> id, cfg |-> cfg, adopt |-> adopt]
Modes == {"Observe", "Enforce"}

Init ==
  /\ LET id == CHOOSE f \in [Start -> 1..Cardinality(Start)] :
                  \A s, t \in Start : f[s] = f[t] => s = t
     IN  daemon = [h \in Hosts |-> [n \in Names |->
           IF <<h, n>> \in Start THEN Run(id[<<h, n>>], CHOOSE c \in Cfgs : TRUE, TRUE) ELSE None]]
  /\ ids = Cardinality(Start) /\ reachable = Hosts
  /\ status = [h \in Hosts |-> ""] /\ statusCache = status /\ hostLag = {}
  /\ crs = [o \in Objects |-> None] /\ crCache = crs /\ lag = {}
  /\ queued = Hosts /\ pc = "idle" /\ cur = None /\ hostFresh = FALSE /\ report = ""
  /\ todo = {} /\ snap = None /\ obj = None /\ work = None /\ fresh = FALSE
  /\ had = {} /\ troubles = 0

-----------------------------------------------------------------------------
(* How calls and passes end.  "lost" took effect and returned an error.    *)

Outcomes == {"ok", "lost", "fail"}

\* The troubles ts happen in this step.
Suffer(ts) ==
  /\ ts \subseteq Troubles
  /\ had' = had \cup ts
  /\ troubles' = troubles + Cardinality(ts)
  /\ ts # {} => troubles' <= MaxTrouble

Pay(o) == Suffer(IF o = "ok" THEN {} ELSE {"fault"})

Forget ==
  /\ pc' = "idle" /\ cur' = None /\ hostFresh' = FALSE /\ report' = ""
  /\ todo' = {} /\ snap' = None /\ obj' = None /\ work' = None /\ fresh' = FALSE

\* An error, or RequeueAfter, brings the host back.
Return == Forget /\ queued' = queued \cup {cur}

Goto(step) == pc' = step /\ UNCHANGED <<queued, cur, hostFresh, report, todo, snap, copyVars>>

\* The pass goes on to the next labelled container, if there is one.
NextContainer(left) ==
  IF left = {} THEN Return
  ELSE /\ pc' = "inspect" /\ todo' = left /\ snap' = None
       /\ obj' = None /\ work' = None /\ fresh' = FALSE
       /\ UNCHANGED <<queued, cur, hostFresh, report>>

-----------------------------------------------------------------------------
(* Reconcile.                                                              *)

Get(h) ==
  /\ pc = "idle" /\ h \in queued /\ queued' = queued \ {h}
  /\ IF statusCache[h] = None
       THEN UNCHANGED <<pc, cur, hostFresh, report>>
       ELSE pc' = "client" /\ cur' = h /\ hostFresh' = (h \notin hostLag) /\ report' = statusCache[h]
  /\ UNCHANGED <<hostVars, statusVars, crVars, todo, snap, copyVars, budgetVars>>

Report(new) ==
  /\ pc' = "status" /\ report' = new
  /\ UNCHANGED <<queued, cur, hostFresh, todo, snap, copyVars>>

\* NewClientFromHost cannot read the Secret or use what it finds.
NoClient ==
  /\ pc = "client"
  /\ Suffer({"fault"})
  /\ Report("no client")
  /\ UNCHANGED <<hostVars, statusVars, crVars>>

Ping(o) ==
  /\ pc = "client" /\ o # "lost"
  /\ Pay(o)
  /\ LET new == IF o = "ok" /\ cur \in reachable THEN "connected" ELSE "no answer"
     IN  IF report # new THEN Report(new)
         ELSE IF new = "connected" THEN Goto("list") ELSE Return
  /\ UNCHANGED <<hostVars, statusVars, crVars>>

\* Status().Update carries the resourceVersion the pass read.  Written as it
\* is, the object keeps its version.
WriteHost(o) ==
  /\ pc = "status"
  /\ Pay(o)
  /\ IF hostFresh /\ o # "fail" /\ status[cur] # report
       THEN /\ status' = [status EXCEPT ![cur] = report]
            /\ hostLag' = hostLag \cup {cur}
       ELSE UNCHANGED <<status, hostLag>>
  /\ IF hostFresh /\ o = "ok" /\ report = "connected" THEN Goto("list") ELSE Return
  /\ UNCHANGED <<hostVars, statusCache, crVars>>

-----------------------------------------------------------------------------
(* discoverAdoptableContainers: its first error ends it, and is logged.    *)

Labelled(h) == {n \in Names : daemon[h][n] # None /\ daemon[h][n].adopt}

List(o) ==
  /\ pc = "list" /\ o # "lost"
  /\ Pay(o)
  /\ IF o = "ok" /\ cur \in reachable
       THEN NextContainer({daemon[cur][n].id : n \in Labelled(cur)})
       ELSE Return
  /\ UNCHANGED <<hostVars, statusVars, crVars>>

\* By ID, under the name it has now.
Inspect(id, o) ==
  /\ pc = "inspect" /\ id \in todo /\ o # "lost"
  /\ Pay(o)
  /\ LET found == {n \in Names : daemon[cur][n] # None /\ daemon[cur][n].id = id}
     IN  IF o = "fail" \/ found = {} \/ cur \notin reachable THEN Return
         ELSE /\ pc' = "upsert" /\ todo' = todo \ {id}
              /\ snap' \in {[name |-> n, id |-> id, cfg |-> daemon[cur][n].cfg] : n \in found}
              /\ UNCHANGED <<queued, cur, hostFresh, report, copyVars>>
  /\ UNCHANGED <<hostVars, statusVars, crVars>>

-----------------------------------------------------------------------------
(* upsertAdoptedContainer.                                                 *)

Of(cr, h, n) == cr # None /\ cr.host = h /\ cr.name = n

\* Mutant: the hash is that of the DockerContainer's spec.
ObservedHashOfSpec(cr, cfg) == cr.cfg

\* observedSpecHash is of the container as it runs.
ObservedHash(cr, cfg) == cfg

\* Mutant: an annotation that is there is kept.
ClaimedForGood(cr) == [cr EXCEPT !.managed = TRUE, !.from = IF @ = None THEN snap.id ELSE @]

Claimed(cr) == [cr EXCEPT !.managed = TRUE, !.from = snap.id]
Observed(cr) == [cr EXCEPT !.adopted = TRUE, !.hash = ObservedHash(cr, snap.cfg)]

\* Mutant: the object is looked up by the name it would be created with.
MineByName(list) == {ObjectName[snap.name]} \ {o \in Objects : list[o] = None}

Mine(list) == {o \in Objects : Of(list[o], cur, snap.name)}

\* The list, from the cache; current: nothing is missing in it.  The first
\* object of this host and container name is taken, in any order.
Upsert(current) ==
  /\ pc = "upsert"
  /\ ~current => lag # {}
  /\ Suffer(IF current THEN {} ELSE {"stale"})
  /\ LET list == IF current THEN crs ELSE crCache
     IN  /\ crCache' = list
         /\ lag' = IF current THEN {} ELSE lag
         /\ IF Mine(list) = {} THEN Goto("create")
            ELSE \E o \in Mine(list) :
                   IF Claimed(list[o]) = list[o] /\ Observed(list[o]) = list[o]
                   THEN NextContainer(todo)
                   ELSE /\ obj' = o /\ work' = list[o] /\ fresh' = (o \notin lag')
                        /\ pc' = IF Claimed(list[o]) # list[o] THEN "update" ELSE "observed"
                        /\ UNCHANGED <<queued, cur, hostFresh, report, todo, snap>>
  /\ UNCHANGED <<hostVars, statusVars, crs>>

\* Mutant: the update does not carry a resourceVersion.
AcceptedAnyhow(o) == crs[obj] # None /\ o # "fail"

\* The API server takes an update of the version it has.
Accepted(o) == crs[obj] # None /\ fresh /\ o # "fail"

\* The copy goes back as new, whole.
PutBack(o, new) ==
  /\ Pay(o)
  /\ IF Accepted(o) THEN crs' = [crs EXCEPT ![obj] = new] /\ lag' = lag \cup {obj}
                    ELSE UNCHANGED <<crs, lag>>
  /\ UNCHANGED <<hostVars, statusVars, crCache>>

\* r.Update of labels and annotations.
UpdateMeta(o) ==
  /\ pc = "update"
  /\ PutBack(o, Claimed(work))
  /\ IF ~Accepted(o) \/ o # "ok" THEN Return
     ELSE IF Observed(Claimed(work)) = Claimed(work) THEN NextContainer(todo)
     ELSE /\ pc' = "observed" /\ work' = Claimed(work)
          /\ UNCHANGED <<queued, cur, hostFresh, report, todo, snap, obj, fresh>>

\* Status().Update.
UpdateStatus(o) ==
  /\ pc = "observed"
  /\ PutBack(o, Observed(work))
  /\ IF Accepted(o) /\ o = "ok" THEN NextContainer(todo) ELSE Return

\* Mutant: a name that is taken gets a suffix.
NewNamesGenerated(n) == {o \in Objects : crs[o] = None}

\* The one name an adopted container's object can have.
NewNames(n) == {ObjectName[n]}

\* buildAdoptedDockerContainer.  Its status is not stored by Create.
Adopted == [host |-> cur, name |-> snap.name, cfg |-> snap.cfg, mode |-> "Observe",
            managed |-> TRUE, from |-> snap.id, adopted |-> FALSE, hash |-> None]

\* An object of that name, whosever it is, ends the discovery.
Create(o) ==
  /\ pc = "create"
  /\ Pay(o)
  /\ \E new \in NewNames(snap.name) :
       /\ IF crs[new] = None /\ o # "fail"
            THEN crs' = [crs EXCEPT ![new] = Adopted] /\ lag' = lag \cup {new}
            ELSE UNCHANGED <<crs, lag>>
       /\ IF crs[new] = None /\ o = "ok" THEN NextContainer(todo) ELSE Return
  /\ UNCHANGED <<hostVars, statusVars, crCache>>

Pass ==
  \/ \E h \in Hosts : Get(h)
  \/ \E o \in Outcomes :
       \/ Ping(o) \/ WriteHost(o) \/ List(o) \/ UpdateMeta(o) \/ UpdateStatus(o) \/ Create(o)
       \/ \E id \in todo : Inspect(id, o)
  \/ \E current \in BOOLEAN : Upsert(current)

\* The informer for DockerHosts.
SyncHost(h) ==
  /\ h \in hostLag
  /\ statusCache' = [statusCache EXCEPT ![h] = status[h]] /\ hostLag' = hostLag \ {h}
  /\ queued' = queued \cup {h}
  /\ UNCHANGED <<hostVars, status, crVars, pc, cur, hostFresh, report, todo, snap, copyVars,
                 budgetVars>>

\* The new process lists everything anew.
Crash ==
  /\ Suffer({"crash"})
  /\ Forget /\ queued' = {h \in Hosts : status[h] # None}
  /\ statusCache' = status /\ hostLag' = {} /\ crCache' = crs /\ lag' = {}
  /\ UNCHANGED <<hostVars, status, crs>>

-----------------------------------------------------------------------------
(* DockerContainerReconciler, to the extent its passes are seen here.      *)

\* Somebody else writes object o.
Write(o, new) ==
  /\ crs' = [crs EXCEPT ![o] = new]
  /\ lag' = lag \cup {o} /\ fresh' = (fresh /\ o # obj)
  /\ UNCHANGED <<statusVars, crCache, queued, pc, cur, hostFresh, report, todo, snap, obj, work>>

There(cr) == daemon[cr.host][cr.name]

\* observeRuntime.
Observe(o) ==
  /\ crs[o] # None /\ crs[o].mode = "Observe" /\ crs[o].host \in reachable
  /\ LET new == [crs[o] EXCEPT !.adopted = TRUE,
                               !.hash = IF There(crs[o]) = None THEN None ELSE There(crs[o]).cfg]
     IN  new # crs[o] /\ Write(o, new)
  /\ UNCHANGED <<hostVars, budgetVars>>

\* create, after the removal of what drifted: without labels.
Enforce(o) ==
  /\ crs[o] # None /\ crs[o].mode = "Enforce" /\ crs[o].host \in reachable
  /\ IF There(crs[o]) = None THEN TRUE ELSE There(crs[o]).cfg # crs[o].cfg
  /\ ids' = ids + 1
  /\ daemon' = [daemon EXCEPT ![crs[o].host][crs[o].name] = Run(ids', crs[o].cfg, FALSE)]
  /\ UNCHANGED <<reachable, statusVars, crVars, passVars, budgetVars>>

\* A deletion from its request to the end: the container goes with the object
\* unless it is an observed one, or was not the controller's yet.
DeleteCR(o, taken) ==
  /\ crs[o] # None /\ Suffer({"edit"})
  /\ Write(o, None)
  /\ daemon' = IF taken /\ ~(crs[o].adopted /\ crs[o].mode = "Observe")
               THEN [daemon EXCEPT ![crs[o].host][crs[o].name] = None] ELSE daemon
  /\ UNCHANGED <<ids, reachable>>

-----------------------------------------------------------------------------
(* Users and hosts.                                                        *)

\* Two objects that enforce one container replace it in turns for ever; users
\* are taken not to write that.
Enforces(cr, h, n) == Of(cr, h, n) /\ cr.mode = "Enforce"
Alone(o, cr) == cr.mode = "Enforce" =>
  \A p \in Objects \ {o} : ~Enforces(crs[p], cr.host, cr.name)

EditCR(o, mode, cfg) ==
  /\ crs[o] # None /\ Alone(o, [crs[o] EXCEPT !.mode = mode]) /\ <<mode, cfg>> # <<crs[o].mode, crs[o].cfg>>
  /\ Suffer({"edit"})
  /\ Write(o, [crs[o] EXCEPT !.mode = mode, !.cfg = cfg])
  /\ UNCHANGED hostVars

HandMade(o, d) ==
  /\ crs[o] = None /\ Alone(o, d) /\ Suffer({"hand"})
  /\ Write(o, [host |-> d.host, name |-> d.name, cfg |-> d.cfg, mode |-> d.mode,
               managed |-> FALSE, from |-> None, adopted |-> FALSE, hash |-> None])
  /\ UNCHANGED hostVars

Docker(h, new) ==
  /\ daemon' = [daemon EXCEPT ![h] = new]
  /\ UNCHANGED <<reachable, statusVars, crVars, passVars>>

StartContainer(h, n, cfg) ==
  /\ Suffer({"outside"}) /\ ids' = ids + 1
  /\ Docker(h, [daemon[h] EXCEPT ![n] = Run(ids', cfg, TRUE)])

RemoveContainer(h, n) ==
  /\ daemon[h][n] # None /\ Suffer({"outside"})
  /\ Docker(h, [daemon[h] EXCEPT ![n] = None]) /\ UNCHANGED ids

Rename(h, m, n) ==
  /\ daemon[h][m] # None /\ daemon[h][n] = None /\ Suffer({"rename"})
  /\ Docker(h, [daemon[h] EXCEPT ![n] = daemon[h][m], ![m] = None]) /\ UNCHANGED ids

ChangeHost(h) ==
  /\ Suffer({"host"})
  /\ status' = [status EXCEPT ![h] = IF @ = None THEN "" ELSE None]
  /\ hostLag' = hostLag \cup {h} /\ hostFresh' = (hostFresh /\ h # cur)
  /\ UNCHANGED <<hostVars, statusCache, crVars, queued, pc, cur, report, todo, snap, copyVars>>

Reach(h) ==
  /\ Suffer({"reach"})
  /\ reachable' = (reachable \ {h}) \cup ({h} \ reachable)
  /\ UNCHANGED <<daemon, ids, statusVars, crVars, passVars>>

Others ==
  \/ Crash \/ NoClient
  \/ \E o \in Objects :
       \/ \E taken \in BOOLEAN : DeleteCR(o, taken)
       \/ \E mode \in Modes, cfg \in Cfgs : EditCR(o, mode, cfg)
       \/ \E d \in Drafts : HandMade(o, d)
  \/ \E h \in Hosts :
       \/ ChangeHost(h) \/ Reach(h)
       \/ \E n \in Names :
            \/ RemoveContainer(h, n) \/ \E cfg \in Cfgs : StartContainer(h, n, cfg)
            \/ \E m \in Names : Rename(h, m, n)

Next ==
  \/ Pass \/ Others
  \/ \E h \in Hosts : SyncHost(h)
  \/ \E o \in Objects : Observe(o) \/ Enforce(o)

\* Each worker runs its passes to the end, and takes every host and object in
\* turn; informers deliver.
Spec ==
  /\ Init /\ [][Next]_vars
  /\ WF_vars(Pass)
  /\ \A h \in Hosts : SF_vars(Get(h)) /\ WF_vars(SyncHost(h))
  /\ \A o \in Objects : WF_vars(Observe(o)) /\ WF_vars(Enforce(o))

-----------------------------------------------------------------------------
(* Properties.                                                             *)

Statuses == {"", "connected", "no client", "no answer"}
CR == [host : Hosts, name : Names, cfg : Cfgs, mode : Modes, managed : BOOLEAN,
       from : Nat \cup {None}, adopted : BOOLEAN, hash : Cfgs \cup {None}]

\* None is neither an object nor a snapshot.
ASSUME NoneAssumption == None \notin CR \cup [name : Names, id : Nat, cfg : Cfgs]

\* Objects and containers are well formed, and the pass has what its next call
\* needs.
TypeOK ==
  /\ \A h \in Hosts : \A n \in Names :
       daemon[h][n] # None => daemon[h][n] \in [id : 1..ids, cfg : Cfgs, adopt : BOOLEAN]
  /\ status \in [Hosts -> Statuses \cup {None}] /\ hostLag \subseteq Hosts
  /\ crs \in [Objects -> CR \cup {None}] /\ lag \subseteq Objects
  /\ queued \subseteq Hosts /\ todo \subseteq 1..ids
  /\ pc = "idle" => cur = None
  /\ pc # "idle" => cur \in Hosts
  /\ pc \in {"upsert", "create", "update", "observed"} => snap # None /\ snap.id \notin todo
  /\ pc \in {"update", "observed"} => obj \in Objects /\ Of(work, cur, snap.name)

Spared(old, new) ==
  old # None => /\ new # None
                /\ <<old.host, old.name, old.cfg, old.mode>> = <<new.host, new.name, new.cfg, new.mode>>

\* What a user wrote stays: no pass changes mode or configuration of an object
\* there is, or removes one, though it puts whole copies back that it read from
\* a cache before other calls.
EditsKept == [][Pass => \A o \in Objects : Spared(crs[o], crs'[o])]_vars

\* No two objects claim the same container, however stale the lists were by
\* which they were created, unless somebody renamed it or made one by hand.
\* Edits of spec.containerName and spec.dockerHostRef, which no action here
\* makes, would be another exception.
ClaimedOnce ==
  had \cap {"rename", "hand"} = {} =>
    \A o, p \in Objects :
      (o # p /\ crs[o] # None /\ crs[p] # None /\ crs[o].host = crs[p].host)
        => crs[o].from # crs[p].from

\* The label of every container of host h leads to an object, if none of them
\* is kept from it by another one's object.
Clear(h) ==
  \A n \in Labelled(h) : (\E o \in Objects : Of(crs[o], h, n)) \/ crs[ObjectName[n]] = None

AdoptedRight(h) ==
  \A n \in Labelled(h) : \E o \in Objects :
    /\ Of(crs[o], h, n) /\ crs[o].managed /\ crs[o].from = daemon[h][n].id
    /\ crs[o].adopted /\ crs[o].hash = daemon[h][n].cfg

\* A DockerHost's status tells at last whether the daemon answers, and if it
\* does every labelled container gets its object, which names the container's
\* ID and the configuration it runs with, whatever failed or was stale before.
AdoptsAtLast ==
  <>[](\A h \in Hosts : status[h] # None =>
         /\ status[h] = IF h \in reachable THEN "connected" ELSE "no answer"
         /\ (h \in reachable /\ Clear(h)) => AdoptedRight(h))

\* The two controllers that write an object's status do so until they agree,
\* and do not take turns for ever.
WritersAgree == <>[][FALSE]_<<status, crs, daemon>>
=============================================================================
