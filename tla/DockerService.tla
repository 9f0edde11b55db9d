---------------------------- MODULE DockerService ----------------------------
(***************************************************************************)
(* DockerServiceReconciler at work on one DockerService name.              *)
(*                                                                         *)
(* A pass resolves the DockerContainers the service selects, brings four   *)
(* objects of the cluster up to date (Service, Secret, ConfigMap and       *)
(* Deployment of the tunnel server), pushes a changed target list to the   *)
(* server's pod, and sees to a tunnel client on the Docker host of one of  *)
(* the containers.  Every read of the cluster is answered by an informer   *)
(* cache that lags; every call may fail or lose its answer.                *)
(***************************************************************************)
EXTENDS Integers, Sequences, SequencesExt

CONSTANTS
  None,
  Containers,    \* names of DockerContainers
  Hosts, HostOf, \* Docker hosts, and the host of each container
  Addrs,         \* addresses a container may get: numbers, as sort orders them
  Start,         \* the containers there are at first, with their addresses
  Specs,         \* [form, who]: is the selection well formed, whom it matches
  Removable,     \* kinds of objects somebody else may delete
  MaxUid,        \* how often the DockerService is created
  MaxUpgrades,   \* newer images of the operator
  Troubles,      \* what may happen besides, see AllTroubles
  MaxTrouble,    \* and how much of it, all together
  MaxInFlight    \* pushes under way at once: one more counts as lost

Kinds == {"svc", "secret", "cm", "dep"}

\* A call fails, the operator dies, a read misses the last change, somebody
\* touches what is the operator's, a container changes, the service is edited,
\* or deleted; then it may be created again.
AllTroubles == {"fault", "crash", "stale", "outside", "move", "edit", "delete"}

ASSUME ServiceAssumption ==
  /\ HostOf \in [Containers -> Hosts] /\ None \notin Containers /\ None \notin Hosts
  /\ Addrs \subseteq Nat \ {0} /\ None \notin Nat
  /\ Start \in [Containers -> Addrs \cup {0, None}]
  /\ Specs \subseteq [form : {"ok", "refs", "selector"}, who : SUBSET Containers]
  /\ Removable \subseteq Kinds /\ Troubles \subseteq AllTroubles
  /\ {MaxUid, MaxUpgrades, MaxTrouble, MaxInFlight} \subseteq Nat

VARIABLES
  \* the API server and the informers
  ds, dsCache, dsFresh,   \* the service, the cached copy, is it current
  dcs, dcCache,           \* container -> None, 0 (no address yet) or its address
  objs,                   \* kind -> [owner, val] or None
  objCache, lag,          \* what passes last read of them; kinds changed since
  tokens,                 \* tokens drawn so far: the next one is tokens + 1
  \* the pods of the Deployment, and the hosts
  pod,                    \* [token, image] of the tunnel server, or None
  clients,                \* host -> its tunnel client, or None
  \* the operator
  image,                  \* OPERATOR_IMAGE of the running process
  inFlight,               \* target lists on their way to the pod; see TunnelPipeline
  queued, pc, work, fresh,
  list, first,            \* targets of the pass; the container it asks a host for
  token,
  todo,                   \* hosts a deletion has still to visit
  report,                 \* the status to write, and whether to come back
  \* history and bounds
  deselected,             \* a container was deleted or the selection changed
  faulted, troubles,      \* a call failed; how much went on besides passes
  uids

apiVars == <<ds, dsCache, dsFresh>>
dcVars == <<dcs, dcCache>>
objVars == <<objs, objCache, lag, tokens>>
localVars == <<work, fresh, list, first, token, todo, report>>
passVars == <<queued, pc, localVars>>
worldVars == <<pod, clients, inFlight>>
budgetVars == <<deselected, faulted, troubles, uids>>
vars == <<apiVars, dcVars, objVars, worldVars, image, passVars, budgetVars>>

\* What a message says, and the targets it names.
Message(text, l) == [text |-> text, targets |-> l]
NoStatus == [phase |-> "", clients |-> 0, url |-> FALSE, msg |-> Message("", <<>>)]

Init ==
  /\ ds = None /\ dsCache = None /\ dsFresh = TRUE
  /\ dcs = Start /\ dcCache = dcs
  /\ objs = [k \in Kinds |-> None] /\ objCache = objs /\ lag = {} /\ tokens = 0
  /\ pod = None /\ clients = [h \in Hosts |-> None] /\ inFlight = <<>>
  /\ image = 0
  /\ queued = FALSE /\ pc = "idle" /\ work = None /\ fresh = FALSE
  /\ list = <<>> /\ first = None /\ token = None /\ todo = {} /\ report = None
  /\ deselected = FALSE /\ faulted = FALSE /\ troubles = 0 /\ uids = 0

-----------------------------------------------------------------------------
(* How calls and passes end.  "lost" took effect and returned an error.    *)

Outcomes == {"ok", "lost", "fail"}

\* The troubles ts happen in this step.
Suffer(ts) ==
  /\ ts \subseteq Troubles
  /\ faulted' = (faulted \/ "fault" \in ts)
  /\ troubles' = troubles + Cardinality(ts)
  /\ ts # {} => troubles' <= MaxTrouble

\* A call that ends as o; current: the informer that answers its read has the
\* last change already.
Pay(o, current) ==
  /\ Suffer((IF o = "ok" THEN {} ELSE {"fault"}) \cup (IF current THEN {} ELSE {"stale"}))
  /\ UNCHANGED <<deselected, uids>>

Forget ==
  /\ pc' = "idle" /\ work' = None /\ fresh' = FALSE
  /\ list' = <<>> /\ first' = None /\ token' = None /\ todo' = {} /\ report' = None

\* again: an error, Requeue or RequeueAfter brings the request back.
Return(again) == Forget /\ queued' = (queued \/ again)

Goto(step) == pc' = step /\ UNCHANGED <<queued, work, fresh, list, first, token, todo, report>>

\* The pass has its result: setDockerServiceStatus is its last call.
Report(phase, n, url, msg, again) ==
  /\ pc' = "status"
  /\ report' = [status |-> [phase |-> phase, clients |-> n, url |-> url, msg |-> msg],
                again |-> again]
  /\ UNCHANGED <<queued, work, fresh, list, first, token, todo>>

Error(url) == Report("Error", 0, url, Message("error", <<>>), TRUE)
Active == Report("Active", 1, TRUE, Message("ready", list), TRUE)
Pending == Report("Pending", 0, TRUE, Message("waiting", <<>>), TRUE)

-----------------------------------------------------------------------------
(* Reconcile: the service, its finalizer and its deletion.                 *)

\* resolveTargetContainers finds a container by name or those a selector
\* matches; both read the cache.
Selected(spec, dc) == {c \in spec.who : dc[c] # None}

\* Mutant: a container without an address is not skipped.
buildTargetIPsAll(cs, dc) == [c \in cs |-> dc[c]]

\* An address per container: two hosts may give theirs the same one, which
\* then occurs twice.
buildTargetIPs(cs, dc) == [c \in {d \in cs : dc[d] # 0} |-> dc[c]]

\* The addresses, in one of the orders a cache may list the containers in.
Listed(ips, order) == [i \in DOMAIN order |-> ips[order[i]]]

\* Mutant: the targets are not sorted.
TargetListsUnsorted(ips) == {Listed(ips, order) : order \in SetToSeqs(DOMAIN ips)}

\* sort.Strings.
Sorted(ips) == SortSeq(Listed(ips, SetToSeq(DOMAIN ips)), <)

TargetLists(ips) == {Sorted(ips)}

\* Mutant: only the first container's host is asked.
CleanupHostsFirst(spec, dc) ==
  IF Selected(spec, dc) = {} THEN {} ELSE {HostOf[CHOOSE c \in Selected(spec, dc) : TRUE]}

\* deleteExternalResources visits the hosts of what is selected now.
CleanupHosts(spec, dc) ==
  IF spec.form = "selector" THEN {} ELSE {HostOf[c] : c \in Selected(spec, dc)}

\* A pass begins.  The service and the containers are read one after the
\* other; what changed in between could as well have changed before.
Take(step) ==
  /\ pc = "idle" /\ queued /\ queued' = FALSE
  /\ pc' = step /\ work' = dsCache /\ fresh' = dsFresh
  /\ Pay("ok", dsFresh /\ dcCache = dcs)
  /\ UNCHANGED <<apiVars, dcVars, objVars, worldVars, image>>

Live == dsCache # None /\ ~dsCache.deleting /\ dsCache.finalizer
NothingChosen == UNCHANGED <<list, first, token, todo, report>>

GetNothing ==
  /\ pc = "idle" /\ queued /\ queued' = FALSE
  /\ dsCache # None => dsCache.deleting /\ ~dsCache.finalizer
  /\ UNCHANGED <<apiVars, dcVars, objVars, worldVars, image, pc, localVars, budgetVars>>

GetDeleted ==
  /\ dsCache # None /\ dsCache.deleting /\ dsCache.finalizer
  /\ Take("cleanup")
  /\ todo' = CleanupHosts(dsCache.spec, dcCache)
  /\ UNCHANGED <<list, first, token, report>>

GetNew ==
  /\ dsCache # None /\ ~dsCache.deleting /\ ~dsCache.finalizer
  /\ Take("addFinalizer") /\ NothingChosen

Bare(phase, text) == [NoStatus EXCEPT !.phase = phase, !.msg = Message(text, <<>>)]

\* resolveTargetContainers refuses the spec, or nothing is selected: then the
\* tunnel server is not touched.
GetUnresolved ==
  /\ Live /\ Take("status")
  /\ LET spec == dsCache.spec
         End(phase, text, again) ==
           report' = [status |-> Bare(phase, text), again |-> again]
     IN  \/ spec.form = "refs" /\ End("Error", "error", FALSE)
         \/ spec.form = "selector" /\ End("Error", "invalid", TRUE)
         \/ /\ spec.form = "ok" /\ Selected(spec, dcCache) = {}
            /\ End("Pending", "none", TRUE)
  /\ UNCHANGED <<list, first, token, todo>>

GetTargets ==
  /\ Live /\ dsCache.spec.form = "ok"
  /\ LET cs == Selected(dsCache.spec, dcCache)
     IN  first' \in cs /\ list' \in TargetLists(buildTargetIPs(cs, dcCache))
  /\ Take("svc")
  /\ UNCHANGED <<token, todo, report>>

\* r.Update carries the resourceVersion the pass read.
Update(o, new) ==
  /\ Pay(o, TRUE)
  /\ IF fresh /\ o # "fail" THEN ds' = new /\ dsFresh' = FALSE
                            ELSE UNCHANGED <<ds, dsFresh>>
  /\ UNCHANGED <<dsCache, dcVars, objVars, worldVars, image>>

AddFinalizer(o) ==
  /\ pc = "addFinalizer"
  /\ Update(o, [work EXCEPT !.finalizer = TRUE])
  /\ Return(TRUE)

\* One host of deleteExternalResources: no client, or a removal that fails,
\* is logged and the next host is visited.
Cleanup(h, o) ==
  /\ pc = "cleanup" /\ h \in todo
  /\ Pay(o, TRUE)
  /\ clients' = IF o = "fail" THEN clients ELSE [clients EXCEPT ![h] = None]
  /\ todo' = todo \ {h}
  /\ UNCHANGED <<apiVars, dcVars, objVars, pod, inFlight, image, queued, pc,
                 work, fresh, list, first, token, report>>

\* The last finalizer gone, the API server drops the object.
RemoveFinalizer(o) ==
  /\ pc = "cleanup" /\ todo = {}
  /\ Update(o, None)
  /\ Return(o # "ok" \/ ~fresh)

-----------------------------------------------------------------------------
(* reconcileTunnelServer.                                                  *)

\* What the pass reads of an object.  These informers queue nothing, so what
\* they deliver matters only when it is read.
Seen(k, current) == IF current THEN objs[k] ELSE objCache[k]

\* objs becomes new, and the pass has read k.
ReadAndWrite(k, current, new) ==
  /\ ~current => k \in lag
  /\ objs' = new
  /\ objCache' = [objCache EXCEPT ![k] = Seen(k, current)]
  /\ lag' = IF new # objs THEN lag \cup {k} ELSE IF current THEN lag \ {k} ELSE lag

\* Kinds the API server completes with defaults.  As the code does not set
\* these, CreateOrUpdate finds such an object changed and sends it every time.
Completed == {"svc", "dep"}

\* controllerutil.CreateOrUpdate: the object is created if the cache has none,
\* left alone if it is as wanted, and sent under its resourceVersion otherwise.
\* SetControllerReference refuses one that belongs to an earlier DockerService.
Result(k, val, current) ==
  LET c == Seen(k, current)
  IN  CASE c = None -> IF objs[k] = None THEN "created" ELSE "refused"
        [] c # None /\ c.owner # work.uid -> "refused"
        [] c # None /\ c.owner = work.uid /\ c.val = val ->
             IF current \/ k \notin Completed THEN "none" ELSE "refused"
        [] OTHER -> IF current THEN "updated" ELSE "refused"

\* A call that may fail.
Calls(k, val, current) == k \in Completed \/ Result(k, val, current) # "none"
Writes(k, val, current) == Result(k, val, current) \in {"created", "updated"}
Failed(k, val, o, current) == o # "ok" \/ Result(k, val, current) = "refused"

CreateOrUpdate(k, val, o, current) ==
  /\ Pay(o, current)
  /\ o # "ok" => Calls(k, val, current)
  /\ ReadAndWrite(k, current,
       IF o # "fail" /\ Writes(k, val, current)
       THEN [objs EXCEPT ![k] = [owner |-> work.uid, val |-> val]] ELSE objs)
  /\ UNCHANGED tokens

ReconcileService(o, current) ==
  /\ pc = "svc"
  /\ CreateOrUpdate("svc", 0, o, current)
  /\ IF Failed("svc", 0, o, current) THEN Error(FALSE) ELSE Goto("secret")
  /\ UNCHANGED <<apiVars, dcVars, worldVars, image>>

\* Mutant: a Secret that exists already is no error, the new token is used.
DrawnAnyhow(o, s) == s = None /\ o = "ok"

\* A new token is drawn and its Secret stored.
Drawn(o, s) == s = None /\ objs["secret"] = None /\ o = "ok"

\* ensureTunnelAuthSecret: the token the cache has, whoever owns the Secret,
\* or a new one.  A Secret the cache has not seen yet is an error.
EnsureTunnelAuthSecret(o, current, next, url) ==
  LET s == Seen("secret", current)
      stored == s = None /\ objs["secret"] = None /\ o # "fail"
  IN  /\ Pay(o, current)
      /\ o # "ok" => s = None
      /\ tokens' = IF stored THEN tokens + 1 ELSE tokens
      /\ ReadAndWrite("secret", current,
           IF stored THEN [objs EXCEPT !["secret"] = [owner |-> work.uid, val |-> tokens']]
                     ELSE objs)
      /\ IF s # None \/ Drawn(o, s)
           THEN /\ token' = IF s # None THEN s.val ELSE tokens + 1
                /\ pc' = next
                /\ UNCHANGED <<queued, work, fresh, list, first, todo, report>>
           ELSE Error(url)

ServerSecret(o, current) ==
  /\ pc = "secret"
  /\ EnsureTunnelAuthSecret(o, current, "cm", FALSE)
  /\ UNCHANGED <<apiVars, dcVars, worldVars, image>>

\* triggerTunnelReload: a goroutine that outlives the pass.
Sent(l) == IF pod # None /\ Len(inFlight) < MaxInFlight THEN Append(inFlight, l) ELSE inFlight

\* A list that was changed is pushed to the pod; one that was created or left
\* alone is not.
ReconcileConfigMap(o, current) ==
  /\ pc = "cm"
  /\ CreateOrUpdate("cm", list, o, current)
  /\ inFlight' = IF o = "ok" /\ Result("cm", list, current) = "updated" THEN Sent(list) ELSE inFlight
  /\ IF Failed("cm", list, o, current) THEN Error(FALSE) ELSE Goto("dep")
  /\ UNCHANGED <<apiVars, dcVars, pod, clients, image>>

\* No targets, no replicas; then the pass ends here.
ReconcileDeployment(o, current) ==
  /\ pc = "dep"
  /\ LET val == [replicas |-> IF list = <<>> THEN 0 ELSE 1, token |-> token, image |-> image]
     IN  /\ CreateOrUpdate("dep", val, o, current)
         /\ IF Failed("dep", val, o, current) THEN Error(FALSE)
            ELSE IF list = <<>> THEN Pending ELSE Goto("rep")
  /\ UNCHANGED <<apiVars, dcVars, worldVars, image>>

-----------------------------------------------------------------------------
(* reconcileTunnelClient, on the host of the first container.              *)

host == HostOf[first]

\* docker.NewClient and the inspection of the container itself.  If somebody
\* removed it the pass leaves the client alone and still reports it.
InspectTarget(o) ==
  /\ pc = "rep" /\ o # "lost"
  /\ Pay(o, TRUE)
  /\ IF o = "ok" THEN Goto("clientSecret") ELSE Error(TRUE)
  /\ UNCHANGED <<apiVars, dcVars, objVars, worldVars, image>>

TargetMissing ==
  /\ pc = "rep"
  /\ Suffer({"outside"}) /\ UNCHANGED <<deselected, uids>>
  /\ Active
  /\ UNCHANGED <<apiVars, dcVars, objVars, worldVars, image>>

ClientSecret(o, current) ==
  /\ pc = "clientSecret"
  /\ EnsureTunnelAuthSecret(o, current, "client", TRUE)
  /\ UNCHANGED <<apiVars, dcVars, worldVars, image>>

\* What the pass does to the client it finds.  Token and network are not
\* compared.
ClientStep(c) ==
  IF c = None THEN "create"
  ELSE IF c.image # image THEN "remove"
  ELSE IF c.running THEN "keep" ELSE "restart"

InspectClient(o) ==
  /\ pc = "client" /\ o # "lost"
  /\ Pay(o, TRUE)
  /\ IF o = "fail" THEN Error(TRUE)
     ELSE IF ClientStep(clients[host]) = "keep" THEN Active
     ELSE Goto(ClientStep(clients[host]))
  /\ UNCHANGED <<apiVars, dcVars, objVars, worldVars, image>>

\* A Docker call on the client: it becomes new, and the pass goes on to next.
ClientCall(step, o, new) ==
  /\ pc = step
  /\ Pay(o, TRUE)
  /\ clients' = IF o = "fail" THEN clients ELSE [clients EXCEPT ![host] = new]
  /\ UNCHANGED <<apiVars, dcVars, objVars, pod, inFlight, image>>

\* One that somebody removed meanwhile is not found, which is an error.
RemoveClient(o) ==
  /\ ClientCall("remove", o, None)
  /\ IF o = "ok" /\ clients[host] # None THEN Goto("create") ELSE Error(TRUE)

CreateClient(o) ==
  /\ ClientCall("create", o, [token |-> token, image |-> image, running |-> FALSE, net |-> FALSE])
  /\ IF o = "ok" THEN Goto("start") ELSE Error(TRUE)

\* The client with field f set, unless somebody removed it meanwhile.
With(f) == IF clients[host] = None THEN None ELSE [clients[host] EXCEPT ![f] = TRUE]

StartClient(o) ==
  /\ pc \in {"start", "restart"}
  /\ ClientCall(pc, o, With("running"))
  /\ IF o # "ok" \/ clients[host] = None THEN Error(TRUE)
     ELSE IF pc = "restart" THEN Active ELSE Goto("connect")

\* NetworkConnect ends the life of a fresh client only; its error is ignored.
ConnectClient(o) ==
  /\ pc = "connect"
  /\ ClientCall("connect", o, With("net"))
  /\ Active

-----------------------------------------------------------------------------
(* setDockerServiceStatus.                                                 *)

\* Mutant: nothing is sent as long as the phase is the same.
PatchedByPhase(old, read, new) == IF read.phase = new.phase THEN old ELSE new

\* The patch has the fields in which the new status differs from the one the
\* pass read, and is merged into whatever is stored under the name.
Patched(old, read, new) ==
  [f \in DOMAIN old |-> IF new[f] = read[f] THEN old[f] ELSE new[f]]

\* Its error is ignored.  An invalid selector is reported twice, in other
\* words; the second patch starts from what the first one returned.
WriteStatus(o) ==
  /\ pc = "status"
  /\ Pay(o, TRUE)
  /\ LET new == [ds EXCEPT !.status = Patched(ds.status, work.status, report.status)]
     IN  IF ds = None \/ o = "fail" THEN UNCHANGED <<ds, dsFresh>>
         ELSE ds' = new /\ dsFresh' = (dsFresh /\ new = ds)
  /\ IF report.status.msg.text # "invalid" THEN Return(report.again)
     ELSE /\ report' = [report EXCEPT !.status = Bare("Error", "error")]
          /\ work' = [work EXCEPT !.status = IF o = "ok" /\ ds # None THEN ds'.status ELSE report.status]
          /\ UNCHANGED <<queued, pc, fresh, list, first, token, todo>>
  /\ UNCHANGED <<dsCache, dcVars, objVars, worldVars, image>>

Pass ==
  \/ GetNothing \/ GetDeleted \/ GetNew \/ GetUnresolved \/ GetTargets
  \/ \E o \in Outcomes :
       \/ AddFinalizer(o) \/ RemoveFinalizer(o) \/ \E h \in Hosts : Cleanup(h, o)
       \/ \E current \in BOOLEAN :
            \/ ReconcileService(o, current) \/ ServerSecret(o, current)
            \/ ReconcileConfigMap(o, current) \/ ReconcileDeployment(o, current)
            \/ ClientSecret(o, current)
       \/ InspectTarget(o) \/ InspectClient(o)
       \/ RemoveClient(o) \/ CreateClient(o) \/ StartClient(o) \/ ConnectClient(o)
       \/ WriteStatus(o)

\* The operator dies, and with it what it was sending, or is replaced by a
\* newer one.  The new process lists everything anew.
Crash(new) ==
  /\ Suffer({"crash"}) /\ UNCHANGED <<deselected, uids>>
  /\ new \in image..MaxUpgrades /\ image' = new
  /\ Forget /\ queued' = TRUE /\ inFlight' = <<>>
  /\ dsCache' = ds /\ dsFresh' = TRUE /\ dcCache' = dcs /\ objCache' = objs /\ lag' = {}
  /\ UNCHANGED <<ds, dcs, objs, tokens, pod, clients>>

-----------------------------------------------------------------------------
(* The informers.  Only the service and the containers queue requests.     *)

SyncService ==
  /\ ~dsFresh
  /\ dsCache' = ds /\ dsFresh' = TRUE /\ queued' = TRUE
  /\ UNCHANGED <<ds, dcVars, objVars, worldVars, image, pc, localVars, budgetVars>>

\* findDockerServicesForContainer.
Mapped(old, new) ==
  dsCache # None /\ \E c \in dsCache.spec.who : dsCache.spec.form # "selector" /\ old[c] # new[c]

SyncContainers ==
  /\ dcCache # dcs
  /\ dcCache' = dcs /\ queued' = (queued \/ Mapped(dcCache, dcs))
  /\ UNCHANGED <<apiVars, dcs, objVars, worldVars, image, pc, localVars, budgetVars>>

-----------------------------------------------------------------------------
(* Users, the other controllers, the cluster and the hosts.                *)

Store(new) ==
  /\ ds' = new /\ dsFresh' = FALSE /\ fresh' = FALSE
  /\ UNCHANGED <<dsCache, dcVars, objVars, worldVars, image, queued, pc, work, list, first,
                 token, todo, report>>

CreateService(spec) ==
  /\ ds = None /\ uids < MaxUid
  /\ uids' = uids + 1
  /\ Store([uid |-> uids', spec |-> spec, deleting |-> FALSE, finalizer |-> FALSE,
            status |-> NoStatus])
  /\ UNCHANGED <<deselected, faulted, troubles>>

EditService(spec) ==
  /\ ds # None /\ spec # ds.spec
  /\ Suffer({"edit"}) /\ deselected' = TRUE
  /\ Store([ds EXCEPT !.spec = spec])
  /\ UNCHANGED uids

DeleteService ==
  /\ ds # None /\ ~ds.deleting
  /\ Suffer({"delete"})
  /\ Store(IF ds.finalizer THEN [ds EXCEPT !.deleting = TRUE] ELSE None)
  /\ UNCHANGED <<deselected, uids>>

\* A DockerContainer comes, gets an address nobody else on its host has, or goes.
MoveContainer(c, a) ==
  /\ Suffer({"move"})
  /\ a # dcs[c] /\ (dcs[c] = None => a = 0)
  /\ a \in Addrs => \A d \in Containers : HostOf[d] = HostOf[c] => dcs[d] # a
  /\ dcs' = [dcs EXCEPT ![c] = a]
  /\ deselected' = (deselected \/ a = None)
  /\ UNCHANGED <<apiVars, dcCache, objVars, worldVars, image, passVars, uids>>

\* The garbage collector removes what belongs to a service that is gone.
Ownerless(k) ==
  objs[k] # None /\ objs[k].owner # 0 /\ (IF ds = None THEN TRUE ELSE objs[k].owner # ds.uid)

DropObject(k) ==
  /\ objs' = [objs EXCEPT ![k] = None] /\ lag' = lag \cup {k}
  /\ UNCHANGED <<apiVars, dcVars, objCache, tokens, worldVars, image, passVars>>

Collect(k) == Ownerless(k) /\ DropObject(k) /\ UNCHANGED budgetVars

RemoveObject(k) ==
  /\ objs[k] # None /\ Suffer({"outside"})
  /\ DropObject(k) /\ UNCHANGED <<deselected, uids>>

\* The pod the Deployment asks for.
PodWanted ==
  IF objs["dep"] = None \/ objs["dep"].val.replicas = 0 THEN None
  ELSE [token |-> objs["dep"].val.token, image |-> objs["dep"].val.image]

\* The pod is the newest one of the Deployment.  While a rollout goes on, an
\* older one may run beside it and end its connections; nothing reads that one.
RollOut ==
  /\ pod # PodWanted /\ pod' = PodWanted
  /\ UNCHANGED <<apiVars, dcVars, objVars, clients, inFlight, image, passVars, budgetVars>>

\* Somebody stops or removes a tunnel client.
TouchClient(h) ==
  /\ clients[h] # None /\ Suffer({"outside"})
  /\ clients' = [clients EXCEPT ![h] = None] \/ clients' = [clients EXCEPT ![h].running = FALSE]
  /\ UNCHANGED <<apiVars, dcVars, objVars, pod, inFlight, image, passVars,
                 deselected, uids>>

Surroundings ==
  \/ RollOut
  \/ \E k \in Kinds : Collect(k)

Informers == SyncService \/ SyncContainers

Others ==
  \/ \E s \in Specs : CreateService(s) \/ EditService(s)
  \/ DeleteService \/ TargetMissing
  \/ \E c \in Containers : \E a \in Addrs \cup {0, None} : MoveContainer(c, a)
  \/ \E k \in Removable : RemoveObject(k)
  \/ \E h \in Hosts : TouchClient(h)
  \/ \E new \in 0..MaxUpgrades : Crash(new)

Next == Pass \/ Informers \/ Surroundings \/ Others

\* The worker runs a pass to its end and takes the next request; informers
\* deliver, the collector collects and the Deployment rolls out.
Spec ==
  /\ Init /\ [][Next]_vars
  /\ WF_vars(Pass) /\ WF_vars(SyncService) /\ WF_vars(SyncContainers)
  /\ WF_vars(\E k \in Kinds : Collect(k))
  /\ WF_vars(RollOut)

-----------------------------------------------------------------------------
(* Properties.                                                             *)

Lists == {Sorted(ips) : ips \in UNION {[cs -> Addrs] : cs \in SUBSET Containers}} \cup {<<>>}
Status == [phase : {"", "Pending", "Active", "Error"}, clients : {0, 1}, url : BOOLEAN,
           msg : [text : {"", "none", "waiting", "ready", "error", "invalid"}, targets : Lists]]
Service == [uid : 1..MaxUid, spec : Specs, deleting : BOOLEAN, finalizer : BOOLEAN,
            status : Status]

\* None is no object of the cluster.
ASSUME NoneAssumption == None \notin Service \cup [owner : Nat, val : Nat \cup Lists]

\* The stored and cached objects are well formed, and the pass has what its
\* next call needs.
TypeOK ==
  /\ {ds, dsCache, work} \subseteq Service \cup {None}
  /\ dcs \in [Containers -> Addrs \cup {0, None}] /\ dcCache \in [Containers -> Addrs \cup {0, None}]
  /\ lag \subseteq Kinds /\ tokens \in Nat
  /\ \A h \in Hosts : clients[h] # None => clients[h].token \in 1..tokens
  /\ list \in Lists /\ first \in Containers \cup {None} /\ todo \subseteq Hosts
  /\ pc = "idle" => work = None /\ token = None
  /\ pc \in {"svc", "secret", "cm", "dep", "rep", "client", "create"} => first # None
  /\ pc \in {"cm", "dep", "client", "remove", "create"} => token \in 1..tokens
  /\ pc = "status" => report.status \in Status /\ report.again \in BOOLEAN

\* Everybody has the one token: the Deployment and each tunnel client were
\* given the Secret's, though it is read twice in a pass from a cache that may
\* not have it yet.  For a service that is created once and whose Secret is
\* left alone.
TokensAgree ==
  (uids <= 1 /\ "secret" \notin Removable /\ objs["secret"] # None) =>
    /\ objs["dep"] # None => objs["dep"].val.token = objs["secret"].val
    /\ \A h \in Hosts : clients[h] # None => clients[h].token = objs["secret"].val

\* A service that is gone has left no tunnel client on any host, as long as no
\* call fails and what it selected is still there to say which hosts those are.
NoClientLeaks ==
  (ds = None /\ ~faulted /\ ~deselected) => \A h \in Hosts : clients[h] = None

Resolved == ds # None /\ ~ds.deleting /\ ds.spec.form = "ok" /\ Selected(ds.spec, dcs) # {}
Wanted == Sorted(buildTargetIPs(Selected(ds.spec, dcs), dcs))

\* The ConfigMap has the addresses of the selected containers and the
\* Deployment runs a server exactly if there are any.
FeedRight ==
  /\ objs["cm"] # None /\ objs["cm"].val = Wanted
  /\ (pod # None) = (Wanted # <<>>)

StatusRight ==
  ds.status = [phase |-> IF Wanted = <<>> THEN "Pending" ELSE "Active",
               clients |-> IF Wanted = <<>> THEN 0 ELSE 1, url |-> TRUE,
               msg |-> Message(IF Wanted = <<>> THEN "waiting" ELSE "ready", Wanted)]

\* A running client of the operator's own image.
ClientRight ==
  Wanted # <<>> => \E h \in Hosts : clients[h] # None /\ clients[h].running /\ clients[h].image = image

\* Nothing outlives the service or stays of a predecessor of the same name.
NothingLeft ==
  \A k \in Kinds : objs[k] # None => (ds # None /\ objs[k].owner = ds.uid)

\* When containers and users come to rest, so does the service, as it should
\* be: target list, server, client and status are the right ones and nothing is
\* left of what was deleted, whatever was stale, failed or was patched against
\* an old copy before.
ServiceSettles == <>[](NothingLeft /\ (Resolved => FeedRight /\ StatusRight /\ ClientRight))

\* Passes stop writing: the objects of the cluster and the list of targets do
\* not change for ever by being reconciled.  An invalid selector is the
\* exception: its two messages replace each other in every pass.
QuietAtLast == <>[][ds # None /\ ds.spec.form = "selector"]_<<ds, objs, pod>>
=============================================================================
