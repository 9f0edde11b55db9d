------------------------------ MODULE DockerJob ------------------------------
(***************************************************************************)
(* DockerJobReconciler at work on one DockerJob and its container.         *)
(*                                                                         *)
(* As in DockerContainer.tla a pass is taken apart into its calls, reads   *)
(* the job from a cache that lags, and writes it with optimistic locking.  *)
(* Most status writes of this controller ignore their error, and a pass    *)
(* that was refused goes on with the status it has in memory.              *)
(*                                                                         *)
(* Time: StartTime and CompletionTime are kept as ages, which Tick raises  *)
(* in every copy of the job at once and which stop counting at MaxAge.     *)
(***************************************************************************)
EXTENDS Integers

CONSTANTS
  None,           \* an absent object or an unset field
  BackoffLimit,   \* spec.backoffLimit
  Deadline,       \* spec.activeDeadlineSeconds, or None
  TTL,            \* spec.ttlSecondsAfterFinished, or None
  RestartPolicy,  \* spec.restartPolicy: "Never" or "OnFailure"
  MaxAge,         \* age at which clocks stop counting
  MaxFaults, MaxEdits, MaxOutside, MaxCrashes,
  MaxStale,       \* passes that read an overtaken version
  MaxRestarts     \* starts after which the daemon restarts no more

ASSUME JobAssumption ==
  /\ BackoffLimit \in Nat
  /\ Deadline \in Nat \cup {None} /\ TTL \in Nat \cup {None} /\ None \notin Nat
  /\ RestartPolicy \in {"Never", "OnFailure"}
  /\ MaxAge \in Nat
  /\ MaxFaults \in Nat /\ MaxEdits \in Nat /\ MaxOutside \in Nat /\ MaxCrashes \in Nat
  /\ MaxStale \in Nat /\ MaxRestarts \in Nat

VARIABLES
  job,         \* the stored DockerJob, or None
  cached,      \* the informer's copy of it
  cacheFresh,  \* cached is the stored version
  ctr,         \* the container of the job's name: [id, state, code], or None
  lastId,      \* the last container ID given out
  queued, pc,  \* the work queue and the next call of the running pass
  work,        \* the pass's copy of the job
  fresh,       \* work is the stored version, but for what the pass changed
  id,          \* the container the pass inspected or created
  starts,      \* how often a process of the stored job was started
  succeeded,   \* one of them exited with 0
  faults, edits, outside, crashes, stale

apiVars == <<job, cached, cacheFresh>>
hostVars == <<ctr, lastId, starts, succeeded>>
passVars == <<queued, pc, work, fresh, id>>
budgetVars == <<faults, edits, outside, crashes, stale>>
vars == <<apiVars, hostVars, passVars, budgetVars>>

Phases == {"", "Running", "Succeeded", "Failed"}
Terminal(j) == j.phase \in {"Succeeded", "Failed"}

Calls == {"addFinalizer", "delete", "unfinalize", "inspect", "create", "start",
          "stop", "kill", "retryRemove", "retryCreate", "retryStart",
          "report", "finish", "ttl"}

NewJob == [deleting |-> FALSE, finalizer |-> FALSE, phase |-> "", attempts |-> 0,
           start |-> None, completion |-> None]

\* What a pass writes into its copy of the status.
InPhase(j, p) == [j EXCEPT !.phase = p]
Ended(j, p) == [j EXCEPT !.phase = p, !.completion = 0]
Started(j) == [j EXCEPT !.phase = "Running", !.attempts = @ + 1, !.start = 0]
Retried(j) == [j EXCEPT !.phase = "Running", !.attempts = @ + 1, !.completion = None]

\* What the daemon does to a container.
Run(c) == [c EXCEPT !.state = "running"]
Exit(c, code) == [c EXCEPT !.state = "exited", !.code = code]

Init ==
  /\ job = None /\ cached = None /\ cacheFresh = TRUE
  /\ ctr = None /\ lastId = 0 /\ starts = 0 /\ succeeded = FALSE
  /\ queued = FALSE /\ pc = "idle" /\ work = None /\ fresh = FALSE /\ id = 0
  /\ faults = 0 /\ edits = 0 /\ outside = 0 /\ crashes = 0 /\ stale = 0

-----------------------------------------------------------------------------
(* How calls end: "lost" took effect and returned an error, "fail" did not. *)

Outcomes == {"ok", "lost", "fail"}

Pay(o) ==
  /\ o # "ok" => faults < MaxFaults
  /\ faults' = IF o = "ok" THEN faults ELSE faults + 1
  /\ UNCHANGED <<edits, outside, crashes, stale>>

\* The end of a pass; again: an error or RequeueAfter puts the request back.
Return(again) ==
  /\ pc' = "idle"
  /\ queued' = (queued \/ again)
  /\ UNCHANGED <<work, fresh, id>>

Goto(step) == pc' = step /\ UNCHANGED queued

\* Mutant: a write without the resourceVersion overwrites what is stored.
UpdateUnlocked(o, new) ==
  /\ Pay(o)
  /\ IF job # None /\ o # "fail"
       THEN job' = new /\ cacheFresh' = (cacheFresh /\ new = job)
       ELSE UNCHANGED <<job, cacheFresh>>
  /\ UNCHANGED cached

\* A write of the job, refused when it was overtaken by another one.
Update(o, new) ==
  /\ Pay(o)
  /\ IF fresh /\ o # "fail"
       THEN job' = new /\ cacheFresh' = (cacheFresh /\ new = job)
       ELSE UNCHANGED <<job, cacheFresh>>
  /\ UNCHANGED cached

Refused(o) == o # "ok" \/ ~fresh

Reached == ctr # None /\ ctr.id = id

-----------------------------------------------------------------------------
(* Reconcile.                                                              *)

\* A finished job is only cleaned up, any other one is synced.
Dispatch(j) == IF Terminal(j) THEN "ttl" ELSE "inspect"

\* Mutant: a job that is not there is synced as one not seen before.
EntryIgnoresNotFound(j) ==
  IF j = None THEN "inspect"
  ELSE IF j.deleting THEN IF j.finalizer THEN "delete" ELSE "idle"
  ELSE IF j.finalizer THEN Dispatch(j) ELSE "addFinalizer"

\* The first call of a pass on j, "idle" if there is nothing to do.
Entry(j) ==
  IF j = None THEN "idle"
  ELSE IF j.deleting THEN IF j.finalizer THEN "delete" ELSE "idle"
  ELSE IF j.finalizer THEN Dispatch(j) ELSE "addFinalizer"

Get ==
  /\ pc = "idle" /\ queued
  /\ queued' = FALSE
  /\ cacheFresh \/ stale < MaxStale
  /\ stale' = IF cacheFresh THEN stale ELSE stale + 1
  /\ work' = cached /\ fresh' = cacheFresh /\ id' = 0
  /\ pc' = Entry(cached)
  /\ UNCHANGED <<apiVars, hostVars, faults, edits, outside, crashes>>

\* docker.NewClient fails, before anything else was done.
NoClient ==
  /\ pc = "idle" /\ queued /\ cached # None
  /\ Pay("fail")
  /\ Return(TRUE)
  /\ UNCHANGED <<apiVars, hostVars>>

\* The pass goes on with the version its own update returned.
AddFinalizer(o) ==
  /\ pc = "addFinalizer"
  /\ LET new == [work EXCEPT !.finalizer = TRUE]
     IN  /\ Update(o, new)
         /\ IF Refused(o) THEN Return(TRUE)
            ELSE work' = new /\ Goto(Dispatch(new)) /\ UNCHANGED <<fresh, id>>
  /\ UNCHANGED hostVars

\* Mutant: an error of the removal does not keep the finalizer.
DeleteContainerAnyhow(o) ==
  /\ pc = "delete"
  /\ Pay(o)
  /\ ctr' = IF o = "fail" THEN ctr ELSE None
  /\ Goto("unfinalize") /\ UNCHANGED <<work, fresh, id>>
  /\ UNCHANGED <<apiVars, lastId, starts, succeeded>>

\* Removed by name; only a success or "not found" lets the finalizer go.
DeleteContainer(o) ==
  /\ pc = "delete"
  /\ Pay(o)
  /\ ctr' = IF o = "fail" THEN ctr ELSE None
  /\ IF o = "ok" THEN Goto("unfinalize") /\ UNCHANGED <<work, fresh, id>>
                 ELSE Return(TRUE)
  /\ UNCHANGED <<apiVars, lastId, starts, succeeded>>

RemoveFinalizer(o) ==
  /\ pc = "unfinalize"
  /\ Update(o, None)
  /\ Return(Refused(o))
  /\ UNCHANGED hostVars

-----------------------------------------------------------------------------
(* syncJob.                                                                *)

Overdue(j) == Deadline # None /\ j.start # None /\ j.start > Deadline

\* Mutant: the exit code does not matter while retries are left.
RetryAnyCode(code, j) == j.attempts <= BackoffLimit

Retry(code, j) == code # 0 /\ j.attempts <= BackoffLimit

\* The pass goes on to step with new for its job, knowing the container's ID.
Found(step, new) == Goto(step) /\ work' = new /\ id' = ctr.id /\ UNCHANGED fresh

\* ContainerInspect by name and the switch on what it returns.  A container
\* that is neither running nor exited is looked at again later.
Inspect ==
  /\ pc = "inspect"
  /\ \/ ctr = None /\ Goto("create") /\ id' = 0 /\ UNCHANGED <<work, fresh>>
     \/ ctr # None /\ ctr.state = "created" /\ Return(TRUE)
     \/ /\ ctr # None /\ ctr.state = "running"
        /\ IF Overdue(work) THEN Found("stop", work)
                            ELSE Found("report", InPhase(work, "Running"))
     \/ /\ ctr # None /\ ctr.state = "exited"
        /\ IF Retry(ctr.code, work)
             THEN Found("retryRemove", Ended(work, work.phase))
             ELSE Found("finish", Ended(work, IF ctr.code = 0 THEN "Succeeded" ELSE "Failed"))
  /\ UNCHANGED <<apiVars, hostVars, budgetVars>>

\* ContainerInspect fails with something else than "not found".
InspectFails ==
  /\ pc = "inspect"
  /\ Pay("fail")
  /\ Return(TRUE)
  /\ UNCHANGED <<apiVars, hostVars>>

\* createAndStartContainer returns an error: a retry makes the job Failed, a
\* first start is tried again.
StartingFails ==
  IF pc \in {"retryCreate", "retryStart"}
    THEN /\ work' = InPhase(work, "Failed")
         /\ Goto("report") /\ UNCHANGED <<fresh, id>>
    ELSE Return(TRUE)

\* Image pull and ContainerCreate; a name that is taken is an error.
CreateContainer(o) ==
  /\ pc \in {"create", "retryCreate"}
  /\ Pay(o)
  /\ IF ctr = None /\ o # "fail"
       THEN ctr' = [id |-> lastId + 1, state |-> "created", code |-> 0] /\ lastId' = lastId + 1
       ELSE UNCHANGED <<ctr, lastId>>
  /\ IF ctr = None /\ o = "ok"
       THEN /\ id' = lastId + 1
            /\ Goto(IF pc = "create" THEN "start" ELSE "retryStart")
            /\ UNCHANGED <<work, fresh>>
       ELSE StartingFails
  /\ UNCHANGED <<apiVars, starts, succeeded>>

\* ContainerStart, and the status both callers set afterwards.
StartContainer(o) ==
  /\ pc \in {"start", "retryStart"}
  /\ Pay(o)
  /\ IF Reached /\ o # "fail"
       THEN ctr' = Run(ctr) /\ starts' = starts + 1
       ELSE UNCHANGED <<ctr, starts>>
  /\ IF Reached /\ o = "ok"
       THEN /\ work' = IF pc = "start" THEN Started(work) ELSE Retried(work)
            /\ Goto("report") /\ UNCHANGED <<fresh, id>>
       ELSE StartingFails
  /\ UNCHANGED <<apiVars, lastId, succeeded>>

\* ContainerStop after the deadline; its error is ignored.
Stop ==
  /\ pc = "stop"
  /\ ctr' \in {ctr} \cup
       (IF Reached /\ ctr.state = "running" THEN {Exit(ctr, 1)} ELSE {})
  /\ Goto("kill")
  /\ UNCHANGED <<apiVars, lastId, starts, succeeded, work, fresh, id, budgetVars>>

\* Mutant: without Force the daemon refuses to remove what still runs.
RemoveByIdUnforced(o) ==
  /\ pc \in {"kill", "retryRemove"}
  /\ Pay(o)
  /\ ctr' = IF Reached /\ o # "fail" /\ ctr.state # "running" THEN None ELSE ctr
  /\ IF pc = "kill"
       THEN work' = Ended(work, "Failed") /\ Goto("finish")
       ELSE UNCHANGED work /\ Goto("retryCreate")
  /\ UNCHANGED <<apiVars, lastId, starts, succeeded, fresh, id>>

\* ContainerRemove by ID, with its error ignored: of an overdue container,
\* whose job has then failed, and of one that is to be retried.
RemoveById(o) ==
  /\ pc \in {"kill", "retryRemove"}
  /\ Pay(o)
  /\ ctr' = IF Reached /\ o # "fail" THEN None ELSE ctr
  /\ IF pc = "kill"
       THEN work' = Ended(work, "Failed") /\ Goto("finish")
       ELSE UNCHANGED work /\ Goto("retryCreate")
  /\ UNCHANGED <<apiVars, lastId, starts, succeeded, fresh, id>>

\* Mutant: a stored status is not followed by another look.
ReportOnce(o) ==
  /\ pc = "report"
  /\ Update(o, work)
  /\ Return(Refused(o))
  /\ UNCHANGED hostVars

\* A status write followed by a requeue; its error is ignored.
Report(o) ==
  /\ pc = "report"
  /\ Update(o, work)
  /\ Return(TRUE)
  /\ UNCHANGED hostVars

\* A terminal status write followed by the clean-up; its error is ignored.
Finish(o) ==
  /\ pc = "finish"
  /\ Update(o, work)
  /\ Goto("ttl")
  /\ UNCHANGED <<hostVars, work, fresh, id>>

\* Mutant: the clean-up is not asked for again before the TTL has passed.
TtlCleanupOnce(o) ==
  /\ pc = "ttl"
  /\ LET due == TTL # None /\ work.completion # None /\ work.completion >= TTL
     IN  /\ ~due => o = "ok"
         /\ Pay(o)
         /\ ctr' = IF due /\ o # "fail" THEN None ELSE ctr
         /\ Return(due /\ o # "ok")
  /\ UNCHANGED <<apiVars, lastId, starts, succeeded>>

\* handleTTLCleanup, by the times the pass has in memory.
TtlCleanup(o) ==
  /\ pc = "ttl"
  /\ LET set == TTL # None /\ work.completion # None
         due == set /\ work.completion >= TTL
     IN  /\ ~due => o = "ok"
         /\ Pay(o)
         /\ ctr' = IF due /\ o # "fail" THEN None ELSE ctr
         /\ Return((set /\ ~due) \/ o # "ok")
  /\ UNCHANGED <<apiVars, lastId, starts, succeeded>>

Reconcile ==
  \/ Get \/ NoClient \/ Inspect \/ InspectFails \/ Stop
  \/ \E o \in Outcomes :
       \/ AddFinalizer(o) \/ DeleteContainer(o) \/ RemoveFinalizer(o)
       \/ CreateContainer(o) \/ StartContainer(o) \/ RemoveById(o)
       \/ Report(o) \/ Finish(o) \/ TtlCleanup(o)

-----------------------------------------------------------------------------
(* The container, the informer, the users, the clock and the process.      *)

\* The container's process ends.  Under OnFailure the daemon starts a failed
\* one again by itself.
ContainerExits(code) ==
  /\ ctr # None /\ ctr.state = "running"
  /\ IF code # 0 /\ RestartPolicy = "OnFailure"
       THEN starts < MaxRestarts /\ starts' = starts + 1 /\ UNCHANGED ctr
       ELSE ctr' = Exit(ctr, code) /\ UNCHANGED starts
  /\ succeeded' = (succeeded \/ code = 0)
  /\ UNCHANGED <<apiVars, lastId, passVars, budgetVars>>

\* Somebody removes the container by hand.
OutsideRemove ==
  /\ ctr # None /\ outside < MaxOutside
  /\ ctr' = None /\ outside' = outside + 1
  /\ UNCHANGED <<apiVars, lastId, starts, succeeded, passVars, faults, edits, crashes, stale>>

CacheSync ==
  /\ ~cacheFresh
  /\ cached' = job /\ cacheFresh' = TRUE /\ queued' = TRUE
  /\ UNCHANGED <<job, hostVars, pc, work, fresh, id, budgetVars>>

\* A request that an earlier pass delayed comes due, or the informer resyncs;
\* nothing cancels the one when a later pass overtakes it.
Requeue ==
  /\ cached # None /\ ~queued
  /\ queued' = TRUE
  /\ UNCHANGED <<apiVars, hostVars, pc, work, fresh, id, budgetVars>>

UserWrite(new) ==
  /\ edits < MaxEdits
  /\ edits' = edits + 1
  /\ job' = new /\ cacheFresh' = FALSE /\ fresh' = FALSE
  /\ UNCHANGED <<cached, ctr, lastId, queued, pc, work, id, faults, outside, crashes, stale>>

CreateJob ==
  /\ job = None
  /\ UserWrite(NewJob)
  /\ starts' = 0 /\ succeeded' = FALSE

\* A label, an annotation: a new version of the same job.
Touch == job # None /\ UserWrite(job) /\ UNCHANGED <<starts, succeeded>>

DeleteJob ==
  /\ job # None /\ ~job.deleting
  /\ UserWrite(IF job.finalizer THEN [job EXCEPT !.deleting = TRUE] ELSE None)
  /\ UNCHANGED <<starts, succeeded>>

Older(t) == IF t = None \/ t >= MaxAge THEN t ELSE t + 1
Aged(j) == IF j = None THEN None
           ELSE [j EXCEPT !.start = Older(@), !.completion = Older(@)]

Tick ==
  /\ job' = Aged(job) /\ cached' = Aged(cached) /\ work' = Aged(work)
  /\ UNCHANGED <<cacheFresh, hostVars, queued, pc, fresh, id, budgetVars>>

Crash ==
  /\ crashes < MaxCrashes
  /\ crashes' = crashes + 1
  /\ pc' = "idle" /\ work' = None /\ fresh' = FALSE /\ id' = 0
  /\ cached' = job /\ cacheFresh' = TRUE /\ queued' = (job # None)
  /\ UNCHANGED <<job, hostVars, faults, edits, outside, stale>>

Environment ==
  \/ OutsideRemove \/ CreateJob \/ Touch \/ DeleteJob \/ Crash
  \/ \E code \in {0, 1} : ContainerExits(code)

Next == Reconcile \/ CacheSync \/ Requeue \/ Tick \/ Environment

\* The worker takes its next call, the watch delivers and time passes; a
\* container need not end and nobody need touch the job.
Spec ==
  /\ Init /\ [][Next]_vars
  /\ WF_vars(Reconcile) /\ WF_vars(CacheSync) /\ WF_vars(Tick)

-----------------------------------------------------------------------------
(* Properties.                                                             *)

Ages == Nat \cup {None}

Jobs == [deleting : BOOLEAN, finalizer : BOOLEAN, phase : Phases, attempts : Nat,
         start : Ages, completion : Ages]

Containers == [id : Nat, state : {"created", "running", "exited"}, code : {0, 1}]

\* None stands for an object that is not there.
ASSUME NoJobAssumption == None \notin Jobs \cup Containers

FlagsOK ==
  /\ cacheFresh \in BOOLEAN /\ queued \in BOOLEAN
  /\ fresh \in BOOLEAN /\ succeeded \in BOOLEAN

DataOK ==
  /\ job \in Jobs \cup {None} /\ cached \in Jobs \cup {None} /\ work \in Jobs \cup {None}
  /\ ctr \in Containers \cup {None}
  /\ pc \in Calls \cup {"idle"}
  /\ lastId \in Nat /\ id \in Nat /\ starts \in Nat
  /\ faults \in Nat /\ edits \in Nat /\ outside \in Nat /\ crashes \in Nat
  /\ stale \in Nat
  /\ pc # "idle" => work \in Jobs

\* Every variable holds what the code's types allow, and a pass that is
\* between two calls has a job to work on.
TypeOK == FlagsOK /\ DataOK

TerminalStep ==
  (job # None /\ Terminal(job) /\ job' # None) => job'.phase = job.phase

\* A job that is Succeeded or Failed stays so until it is deleted, however old
\* the copy a later pass works on: its status writes carry a resourceVersion.
TerminalSticky == [][TerminalStep]_vars

\* A job that is gone has left no container, whatever failed on the way: the
\* finalizer goes only after ContainerRemove has succeeded.
NoContainerOutlivesJob == job = None => ctr = None

SucceedsOnceStep ==
  (TTL = None /\ Deadline = None /\ outside = 0 /\ succeeded /\ job' # None)
     => starts' <= starts

\* A job with neither TTL nor deadline never runs again once it has exited with
\* 0, whatever status write or answer was lost and whatever version a pass
\* reads: nobody removes the exited container, which is the record of it.
SucceedsOnce == [][SucceedsOnceStep]_vars

\* The container of a finished job does not run, whoever touched or deleted the
\* job meanwhile, as long as every pass read the stored version, no call failed
\* and neither a restart nor somebody on the host interfered.
FinishedIsStopped ==
  (/\ outside = 0 /\ faults = 0 /\ crashes = 0 /\ stale = 0
   /\ job # None /\ Terminal(job) /\ ctr # None)
     => ctr.state # "running"

Undisturbed == faults = 0 /\ crashes = 0 /\ outside = 0 /\ edits <= 1

\* A job ends when its deadline has passed even if its process never does,
\* whatever overtaken version a pass reads on the way, as long as no call is
\* lost and nobody interferes with it after its creation.
JobFinishes ==
  Deadline # None => ([]Undisturbed => <>[](job = None \/ Terminal(job)))

\* The container of a job that finished with a TTL is gone at last.
TtlCleansUp == TTL # None => <>[](job # None /\ Terminal(job) => ctr = None)
=============================================================================
