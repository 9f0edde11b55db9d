------------------------- MODULE DockerJobProofs -------------------------
(* What is proved of DockerJob for every backoff limit, deadline, TTL and     *)
(* restart policy, every budget of faults, edits, outside steps, crashes and  *)
(* stale reads, and every interleaving of them.                               *)
EXTENDS DockerJob, TLAPS

-----------------------------------------------------------------------------
(* The inductive invariant, by the idea each part is about.                *)

DeleteCalls == {"delete", "unfinalize"}
SyncCalls == {"inspect", "create", "start", "stop", "kill", "retryRemove",
              "retryCreate", "retryStart", "report", "finish", "ttl"}

\* No pass that reads j will make a container, unless it adds a finalizer first.
Dying(j) == j = None \/ j.deleting \/ ~j.finalizer

\* The pass does what was right for the copy of the job it read, and a fresh
\* copy is the stored version: before the pass has changed it in every field,
\* later in what the pass never changes.
FreshInv ==
  /\ cacheFresh => cached = job
  /\ pc \in SyncCalls => ~work.deleting /\ work.finalizer
  /\ pc = "addFinalizer" =>
       /\ ~work.deleting /\ ~work.finalizer
       /\ fresh => job = work /\ cached = job
  /\ pc \in SyncCalls /\ fresh => job # None /\ ~job.deleting

\* The cache and a running pass are never behind a job's life by more than the
\* worker allows: it puts the finalizer on and takes it off, as the cache shows.
LifeInv ==
  /\ pc \in SyncCalls => job # None /\ job.finalizer
  /\ ~Dying(cached) => job # None /\ job.finalizer
  /\ cached # None /\ cached.deleting => Dying(job)
  /\ pc \in DeleteCalls => Dying(job) /\ Dying(cached)

\* A container has a job with a finalizer, which goes after the container.
OrphanInv ==
  /\ ctr # None => job # None /\ job.finalizer
  /\ pc = "unfinalize" => ctr = None

\* A pass that can still write a phase did not find the job finished.
TerminalInv ==
  pc \in SyncCalls \ {"ttl"} /\ fresh => ~Terminal(job)

\* IDs are given out once, so what a pass learnt of a container it knows by
\* its ID stays true: one to be started was not, one to be retried failed.
IdsInv ==
  /\ id <= lastId
  /\ ctr # None => ctr.id <= lastId
  /\ pc \in {"start", "retryStart"} /\ Reached => ctr.state = "created"
  /\ pc = "retryRemove" /\ Reached => ctr.state = "exited" /\ ctr.code # 0
  /\ Deadline = None => pc \notin {"stop", "kill"}

\* The container that exited with 0 stays, as the record of it, until the job
\* is being deleted, and then no pass will make another.
RecordInv ==
  TTL = None /\ Deadline = None /\ outside = 0 /\ succeeded /\ job # None =>
    /\ job.finalizer
    /\ \/ ctr # None /\ ctr.state = "exited" /\ ctr.code = 0
       \/ ctr = None /\ job.deleting /\ Dying(cached) /\ pc \notin SyncCalls

\* Where every pass read the stored version, no call failed and nobody else
\* interfered, a pass that works on the container has an unfinished job, knows
\* which container there is, and is done with it before the job is finished.
Calm == outside = 0 /\ faults = 0 /\ crashes = 0 /\ stale = 0

StoppedInv ==
  Calm =>
    /\ pc \in SyncCalls \ {"ttl"} => ~Terminal(job)
    /\ pc \in {"create", "retryCreate"} => ctr = None
    /\ pc \in {"start", "retryStart", "stop", "kill", "retryRemove"} => Reached
    /\ pc = "report" => ~Terminal(work)
    /\ pc = "finish" /\ ctr # None => ctr.state = "exited"
    /\ job # None /\ Terminal(job) /\ ctr # None => ctr.state # "running"

IInv == /\ TypeOK /\ FreshInv /\ LifeInv /\ OrphanInv /\ TerminalInv /\ IdsInv
        /\ RecordInv /\ StoppedInv

-----------------------------------------------------------------------------
(* Records.                                                                *)

\* Adding the finalizer and deleting give jobs.
LEMMA JobFields ==
  ASSUME NEW j \in Jobs
  PROVE  /\ j.deleting \in BOOLEAN /\ j.finalizer \in BOOLEAN /\ j.phase \in Phases
         /\ [j EXCEPT !.finalizer = TRUE] \in Jobs
         /\ [j EXCEPT !.deleting = TRUE] \in Jobs
  BY DEF Jobs

\* Each of the two writes one field.
LEMMA FinalizerField ==
  ASSUME NEW j \in Jobs
  PROVE  LET k == [j EXCEPT !.finalizer = TRUE]
         IN  /\ k # None /\ k.deleting = j.deleting /\ k.finalizer = TRUE
             /\ k.phase = j.phase
<1>1. [j EXCEPT !.finalizer = TRUE] # None
  BY JobFields, NoJobAssumption
<1> QED BY <1>1 DEF Jobs

SameMeta(k, j) == k.deleting = j.deleting /\ k.finalizer = j.finalizer

\* A status is written into a job and leaves its metadata alone.
LEMMA StatusFields ==
  ASSUME NEW j \in Jobs
  PROVE  /\ \A p \in Phases : InPhase(j, p) \in Jobs /\ SameMeta(InPhase(j, p), j)
         /\ \A p \in Phases : Ended(j, p) \in Jobs /\ SameMeta(Ended(j, p), j)
         /\ Started(j) \in Jobs /\ SameMeta(Started(j), j)
         /\ Retried(j) \in Jobs /\ SameMeta(Retried(j), j)
<1> USE DEF SameMeta
<1>1. ASSUME NEW p \in Phases
      PROVE  InPhase(j, p) \in Jobs /\ SameMeta(InPhase(j, p), j)
  BY DEF InPhase, Jobs
<1>2. ASSUME NEW p \in Phases
      PROVE  Ended(j, p) \in Jobs /\ SameMeta(Ended(j, p), j)
  BY DEF Ended, Jobs, Ages
<1>3. Started(j) \in Jobs /\ SameMeta(Started(j), j)
  <2>1. j.attempts + 1 \in Nat
    BY DEF Jobs
  <2>2. ASSUME NEW n \in Nat
        PROVE  LET k == [j EXCEPT !.phase = "Running", !.attempts = n, !.start = 0]
               IN  k \in Jobs /\ SameMeta(k, j)
    BY DEF Jobs, Ages, Phases
  <2> QED BY <2>1, <2>2 DEF Started
<1>4. Retried(j) \in Jobs /\ SameMeta(Retried(j), j)
  <2>1. j.attempts + 1 \in Nat
    BY DEF Jobs
  <2>2. ASSUME NEW n \in Nat
        PROVE  LET k == [j EXCEPT !.phase = "Running", !.attempts = n, !.completion = None]
               IN  k \in Jobs /\ SameMeta(k, j)
    BY DEF Jobs, Ages, Phases
  <2> QED BY <2>1, <2>2 DEF Retried
<1> QED BY <1>1, <1>2, <1>3, <1>4

\* The job a user creates.
LEMMA NewJobs == NewJob \in Jobs
  BY DEF NewJob, Jobs, Ages, Phases

\* Time changes nothing of a job but its ages.
LEMMA AgedJob ==
  ASSUME NEW j \in Jobs
  PROVE  /\ Aged(j) \in Jobs
         /\ Aged(j).deleting = j.deleting /\ Aged(j).finalizer = j.finalizer
         /\ Aged(j).phase = j.phase
<1>1. j # None
  BY NoJobAssumption
<1>2. Older(j.start) \in Ages /\ Older(j.completion) \in Ages
  BY JobAssumption DEF Older, Jobs, Ages
<1> QED BY <1>1, <1>2 DEF Aged, Jobs

\* A job that is not there does not age, and one that is stays there.
LEMMA AgedNone ==
  ASSUME NEW j \in Jobs \cup {None}
  PROVE  /\ Aged(j) \in Jobs \cup {None}
         /\ Aged(j) = None <=> j = None
<1>1. CASE j = None
  BY <1>1 DEF Aged
<1>2. CASE j \in Jobs
  BY <1>2, AgedJob, NoJobAssumption
<1> QED BY <1>1, <1>2

\* What the daemon does to a container leaves a container.
LEMMA ContainerFields ==
  ASSUME NEW c \in Containers
  PROVE  /\ c # None
         /\ c.id \in Nat /\ c.state \in {"created", "running", "exited"} /\ c.code \in {0, 1}
         /\ Run(c) \in Containers /\ Run(c).id = c.id /\ Run(c).state = "running"
         /\ \A n \in {0, 1} :
              LET d == Exit(c, n)
              IN  d \in Containers /\ d.id = c.id /\ d.state = "exited" /\ d.code = n
  BY NoJobAssumption DEF Containers, Run, Exit

-----------------------------------------------------------------------------
(* Type correctness.                                                       *)

\* Every step leaves the records well formed.
LEMMA DataNext == DataOK /\ [Next]_vars => DataOK'
<1> SUFFICES ASSUME DataOK, [Next]_vars PROVE DataOK'
  OBVIOUS
<1> USE DEF vars, apiVars, hostVars, passVars, budgetVars, Pay, Return, Goto, Calls
<1>1. CASE Get
  <2>1. pc' = Entry(cached) /\ work' = cached
    BY <1>1 DEF Get
  <2>2. pc' \in Calls \cup {"idle"}
    BY <2>1 DEF Entry, Dispatch
  <2>3. pc' # "idle" => work' \in Jobs
    BY <2>1 DEF Entry, DataOK
  <2> QED BY <1>1, <2>2, <2>3 DEF Get, DataOK
<1>2. CASE NoClient
  BY <1>2 DEF NoClient, DataOK
<1>3. CASE Inspect
  <2> work \in Jobs
    BY <1>3 DEF Inspect, DataOK
  <2>1. work' \in Jobs
    <3>1. work.phase \in Phases
      BY JobFields
    <3>2. \A p \in Phases : InPhase(work, p) \in Jobs /\ Ended(work, p) \in Jobs
      BY StatusFields
    <3> QED BY <1>3, <3>1, <3>2 DEF Inspect, Found, Phases
  <2>2. pc' \in Calls \cup {"idle"}
    BY <1>3 DEF Inspect, Found
  <2>3. id' \in Nat
    BY <1>3, ContainerFields DEF Inspect, Found, DataOK
  <2> QED BY <1>3, <2>1, <2>2, <2>3 DEF Inspect, DataOK
<1>4. CASE InspectFails
  BY <1>4 DEF InspectFails, DataOK
<1>5. CASE Stop
  <2>1. ctr' \in Containers \cup {None}
    BY <1>5, ContainerFields DEF Stop, Reached, DataOK
  <2> QED BY <1>5, <2>1 DEF Stop, DataOK
<1>6. ASSUME NEW o \in Outcomes, AddFinalizer(o) PROVE DataOK'
  <2>1. [work EXCEPT !.finalizer = TRUE] \in Jobs
    BY <1>6, JobFields DEF AddFinalizer, DataOK
  <2>2. job' \in Jobs \cup {None}
    BY <1>6, <2>1 DEF AddFinalizer, Update, DataOK
  <2>3. work' \in Jobs
    BY <1>6, <2>1 DEF AddFinalizer, DataOK
  <2>4. pc' \in Calls \cup {"idle"}
    BY <1>6 DEF AddFinalizer, Dispatch
  <2>5. faults' \in Nat /\ UNCHANGED <<cached, hostVars, id, edits, outside, crashes, stale>>
    BY <1>6 DEF AddFinalizer, Update, DataOK
  <2> QED BY <2>2, <2>3, <2>4, <2>5 DEF DataOK
<1>7. ASSUME NEW o \in Outcomes, DeleteContainer(o) PROVE DataOK'
  BY <1>7 DEF DeleteContainer, DataOK
<1>8. ASSUME NEW o \in Outcomes, RemoveFinalizer(o) PROVE DataOK'
  BY <1>8 DEF RemoveFinalizer, Update, Refused, DataOK
<1>9. ASSUME NEW o \in Outcomes, CreateContainer(o) PROVE DataOK'
  <2>1. InPhase(work, "Failed") \in Jobs
    BY <1>9, StatusFields DEF CreateContainer, StartingFails, DataOK, Phases
  <2>2. [id |-> lastId + 1, state |-> "created", code |-> 0] \in Containers
    BY DEF Containers, DataOK
  <2>3. ctr' \in Containers \cup {None} /\ lastId' \in Nat
    BY <1>9, <2>2 DEF CreateContainer, DataOK
  <2>4. work' \in Jobs /\ pc' \in Calls \cup {"idle"} /\ id' \in Nat
    BY <1>9, <2>1 DEF CreateContainer, StartingFails, DataOK
  <2>5. faults' \in Nat /\ UNCHANGED <<apiVars, starts, edits, outside, crashes, stale>>
    BY <1>9 DEF CreateContainer, DataOK
  <2> QED BY <2>3, <2>4, <2>5 DEF DataOK
<1>10. ASSUME NEW o \in Outcomes, StartContainer(o) PROVE DataOK'
  <2>1. InPhase(work, "Failed") \in Jobs
    BY <1>10, StatusFields DEF StartContainer, StartingFails, DataOK, Phases
  <2>2. ctr' \in Containers \cup {None} /\ starts' \in Nat
    BY <1>10, ContainerFields DEF StartContainer, Reached, DataOK
  <2>3. work' \in Jobs
    BY <1>10, <2>1, StatusFields DEF StartContainer, StartingFails, DataOK
  <2>4. pc' \in Calls \cup {"idle"} /\ id' \in Nat
    BY <1>10 DEF StartContainer, StartingFails, DataOK
  <2>5. faults' \in Nat /\ UNCHANGED <<apiVars, lastId, edits, outside, crashes, stale>>
    BY <1>10 DEF StartContainer, DataOK
  <2> QED BY <2>2, <2>3, <2>4, <2>5 DEF DataOK
<1>11. ASSUME NEW o \in Outcomes, RemoveById(o) PROVE DataOK'
  <2>1. work' \in Jobs
    BY <1>11, StatusFields DEF RemoveById, DataOK, Phases
  <2> QED BY <1>11, <2>1 DEF RemoveById, DataOK
<1>12. ASSUME NEW o \in Outcomes, Report(o) PROVE DataOK'
  BY <1>12 DEF Report, Update, DataOK
<1>13. ASSUME NEW o \in Outcomes, Finish(o) PROVE DataOK'
  BY <1>13 DEF Finish, Update, DataOK
<1>14. ASSUME NEW o \in Outcomes, TtlCleanup(o) PROVE DataOK'
  BY <1>14 DEF TtlCleanup, DataOK
<1>15. CASE CacheSync
  BY <1>15 DEF CacheSync, DataOK
<1>16. CASE Requeue
  BY <1>16 DEF Requeue, DataOK
<1>17. CASE Tick
  <2>1. Aged(job) \in Jobs \cup {None} /\ Aged(cached) \in Jobs \cup {None}
    BY AgedNone DEF DataOK
  <2>2. Aged(work) \in Jobs \cup {None} /\ (work \in Jobs => Aged(work) \in Jobs)
    BY AgedNone, AgedJob DEF DataOK
  <2> QED BY <1>17, <2>1, <2>2 DEF Tick, DataOK
<1>18. CASE OutsideRemove
  BY <1>18 DEF OutsideRemove, DataOK
<1>19. CASE CreateJob
  BY <1>19, NewJobs DEF CreateJob, UserWrite, DataOK
<1>20. CASE Touch
  BY <1>20 DEF Touch, UserWrite, DataOK
<1>21. CASE DeleteJob
  <2>1. job' \in Jobs \cup {None}
    BY <1>21, JobFields DEF DeleteJob, UserWrite, DataOK
  <2> QED BY <1>21, <2>1 DEF DeleteJob, UserWrite, DataOK
<1>22. CASE Crash
  BY <1>22 DEF Crash, DataOK
<1>23. ASSUME NEW code \in {0, 1}, ContainerExits(code) PROVE DataOK'
  <2>1. ctr' \in Containers \cup {None}
    BY <1>23, ContainerFields DEF ContainerExits, DataOK
  <2> QED BY <1>23, <2>1 DEF ContainerExits, DataOK
<1>24. CASE UNCHANGED vars
  BY <1>24 DEF DataOK
<1> QED
  BY <1>1, <1>2, <1>3, <1>4, <1>5, <1>6, <1>7, <1>8, <1>9, <1>10, <1>11,
     <1>12, <1>13, <1>14, <1>15, <1>16, <1>17, <1>18, <1>19, <1>20, <1>21,
     <1>22, <1>23, <1>24
  DEF Next, Reconcile, Environment

\* Every step leaves the flags Boolean.
LEMMA FlagsNext == FlagsOK /\ [Next]_vars => FlagsOK'
<1> SUFFICES ASSUME FlagsOK, [Next]_vars PROVE FlagsOK'
  OBVIOUS
<1> USE DEF vars, apiVars, hostVars, passVars, budgetVars, Pay, Return, Goto,
           FlagsOK
<1>1. CASE Get
  BY <1>1 DEF Get
<1>2. CASE NoClient
  BY <1>2 DEF NoClient
<1>3. CASE Inspect
  BY <1>3 DEF Inspect, Found
<1>4. CASE InspectFails
  BY <1>4 DEF InspectFails
<1>5. CASE Stop
  BY <1>5 DEF Stop
<1>6. ASSUME NEW o \in Outcomes, AddFinalizer(o) PROVE FlagsOK'
  BY <1>6 DEF AddFinalizer, Update, Refused
<1>7. ASSUME NEW o \in Outcomes, DeleteContainer(o) PROVE FlagsOK'
  BY <1>7 DEF DeleteContainer
<1>8. ASSUME NEW o \in Outcomes, RemoveFinalizer(o) PROVE FlagsOK'
  BY <1>8 DEF RemoveFinalizer, Update, Refused
<1>9. ASSUME NEW o \in Outcomes, CreateContainer(o) PROVE FlagsOK'
  BY <1>9 DEF CreateContainer, StartingFails
<1>10. ASSUME NEW o \in Outcomes, StartContainer(o) PROVE FlagsOK'
  BY <1>10 DEF StartContainer, StartingFails
<1>11. ASSUME NEW o \in Outcomes, RemoveById(o) PROVE FlagsOK'
  BY <1>11 DEF RemoveById
<1>12. ASSUME NEW o \in Outcomes, Report(o) PROVE FlagsOK'
  BY <1>12 DEF Report, Update
<1>13. ASSUME NEW o \in Outcomes, Finish(o) PROVE FlagsOK'
  BY <1>13 DEF Finish, Update
<1>14. ASSUME NEW o \in Outcomes, TtlCleanup(o) PROVE FlagsOK'
  BY <1>14 DEF TtlCleanup
<1>15. CASE CacheSync
  BY <1>15 DEF CacheSync
<1>16. CASE Requeue
  BY <1>16 DEF Requeue
<1>17. CASE Tick
  BY <1>17 DEF Tick
<1>18. CASE OutsideRemove
  BY <1>18 DEF OutsideRemove
<1>19. CASE CreateJob
  BY <1>19 DEF CreateJob, UserWrite
<1>20. CASE Touch
  BY <1>20 DEF Touch, UserWrite
<1>21. CASE DeleteJob
  BY <1>21 DEF DeleteJob, UserWrite
<1>22. CASE Crash
  BY <1>22 DEF Crash
<1>23. ASSUME NEW code \in {0, 1}, ContainerExits(code) PROVE FlagsOK'
  BY <1>23 DEF ContainerExits
<1>24. CASE UNCHANGED vars
  BY <1>24
<1> QED
  BY <1>1, <1>2, <1>3, <1>4, <1>5, <1>6, <1>7, <1>8, <1>9, <1>10, <1>11,
     <1>12, <1>13, <1>14, <1>15, <1>16, <1>17, <1>18, <1>19, <1>20, <1>21,
     <1>22, <1>23, <1>24
  DEF Next, Reconcile, Environment

-----------------------------------------------------------------------------
(* The other parts, each with what it needs of the ones before.            *)

\* Every write by others makes the copies stale; only CacheSync, Get and the
\* pass's own writes renew them.
LEMMA FreshNext == TypeOK /\ FreshInv /\ [Next]_vars => FreshInv'
<1> SUFFICES ASSUME TypeOK, FreshInv, [Next]_vars PROVE FreshInv'
  OBVIOUS
<1> USE DEF vars, apiVars, hostVars, passVars, budgetVars, Pay, Return, Goto,
           TypeOK, DataOK, SyncCalls, DeleteCalls
<1>1. CASE Get
  <2>1. pc' = Entry(cached) /\ work' = cached /\ fresh' = cacheFresh /\ UNCHANGED apiVars
    BY <1>1 DEF Get
  <2>2. pc' = "addFinalizer" => cached # None /\ ~cached.deleting /\ ~cached.finalizer
    BY <2>1 DEF Entry, Dispatch
  <2>3. pc' \in SyncCalls => cached # None /\ ~cached.deleting /\ cached.finalizer
    BY <2>1 DEF Entry, Dispatch
  <2> QED BY <2>1, <2>2, <2>3 DEF FreshInv
<1>2. CASE NoClient
  BY <1>2 DEF NoClient, FreshInv
<1>3. CASE Inspect
  <2>0. work \in Jobs /\ work.phase \in Phases
    BY <1>3, JobFields DEF Inspect, Found
  <2>1. /\ \A p \in Phases : SameMeta(InPhase(work, p), work) /\ SameMeta(Ended(work, p), work)
        /\ SameMeta(Started(work), work) /\ SameMeta(Retried(work), work)
    BY <2>0, StatusFields
  <2>2. SameMeta(work', work)
    <3>1. SameMeta(work, work)
      BY DEF SameMeta
    <3> QED BY <1>3, <2>0, <2>1, <3>1 DEF Inspect, Found, Phases
  <2> QED BY <1>3, <2>2 DEF Inspect, Found, FreshInv, SameMeta
<1>4. CASE InspectFails
  BY <1>4 DEF InspectFails, FreshInv
<1>5. CASE Stop
  BY <1>5 DEF Stop, FreshInv
<1>6. ASSUME NEW o \in Outcomes, AddFinalizer(o) PROVE FreshInv'
  <2> DEFINE new == [work EXCEPT !.finalizer = TRUE]
  <2>0. work \in Jobs
    BY <1>6 DEF AddFinalizer
  <2>1. new \in Jobs /\ new # None /\ new.deleting = work.deleting /\ new.finalizer
    BY <2>0, JobFields, FinalizerField
  <2>2. pc' = "idle" \/ (work' = new /\ fresh /\ job' = new /\ pc' \in SyncCalls)
    BY <1>6 DEF AddFinalizer, Update, Refused, Dispatch
  <2>3. cacheFresh' => cached' = job'
    BY <1>6 DEF AddFinalizer, Update, FreshInv
  <2>4. ~work.deleting
    BY <1>6 DEF AddFinalizer, FreshInv
  <2> QED BY <2>1, <2>2, <2>3, <2>4 DEF FreshInv
<1>7. ASSUME NEW o \in Outcomes, DeleteContainer(o) PROVE FreshInv'
  BY <1>7 DEF DeleteContainer, FreshInv
<1>8. ASSUME NEW o \in Outcomes, RemoveFinalizer(o) PROVE FreshInv'
  BY <1>8 DEF RemoveFinalizer, Update, Refused, FreshInv
<1>9. ASSUME NEW o \in Outcomes, CreateContainer(o) PROVE FreshInv'
  <2>0. work \in Jobs /\ work.phase \in Phases
    BY <1>9, JobFields DEF CreateContainer, StartingFails
  <2>1. /\ \A p \in Phases : SameMeta(InPhase(work, p), work) /\ SameMeta(Ended(work, p), work)
        /\ SameMeta(Started(work), work) /\ SameMeta(Retried(work), work)
    BY <2>0, StatusFields
  <2>2. SameMeta(work', work)
    <3>1. SameMeta(work, work)
      BY DEF SameMeta
    <3> QED BY <1>9, <2>0, <2>1, <3>1 DEF CreateContainer, StartingFails, Phases
  <2> QED BY <1>9, <2>2 DEF CreateContainer, StartingFails, FreshInv, SameMeta
<1>10. ASSUME NEW o \in Outcomes, StartContainer(o) PROVE FreshInv'
  <2>0. work \in Jobs /\ work.phase \in Phases
    BY <1>10, JobFields DEF StartContainer, StartingFails
  <2>1. /\ \A p \in Phases : SameMeta(InPhase(work, p), work) /\ SameMeta(Ended(work, p), work)
        /\ SameMeta(Started(work), work) /\ SameMeta(Retried(work), work)
    BY <2>0, StatusFields
  <2>2. SameMeta(work', work)
    <3>1. SameMeta(work, work)
      BY DEF SameMeta
    <3> QED BY <1>10, <2>0, <2>1, <3>1 DEF StartContainer, StartingFails, Phases
  <2> QED BY <1>10, <2>2 DEF StartContainer, StartingFails, FreshInv, SameMeta
<1>11. ASSUME NEW o \in Outcomes, RemoveById(o) PROVE FreshInv'
  <2>0. work \in Jobs /\ work.phase \in Phases
    BY <1>11, JobFields DEF RemoveById
  <2>1. /\ \A p \in Phases : SameMeta(InPhase(work, p), work) /\ SameMeta(Ended(work, p), work)
        /\ SameMeta(Started(work), work) /\ SameMeta(Retried(work), work)
    BY <2>0, StatusFields
  <2>2. SameMeta(work', work)
    <3>1. SameMeta(work, work)
      BY DEF SameMeta
    <3> QED BY <1>11, <2>0, <2>1, <3>1 DEF RemoveById, Phases
  <2> QED BY <1>11, <2>2 DEF RemoveById, FreshInv, SameMeta
<1>12. ASSUME NEW o \in Outcomes, Report(o) PROVE FreshInv'
  <2>0. work \in Jobs
    BY <1>12 DEF Report, Update
  <2>1. work # None
    BY <2>0, NoJobAssumption
  <2> QED BY <1>12, <2>1 DEF Report, Update, FreshInv
<1>13. ASSUME NEW o \in Outcomes, Finish(o) PROVE FreshInv'
  <2>0. work \in Jobs
    BY <1>13 DEF Finish, Update
  <2>1. work # None
    BY <2>0, NoJobAssumption
  <2> QED BY <1>13, <2>1 DEF Finish, Update, FreshInv
<1>14. ASSUME NEW o \in Outcomes, TtlCleanup(o) PROVE FreshInv'
  BY <1>14 DEF TtlCleanup, FreshInv
<1>15. CASE CacheSync
  BY <1>15 DEF CacheSync, FreshInv
<1>16. CASE Requeue
  BY <1>16 DEF Requeue, FreshInv
<1>17. CASE Tick
  <2>1. job # None => /\ Aged(job).deleting = job.deleting /\ Aged(job).finalizer = job.finalizer
                      /\ Aged(job) # None
    BY AgedJob, AgedNone
  <2>2. pc # "idle" => /\ Aged(work).deleting = work.deleting
                       /\ Aged(work).finalizer = work.finalizer
    BY AgedJob
  <2>3. cacheFresh' = cacheFresh /\ pc' = pc /\ fresh' = fresh
        /\ job' = Aged(job) /\ cached' = Aged(cached) /\ work' = Aged(work)
    BY <1>17 DEF Tick
  <2> QED BY <2>1, <2>2, <2>3 DEF FreshInv
<1>18. CASE OutsideRemove
  BY <1>18 DEF OutsideRemove, FreshInv
<1>19. CASE CreateJob
  BY <1>19 DEF CreateJob, UserWrite, FreshInv
<1>20. CASE Touch
  BY <1>20 DEF Touch, UserWrite, FreshInv
<1>21. CASE DeleteJob
  BY <1>21 DEF DeleteJob, UserWrite, FreshInv
<1>22. CASE Crash
  BY <1>22 DEF Crash, FreshInv
<1>23. ASSUME NEW code \in {0, 1}, ContainerExits(code) PROVE FreshInv'
  BY <1>23 DEF ContainerExits, FreshInv
<1>24. CASE UNCHANGED vars
  BY <1>24 DEF FreshInv
<1> QED
  BY <1>1, <1>2, <1>3, <1>4, <1>5, <1>6, <1>7, <1>8, <1>9, <1>10, <1>11,
     <1>12, <1>13, <1>14, <1>15, <1>16, <1>17, <1>18, <1>19, <1>20, <1>21,
     <1>22, <1>23, <1>24
  DEF Next, Reconcile, Environment

\* The finalizer is put on and taken off by the one worker, as the cache shows.
LEMMA LifeNext == TypeOK /\ FreshInv /\ LifeInv /\ [Next]_vars => LifeInv'
<1> SUFFICES ASSUME TypeOK, FreshInv, LifeInv, [Next]_vars PROVE LifeInv'
  OBVIOUS
<1> USE DEF vars, apiVars, hostVars, passVars, budgetVars, Pay, Return, Goto,
           TypeOK, DataOK, SyncCalls, DeleteCalls
<1>1. CASE Get
  <2>1. pc' = Entry(cached) /\ UNCHANGED apiVars
    BY <1>1 DEF Get
  <2>2. pc' \in SyncCalls => ~Dying(cached)
    BY <2>1 DEF Entry, Dispatch, Dying
  <2>3. pc' \in DeleteCalls => cached # None /\ cached.deleting
    BY <2>1 DEF Entry, Dispatch
  <2> QED BY <2>1, <2>2, <2>3 DEF LifeInv, Dying
<1>2. CASE NoClient
  BY <1>2 DEF NoClient, LifeInv
<1>3. CASE Inspect
  BY <1>3 DEF Inspect, Found, LifeInv
<1>4. CASE InspectFails
  BY <1>4 DEF InspectFails, LifeInv
<1>5. CASE Stop
  BY <1>5 DEF Stop, LifeInv
<1>6. ASSUME NEW o \in Outcomes, AddFinalizer(o) PROVE LifeInv'
  <2> DEFINE new == [work EXCEPT !.finalizer = TRUE]
  <2>0. work \in Jobs /\ ~work.deleting
    BY <1>6 DEF AddFinalizer, FreshInv
  <2>1. new \in Jobs /\ new # None /\ ~new.deleting /\ new.finalizer
    BY <2>0, JobFields, FinalizerField
  <2>2. UNCHANGED cached /\ pc' \notin DeleteCalls
    BY <1>6 DEF AddFinalizer, Update, Dispatch
  <2>3. CASE fresh /\ job' = new
    <3>1. cached = work
      BY <1>6, <2>3 DEF AddFinalizer, FreshInv
    <3> QED BY <2>0, <2>1, <2>2, <2>3, <3>1 DEF LifeInv, Dying
  <2>4. CASE pc' = "idle" /\ UNCHANGED job
    BY <2>2, <2>4 DEF LifeInv
  <2> QED BY <1>6, <2>3, <2>4 DEF AddFinalizer, Update, Refused
<1>7. ASSUME NEW o \in Outcomes, DeleteContainer(o) PROVE LifeInv'
  BY <1>7 DEF DeleteContainer, LifeInv
<1>8. ASSUME NEW o \in Outcomes, RemoveFinalizer(o) PROVE LifeInv'
  <2>1. pc' = "idle" /\ UNCHANGED cached /\ (job' = job \/ job' = None) /\ Dying(cached)
    BY <1>8 DEF RemoveFinalizer, Update, Refused, LifeInv
  <2> QED BY <2>1 DEF LifeInv, Dying
<1>9. ASSUME NEW o \in Outcomes, CreateContainer(o) PROVE LifeInv'
  BY <1>9 DEF CreateContainer, StartingFails, LifeInv
<1>10. ASSUME NEW o \in Outcomes, StartContainer(o) PROVE LifeInv'
  BY <1>10 DEF StartContainer, StartingFails, LifeInv
<1>11. ASSUME NEW o \in Outcomes, RemoveById(o) PROVE LifeInv'
  BY <1>11 DEF RemoveById, LifeInv
<1>12. ASSUME NEW o \in Outcomes, Report(o) PROVE LifeInv'
  <2>0. work \in Jobs /\ work # None /\ ~work.deleting /\ work.finalizer
    BY <1>12, NoJobAssumption DEF Report, Update, FreshInv
  <2>1. job' = job \/ (fresh /\ job' = work)
    BY <1>12 DEF Report, Update
  <2>2. fresh => job # None /\ ~job.deleting /\ job.finalizer
    BY <1>12 DEF Report, Update, FreshInv, LifeInv
  <2>3. pc' \notin DeleteCalls /\ UNCHANGED cached
    BY <1>12 DEF Report, Update
  <2> QED BY <2>0, <2>1, <2>2, <2>3, <1>12 DEF Report, Update, LifeInv, Dying
<1>13. ASSUME NEW o \in Outcomes, Finish(o) PROVE LifeInv'
  <2>0. work \in Jobs /\ work # None /\ ~work.deleting /\ work.finalizer
    BY <1>13, NoJobAssumption DEF Finish, Update, FreshInv
  <2>1. job' = job \/ (fresh /\ job' = work)
    BY <1>13 DEF Finish, Update
  <2>2. fresh => job # None /\ ~job.deleting /\ job.finalizer
    BY <1>13 DEF Finish, Update, FreshInv, LifeInv
  <2>3. pc' \notin DeleteCalls /\ UNCHANGED cached
    BY <1>13 DEF Finish, Update
  <2> QED BY <2>0, <2>1, <2>2, <2>3, <1>13 DEF Finish, Update, LifeInv, Dying
<1>14. ASSUME NEW o \in Outcomes, TtlCleanup(o) PROVE LifeInv'
  BY <1>14 DEF TtlCleanup, LifeInv
<1>15. CASE CacheSync
  <2>1. cached' = job /\ UNCHANGED <<job, pc>>
    BY <1>15 DEF CacheSync
  <2> QED BY <2>1 DEF LifeInv, Dying
<1>16. CASE Requeue
  BY <1>16 DEF Requeue, LifeInv
<1>17. CASE Tick
  <2>1. ASSUME NEW j \in Jobs \cup {None}
        PROVE  /\ (Aged(j) = None) = (j = None)
               /\ j # None => Aged(j).deleting = j.deleting /\ Aged(j).finalizer = j.finalizer
    BY AgedJob, AgedNone
  <2>2. job' = Aged(job) /\ cached' = Aged(cached) /\ UNCHANGED pc
    BY <1>17 DEF Tick
  <2>3. /\ (job' = None) = (job = None) /\ (cached' = None) = (cached = None)
        /\ job # None => job'.deleting = job.deleting /\ job'.finalizer = job.finalizer
        /\ cached # None => /\ cached'.deleting = cached.deleting
                            /\ cached'.finalizer = cached.finalizer
    BY <2>1, <2>2
  <2> QED BY <2>2, <2>3 DEF LifeInv, Dying
<1>18. CASE OutsideRemove
  BY <1>18 DEF OutsideRemove, LifeInv
<1>19. CASE CreateJob
  <2>1. job = None /\ job' = NewJob /\ UNCHANGED <<cached, pc>>
    BY <1>19 DEF CreateJob, UserWrite
  <2>2. NewJob # None /\ ~NewJob.finalizer
    BY NewJobs, NoJobAssumption DEF NewJob
  <2> QED BY <2>1, <2>2 DEF LifeInv, Dying
<1>20. CASE Touch
  BY <1>20 DEF Touch, UserWrite, LifeInv
<1>21. CASE DeleteJob
  <2>1. /\ job \in Jobs /\ ~job.deleting /\ UNCHANGED <<cached, pc>>
        /\ job' = IF job.finalizer THEN [job EXCEPT !.deleting = TRUE] ELSE None
    BY <1>21 DEF DeleteJob, UserWrite
  <2>2. job.finalizer => job' # None /\ job'.deleting /\ job'.finalizer
    BY <2>1, JobFields, NoJobAssumption DEF Jobs
  <2>3. ~job.finalizer => job' = None
    BY <2>1
  <2> QED BY <2>1, <2>2, <2>3 DEF LifeInv, Dying
<1>22. CASE Crash
  <2>1. cached' = job /\ pc' = "idle" /\ UNCHANGED job
    BY <1>22 DEF Crash
  <2> QED BY <2>1 DEF LifeInv, Dying
<1>23. ASSUME NEW code \in {0, 1}, ContainerExits(code) PROVE LifeInv'
  BY <1>23 DEF ContainerExits, LifeInv
<1>24. CASE UNCHANGED vars
  BY <1>24 DEF LifeInv
<1> QED
  BY <1>1, <1>2, <1>3, <1>4, <1>5, <1>6, <1>7, <1>8, <1>9, <1>10, <1>11,
     <1>12, <1>13, <1>14, <1>15, <1>16, <1>17, <1>18, <1>19, <1>20, <1>21,
     <1>22, <1>23, <1>24
  DEF Next, Reconcile, Environment

\* The container is gone before the finalizer is.
LEMMA OrphanNext == TypeOK /\ FreshInv /\ LifeInv /\ OrphanInv /\ [Next]_vars => OrphanInv'
<1> SUFFICES ASSUME TypeOK, FreshInv, LifeInv, OrphanInv, [Next]_vars PROVE OrphanInv'
  OBVIOUS
<1> USE DEF vars, apiVars, hostVars, passVars, budgetVars, Pay, Return, Goto,
           TypeOK, DataOK, SyncCalls, DeleteCalls
<1>1. CASE Get
  <2>1. pc' # "unfinalize" /\ UNCHANGED <<job, ctr>>
    BY <1>1 DEF Get, Entry, Dispatch
  <2> QED BY <2>1 DEF OrphanInv
<1>2. CASE NoClient
  BY <1>2 DEF NoClient, OrphanInv
<1>3. CASE Inspect
  BY <1>3 DEF Inspect, Found, OrphanInv
<1>4. CASE InspectFails
  BY <1>4 DEF InspectFails, OrphanInv
<1>5. CASE Stop
  BY <1>5 DEF Stop, OrphanInv, Reached
<1>6. ASSUME NEW o \in Outcomes, AddFinalizer(o) PROVE OrphanInv'
  <2> DEFINE new == [work EXCEPT !.finalizer = TRUE]
  <2>1. new # None /\ new.finalizer
    BY <1>6, FinalizerField DEF AddFinalizer
  <2>2. (job' = job \/ job' = new) /\ pc' # "unfinalize" /\ UNCHANGED ctr
    BY <1>6 DEF AddFinalizer, Update, Dispatch
  <2> QED BY <2>1, <2>2 DEF OrphanInv
<1>7. ASSUME NEW o \in Outcomes, DeleteContainer(o) PROVE OrphanInv'
  BY <1>7 DEF DeleteContainer, OrphanInv
<1>8. ASSUME NEW o \in Outcomes, RemoveFinalizer(o) PROVE OrphanInv'
  BY <1>8 DEF RemoveFinalizer, Update, Refused, OrphanInv
<1>9. ASSUME NEW o \in Outcomes, CreateContainer(o) PROVE OrphanInv'
  <2>1. job # None /\ job.finalizer /\ UNCHANGED job
    BY <1>9 DEF CreateContainer, LifeInv
  <2>2. pc' # "unfinalize"
    BY <1>9 DEF CreateContainer, StartingFails
  <2> QED BY <2>1, <2>2 DEF OrphanInv
<1>10. ASSUME NEW o \in Outcomes, StartContainer(o) PROVE OrphanInv'
  <2>1. job # None /\ job.finalizer /\ UNCHANGED job
    BY <1>10 DEF StartContainer, LifeInv
  <2>2. pc' # "unfinalize"
    BY <1>10 DEF StartContainer, StartingFails
  <2> QED BY <2>1, <2>2 DEF OrphanInv
<1>11. ASSUME NEW o \in Outcomes, RemoveById(o) PROVE OrphanInv'
  BY <1>11 DEF RemoveById, OrphanInv
<1>12. ASSUME NEW o \in Outcomes, Report(o) PROVE OrphanInv'
  <2>1. work # None /\ work.finalizer
    BY <1>12, NoJobAssumption DEF Report, Update, FreshInv
  <2>2. (job' = job \/ job' = work) /\ pc' # "unfinalize" /\ UNCHANGED ctr
    BY <1>12 DEF Report, Update
  <2> QED BY <2>1, <2>2 DEF OrphanInv
<1>13. ASSUME NEW o \in Outcomes, Finish(o) PROVE OrphanInv'
  <2>1. work # None /\ work.finalizer
    BY <1>13, NoJobAssumption DEF Finish, Update, FreshInv
  <2>2. (job' = job \/ job' = work) /\ pc' # "unfinalize" /\ UNCHANGED ctr
    BY <1>13 DEF Finish, Update
  <2> QED BY <2>1, <2>2 DEF OrphanInv
<1>14. ASSUME NEW o \in Outcomes, TtlCleanup(o) PROVE OrphanInv'
  BY <1>14 DEF TtlCleanup, OrphanInv
<1>15. CASE CacheSync
  BY <1>15 DEF CacheSync, OrphanInv
<1>16. CASE Requeue
  BY <1>16 DEF Requeue, OrphanInv
<1>17. CASE Tick
  <2>1. job # None => Aged(job) # None /\ Aged(job).finalizer = job.finalizer
    BY AgedJob, AgedNone
  <2> QED BY <1>17, <2>1 DEF Tick, OrphanInv
<1>18. CASE OutsideRemove
  BY <1>18 DEF OutsideRemove, OrphanInv
<1>19. CASE CreateJob
  BY <1>19 DEF CreateJob, UserWrite, OrphanInv
<1>20. CASE Touch
  BY <1>20 DEF Touch, UserWrite, OrphanInv
<1>21. CASE DeleteJob
  <2>1. /\ job \in Jobs /\ UNCHANGED <<ctr, pc>>
        /\ job' = IF job.finalizer THEN [job EXCEPT !.deleting = TRUE] ELSE None
    BY <1>21 DEF DeleteJob, UserWrite
  <2>2. job.finalizer => job' # None /\ job'.finalizer
    BY <2>1, JobFields, NoJobAssumption DEF Jobs
  <2> QED BY <2>1, <2>2 DEF OrphanInv
<1>22. CASE Crash
  BY <1>22 DEF Crash, OrphanInv
<1>23. ASSUME NEW code \in {0, 1}, ContainerExits(code) PROVE OrphanInv'
  BY <1>23 DEF ContainerExits, OrphanInv
<1>24. CASE UNCHANGED vars
  BY <1>24 DEF OrphanInv
<1> QED
  BY <1>1, <1>2, <1>3, <1>4, <1>5, <1>6, <1>7, <1>8, <1>9, <1>10, <1>11,
     <1>12, <1>13, <1>14, <1>15, <1>16, <1>17, <1>18, <1>19, <1>20, <1>21,
     <1>22, <1>23, <1>24
  DEF Next, Reconcile, Environment

\* A pass that found the job unfinished, and has not been overtaken, has an
\* unfinished job to write to.
LEMMA TerminalNext == TypeOK /\ FreshInv /\ LifeInv /\ TerminalInv /\ [Next]_vars => TerminalInv'
<1> SUFFICES ASSUME TypeOK, FreshInv, LifeInv, TerminalInv, [Next]_vars PROVE TerminalInv'
  OBVIOUS
<1> USE DEF vars, apiVars, hostVars, passVars, budgetVars, Pay, Return, Goto,
           TypeOK, DataOK, SyncCalls, DeleteCalls, Terminal
<1>1. CASE Get
  <2>1. pc' = Entry(cached) /\ fresh' = cacheFresh /\ UNCHANGED job
    BY <1>1 DEF Get
  <2>2. pc' \in SyncCalls \ {"ttl"} => ~Terminal(cached)
    BY <2>1 DEF Entry, Dispatch
  <2> QED BY <2>1, <2>2 DEF FreshInv, TerminalInv
<1>2. CASE NoClient
  BY <1>2 DEF NoClient, TerminalInv
<1>3. CASE Inspect
  BY <1>3 DEF Inspect, Found, TerminalInv
<1>4. CASE InspectFails
  BY <1>4 DEF InspectFails, TerminalInv
<1>5. CASE Stop
  BY <1>5 DEF Stop, TerminalInv
<1>6. ASSUME NEW o \in Outcomes, AddFinalizer(o) PROVE TerminalInv'
  <2>1. pc' = "idle" \/
        (job' = [work EXCEPT !.finalizer = TRUE] /\ pc' = Dispatch(job'))
    BY <1>6 DEF AddFinalizer, Update, Refused
  <2> QED BY <2>1 DEF Dispatch, TerminalInv
<1>7. ASSUME NEW o \in Outcomes, DeleteContainer(o) PROVE TerminalInv'
  BY <1>7 DEF DeleteContainer, TerminalInv
<1>8. ASSUME NEW o \in Outcomes, RemoveFinalizer(o) PROVE TerminalInv'
  BY <1>8 DEF RemoveFinalizer, Update, Refused, TerminalInv
<1>9. ASSUME NEW o \in Outcomes, CreateContainer(o) PROVE TerminalInv'
  BY <1>9 DEF CreateContainer, StartingFails, TerminalInv
<1>10. ASSUME NEW o \in Outcomes, StartContainer(o) PROVE TerminalInv'
  BY <1>10 DEF StartContainer, StartingFails, TerminalInv
<1>11. ASSUME NEW o \in Outcomes, RemoveById(o) PROVE TerminalInv'
  BY <1>11 DEF RemoveById, TerminalInv
<1>12. ASSUME NEW o \in Outcomes, Report(o) PROVE TerminalInv'
  BY <1>12 DEF Report, Update, TerminalInv
<1>13. ASSUME NEW o \in Outcomes, Finish(o) PROVE TerminalInv'
  BY <1>13 DEF Finish, Update, TerminalInv
<1>14. ASSUME NEW o \in Outcomes, TtlCleanup(o) PROVE TerminalInv'
  BY <1>14 DEF TtlCleanup, TerminalInv
<1>15. CASE CacheSync
  BY <1>15 DEF CacheSync, TerminalInv
<1>16. CASE Requeue
  BY <1>16 DEF Requeue, TerminalInv
<1>17. CASE Tick
  <2>1. pc \in SyncCalls => Aged(job).phase = job.phase
    BY AgedJob DEF LifeInv
  <2>2. job' = Aged(job) /\ UNCHANGED <<pc, fresh>>
    BY <1>17 DEF Tick
  <2> QED BY <2>1, <2>2 DEF TerminalInv
<1>18. CASE OutsideRemove
  BY <1>18 DEF OutsideRemove, TerminalInv
<1>19. CASE CreateJob
  BY <1>19 DEF CreateJob, UserWrite, TerminalInv
<1>20. CASE Touch
  BY <1>20 DEF Touch, UserWrite, TerminalInv
<1>21. CASE DeleteJob
  BY <1>21 DEF DeleteJob, UserWrite, TerminalInv
<1>22. CASE Crash
  BY <1>22 DEF Crash, TerminalInv
<1>23. ASSUME NEW code \in {0, 1}, ContainerExits(code) PROVE TerminalInv'
  BY <1>23 DEF ContainerExits, TerminalInv
<1>24. CASE UNCHANGED vars
  BY <1>24 DEF TerminalInv
<1> QED
  BY <1>1, <1>2, <1>3, <1>4, <1>5, <1>6, <1>7, <1>8, <1>9, <1>10, <1>11,
     <1>12, <1>13, <1>14, <1>15, <1>16, <1>17, <1>18, <1>19, <1>20, <1>21,
     <1>22, <1>23, <1>24
  DEF Next, Reconcile, Environment

\* ContainerCreate takes the next ID; a pass knows a container by its ID.
LEMMA IdsNext == TypeOK /\ IdsInv /\ [Next]_vars => IdsInv'
<1> SUFFICES ASSUME TypeOK, IdsInv, [Next]_vars PROVE IdsInv'
  OBVIOUS
<1> USE DEF vars, apiVars, hostVars, passVars, budgetVars, Pay, Return, Goto,
           TypeOK, DataOK, SyncCalls, DeleteCalls
<1>1. CASE Get
  <2>1. pc' \notin {"start", "retryStart", "retryRemove", "stop", "kill"}
    BY <1>1 DEF Get, Entry, Dispatch
  <2>2. id' = 0 /\ UNCHANGED <<ctr, lastId>>
    BY <1>1 DEF Get
  <2> QED BY <2>1, <2>2 DEF IdsInv
<1>2. CASE NoClient
  BY <1>2 DEF NoClient, IdsInv, Reached
<1>3. CASE Inspect
  <2>1. UNCHANGED <<ctr, lastId>> /\ pc' \notin {"start", "retryStart", "kill"}
    BY <1>3 DEF Inspect, Found
  <2>2. id' \in {id, 0} \/ (ctr # None /\ id' = ctr.id)
    BY <1>3 DEF Inspect, Found
  <2>3. pc' = "retryRemove" => ctr.state = "exited" /\ ctr.code # 0
    BY <1>3 DEF Inspect, Found, Retry
  <2>4. pc' = "stop" => Deadline # None
    BY <1>3 DEF Inspect, Found, Overdue
  <2>5. id' <= lastId'
    BY <2>1, <2>2 DEF IdsInv
  <2> QED BY <2>1, <2>3, <2>4, <2>5 DEF IdsInv, Reached
<1>4. CASE InspectFails
  BY <1>4 DEF InspectFails, IdsInv, Reached
<1>5. CASE Stop
  <2>1. ctr' = ctr \/ (ctr # None /\ ctr' = Exit(ctr, 1))
    BY <1>5 DEF Stop, Reached
  <2>2. ctr' # None => ctr # None /\ ctr'.id = ctr.id
    BY <2>1, ContainerFields
  <2>3. pc' = "kill" /\ Deadline # None /\ UNCHANGED <<id, lastId>>
    BY <1>5 DEF Stop, IdsInv
  <2> QED BY <2>2, <2>3 DEF IdsInv
<1>6. ASSUME NEW o \in Outcomes, AddFinalizer(o) PROVE IdsInv'
  <2>1. pc' \notin {"start", "retryStart", "retryRemove", "stop", "kill"}
    BY <1>6 DEF AddFinalizer, Dispatch
  <2> QED BY <1>6, <2>1 DEF AddFinalizer, IdsInv
<1>7. ASSUME NEW o \in Outcomes, DeleteContainer(o) PROVE IdsInv'
  BY <1>7 DEF DeleteContainer, IdsInv, Reached
<1>8. ASSUME NEW o \in Outcomes, RemoveFinalizer(o) PROVE IdsInv'
  BY <1>8 DEF RemoveFinalizer, Update, Refused, IdsInv, Reached
<1>9. ASSUME NEW o \in Outcomes, CreateContainer(o) PROVE IdsInv'
  <2>1. lastId + 1 > lastId
    OBVIOUS
  <2>2. CASE pc' \in {"start", "retryStart"}
    <3>1. id' = lastId' /\ lastId' \in Nat /\ ctr' = [id |-> lastId', state |-> "created", code |-> 0]
      BY <1>9, <2>2 DEF CreateContainer, StartingFails
    <3> QED BY <2>2, <3>1 DEF IdsInv
  <2>3. CASE pc' \in {"report", "idle"}
    <3>1. /\ UNCHANGED id /\ lastId' \in {lastId, lastId + 1}
          /\ ctr' = ctr \/ ctr' = [id |-> lastId', state |-> "created", code |-> 0]
      BY <1>9, <2>3 DEF CreateContainer, StartingFails
    <3>2. ctr' # None => ctr'.id <= lastId'
      BY <3>1, ContainerFields DEF IdsInv
    <3> QED BY <2>3, <3>1, <3>2 DEF IdsInv
  <2> QED BY <1>9, <2>2, <2>3 DEF CreateContainer, StartingFails
<1>10. ASSUME NEW o \in Outcomes, StartContainer(o) PROVE IdsInv'
  <2>1. ctr' = ctr \/ (ctr # None /\ ctr' = Run(ctr))
    BY <1>10 DEF StartContainer, Reached
  <2>2. ctr' # None => ctr # None /\ ctr'.id = ctr.id
    BY <2>1, ContainerFields
  <2>3. pc' \in {"report", "idle"} /\ UNCHANGED <<id, lastId>>
    BY <1>10 DEF StartContainer, StartingFails
  <2> QED BY <2>2, <2>3 DEF IdsInv
<1>11. ASSUME NEW o \in Outcomes, RemoveById(o) PROVE IdsInv'
  BY <1>11 DEF RemoveById, IdsInv, Reached
<1>12. ASSUME NEW o \in Outcomes, Report(o) PROVE IdsInv'
  BY <1>12 DEF Report, Update, IdsInv, Reached
<1>13. ASSUME NEW o \in Outcomes, Finish(o) PROVE IdsInv'
  BY <1>13 DEF Finish, Update, IdsInv, Reached
<1>14. ASSUME NEW o \in Outcomes, TtlCleanup(o) PROVE IdsInv'
  BY <1>14 DEF TtlCleanup, IdsInv, Reached
<1>15. CASE CacheSync
  BY <1>15 DEF CacheSync, IdsInv, Reached
<1>16. CASE Requeue
  BY <1>16 DEF Requeue, IdsInv, Reached
<1>17. CASE Tick
  BY <1>17 DEF Tick, IdsInv, Reached
<1>18. CASE OutsideRemove
  BY <1>18 DEF OutsideRemove, IdsInv, Reached
<1>19. CASE CreateJob
  BY <1>19 DEF CreateJob, UserWrite, IdsInv, Reached
<1>20. CASE Touch
  BY <1>20 DEF Touch, UserWrite, IdsInv, Reached
<1>21. CASE DeleteJob
  BY <1>21 DEF DeleteJob, UserWrite, IdsInv, Reached
<1>22. CASE Crash
  BY <1>22 DEF Crash, IdsInv, Reached
<1>23. ASSUME NEW code \in {0, 1}, ContainerExits(code) PROVE IdsInv'
  <2>1. UNCHANGED <<pc, id, lastId>> /\ ctr # None /\ ctr.state = "running"
    BY <1>23 DEF ContainerExits
  <2>2. ctr' = ctr \/ ctr' = Exit(ctr, code)
    BY <1>23 DEF ContainerExits
  <2>3. ctr'.id = ctr.id
    BY <2>1, <2>2, ContainerFields
  <2> QED BY <2>1, <2>3 DEF IdsInv, Reached
<1>24. CASE UNCHANGED vars
  BY <1>24 DEF IdsInv, Reached
<1> QED
  BY <1>1, <1>2, <1>3, <1>4, <1>5, <1>6, <1>7, <1>8, <1>9, <1>10, <1>11,
     <1>12, <1>13, <1>14, <1>15, <1>16, <1>17, <1>18, <1>19, <1>20, <1>21,
     <1>22, <1>23, <1>24
  DEF Next, Reconcile, Environment

\* Nobody but a deletion removes the container that exited with 0.
LEMMA RecordNext == TypeOK /\ FreshInv /\ LifeInv /\ OrphanInv /\ IdsInv /\ RecordInv /\ [Next]_vars => RecordInv'
<1> SUFFICES ASSUME TypeOK, FreshInv, LifeInv, OrphanInv, IdsInv, RecordInv, [Next]_vars PROVE RecordInv'
  OBVIOUS
<1> USE DEF vars, apiVars, hostVars, passVars, budgetVars, Pay, Return, Goto,
           TypeOK, DataOK, SyncCalls, DeleteCalls
<1>1. CASE Get
  <2>1. pc' = Entry(cached) /\ UNCHANGED <<apiVars, hostVars, outside>>
    BY <1>1 DEF Get
  <2>2. Dying(cached) => pc' \notin SyncCalls
    BY <2>1 DEF Entry, Dispatch, Dying
  <2> QED BY <2>1, <2>2 DEF RecordInv
<1>2. CASE NoClient
  <2>1. UNCHANGED <<apiVars, hostVars, outside>> /\ pc' = "idle"
    BY <1>2 DEF NoClient
  <2> QED BY <2>1 DEF RecordInv
<1>3. CASE Inspect
  <2>1. UNCHANGED <<apiVars, hostVars, outside>> /\ pc \in SyncCalls
    BY <1>3 DEF Inspect
  <2> QED BY <2>1 DEF RecordInv
<1>4. CASE InspectFails
  <2>1. UNCHANGED <<apiVars, hostVars, outside>> /\ pc' = "idle"
    BY <1>4 DEF InspectFails
  <2> QED BY <2>1 DEF RecordInv
<1>5. CASE Stop
  <2>1. Deadline # None
    BY <1>5 DEF Stop, IdsInv
  <2> QED BY <2>1 DEF RecordInv
<1>6. ASSUME NEW o \in Outcomes, AddFinalizer(o) PROVE RecordInv'
  <2> DEFINE new == [work EXCEPT !.finalizer = TRUE]
  <2>1. UNCHANGED <<cached, hostVars, outside>> /\ new # None /\ new.finalizer
    BY <1>6, FinalizerField DEF AddFinalizer, Update
  <2>2. CASE fresh /\ job' = new
    <3>1. job = work /\ job # None /\ ~job.finalizer
      BY <1>6, <2>2, NoJobAssumption DEF AddFinalizer, FreshInv
    <3> QED BY <2>1, <3>1 DEF RecordInv
  <2>3. CASE pc' = "idle" /\ UNCHANGED job
    BY <2>1, <2>3 DEF RecordInv
  <2> QED BY <1>6, <2>2, <2>3 DEF AddFinalizer, Update, Refused
<1>7. ASSUME NEW o \in Outcomes, DeleteContainer(o) PROVE RecordInv'
  <2>1. UNCHANGED <<apiVars, succeeded, outside>> /\ ctr' \in {ctr, None}
    BY <1>7 DEF DeleteContainer
  <2>2. Dying(job) /\ Dying(cached) /\ pc \notin SyncCalls /\ pc' \notin SyncCalls
    BY <1>7 DEF DeleteContainer, LifeInv
  <2> QED BY <2>1, <2>2 DEF RecordInv, Dying
<1>8. ASSUME NEW o \in Outcomes, RemoveFinalizer(o) PROVE RecordInv'
  <2>1. UNCHANGED <<cached, hostVars, outside>> /\ job' \in {job, None} /\ pc' = "idle"
    BY <1>8 DEF RemoveFinalizer, Update, Refused
  <2> QED BY <2>1 DEF RecordInv
<1>9. ASSUME NEW o \in Outcomes, CreateContainer(o) PROVE RecordInv'
  <2>1. ctr # None => ctr' = ctr
    BY <1>9 DEF CreateContainer, StartingFails
  <2>2. UNCHANGED <<apiVars, succeeded, outside>> /\ pc \in SyncCalls
    BY <1>9 DEF CreateContainer, StartingFails
  <2> QED BY <2>1, <2>2 DEF RecordInv
<1>10. ASSUME NEW o \in Outcomes, StartContainer(o) PROVE RecordInv'
  <2>1. ctr # None /\ ctr.state = "exited" => ctr' = ctr
    BY <1>10 DEF StartContainer, StartingFails, IdsInv
  <2>2. UNCHANGED <<apiVars, succeeded, outside>> /\ pc \in SyncCalls
    BY <1>10 DEF StartContainer, StartingFails
  <2> QED BY <2>1, <2>2 DEF RecordInv
<1>11. ASSUME NEW o \in Outcomes, RemoveById(o) PROVE RecordInv'
  <2>1. ctr # None /\ ctr.code = 0 /\ Deadline = None => ctr' = ctr
    BY <1>11 DEF RemoveById, IdsInv
  <2>2. UNCHANGED <<apiVars, succeeded, outside>> /\ pc \in SyncCalls
    BY <1>11 DEF RemoveById
  <2> QED BY <2>1, <2>2 DEF RecordInv
<1>12. ASSUME NEW o \in Outcomes, Report(o) PROVE RecordInv'
  <2>1. work.finalizer /\ pc \in SyncCalls /\ (job' = job \/ (job' = work /\ job # None))
    BY <1>12 DEF Report, Update, FreshInv
  <2>2. UNCHANGED <<cached, hostVars, outside>>
    BY <1>12 DEF Report, Update
  <2> QED BY <2>1, <2>2 DEF RecordInv
<1>13. ASSUME NEW o \in Outcomes, Finish(o) PROVE RecordInv'
  <2>1. work.finalizer /\ pc \in SyncCalls /\ (job' = job \/ (job' = work /\ job # None))
    BY <1>13 DEF Finish, Update, FreshInv
  <2>2. UNCHANGED <<cached, hostVars, outside>>
    BY <1>13 DEF Finish, Update
  <2> QED BY <2>1, <2>2 DEF RecordInv
<1>14. ASSUME NEW o \in Outcomes, TtlCleanup(o) PROVE RecordInv'
  <2>1. TTL = None => ctr' = ctr
    BY <1>14 DEF TtlCleanup
  <2>2. UNCHANGED <<apiVars, succeeded, outside>> /\ pc \in SyncCalls
    BY <1>14 DEF TtlCleanup
  <2> QED BY <2>1, <2>2 DEF RecordInv
<1>15. CASE CacheSync
  <2>1. cached' = job /\ UNCHANGED <<job, hostVars, pc, outside>>
    BY <1>15 DEF CacheSync
  <2> QED BY <2>1 DEF RecordInv, Dying
<1>16. CASE Requeue
  BY <1>16 DEF Requeue, RecordInv
<1>17. CASE Tick
  <2>1. ASSUME NEW j \in Jobs \cup {None}
        PROVE  /\ (Aged(j) = None) = (j = None)
               /\ j # None => Aged(j).deleting = j.deleting /\ Aged(j).finalizer = j.finalizer
    BY AgedJob, AgedNone
  <2>2. job' = Aged(job) /\ cached' = Aged(cached) /\ UNCHANGED <<pc, hostVars, outside>>
    BY <1>17 DEF Tick
  <2>3. /\ (job' = None) = (job = None) /\ (cached' = None) = (cached = None)
        /\ job # None => job'.deleting = job.deleting /\ job'.finalizer = job.finalizer
        /\ cached # None => /\ cached'.deleting = cached.deleting
                            /\ cached'.finalizer = cached.finalizer
    BY <2>1, <2>2
  <2> QED BY <2>2, <2>3 DEF RecordInv, Dying
<1>18. CASE OutsideRemove
  <2>1. outside' # 0
    BY <1>18 DEF OutsideRemove
  <2> QED BY <2>1 DEF RecordInv
<1>19. CASE CreateJob
  <2>1. ~succeeded'
    BY <1>19 DEF CreateJob
  <2> QED BY <2>1 DEF RecordInv
<1>20. CASE Touch
  BY <1>20 DEF Touch, UserWrite, RecordInv
<1>21. CASE DeleteJob
  <2>1. /\ job \in Jobs /\ job # None /\ UNCHANGED <<cached, hostVars, pc, outside>>
        /\ job' = IF job.finalizer THEN [job EXCEPT !.deleting = TRUE] ELSE None
    BY <1>21, NoJobAssumption DEF DeleteJob, UserWrite
  <2>2. job.finalizer => job' # None /\ job'.deleting /\ job'.finalizer
    BY <2>1, JobFields, NoJobAssumption DEF Jobs
  <2>3. ~job.finalizer => job' = None
    BY <2>1
  <2> QED BY <2>1, <2>2, <2>3 DEF RecordInv
<1>22. CASE Crash
  <2>1. cached' = job /\ pc' = "idle" /\ UNCHANGED <<job, hostVars, outside>>
    BY <1>22 DEF Crash
  <2> QED BY <2>1 DEF RecordInv, Dying
<1>23. ASSUME NEW code \in {0, 1}, ContainerExits(code) PROVE RecordInv'
  <2>1. ctr # None /\ ctr.state = "running" /\ UNCHANGED <<apiVars, pc, outside>>
    BY <1>23 DEF ContainerExits
  <2>2. job # None /\ job.finalizer
    BY <2>1 DEF OrphanInv
  <2>3. CASE code = 0
    <3>1. ctr' = Exit(ctr, 0)
      BY <1>23, <2>3 DEF ContainerExits
    <3>2. ctr' # None /\ ctr'.state = "exited" /\ ctr'.code = 0
      BY <2>1, <3>1, ContainerFields
    <3> QED BY <2>1, <2>2, <3>2 DEF RecordInv
  <2>4. CASE code # 0
    <3>1. UNCHANGED succeeded
      BY <1>23, <2>4 DEF ContainerExits, FlagsOK
    <3> QED BY <2>1, <3>1 DEF RecordInv
  <2> QED BY <2>3, <2>4
<1>24. CASE UNCHANGED vars
  BY <1>24 DEF RecordInv
<1> QED
  BY <1>1, <1>2, <1>3, <1>4, <1>5, <1>6, <1>7, <1>8, <1>9, <1>10, <1>11,
     <1>12, <1>13, <1>14, <1>15, <1>16, <1>17, <1>18, <1>19, <1>20, <1>21,
     <1>22, <1>23, <1>24
  DEF Next, Reconcile, Environment

\* What a pass writes into its copy while its container runs is not terminal.
LEMMA RunningPhase ==
  ASSUME NEW j \in Jobs
  PROVE  /\ ~Terminal(InPhase(j, "Running"))
         /\ ~Terminal(Started(j)) /\ ~Terminal(Retried(j))
  BY DEF Terminal, InPhase, Started, Retried, Jobs

\* As long as nothing failed, the container of a job that a pass finds or makes
\* finished has ended or is gone.
LEMMA StoppedNext ==
  TypeOK /\ FreshInv /\ LifeInv /\ OrphanInv /\ IdsInv /\ StoppedInv /\ [Next]_vars => StoppedInv'
<1> SUFFICES ASSUME TypeOK, FreshInv, LifeInv, OrphanInv, IdsInv, StoppedInv,
                    [Next]_vars, Calm'
             PROVE  StoppedInv'
  BY DEF StoppedInv
<1> USE DEF vars, apiVars, hostVars, passVars, budgetVars, Pay, Return, Goto,
           TypeOK, DataOK, SyncCalls, Reached
<1>0. ASSUME UNCHANGED budgetVars PROVE Calm
  BY <1>0 DEF Calm
<1>1. CASE Get
  <2>1. Calm /\ cacheFresh
    BY <1>1 DEF Get, Calm
  <2>2. pc' = Entry(job) /\ UNCHANGED <<job, ctr>>
    BY <1>1, <2>1 DEF Get, FreshInv
  <2>3. pc' \in {"idle", "delete", "addFinalizer", "ttl"} \/ (pc' = "inspect" /\ ~Terminal(job))
    BY <2>2 DEF Entry, Dispatch
  <2> QED BY <2>1, <2>2, <2>3 DEF StoppedInv, Terminal
<1>2. ASSUME NoClient \/ InspectFails PROVE StoppedInv'
  BY <1>2 DEF NoClient, InspectFails, Calm
<1>3. CASE Inspect
  <2>1. Calm /\ pc = "inspect" /\ UNCHANGED <<job, ctr>>
    BY <1>3, <1>0 DEF Inspect
  <2>2. ~Terminal(job) /\ ~Terminal(job)'
    BY <2>1 DEF StoppedInv, Terminal
  <2>3. CASE ctr = None
    BY <1>3, <2>1, <2>2, <2>3 DEF Inspect, StoppedInv
  <2>4. CASE pc' = "idle"
    BY <2>1, <2>2, <2>4 DEF StoppedInv
  <2>5. CASE ctr # None /\ pc' # "idle"
    <3>1. ctr \in Containers /\ work \in Jobs
      BY <2>1, <2>5
    <3>2. id' = ctr.id /\ pc' \in {"stop", "report", "retryRemove", "finish"}
      BY <1>3, <2>5 DEF Inspect, Found
    <3>3. pc' = "report" => ~Terminal(work)'
      <4>1. pc' = "report" => work' = InPhase(work, "Running")
        BY <1>3, <2>5 DEF Inspect, Found
      <4> QED BY <3>1, <4>1, RunningPhase DEF Terminal
    <3>4. pc' = "finish" => ctr.state = "exited"
      BY <1>3, <2>5 DEF Inspect, Found
    <3> QED BY <2>1, <2>2, <2>5, <3>2, <3>3, <3>4 DEF StoppedInv
  <2> QED BY <2>3, <2>4, <2>5
<1>4. CASE Stop
  <2>1. Calm /\ pc = "stop" /\ pc' = "kill" /\ UNCHANGED <<job, work, id>>
    BY <1>4, <1>0 DEF Stop
  <2>2. ~Terminal(job)' /\ Reached
    BY <2>1 DEF StoppedInv, Terminal
  <2>3. ctr' = ctr \/ ctr' = Exit(ctr, 1)
    BY <1>4 DEF Stop
  <2>4. Reached'
    BY <2>1, <2>2, <2>3, ContainerFields
  <2> QED BY <2>1, <2>2, <2>4 DEF StoppedInv
<1>5. ASSUME NEW o \in Outcomes, AddFinalizer(o) PROVE StoppedInv'
  <2>1. Calm /\ UNCHANGED ctr
    BY <1>5 DEF AddFinalizer, Update, Calm
  <2>2. CASE pc' = "idle" /\ UNCHANGED job
    BY <2>1, <2>2 DEF StoppedInv, Terminal
  <2>3. CASE fresh /\ job' = [work EXCEPT !.finalizer = TRUE] /\ pc' \in {"idle", Dispatch(job')}
    <3>1. job = work /\ work \in Jobs /\ work # None
      BY <1>5, <2>3, NoJobAssumption DEF AddFinalizer, FreshInv
    <3>2. job'.phase = job.phase
      BY <2>3, <3>1, FinalizerField
    <3> QED BY <2>1, <2>3, <3>1, <3>2 DEF StoppedInv, Terminal, Dispatch
  <2> QED BY <1>5, <2>2, <2>3 DEF AddFinalizer, Update, Refused
<1>6. ASSUME NEW o \in Outcomes, DeleteContainer(o) PROVE StoppedInv'
  <2>1. Calm /\ UNCHANGED job /\ ctr' \in {ctr, None} /\ pc' \in {"idle", "unfinalize"}
    BY <1>6 DEF DeleteContainer, Calm
  <2> QED BY <2>1 DEF StoppedInv, Terminal
<1>7. ASSUME NEW o \in Outcomes, RemoveFinalizer(o) PROVE StoppedInv'
  <2>1. Calm /\ job' \in {job, None} /\ UNCHANGED ctr /\ pc' = "idle"
    BY <1>7 DEF RemoveFinalizer, Update, Calm
  <2> QED BY <2>1 DEF StoppedInv, Terminal
<1>8. ASSUME NEW o \in Outcomes, CreateContainer(o) PROVE StoppedInv'
  <2>1. Calm /\ o = "ok" /\ UNCHANGED job
    BY <1>8 DEF CreateContainer, Calm
  <2>2. ctr = None /\ ~Terminal(job)'
    BY <1>8, <2>1 DEF CreateContainer, StoppedInv, Terminal
  <2>3. /\ ctr' = [id |-> lastId + 1, state |-> "created", code |-> 0] /\ id' = lastId + 1
        /\ pc' \in {"start", "retryStart"}
    BY <1>8, <2>1, <2>2 DEF CreateContainer
  <2>4. ctr' # None /\ ctr'.id = lastId + 1
    <3>1. ctr' \in Containers
      BY <2>3 DEF Containers
    <3> QED BY <2>3, <3>1, NoJobAssumption
  <2> QED BY <2>1, <2>2, <2>3, <2>4 DEF StoppedInv
<1>9. ASSUME NEW o \in Outcomes, StartContainer(o) PROVE StoppedInv'
  <2>1. Calm /\ o = "ok" /\ UNCHANGED job /\ work \in Jobs
    BY <1>9 DEF StartContainer, Calm
  <2>2. Reached /\ ~Terminal(job)'
    BY <1>9, <2>1 DEF StartContainer, StoppedInv, Terminal
  <2>3. pc' = "report" /\ work' \in {Started(work), Retried(work)}
    BY <1>9, <2>1, <2>2 DEF StartContainer
  <2>4. ~Terminal(work)'
    BY <2>1, <2>3, RunningPhase DEF Terminal
  <2> QED BY <2>2, <2>3, <2>4 DEF StoppedInv
<1>10. ASSUME NEW o \in Outcomes, RemoveById(o) PROVE StoppedInv'
  <2>1. Calm /\ o = "ok" /\ UNCHANGED job
    BY <1>10 DEF RemoveById, Calm
  <2>2. Reached /\ ~Terminal(job)'
    BY <1>10, <2>1 DEF RemoveById, StoppedInv, Terminal
  <2>3. ctr' = None /\ pc' \in {"finish", "retryCreate"}
    BY <1>10, <2>1, <2>2 DEF RemoveById
  <2> QED BY <2>2, <2>3 DEF StoppedInv
<1>11. ASSUME NEW o \in Outcomes, Report(o) PROVE StoppedInv'
  <2>1. Calm /\ job' \in {job, work} /\ pc = "report" /\ pc' = "idle"
    BY <1>11 DEF Report, Update, Calm
  <2>2. ~Terminal(job)'
    BY <2>1 DEF StoppedInv, Terminal
  <2> QED BY <2>1, <2>2 DEF StoppedInv
<1>12. ASSUME NEW o \in Outcomes, Finish(o) PROVE StoppedInv'
  <2>1. Calm /\ pc = "finish" /\ pc' = "ttl" /\ UNCHANGED ctr
    BY <1>12 DEF Finish, Update, Calm
  <2> QED BY <2>1 DEF StoppedInv
<1>13. ASSUME NEW o \in Outcomes, TtlCleanup(o) PROVE StoppedInv'
  <2>1. Calm /\ ctr' \in {ctr, None} /\ pc' = "idle" /\ UNCHANGED job
    BY <1>13 DEF TtlCleanup, Calm
  <2> QED BY <2>1 DEF StoppedInv, Terminal
<1>14. CASE CacheSync
  BY <1>14, <1>0 DEF CacheSync, StoppedInv, Terminal
<1>15. CASE Requeue
  BY <1>15, <1>0 DEF Requeue, StoppedInv, Terminal
<1>16. CASE Tick
  <2>1. Calm /\ job' = Aged(job) /\ work' = Aged(work) /\ UNCHANGED <<pc, id, ctr>>
    BY <1>16, <1>0 DEF Tick
  <2>2. job # None => job' # None /\ job'.phase = job.phase
    BY <2>1, AgedJob, NoJobAssumption
  <2>3. job = None => job' = None
    BY <2>1, AgedNone
  <2>4. pc \in SyncCalls => job # None /\ work'.phase = work.phase
    BY <2>1, AgedJob DEF LifeInv
  <2> QED BY <2>1, <2>2, <2>3, <2>4 DEF StoppedInv, Terminal
<1>17. CASE CreateJob
  <2>1. ctr' = None /\ pc' \notin SyncCalls
    BY <1>17 DEF CreateJob, UserWrite, OrphanInv, LifeInv
  <2> QED BY <2>1 DEF StoppedInv
<1>18. CASE Touch
  <2>1. Calm /\ UNCHANGED <<job, work, pc, id, ctr>>
    BY <1>18 DEF Touch, UserWrite, Calm
  <2> QED BY <2>1 DEF StoppedInv, Terminal
<1>19. CASE DeleteJob
  <2>1. /\ Calm /\ UNCHANGED <<work, pc, id, ctr>> /\ job \in Jobs
        /\ job' = IF job.finalizer THEN [job EXCEPT !.deleting = TRUE] ELSE None
    BY <1>19 DEF DeleteJob, UserWrite, Calm
  <2>2. job' # None => job'.phase = job.phase
    BY <2>1 DEF Jobs
  <2>3. pc \in SyncCalls => job' # None
    BY <2>1, JobFields, NoJobAssumption DEF LifeInv
  <2> QED BY <2>1, <2>2, <2>3, NoJobAssumption DEF StoppedInv, Terminal
<1>20. ASSUME NEW code \in {0, 1}, ContainerExits(code) PROVE StoppedInv'
  <2>1. /\ Calm /\ UNCHANGED <<job, work, pc, id>> /\ ctr \in Containers
        /\ ctr' \in {ctr, Exit(ctr, code)}
    BY <1>20, <1>0 DEF ContainerExits
  <2>2. ctr' = ctr \/ (ctr' # None /\ ctr'.id = ctr.id /\ ctr'.state = "exited")
    BY <2>1, ContainerFields
  <2> QED BY <1>20, <2>1, <2>2 DEF StoppedInv, Terminal, ContainerExits
<1>21. ASSUME OutsideRemove \/ Crash PROVE StoppedInv'
  BY <1>21 DEF OutsideRemove, Crash, Calm
<1>22. CASE UNCHANGED vars
  BY <1>22, <1>0 DEF StoppedInv, Terminal
<1> QED
  BY <1>1, <1>2, <1>3, <1>4, <1>5, <1>6, <1>7, <1>8, <1>9, <1>10, <1>11,
     <1>12, <1>13, <1>14, <1>15, <1>16, <1>17, <1>18, <1>19, <1>20, <1>21, <1>22
  DEF Next, Reconcile, Environment

-----------------------------------------------------------------------------
(* Theorems.                                                               *)

\* The parts together are inductive; none of them is alone.
THEOREM Inductive == Spec => []IInv
<1>1. Init => IInv
  <2> SUFFICES ASSUME Init PROVE IInv
    OBVIOUS
  <2>1. TypeOK
    BY DEF Init, TypeOK, FlagsOK, DataOK
  <2>2. FreshInv /\ LifeInv /\ OrphanInv /\ TerminalInv
    BY DEF Init, FreshInv, LifeInv, OrphanInv, TerminalInv, Dying, SyncCalls, DeleteCalls
  <2>3. IdsInv /\ RecordInv /\ StoppedInv
    BY DEF Init, IdsInv, RecordInv, StoppedInv, SyncCalls, Reached
  <2> QED BY <2>1, <2>2, <2>3 DEF IInv
<1>2. IInv /\ [Next]_vars => IInv'
  BY DataNext, FlagsNext, FreshNext, LifeNext, OrphanNext, TerminalNext, IdsNext, RecordNext,
     StoppedNext
  DEF IInv, TypeOK
<1> QED BY <1>1, <1>2, PTL DEF Spec

\* Type correctness: a pass between two calls has a job to work on.
THEOREM TypeCorrect == Spec => []TypeOK
<1>1. IInv => TypeOK
  BY DEF IInv
<1> QED BY <1>1, Inductive, PTL

\* No container outlives its job, for any number of failed calls, restarts and
\* stale reads: DeleteContainer keeps the finalizer unless it succeeded.
THEOREM NoContainerOutlivesJobTheorem == Spec => []NoContainerOutlivesJob
<1>1. IInv => NoContainerOutlivesJob
  BY DEF IInv, OrphanInv, NoContainerOutlivesJob
<1> QED BY <1>1, Inductive, PTL

\* The container of a finished job does not run, for any limits, deadline and
\* TTL and any edits of users, as long as no call failed and no copy was stale.
THEOREM FinishedIsStoppedTheorem == Spec => []FinishedIsStopped
<1>1. IInv => FinishedIsStopped
  BY DEF IInv, StoppedInv, Calm, FinishedIsStopped
<1> QED BY <1>1, Inductive, PTL

\* A finished job stays finished, for any lag of the cache.
THEOREM TerminalStickyTheorem == Spec => TerminalSticky
<1>1. IInv /\ [Next]_vars => [TerminalStep]_vars
  <2> SUFFICES ASSUME IInv, [Next]_vars, job # None, Terminal(job), job' # None
               PROVE  job'.phase = job.phase
    BY DEF TerminalStep
  <2> USE DEF vars, apiVars, IInv, TypeOK, DataOK
  <2>1. ASSUME NEW o \in Outcomes, AddFinalizer(o) PROVE job'.phase = job.phase
    <3>1. job' = job \/ (job = work /\ job' = [work EXCEPT !.finalizer = TRUE])
      BY <2>1 DEF AddFinalizer, Update, FreshInv
    <3> QED BY <3>1, FinalizerField
  <2>2. ASSUME NEW o \in Outcomes, Report(o) \/ Finish(o) PROVE job'.phase = job.phase
    <3>1. ~fresh
      BY <2>2 DEF Report, Finish, TerminalInv, SyncCalls
    <3> QED BY <2>2, <3>1 DEF Report, Finish, Update
  <2>3. ASSUME NEW o \in Outcomes, RemoveFinalizer(o) PROVE job'.phase = job.phase
    BY <2>3 DEF RemoveFinalizer, Update
  <2>4. CASE Tick
    BY <2>4, AgedJob DEF Tick
  <2>5. CASE DeleteJob
    <3>1. job' = [job EXCEPT !.deleting = TRUE]
      BY <2>5 DEF DeleteJob, UserWrite
    <3> QED BY <3>1 DEF Jobs
  <2>6. CASE UNCHANGED job
    BY <2>6
  <2>7. UNCHANGED job \/ Tick \/ DeleteJob
        \/ \E o \in Outcomes :
             AddFinalizer(o) \/ Report(o) \/ Finish(o) \/ RemoveFinalizer(o)
    BY DEF Next, Reconcile, Environment, Get, NoClient, Inspect, InspectFails, Stop,
         DeleteContainer, CreateContainer, StartContainer, RemoveById, TtlCleanup,
         CacheSync, Requeue, OutsideRemove, CreateJob, Touch, UserWrite, Crash,
         ContainerExits
  <2> QED BY <2>1, <2>2, <2>3, <2>4, <2>5, <2>6, <2>7
<1> QED BY <1>1, Inductive, PTL DEF Spec, TerminalSticky

\* A job without TTL and deadline is not run again once it has succeeded, for
\* any number of lost answers, refused writes, restarts and stale reads.
THEOREM SucceedsOnceTheorem == Spec => SucceedsOnce
<1>1. IInv /\ [Next]_vars => [SucceedsOnceStep]_vars
  <2> SUFFICES ASSUME IInv, [Next]_vars, TTL = None, Deadline = None, outside = 0,
                      succeeded, job' # None
               PROVE  starts' <= starts
    BY DEF SucceedsOnceStep
  <2> USE DEF vars, apiVars, hostVars, IInv, TypeOK, DataOK
  <2>1. ASSUME NEW o \in Outcomes, StartContainer(o) PROVE starts' <= starts
    <3>1. job # None
      BY <2>1 DEF StartContainer, LifeInv, SyncCalls
    <3>2. ~Reached
      BY <2>1, <3>1 DEF StartContainer, IdsInv, RecordInv, SyncCalls, Reached
    <3> QED BY <2>1, <3>2 DEF StartContainer
  <2>2. ASSUME NEW code \in {0, 1}, ContainerExits(code) PROVE starts' <= starts
    <3>1. ctr # None /\ ctr.state = "running"
      BY <2>2 DEF ContainerExits
    <3>2. job # None
      BY <3>1 DEF OrphanInv
    <3> QED BY <3>1, <3>2 DEF RecordInv
  <2>3. CASE CreateJob
    BY <2>3 DEF CreateJob
  <2>4. CASE UNCHANGED starts
    BY <2>4
  <2>5. UNCHANGED starts \/ CreateJob
        \/ (\E o \in Outcomes : StartContainer(o))
        \/ (\E code \in {0, 1} : ContainerExits(code))
    BY DEF Next, Reconcile, Environment, Get, NoClient, Inspect, InspectFails, Stop,
         AddFinalizer, RemoveFinalizer, Report, Finish,
         DeleteContainer, CreateContainer, RemoveById, TtlCleanup,
         CacheSync, Requeue, Tick, OutsideRemove, Touch, DeleteJob, Crash
  <2> QED BY <2>1, <2>2, <2>3, <2>4, <2>5
<1> QED BY <1>1, Inductive, PTL DEF Spec, SucceedsOnce
=============================================================================
