----------------------------- MODULE WorkerProofs -----------------------------
(***************************************************************************)
(* The worker and what it makes possible, for any number of jobs,          *)
(* callbacks, versions and playback sessions.  Its life: one that leaves   *)
(* cuts nothing off; the invariant counts the tasks and says how far       *)
(* start-up, the subscription and the callbacks must have come at each     *)
(* stage of the shutdown.  Its work: what is offered stays whole; the      *)
(* invariant says whose an output is and what a claim stands on.  What is  *)
(* watched: only what was played is credited, and once; the invariant      *)
(* follows each session from one observation to the next.                  *)
(***************************************************************************)
EXTENDS WellFoundedInduction, WorkerLife, Video, Watch, FiniteSetTheorems, SequenceTheorems, TLAPS

Running == {j \in TranscodeJobs : callback[j] = "running"}

(* activeTasks counts the callbacks that run and the sweep. *)
TasksCounted == activeTasks = Cardinality(Running) + (IF sweeping THEN 1 ELSE 0)

(* Past the drain of the workers nothing can be fetched, past the wait for  *)
(* callbacks none is left, and past the wait for tasks neither is any task. *)
DrainInOrder ==
  /\ shutdown \in {"leaving", "waiting", "released", "closing", "closed"} =>
       startup = "ended" /\ ~polling
  /\ shutdown \in {"waiting", "released", "closing", "closed"} => Busy = {}
  /\ shutdown \in {"released", "closing", "closed"} => activeTasks = 0

(* What is closed was closed by the shutdown, which is what ends running.  *)
ClosedByShutdown ==
  /\ queueOpen <=> shutdown \notin {"closing", "closed"}
  /\ poolOpen <=> shutdown # "closed"
  /\ life = "running" <=> shutdown = "none"

LifeInv == LifeTypeOK /\ TasksCounted /\ DrainInOrder /\ ClosedByShutdown

-----------------------------------------------------------------------------
(* There are finitely many callbacks (worker.ts:374-376).                  *)
LEMMA RunningFinite == IsFiniteSet(Running) /\ Cardinality(Running) \in Nat
<1>1. Running \subseteq TranscodeJobs
  BY DEF Running
<1> QED
  BY <1>1, WorkerAssumption, FS_Subset, FS_CardinalityType DEF WorkerAssumption

(* A callback that begins is one more (lifecycle.ts:29).                   *)
LEMMA OneMore ==
  ASSUME NEW j \in TranscodeJobs, LifeTypeOK, callback[j] # "running",
         callback' = [callback EXCEPT ![j] = "running"]
  PROVE  Cardinality(Running') = Cardinality(Running) + 1
<1>1. Running' = Running \cup {j}
  BY DEF Running, LifeTypeOK
<1>2. j \notin Running
  BY DEF Running
<1> QED
  BY <1>1, <1>2, RunningFinite, FS_AddElement

(* A callback that ends is one less (lifecycle.ts:35).                     *)
LEMMA OneLess ==
  ASSUME NEW j \in TranscodeJobs, LifeTypeOK, callback[j] = "running",
         NEW s, s # "running", callback' = [callback EXCEPT ![j] = s]
  PROVE  /\ Cardinality(Running') = Cardinality(Running) - 1
         /\ Cardinality(Running) \in Nat \ {0}
<1>1. Running' = Running \ {j}
  BY DEF Running, LifeTypeOK
<1>2. j \in Running
  BY DEF Running
<1>3. Cardinality(Running') = Cardinality(Running) - 1
  BY <1>1, <1>2, RunningFinite, FS_RemoveElement
<1>4. Cardinality(Running) # 0
  BY <1>2, RunningFinite, FS_EmptySet
<1> QED
  BY <1>3, <1>4, RunningFinite

-----------------------------------------------------------------------------
LEMMA LifeInvInit == LifeInit => LifeInv
<1> SUFFICES ASSUME LifeInit PROVE LifeInv
  OBVIOUS
<1>1. LifeTypeOK
  BY DEF LifeInit, LifeTypeOK
<1>2. Running = {}
  BY DEF LifeInit, Running
<1>3. TasksCounted
  BY <1>2, FS_EmptySet DEF LifeInit, TasksCounted
<1>4. DrainInOrder /\ ClosedByShutdown
  BY DEF LifeInit, DrainInOrder, ClosedByShutdown
<1> QED
  BY <1>1, <1>3, <1>4 DEF LifeInv

-----------------------------------------------------------------------------
(* Steps that touch no callback and begin or end no task keep the count.   *)
LEMMA SameCount ==
  ASSUME TasksCounted, UNCHANGED <<activeTasks, sweeping, callback>>
  PROVE  TasksCounted'
<1>1. Running' = Running
  BY DEF Running
<1> QED
  BY <1>1 DEF TasksCounted

(* The shutdown itself (lifecycle.ts:42-60).                               *)
LEMMA ShutdownKeeps ==
  ASSUME LifeInv,
         Signal \/ StopPolling \/ Drained \/ StopQueue \/ CloseResources
  PROVE  LifeInv'
<1>1. UNCHANGED <<activeTasks, sweeping, callback, queued, startup>>
  BY DEF Signal, StopPolling, Drained, StopQueue, CloseResources, queueVars
<1>2. TasksCounted' /\ Busy' = Busy
  BY <1>1, SameCount DEF LifeInv, Busy
<1>3. CASE Signal
  BY <1>1, <1>2, <1>3 DEF Signal, Stop, LifeInv, LifeTypeOK, DrainInOrder, ClosedByShutdown,
                          queueVars, checkVars, openVars
<1>4. CASE StopPolling
  BY ZenonT(60), <1>1, <1>2, <1>4 DEF StopPolling, LifeInv, LifeTypeOK, DrainInOrder, ClosedByShutdown,
                          checkVars, openVars
<1>5. CASE Drained
  BY <1>1, <1>2, <1>5 DEF Drained, LifeInv, LifeTypeOK, DrainInOrder, ClosedByShutdown,
                          queueVars, checkVars, openVars
<1>6. CASE StopQueue
  BY <1>1, <1>2, <1>6 DEF StopQueue, LifeInv, LifeTypeOK, DrainInOrder, ClosedByShutdown,
                          queueVars, checkVars, openVars
<1>7. CASE CloseResources
  BY <1>1, <1>2, <1>7 DEF CloseResources, LifeInv, LifeTypeOK, DrainInOrder, ClosedByShutdown,
                          queueVars, checkVars, openVars
<1> QED
  BY <1>3, <1>4, <1>5, <1>6, <1>7

(* Start-up: it cannot end, or fail, into a shutdown that has passed it    *)
(* (worker.ts:369-406).                                                    *)
LEMMA StartupKeeps ==
  ASSUME LifeInv, QueueStarted \/ WorkRegistered
  PROVE  LifeInv'
<1>1. UNCHANGED <<activeTasks, sweeping, callback, queued>>
  BY DEF QueueStarted, WorkRegistered, queueVars
<1>2. TasksCounted' /\ Busy' = Busy
  BY <1>1, SameCount DEF LifeInv, Busy
<1>3. CASE QueueStarted
  BY ZenonT(60), <1>1, <1>2, <1>3 DEF QueueStarted, StartupFails, Stop, LifeInv, LifeTypeOK, DrainInOrder,
                          ClosedByShutdown, queueVars, checkVars, openVars
<1>4. CASE WorkRegistered
  BY ZenonT(60), <1>1, <1>2, <1>4 DEF WorkRegistered, StartupFails, Stop, LifeInv, LifeTypeOK, DrainInOrder,
                          ClosedByShutdown, checkVars, openVars
<1> QED
  BY <1>3, <1>4

(* A sweep is a task as long as it runs (lifecycle.ts:25-39).              *)
LEMMA SweepsKeep ==
  ASSUME LifeInv, EndSweep \/ TimerSweep
  PROVE  LifeInv'
<1>1. UNCHANGED <<callback, queued, polling, queueOpen, poolOpen>>
  BY DEF EndSweep, TimerSweep, queueVars, openVars
<1>2. Running' = Running /\ Busy' = Busy
  BY <1>1 DEF Running, Busy
<1>3. Cardinality(Running) \in Nat
  BY RunningFinite
<1>4. CASE EndSweep
  <2>1. sweeping /\ ~sweeping' /\ activeTasks' = activeTasks - 1
    BY <1>4 DEF EndSweep, EndTask
  <2>2. TasksCounted' /\ activeTasks' \in Nat /\ activeTasks # 0
    BY <1>2, <1>3, <2>1 DEF LifeInv, TasksCounted
  <2>3. shutdown \notin {"released", "closing", "closed"}
    BY <2>2 DEF LifeInv, DrainInOrder
  <2>4. LifeTypeOK'
    BY ZenonT(60), <1>1, <1>4, <2>1, <2>2 DEF EndSweep, EndTask, StartupFails, Stop, Resolved, LifeInv,
                                  LifeTypeOK, checkVars
  <2>5. ClosedByShutdown'
    BY <1>1, <1>4, <2>3 DEF EndSweep, StartupFails, Stop, Resolved, LifeInv, LifeTypeOK,
                            ClosedByShutdown
  <2>6. DrainInOrder'
    <3>1. CASE startup # "sweeping" /\ shutdown' = Resolved /\ UNCHANGED <<life, startup, timers>>
      BY <1>1, <1>2, <2>1, <2>3, <3>1 DEF Resolved, LifeInv, DrainInOrder
    <3>2. CASE startup = "sweeping"
      <4>1. shutdown \in {"none", "draining"}
        BY <3>2 DEF LifeInv, LifeTypeOK, DrainInOrder
      <4>2. shutdown' \in {"none", "draining"}
        BY <1>4, <3>2, <4>1 DEF EndSweep, StartupFails, Stop
      <4> QED
        BY <4>2 DEF DrainInOrder
    <3> QED
      BY <1>4, <3>1, <3>2 DEF EndSweep
  <2> QED
    BY <2>2, <2>4, <2>5, <2>6 DEF LifeInv
<1>5. CASE TimerSweep
  <2>1. /\ ~sweeping /\ sweeping' = TRUE /\ activeTasks' = activeTasks + 1
        /\ shutdown = "none" /\ UNCHANGED <<life, shutdown, startup>>
    BY <1>5 DEF TimerSweep, BeginTask, LifeInv, ClosedByShutdown
  <2>2. TasksCounted'
    BY <1>2, <1>3, <2>1 DEF LifeInv, LifeTypeOK, TasksCounted
  <2>3. LifeTypeOK'
    BY <1>1, <1>5, <2>1 DEF TimerSweep, BeginTask, LifeInv, LifeTypeOK, checkVars
  <2>4. DrainInOrder' /\ ClosedByShutdown'
    BY <1>1, <2>1 DEF LifeInv, DrainInOrder, ClosedByShutdown
  <2> QED
    BY <2>2, <2>3, <2>4 DEF LifeInv
<1> QED
  BY <1>4, <1>5

(* The queue: nothing is fetched after the drain, and a callback that runs *)
(* holds a task until it is over (worker.ts:374-384).                      *)
LEMMA JobsKeep ==
  ASSUME LifeInv, NEW j \in TranscodeJobs,
         SendJob(j) \/ FetchJob(j) \/ RunJob(j) \/ FinishJob(j) \/ SettleCallback(j)
  PROVE  LifeInv'
<1>1. UNCHANGED <<life, startup, sweeping, polling, timers, queueOpen, poolOpen>>
  BY DEF SendJob, FetchJob, RunJob, FinishJob, SettleCallback, openVars
<1>2. callback \in [TranscodeJobs -> {"none", "fetched", "running", "settling"}]
  BY DEF LifeInv, LifeTypeOK
<1>3. CASE SendJob(j)
  <2>1. TasksCounted' /\ Busy' = Busy
    BY <1>3, SameCount DEF SendJob, LifeInv, Busy
  <2> QED
    BY <1>1, <1>3, <2>1 DEF SendJob, LifeInv, LifeTypeOK, DrainInOrder, ClosedByShutdown, openVars
<1>4. CASE FetchJob(j)
  <2>1. callback[j] = "none" /\ callback' = [callback EXCEPT ![j] = "fetched"]
        /\ UNCHANGED <<activeTasks, shutdown>> /\ polling
    BY <1>4 DEF FetchJob
  <2>2. Running' = Running
    BY <1>2, <2>1 DEF Running
  <2>3. TasksCounted'
    BY <1>1, <2>1, <2>2 DEF LifeInv, TasksCounted
  <2>4. LifeTypeOK'
    BY <1>1, <1>4 DEF FetchJob, LifeInv, LifeTypeOK, checkVars
  <2>5. DrainInOrder' /\ ClosedByShutdown'
    BY <1>1, <2>1 DEF LifeInv, DrainInOrder, ClosedByShutdown
  <2> QED
    BY <2>3, <2>4, <2>5 DEF LifeInv
<1>5. CASE RunJob(j)
  <2>1. callback[j] = "fetched" /\ callback' = [callback EXCEPT ![j] = "running"]
        /\ activeTasks' = activeTasks + 1 /\ UNCHANGED shutdown
    BY <1>5 DEF RunJob, BeginTask
  <2>2. TasksCounted'
    <3>1. callback[j] # "running"
      BY <2>1
    <3>2. Cardinality(Running') = Cardinality(Running) + 1
      BY <2>1, <3>1, OneMore DEF LifeInv
    <3> QED
      BY <1>1, <2>1, <3>2, RunningFinite DEF LifeInv, TasksCounted
  <2>3. LifeTypeOK'
    BY <1>1, <1>5 DEF RunJob, BeginTask, LifeInv, LifeTypeOK, checkVars
  <2>4. j \in Busy
    BY <2>1 DEF Busy
  <2>5. DrainInOrder' /\ ClosedByShutdown'
    BY <1>1, <2>1, <2>4 DEF LifeInv, DrainInOrder, ClosedByShutdown
  <2> QED
    BY <2>2, <2>3, <2>5 DEF LifeInv
<1>6. CASE FinishJob(j)
  <2>1. callback[j] = "running" /\ callback' = [callback EXCEPT ![j] = "settling"]
        /\ activeTasks' = activeTasks - 1 /\ shutdown' = Resolved
    BY <1>6 DEF FinishJob, EndTask
  <2>2. /\ Cardinality(Running') = Cardinality(Running) - 1
        /\ Cardinality(Running) \in Nat \ {0}
    BY <2>1, OneLess DEF LifeInv
  <2>3. TasksCounted' /\ activeTasks' \in Nat
    BY <1>1, <2>1, <2>2 DEF LifeInv, LifeTypeOK, TasksCounted
  <2>4. j \in Busy
    BY <2>1 DEF Busy
  <2>5. shutdown \notin {"waiting", "released", "closing", "closed"} /\ UNCHANGED shutdown
    BY <2>1, <2>4 DEF LifeInv, DrainInOrder, Resolved
  <2>6. LifeTypeOK'
    BY <1>1, <1>6, <2>3, <2>5 DEF FinishJob, EndTask, LifeInv, LifeTypeOK, checkVars
  <2>7. DrainInOrder' /\ ClosedByShutdown'
    BY <1>1, <2>5 DEF LifeInv, DrainInOrder, ClosedByShutdown
  <2> QED
    BY <2>3, <2>6, <2>7 DEF LifeInv
<1>7. CASE SettleCallback(j)
  <2>1. callback[j] = "settling" /\ callback' = [callback EXCEPT ![j] = "none"]
        /\ UNCHANGED <<activeTasks, shutdown>>
    BY <1>7 DEF SettleCallback
  <2>2. Running' = Running
    BY <1>2, <2>1 DEF Running
  <2>3. TasksCounted'
    BY <1>1, <2>1, <2>2 DEF LifeInv, TasksCounted
  <2>4. LifeTypeOK'
    BY <1>1, <1>7 DEF SettleCallback, LifeInv, LifeTypeOK, checkVars
  <2>5. j \in Busy
    BY <2>1 DEF Busy
  <2>6. DrainInOrder' /\ ClosedByShutdown'
    BY <1>1, <2>1, <2>5 DEF LifeInv, DrainInOrder, ClosedByShutdown
  <2> QED
    BY <2>3, <2>4, <2>6 DEF LifeInv
<1> QED
  BY <1>3, <1>4, <1>5, <1>6, <1>7

(* The idle check can only start a shutdown (lifecycle.ts:62-79).          *)
LEMMA IdleChecksKeep ==
  ASSUME LifeInv, Elapse \/ CheckIdle \/ ReadPending \/ ProbeFails \/ Conclude
  PROVE  LifeInv'
<1>1. UNCHANGED <<startup, activeTasks, sweeping, callback, queued, polling, queueOpen, poolOpen>>
  BY DEF Elapse, CheckIdle, ReadPending, ProbeFails, Conclude, queueVars, openVars
<1>2. TasksCounted' /\ Busy' = Busy
  BY <1>1, SameCount DEF LifeInv, Busy
<1>3. \/ UNCHANGED <<life, shutdown>>
      \/ shutdown = "none" /\ life' = "draining" /\ shutdown' = "draining"
  BY DEF Elapse, CheckIdle, ReadPending, ProbeFails, Conclude, Stop
<1>4. DrainInOrder' /\ ClosedByShutdown'
  BY <1>1, <1>2, <1>3 DEF LifeInv, DrainInOrder, ClosedByShutdown
<1>5. LifeTypeOK'
  <2>1. timers' \in BOOLEAN /\ quiet' \in BOOLEAN /\ touched' \in BOOLEAN /\ pending' \in BOOLEAN
    BY DEF Elapse, CheckIdle, ReadPending, ProbeFails, Conclude, Stop, LifeInv, LifeTypeOK, checkVars
  <2>2. checking' \in {"no", "asking", "answered"} /\ since' \subseteq TranscodeJobs
    BY DEF Elapse, CheckIdle, ReadPending, ProbeFails, Conclude, LifeInv, LifeTypeOK, checkVars
  <2> QED
    BY <1>1, <1>3, <2>1, <2>2 DEF LifeInv, LifeTypeOK
<1> QED
  BY <1>2, <1>4, <1>5 DEF LifeInv

-----------------------------------------------------------------------------
LEMMA LifeInvStep == LifeInv /\ [LifeNext]_lifeVars => LifeInv'
<1> SUFFICES ASSUME LifeInv, [LifeNext]_lifeVars PROVE LifeInv'
  OBVIOUS
<1>1. CASE UNCHANGED lifeVars
  <2>1. TasksCounted' /\ Busy' = Busy
    BY <1>1, SameCount DEF LifeInv, Busy, lifeVars
  <2> QED
    BY <1>1, <2>1 DEF LifeInv, LifeTypeOK, DrainInOrder, ClosedByShutdown, lifeVars
<1>2. CASE LifeNext
  BY <1>2, ShutdownKeeps, StartupKeeps, SweepsKeep, JobsKeep, IdleChecksKeep DEF LifeNext
<1> QED
  BY <1>1, <1>2

LEMMA LifeInvHolds == LifeSpec => []LifeInv
BY LifeInvInit, LifeInvStep, PTL DEF LifeSpec

(* In every state of every worker the variables have their types; the      *)
(* number of tasks never falls below zero (lifecycle.ts:25-39).            *)
THEOREM LifeTyping == LifeSpec => []LifeTypeOK
<1>1. LifeInv => LifeTypeOK
  BY DEF LifeInv
<1> QED
  BY <1>1, LifeInvHolds, PTL

(* However many jobs a worker has, whatever stops it and whenever: the     *)
(* queue is not closed over a callback or its acknowledgement, and the     *)
(* database not under a task (lifecycle.ts:46-58, worker.ts:343-354).      *)
THEOREM NothingIsCutOff == LifeSpec => []NothingCutOff
<1>1. LifeInv => NothingCutOff
  <2> SUFFICES ASSUME LifeInv PROVE NothingCutOff
    OBVIOUS
  <2>1. activeTasks = 0 => ~sweeping
    BY RunningFinite DEF LifeInv, LifeTypeOK, TasksCounted
  <2> QED
    BY <2>1 DEF LifeInv, LifeTypeOK, DrainInOrder, ClosedByShutdown, NothingCutOff
<1> QED
  BY <1>1, LifeInvHolds, PTL

-----------------------------------------------------------------------------
(***************************************************************************)
(* Hosted videos.  What keeps two callbacks of one version apart is the    *)
(* attempt id: a claim names one callback, whose output is whole when it   *)
(* has been produced, and an output that a row has belongs to that row.    *)
(***************************************************************************)
Served == {"ready", "superseded"}
Holding == {"ready", "superseded", "delete_pending"}
AtRest == {"idle", "settle", "reject"}

JobsName(jobs) ==
  /\ jobs \in [Jobs -> JobRecords]
  /\ \A j \in Jobs : jobs[j].state # "none" => jobs[j].of \in Versions

(* A callback knows its version until its answer is given. *)
TaskNames(h) ==
  /\ h \in HandlerRecords
  /\ IF h.pc \in AtRest THEN h.task.of = Nil ELSE h.task.of \in Versions

VideoShape ==
  /\ version \in [Versions -> VersionRecords]
  /\ JobsName(job)
  /\ handler \in [Attempts -> HandlerRecords]
  /\ \A w \in Attempts : TaskNames(handler[w])
  /\ whole \subseteq Attempts
  /\ ordered \subseteq Versions /\ aborting \subseteq Versions

(* A row has an output once it was promoted, and no two rows have the same. *)
OutputsOfRows ==
  /\ \A v \in Versions : version[v].output # Nil => In(v, Holding \cup {"deleted"})
  /\ \A u, v \in Versions :
       In(u, Holding) /\ In(v, Holding) /\ version[u].output = version[v].output
         /\ version[u].output # Nil => u = v

(* Who made an output works for its row or has done so. *)
OutputsOfWork ==
  \A v \in Versions : \A w \in Attempts :
    In(v, Holding) /\ version[v].output = w => handler[w].task.of \in {v, Nil}

(* What is claimed and produced is there. *)
ClaimedIsWhole ==
  \A w \in Attempts : handler[w].pc = "produced" /\ Fenced(w) => w \in whole

AbortsServeNothing ==
  \A v \in aborting : version[v].output = Nil /\ ~In(v, Served)

OneCurrent ==
  /\ \A u, v \in Versions : In(u, {"ready"}) /\ In(v, {"ready"}) => u = v
  /\ published => \E v \in Versions : In(v, {"ready"})

VideoInv ==
  /\ VideoShape /\ OutputsOfRows /\ OutputsOfWork /\ ClaimedIsWhole
  /\ AbortsServeNothing /\ OneCurrent /\ OrderedVideoKept /\ ReadyIsWhole

-----------------------------------------------------------------------------
(* How a row changes, other than by being promoted (video/service.ts:184-  *)
(* 225, 377-395; worker.ts:121-160, 215-245).                              *)
RowMoves(v) ==
  /\ version'[v].output = version[v].output
  /\ \/ version'[v].status = version[v].status
     \/ /\ version[v].output = Nil /\ ~In(v, Served) /\ version'[v].status \notin Served
        /\ In(v, {"delete_pending", "deleted"}) =>
             version'[v].status \in {"delete_pending", "deleted"}
     \/ In(v, {"superseded"}) /\ v \notin ordered /\ version'[v].status = "delete_pending"
     \/ In(v, {"delete_pending"}) /\ version'[v].status = "deleted"

Moves ==
  /\ version' \in [Versions -> VersionRecords]
  /\ \A v \in Versions : RowMoves(v)

(* How a callback goes on, other than by being fetched. *)
WorkMoves(w) ==
  /\ TaskNames(handler'[w])
  /\ handler'[w].task.of \in {handler[w].task.of, Nil}
  /\ handler'[w].pc = "produced" => w \in whole' \/ (handler[w].pc = "produced" /\ handler'[w].task.of = handler[w].task.of)

ClaimMoves ==
  \A v \in Versions : version'[v].status = "transcoding" =>
    \/ In(v, {"transcoding"}) /\ version'[v].attempt = version[v].attempt
    \/ \A w \in Attempts : version'[v].attempt = w => handler'[w].pc # "produced"

(* What is removed from the store is no row's and no claim's. *)
StoreMoves ==
  /\ whole' \subseteq Attempts
  /\ \A w \in whole \ whole' :
       /\ \A v \in Versions : In(v, Served) => version[v].output # w
       /\ handler'[w].pc # "produced" \/ ~In(handler'[w].task.of, {"transcoding"})

CourseMoves ==
  /\ \A v \in ordered' \ ordered : v \in Versions /\ In(v, {"ready"})
  /\ \A v \in aborting' \ aborting : v \in Versions /\ In(v, {"upload_pending"})
  /\ ordered \subseteq ordered' 
  /\ published' => published \/ ReadyVersions # {}

LEMMA MovesKeepRows ==
  ASSUME VideoInv, Moves, CourseMoves
  PROVE  OutputsOfRows' /\ OneCurrent' /\ OrderedVideoKept' /\ AbortsServeNothing'
<1> USE DEF VideoInv, Moves, RowMoves, In, Holding, Served
<1>1. \A v \in Versions : version'[v].status = "ready" <=> version[v].status = "ready"
  OBVIOUS
<1>2. \A v \in Versions : version'[v].status \in Holding /\ version[v].output # Nil => version[v].status \in Holding
  OBVIOUS
<1>3. OutputsOfRows'
  BY <1>2 DEF OutputsOfRows
<1>4. OneCurrent'
  BY <1>1 DEF OneCurrent, CourseMoves, ReadyVersions
<1>5. OrderedVideoKept'
  BY DEF OrderedVideoKept, CourseMoves, VideoShape
<1>6. AbortsServeNothing'
  BY DEF AbortsServeNothing, CourseMoves, VideoShape, OutputsOfRows
<1> QED BY <1>3, <1>4, <1>5, <1>6

LEMMA MovesKeepWork ==
  ASSUME VideoInv, Moves, CourseMoves, JobsName(job'),
         handler' \in [Attempts -> HandlerRecords], \A w \in Attempts : WorkMoves(w),
         ClaimMoves, StoreMoves
  PROVE  VideoInv'
<1>1. VideoShape'
  BY DEF VideoInv, VideoShape, Moves, WorkMoves, StoreMoves, CourseMoves
<1>2. OutputsOfWork'
  <2> SUFFICES ASSUME NEW v \in Versions, NEW w \in Attempts,
                      version'[v].status \in Holding, version'[v].output = w
               PROVE  handler'[w].task.of \in {v, Nil}
    BY DEF OutputsOfWork, In
  <2>1. version[v].output = w /\ w # Nil
    BY VideoAssumption DEF VideoAssumption, Moves, RowMoves
  <2>2. version[v].status \in Holding
    BY <2>1 DEF Moves, RowMoves, In, Holding, Served
  <2>3. handler[w].task.of \in {v, Nil}
    BY <2>1, <2>2 DEF VideoInv, OutputsOfWork, In
  <2> QED BY <2>3 DEF WorkMoves
<1>3. ReadyIsWhole'
  <2> SUFFICES ASSUME NEW v \in Versions, version'[v].status \in Served
               PROVE  version'[v].output \in whole'
    BY DEF ReadyIsWhole, In, Served
  <2>1. version[v].status \in Served /\ version'[v].output = version[v].output
    BY DEF Moves, RowMoves, In, Served
  <2>2. version[v].output \in whole
    BY <2>1 DEF VideoInv, ReadyIsWhole, In, Served
  <2> QED BY <2>1, <2>2 DEF StoreMoves, In
<1>4. ClaimedIsWhole'
  <2> SUFFICES ASSUME NEW w \in Attempts, handler'[w].pc = "produced",
                      version'[handler'[w].task.of].status = "transcoding",
                      version'[handler'[w].task.of].attempt = w
               PROVE  w \in whole'
    BY DEF ClaimedIsWhole, Fenced, In
  <2> DEFINE v == handler'[w].task.of
  <2>1. v \in Versions
    BY DEF WorkMoves, TaskNames, AtRest
  <2>2. version[v].status = "transcoding" /\ version[v].attempt = w
    BY <2>1 DEF ClaimMoves, In
  <2>3. CASE handler[w].pc = "produced" /\ handler'[w].task.of = handler[w].task.of
    <3>1. w \in whole
      BY <2>2, <2>3 DEF VideoInv, ClaimedIsWhole, Fenced, In
    <3> QED BY <3>1, <2>2 DEF StoreMoves, In
  <2> QED BY <2>3 DEF WorkMoves
<1> QED BY <1>1, <1>2, <1>3, <1>4, MovesKeepRows DEF VideoInv

-----------------------------------------------------------------------------
(* The rows of which only the status and its companions change. *)
LEMMA StatusOnly ==
  ASSUME VideoInv, NEW v \in Versions, NEW r \in VersionRecords,
         version' = [version EXCEPT ![v] = r],
         r.output = version[v].output,
         \/ r.status = version[v].status
         \/ /\ In(v, {"none", "upload_pending", "queued", "transcoding", "failed"})
            /\ r.status \notin Served
         \/ /\ v \in aborting
            /\ In(v, {"delete_pending", "deleted"}) /\ r.status = "delete_pending"
         \/ In(v, {"superseded"}) /\ v \notin ordered /\ r.status = "delete_pending"
         \/ In(v, {"delete_pending"}) /\ r.status = "deleted"
  PROVE  Moves
<1>1. version' \in [Versions -> VersionRecords]
  BY DEF VideoInv, VideoShape
<1>2. version'[v] = r /\ \A u \in Versions : u # v => version'[u] = version[u]
  BY DEF VideoInv, VideoShape
<1>3. \A u \in Versions : u # v => RowMoves(u)
  BY <1>2 DEF RowMoves
<1>4. RowMoves(v)
  <2>1. In(v, {"none", "upload_pending", "queued", "transcoding", "failed"}) => version[v].output = Nil
    BY DEF VideoInv, OutputsOfRows, In, Holding
  <2>2. v \in aborting => version[v].output = Nil /\ ~In(v, Served)
    BY DEF VideoInv, AbortsServeNothing
  <2> QED BY <1>2, <2>1, <2>2 DEF RowMoves, In, Served
<1> QED BY <1>1, <1>3, <1>4 DEF Moves

LEMMA RowsRest ==
  ASSUME VideoInv, UNCHANGED version
  PROVE  Moves
BY DEF VideoInv, VideoShape, Moves, RowMoves

(* Callbacks and store as they were. *)
LEMMA WorkRests ==
  ASSUME VideoInv, UNCHANGED <<handler, whole>>
  PROVE  /\ handler' \in [Attempts -> HandlerRecords]
         /\ \A w \in Attempts : WorkMoves(w)
         /\ StoreMoves
BY DEF VideoInv, VideoShape, WorkMoves, StoreMoves

-----------------------------------------------------------------------------
(* The queue *)

LEMMA PutNames ==
  ASSUME VideoInv, NEW j \in Jobs, NEW v \in Versions, NEW resume \in BOOLEAN,
         NEW left \in 0..RetryLimit, PutJob(j, v, resume, left)
  PROVE  JobsName(job')
<1>1. [state |-> "waiting", of |-> v, count |-> 0, resume |-> resume, left |-> left] \in JobRecords
  <2>1. 0 \in 0..RetryLimit
    BY VideoAssumption DEF VideoAssumption
  <2> QED BY <2>1 DEF JobRecords
<1> QED BY <1>1 DEF VideoInv, VideoShape, JobsName, PutJob

LEMMA NoJobNames ==
  ASSUME VideoInv, NEW j \in Jobs, job' = [job EXCEPT ![j] = NoJob]
  PROVE  JobsName(job')
<1>1. NoJob \in JobRecords
  <2>1. 0 \in 0..RetryLimit
    BY VideoAssumption DEF VideoAssumption
  <2> QED BY <2>1 DEF JobRecords, NoJob
<1> QED BY <1>1 DEF VideoInv, VideoShape, JobsName, NoJob

LEMMA TryAgainNames ==
  ASSUME VideoInv, NEW j \in Jobs, job[j].state = "active", TryAgain(j)
  PROVE  JobsName(job')
<1>1. job[j] \in JobRecords /\ job[j].of \in Versions
  BY DEF VideoInv, VideoShape, JobsName
<1>2. CASE job[j].count < RetryLimit
  <2> DEFINE r == [job[j] EXCEPT !.state = "waiting", !.count = job[j].count + 1]
  <2>1. job[j].count + 1 \in 0..RetryLimit
    BY <1>1, <1>2, VideoAssumption DEF JobRecords, VideoAssumption
  <2>2. r \in JobRecords /\ r.of \in Versions
    BY <1>1, <2>1 DEF JobRecords
  <2>3. job' = [job EXCEPT ![j] = IF job[j].count < RetryLimit THEN r ELSE NoJob]
    BY DEF TryAgain
  <2> HIDE DEF r
  <2>4. job' = [job EXCEPT ![j] = r]
    BY <1>2, <2>3
  <2> QED BY <2>2, <2>4 DEF VideoInv, VideoShape, JobsName
<1>3. CASE ~(job[j].count < RetryLimit)
  BY <1>3, NoJobNames DEF TryAgain
<1> QED BY <1>2, <1>3

LEMMA EnqueueNames ==
  ASSUME VideoInv, NEW v \in Versions, Enqueue(v)
  PROVE  JobsName(job')
<1>1. CASE UNCHANGED jobVars
  BY <1>1 DEF VideoInv, VideoShape, jobVars
<1>2. CASE \E j \in FreeJobs : PutJob(j, v, FALSE, RetryLimit)
  <2>1. PICK j \in FreeJobs : PutJob(j, v, FALSE, RetryLimit)
    BY <1>2
  <2>2. RetryLimit \in 0..RetryLimit /\ FALSE \in BOOLEAN /\ j \in Jobs
    BY VideoAssumption DEF VideoAssumption, FreeJobs
  <2> QED BY <2>1, <2>2, PutNames
<1> QED BY <1>1, <1>2 DEF Enqueue

LEMMA JobsRest ==
  ASSUME VideoInv, UNCHANGED job
  PROVE  JobsName(job')
BY DEF VideoInv, VideoShape

-----------------------------------------------------------------------------
(* The trainer, moderators, buyers, time, sweeps *)

LEMMA TrainerKeeps ==
  ASSUME VideoInv, NEW v \in Versions,
         Create(v) \/ Complete(v) \/ Verify(v) \/ Retry(v)
           \/ AbortBegin(v) \/ AbortEnd(v) \/ Delete(v)
  PROVE  VideoInv' /\ Moves
<1> USE DEF courseVars, sourceVars, jobVars, workerVars
<1>0. version[v] \in VersionRecords
  BY DEF VideoInv, VideoShape
<1>1. CASE Create(v)
  <2> DEFINE r == [version[v] EXCEPT !.status = "upload_pending"]
  <2>1. r \in VersionRecords /\ r.output = version[v].output /\ r.status = "upload_pending"
        /\ version' = [version EXCEPT ![v] = r]
    BY <1>0, <1>1 DEF Create, Becomes, VersionRecords, Statuses
  <2> HIDE DEF r
  <2>2. Moves
    BY <1>1, <2>1, StatusOnly DEF Create, In, Served
  <2>3. ClaimMoves
    BY <2>1 DEF ClaimMoves, In, VideoInv, VideoShape
  <2>4. CourseMoves
    BY <1>1 DEF Create, CourseMoves
  <2> QED BY <1>1, <2>2, <2>3, <2>4, WorkRests, JobsRest, MovesKeepWork DEF Create
<1>2. CASE Complete(v)
  BY <1>2, RowsRest, WorkRests, JobsRest, MovesKeepWork DEF Complete, ClaimMoves, CourseMoves, In
<1>3. CASE Verify(v)
  <2> DEFINE r == [version[v] EXCEPT !.status = "queued", !.terminal = FALSE]
  <2>1. r \in VersionRecords /\ r.output = version[v].output /\ r.status = "queued"
        /\ version' = [version EXCEPT ![v] = r]
    BY <1>0, <1>3 DEF Verify, VideoInv, VideoShape, VersionRecords, Statuses
  <2> HIDE DEF r
  <2>2. Moves
    BY <1>3, <2>1, StatusOnly DEF Verify, In, Served
  <2>3. ClaimMoves
    BY <2>1 DEF ClaimMoves, In, VideoInv, VideoShape
  <2>4. CourseMoves
    BY <1>3 DEF Verify, CourseMoves
  <2> QED BY <1>3, <2>2, <2>3, <2>4, WorkRests, EnqueueNames, MovesKeepWork DEF Verify
<1>4. CASE Retry(v)
  <2>1. Moves /\ ClaimMoves
    <3>1. CASE In(v, {"failed", "queued"}) /\ Becomes(v, "queued")
      <4> DEFINE r == [version[v] EXCEPT !.status = "queued"]
      <4>1. r \in VersionRecords /\ r.output = version[v].output /\ r.status = "queued"
            /\ version' = [version EXCEPT ![v] = r]
        BY <1>0, <3>1 DEF Becomes, VersionRecords, Statuses
      <4> HIDE DEF r
      <4>2. Moves
        BY <3>1, <4>1, StatusOnly DEF In, Served
      <4>3. ClaimMoves
        BY <4>1 DEF ClaimMoves, In, VideoInv, VideoShape
      <4> QED BY <4>2, <4>3
    <3>2. CASE UNCHANGED version
      BY <3>2, RowsRest DEF ClaimMoves, In
    <3> QED BY <1>4, <3>1, <3>2 DEF Retry
  <2>2. CourseMoves
    BY <1>4 DEF Retry, CourseMoves
  <2> QED BY <1>4, <2>1, <2>2, WorkRests, EnqueueNames, MovesKeepWork DEF Retry
<1>5. CASE AbortBegin(v)
  BY <1>5, RowsRest, WorkRests, JobsRest, MovesKeepWork DEF AbortBegin, ClaimMoves, CourseMoves, In
<1>6. CASE AbortEnd(v)
  <2>1. Moves /\ ClaimMoves
    <3>1. CASE ~In(v, {"ready"}) /\ Becomes(v, "delete_pending")
      <4> DEFINE r == [version[v] EXCEPT !.status = "delete_pending"]
      <4>1. r \in VersionRecords /\ r.output = version[v].output /\ r.status = "delete_pending"
            /\ version' = [version EXCEPT ![v] = r]
        BY <1>0, <3>1 DEF Becomes, VersionRecords, Statuses
      <4>a. version[v].status \in Statuses /\ ~In(v, Served) /\ v \in aborting
        BY <1>0, <1>6 DEF VersionRecords, VideoInv, AbortsServeNothing, AbortEnd
      <4> HIDE DEF r
      <4>2. Moves
        BY <4>a, <4>1, StatusOnly DEF In, Served, Statuses
      <4>3. ClaimMoves
        BY <4>1 DEF ClaimMoves, In, VideoInv, VideoShape
      <4> QED BY <4>2, <4>3
    <3>2. CASE UNCHANGED version
      BY <3>2, RowsRest DEF ClaimMoves, In
    <3> QED BY <1>6, <3>1, <3>2 DEF AbortEnd
  <2>2. CourseMoves
    BY <1>6 DEF AbortEnd, CourseMoves
  <2> QED BY <1>6, <2>1, <2>2, WorkRests, JobsRest, MovesKeepWork DEF AbortEnd
<1>7. CASE Delete(v)
  <2> DEFINE r == [version[v] EXCEPT !.status = "delete_pending"]
  <2>1. r \in VersionRecords /\ r.output = version[v].output /\ r.status = "delete_pending"
        /\ version' = [version EXCEPT ![v] = r]
    BY <1>0, <1>7 DEF Delete, Becomes, VersionRecords, Statuses
  <2> HIDE DEF r
  <2>2. Moves
    BY <1>7, <2>1, StatusOnly DEF Delete, Deletable, In, Served
  <2>3. ClaimMoves
    BY <2>1 DEF ClaimMoves, In, VideoInv, VideoShape
  <2>4. CourseMoves
    BY <1>7 DEF Delete, CourseMoves
  <2> QED BY <1>7, <2>2, <2>3, <2>4, WorkRests, JobsRest, MovesKeepWork DEF Delete
<1> QED BY <1>1, <1>2, <1>3, <1>4, <1>5, <1>6, <1>7

LEMMA OthersKeep ==
  ASSUME VideoInv,
         \/ Publish
         \/ \E v \in Versions : Order(v) \/ PassDeadline(v) \/ CollectObject(v)
         \/ \E j \in Jobs : Lapse(j)
         \/ UNCHANGED videoVars
  PROVE  VideoInv' /\ Moves
<1> USE DEF courseVars, sourceVars, jobVars, workerVars, videoVars
<1>1. UNCHANGED <<version, handler, whole>>
  BY DEF Publish, Order, PassDeadline, CollectObject, Lapse
<1>2. ClaimMoves
  BY <1>1 DEF ClaimMoves, In
<1>3. CourseMoves
  BY DEF CourseMoves, Publish, Order, PassDeadline, CollectObject, Lapse, ReadyVersions
<1>4. JobsName(job')
  <2>1. CASE \E j \in Jobs : Lapse(j)
    BY <2>1, TryAgainNames DEF Lapse
  <2>2. CASE UNCHANGED job
    BY <2>2, JobsRest
  <2> QED BY <2>1, <2>2 DEF Publish, Order, PassDeadline, CollectObject
<1> QED BY <1>1, <1>2, <1>3, <1>4, RowsRest, WorkRests, MovesKeepWork

LEMMA SweepKeeps ==
  ASSUME VideoInv, NEW v \in Versions, Sweep(v) \/ SweepStops(v)
  PROVE  VideoInv' /\ Moves
<1> USE DEF courseVars, sourceVars, jobVars, workerVars
<1>0. version[v] \in VersionRecords /\ In(v, {"delete_pending"})
  BY DEF VideoInv, VideoShape, Sweep, SweepStops
<1>1. Moves /\ ClaimMoves
  <2>1. CASE Becomes(v, "deleted")
    <3> DEFINE r == [version[v] EXCEPT !.status = "deleted"]
    <3>1. r \in VersionRecords /\ r.output = version[v].output /\ r.status = "deleted"
          /\ version' = [version EXCEPT ![v] = r]
      BY <1>0, <2>1 DEF Becomes, VersionRecords, Statuses
    <3> HIDE DEF r
    <3>2. Moves
      BY <1>0, <3>1, StatusOnly
    <3>3. ClaimMoves
      BY <3>1 DEF ClaimMoves, In, VideoInv, VideoShape
    <3> QED BY <3>2, <3>3
  <2>2. CASE UNCHANGED version
    BY <2>2, RowsRest DEF ClaimMoves, In
  <2> QED BY <2>1, <2>2 DEF Sweep, SweepStops
<1>2. StoreMoves
  <2>1. whole' = whole \ Below(v) /\ handler' = handler
    BY DEF Sweep, SweepStops
  <2>2. ASSUME NEW w \in Attempts, w \in Below(v), NEW u \in Versions, In(u, Served)
        PROVE  version[u].output # w
    <3>1. SUFFICES ASSUME version[u].output = w PROVE FALSE
      OBVIOUS
    <3>2. w # Nil /\ v # u /\ In(u, Holding) /\ In(v, Holding)
      BY <1>0, <2>2, VideoAssumption DEF VideoAssumption, In, Served, Holding
    <3>3. handler[w].task.of \in {u, Nil}
      BY <3>1, <3>2 DEF VideoInv, OutputsOfWork
    <3>4. version[v].output = w
      BY <2>2, <3>2, <3>3, VideoAssumption DEF Below, VideoAssumption
    <3> QED BY <3>1, <3>2, <3>4 DEF VideoInv, OutputsOfRows
  <2>3. ASSUME NEW w \in Attempts, w \in Below(v), handler[w].pc = "produced",
               In(handler[w].task.of, {"transcoding"})
        PROVE  FALSE
    <3>1. handler[w].task.of # v
      BY <1>0, <2>3 DEF In
    <3>2. handler[w].task.of \in Versions
      BY <2>3 DEF VideoInv, VideoShape, TaskNames, AtRest
    <3>3. version[v].output = w /\ In(v, Holding)
      BY <1>0, <2>3, <3>1 DEF Below, In, Holding
    <3> QED BY <3>1, <3>2, <3>3, VideoAssumption DEF VideoInv, OutputsOfWork, VideoAssumption
  <2> QED BY <2>1, <2>2, <2>3 DEF StoreMoves, VideoInv, VideoShape
<1>3. CourseMoves /\ JobsName(job') /\ UNCHANGED handler
  BY DEF CourseMoves, Sweep, SweepStops, VideoInv, VideoShape
<1>4. \A w \in Attempts : WorkMoves(w)
  <2>1. \A w \in Attempts : TaskNames(handler[w])
    BY DEF VideoInv, VideoShape
  <2> QED BY <1>3, <2>1 DEF WorkMoves
<1>5. handler' \in [Attempts -> HandlerRecords]
  BY <1>3 DEF VideoInv, VideoShape
<1> QED BY <1>1, <1>2, <1>3, <1>4, <1>5, MovesKeepWork

-----------------------------------------------------------------------------
(* The worker's callback *)

PCs == {"idle", "check", "takeover", "claim", "running", "produced", "failing",
        "invalid", "drop", "retreat", "settle", "reject"}

(* What a step of a callback leaves of what it knows. *)
LEMMA ToFacts ==
  ASSUME VideoInv, NEW w \in Attempts, handler[w].pc \notin AtRest, NEW pc \in PCs \ {"idle"}, Continue(w, pc)
  PROVE  /\ handler' \in [Attempts -> HandlerRecords]
         /\ handler'[w].pc = pc
         /\ handler'[w].task.of = IF pc \in {"settle", "reject"} THEN Nil ELSE handler[w].task.of
         /\ \A x \in Attempts : x # w => handler'[x] = handler[x]
         /\ \A x \in Attempts : TaskNames(handler'[x])
<1> DEFINE t == IF pc \in {"settle", "reject"} THEN [NoJob EXCEPT !.count = handler[w].task.count]
                ELSE IF pc = "running" THEN [handler[w].task EXCEPT !.resume = FALSE, !.left = 0]
                ELSE handler[w].task
           h == [handler[w] EXCEPT !.pc = pc, !.task = t]
<1>1. handler[w] \in HandlerRecords /\ handler[w].task \in JobRecords /\ handler[w].task.of \in Versions
  BY DEF VideoInv, VideoShape, HandlerRecords, TaskNames, AtRest
<1>0. 0 \in 0..RetryLimit
  BY VideoAssumption DEF VideoAssumption
<1>2. t \in JobRecords /\ t.of = IF pc \in {"settle", "reject"} THEN Nil ELSE handler[w].task.of
  <2>1. CASE pc \in {"settle", "reject"}
    BY <1>1, <1>0, <2>1 DEF JobRecords, NoJob
  <2>2. CASE pc = "running"
    BY <1>1, <1>0, <2>2 DEF JobRecords
  <2>3. CASE pc \notin {"settle", "reject", "running"}
    BY <1>1, <2>3
  <2> QED BY <2>1, <2>2, <2>3
<1>3. handler' = [handler EXCEPT ![w] = h]
  BY DEF Continue
<1> HIDE DEF t
<1>4. h \in HandlerRecords /\ h.pc = pc /\ h.task = t
  BY <1>1, <1>2 DEF HandlerRecords, PCs
<1> HIDE DEF h
<1>5. handler' \in [Attempts -> HandlerRecords] /\ handler'[w] = h
      /\ \A x \in Attempts : x # w => handler'[x] = handler[x]
  BY <1>3, <1>4 DEF VideoInv, VideoShape
<1>6. TaskNames(h)
  BY <1>1, <1>2, <1>4 DEF TaskNames, AtRest, PCs
<1>7. \A x \in Attempts : TaskNames(handler'[x])
  BY <1>5, <1>6 DEF VideoInv, VideoShape
<1> QED BY <1>2, <1>4, <1>5, <1>7

(* A step that goes on. *)
LEMMA ToMoves ==
  ASSUME VideoInv, NEW w \in Attempts, handler[w].pc \notin AtRest, NEW pc \in PCs \ {"idle"}, Continue(w, pc),
         pc = "produced" => w \in whole'
  PROVE  /\ handler' \in [Attempts -> HandlerRecords]
         /\ \A x \in Attempts : WorkMoves(x)
<1>1. ASSUME NEW x \in Attempts PROVE WorkMoves(x)
  <2>1. CASE x = w
    BY <2>1, ToFacts DEF WorkMoves
  <2>2. CASE x # w
    BY <2>2, ToFacts DEF WorkMoves
  <2> QED BY <2>1, <2>2
<1> QED BY <1>1, ToFacts

(* The end of a callback, however it came. *)
LEMMA EndMoves ==
  ASSUME VideoInv, NEW w \in Attempts, handler' = [handler EXCEPT ![w] = Resting]
  PROVE  /\ handler' \in [Attempts -> HandlerRecords]
         /\ \A x \in Attempts : WorkMoves(x)
<1>0. 0 \in 0..RetryLimit
  BY VideoAssumption DEF VideoAssumption
<1>1. Resting \in HandlerRecords /\ TaskNames(Resting) /\ Resting.pc = "idle" /\ Resting.task.of = Nil
  BY <1>0 DEF Resting, NoJob, HandlerRecords, JobRecords, TaskNames, AtRest
<1>2. handler' \in [Attempts -> HandlerRecords] /\ handler'[w] = Resting
      /\ \A x \in Attempts : x # w => handler'[x] = handler[x]
  BY <1>1 DEF VideoInv, VideoShape
<1>3. \A x \in Attempts : TaskNames(handler[x])
  BY DEF VideoInv, VideoShape
<1> QED BY <1>1, <1>2, <1>3 DEF WorkMoves

LEMMA StoreRests ==
  ASSUME VideoInv, UNCHANGED whole
  PROVE  StoreMoves
BY DEF VideoInv, VideoShape, StoreMoves

LEMMA CourseRests ==
  ASSUME UNCHANGED <<published, ordered, aborting>>
  PROVE  CourseMoves
BY DEF CourseMoves

LEMMA ClaimsRest ==
  ASSUME UNCHANGED version
  PROVE  ClaimMoves
BY DEF ClaimMoves, In

LEMMA EasyStepsKeep ==
  ASSUME VideoInv, NEW w \in Attempts,
         Check(w) \/ Throw(w) \/ Produce(w) \/ RecordFails(w) \/ SettleJob(w) \/ Crash(w)
  PROVE  VideoInv' /\ Moves
<1> USE DEF courseVars, sourceVars, jobVars, workerVars
<1>1. UNCHANGED <<version, published, ordered, aborting>>
  BY DEF Check, Throw, Produce, RecordFails, SettleJob, Crash
<1>2. Moves /\ ClaimMoves /\ CourseMoves
  BY <1>1, RowsRest, ClaimsRest, CourseRests
<1>3. CASE Check(w) \/ Throw(w) \/ RecordFails(w)
  <2>1. UNCHANGED <<job, whole>>
    BY <1>3 DEF Check, Throw, RecordFails
  <2>2. PICK pc \in PCs \ {"idle", "produced"} : Continue(w, pc) /\ handler[w].pc \notin AtRest
    BY <1>3 DEF Check, Throw, RecordFails, Unclaimed, AtRest, PCs
  <2> QED BY <1>2, <2>1, <2>2, ToMoves, StoreRests, JobsRest, MovesKeepWork
<1>4. CASE Produce(w)
  <2>1. UNCHANGED job /\ handler[w].pc \notin AtRest
    BY <1>4 DEF Produce, AtRest
  <2>2. PICK pc \in PCs \ {"idle"} : Continue(w, pc) /\ (pc = "produced" => w \in whole')
    BY <1>4 DEF Produce, PCs
  <2>3. StoreMoves
    BY <1>4 DEF Produce, StoreMoves, VideoInv, VideoShape
  <2> QED BY <1>2, <2>1, <2>2, <2>3, ToMoves, JobsRest, MovesKeepWork
<1>5. CASE SettleJob(w)
  <2>1. handler' = [handler EXCEPT ![w] = Resting] /\ UNCHANGED whole
    BY <1>5 DEF SettleJob
  <2>2. JobsName(job')
    <3>1. CASE UNCHANGED job
      BY <3>1, JobsRest
    <3>2. CASE job' # job
      <4> DEFINE j == handler[w].job
      <4>1. job[j].state = "active" /\ (TryAgain(j) \/ job' = [job EXCEPT ![j] = NoJob])
        BY <1>5, <3>2 DEF SettleJob
      <4>2. j \in Jobs \/ j = Nil
        BY DEF VideoInv, VideoShape, HandlerRecords
      <4>3. CASE j \in Jobs
        BY <4>1, <4>3, TryAgainNames, NoJobNames
      <4>4. CASE j = Nil
        <5>1. Nil \notin Jobs
          BY VideoAssumption DEF VideoAssumption
        <5>2. job \in [Jobs -> JobRecords]
          BY DEF VideoInv, VideoShape, JobsName
        <5>3. job' = job
          BY <4>1, <4>4, <5>1, <5>2 DEF TryAgain
        <5> QED BY <3>2, <5>3
      <4> QED BY <4>2, <4>3, <4>4
    <3> QED BY <3>1, <3>2
  <2> QED BY <1>2, <2>1, <2>2, EndMoves, StoreRests, MovesKeepWork
<1>6. CASE Crash(w)
  <2>1. handler' = [handler EXCEPT ![w] = Resting] /\ UNCHANGED <<whole, job>>
    BY <1>6 DEF Crash
  <2> QED BY <1>2, <2>1, EndMoves, StoreRests, JobsRest, MovesKeepWork
<1> QED BY <1>3, <1>4, <1>5, <1>6

LEMMA RowStepsKeep ==
  ASSUME VideoInv, NEW w \in Attempts, Takeover(w) \/ Claim(w) \/ Record(w)
  PROVE  VideoInv' /\ Moves
<1> USE DEF courseVars, sourceVars, jobVars, workerVars
<1> DEFINE v == handler[w].task.of
<1>1. UNCHANGED <<whole, published, ordered, aborting>>
  BY DEF Takeover, Claim, Record
<1>2. handler[w].pc \notin AtRest
  BY DEF Takeover, Claim, Record, AtRest
<1>3. v \in Versions /\ version[v] \in VersionRecords /\ handler[w].task.left \in 0..RetryLimit
  BY <1>2 DEF VideoInv, VideoShape, TaskNames, HandlerRecords, JobRecords
<1> HIDE DEF v
<1>4. PICK pc \in PCs \ {"idle", "produced"} : Continue(w, pc)
  BY DEF Takeover, Claim, Record, PCs
<1>5. handler' \in [Attempts -> HandlerRecords] /\ \A x \in Attempts : WorkMoves(x)
  BY <1>2, <1>4, ToMoves
<1>6. JobsName(job')
  <2>1. CASE Takeover(w) /\ handler[w].task.left > 0
    <3>1. PICK j \in FreeJobs : PutJob(j, v, TRUE, handler[w].task.left - 1)
      BY <2>1 DEF Takeover, v
    <3>2. handler[w].task.left - 1 \in 0..RetryLimit /\ j \in Jobs /\ TRUE \in BOOLEAN
      BY <1>3, <2>1, VideoAssumption DEF FreeJobs, VideoAssumption
    <3> QED BY <1>3, <3>1, <3>2, PutNames
  <2>2. CASE UNCHANGED job
    BY <2>2, JobsRest
  <2> QED BY <2>1, <2>2 DEF Takeover, Claim, Record
<1>7. Moves /\ ClaimMoves
  <2>1. CASE UNCHANGED version
    BY <2>1, RowsRest, ClaimsRest
  <2>2. CASE Claim(w) /\ version' # version
    <3> DEFINE r == [version[v] EXCEPT !.status = "transcoding", !.attempt = w]
    <3>1. In(v, {"queued", "transcoding"}) /\ Continue(w, "running")
          /\ version' = [version EXCEPT ![v].status = "transcoding", ![v].attempt = w]
      BY <2>2 DEF Claim, v, In
    <3>2. r \in VersionRecords /\ r.output = version[v].output /\ r.status = "transcoding" /\ r.attempt = w
          /\ version' = [version EXCEPT ![v] = r]
      BY <1>3, <3>1 DEF VideoInv, VideoShape, VersionRecords, Statuses
    <3> HIDE DEF r
    <3>3. Moves
      BY <1>3, <3>1, <3>2, StatusOnly DEF In, Served
    <3>4. handler'[w].pc = "running"
      BY <1>2, <3>1, ToFacts DEF PCs
    <3>5. ClaimMoves
      BY <1>3, <3>2, <3>4 DEF ClaimMoves, In, VideoInv, VideoShape
    <3> QED BY <3>3, <3>5
  <2>3. CASE (Takeover(w) \/ Record(w)) /\ version' # version
    <3>1. PICK s \in {"failed", "queued"}, d \in BOOLEAN :
             version[v].status = "transcoding"
             /\ version' = [version EXCEPT ![v] = [version[v] EXCEPT !.status = s, !.attempt = Nil, !.terminal = d]]
      <4>1. CASE Takeover(w)
        <5>1. version' = [version EXCEPT ![v] = IF version[v].status = "transcoding"
                 THEN [version[v] EXCEPT !.status = "failed", !.attempt = Nil, !.terminal = TRUE]
                 ELSE version[v]]
          BY <2>3, <4>1 DEF Takeover, v
        <5>2. version[v].status = "transcoding"
          BY <1>3, <2>3, <5>1 DEF VideoInv, VideoShape
        <5>3. version' = [version EXCEPT ![v] = [version[v] EXCEPT !.status = "failed", !.attempt = Nil, !.terminal = TRUE]]
          BY <5>1, <5>2
        <5> QED BY ZenonT(60), <5>2, <5>3
      <4>2. CASE Record(w)
        <5> DEFINE terminal == handler[w].pc = "invalid" \/ handler[w].task.count >= RetryLimit
        <5>1. version' = [version EXCEPT ![v] = IF Fenced(w)
                 THEN [version[v] EXCEPT !.status = IF terminal THEN "failed" ELSE "queued",
                         !.attempt = Nil, !.terminal = terminal]
                 ELSE version[v]]
          BY <4>2 DEF Record, v
        <5>0. terminal \in BOOLEAN
          OBVIOUS
        <5> HIDE DEF terminal
        <5>2. Fenced(w)
          BY <1>3, <2>3, <5>1 DEF VideoInv, VideoShape
        <5>3. version[v].status = "transcoding"
          BY <5>2 DEF Fenced, In, v
        <5>4. CASE terminal = TRUE
          <6>1. version' = [version EXCEPT ![v] = [version[v] EXCEPT !.status = "failed", !.attempt = Nil, !.terminal = TRUE]]
            BY <5>0, <5>1, <5>2, <5>4
          <6> QED BY <5>3, <6>1
        <5>5. CASE terminal = FALSE
          <6>1. version' = [version EXCEPT ![v] = [version[v] EXCEPT !.status = "queued", !.attempt = Nil, !.terminal = FALSE]]
            BY <5>0, <5>1, <5>2, <5>5
          <6> QED BY <5>3, <6>1
        <5> QED BY <5>0, <5>4, <5>5
      <4> QED BY <2>3, <4>1, <4>2
    <3> DEFINE r == [version[v] EXCEPT !.status = s, !.attempt = Nil, !.terminal = d]
    <3>2. r \in VersionRecords /\ r.output = version[v].output /\ r.status = s
          /\ version' = [version EXCEPT ![v] = r]
      BY <1>3, <3>1 DEF VersionRecords, Statuses
    <3> HIDE DEF r
    <3>3. Moves
      BY <1>3, <3>1, <3>2, StatusOnly DEF In, Served
    <3>4. ClaimMoves
      BY <1>3, <3>2 DEF ClaimMoves, In, VideoInv, VideoShape
    <3> QED BY SMTT(40), <3>3, <3>4
  <2> QED BY <2>1, <2>2, <2>3
<1> QED BY <1>1, <1>5, <1>6, <1>7, StoreRests, CourseRests, MovesKeepWork

(* A prefix that no row serves and no claim stands on is given up (worker.ts:247-256). *)
LEMMA DiscardKeeps ==
  ASSUME VideoInv, NEW w \in Attempts, Discard(w)
  PROVE  VideoInv' /\ Moves
<1> USE DEF courseVars, sourceVars, jobVars, workerVars
<1>1. UNCHANGED <<version, job, published, ordered, aborting>>
  BY DEF Discard
<1>2. handler[w].pc \in {"drop", "retreat"} /\ handler[w].task.of \in Versions
  BY DEF Discard, VideoInv, VideoShape, TaskNames, AtRest
<1>3. PICK pc \in {"settle", "reject"} : Continue(w, pc)
  BY DEF Discard
<1>4. pc \in PCs \ {"idle", "produced"} /\ handler[w].pc \notin AtRest
  BY <1>2, <1>3 DEF PCs, AtRest
<1>5. handler' \in [Attempts -> HandlerRecords] /\ \A x \in Attempts : WorkMoves(x)
  BY <1>3, <1>4, ToMoves
<1>6. handler'[w].pc = pc
  BY <1>3, <1>4, ToFacts
<1>7. StoreMoves
  <2>1. CASE whole' = whole
    BY <2>1, StoreRests
  <2>2. CASE whole' = whole \ {w} /\ ~Referenced(w)
    <3>1. ASSUME NEW v \in Versions, In(v, Served), version[v].output = w
          PROVE  FALSE
      <4>1. In(v, Holding)
        BY <3>1 DEF In, Served, Holding
      <4>2. handler[w].task.of = v
        BY <1>2, <3>1, <4>1, VideoAssumption DEF VideoInv, OutputsOfWork, VideoAssumption
      <4> QED BY <2>2, <3>1, <4>2 DEF Referenced, In, Served
    <3>2. handler'[w].pc # "produced"
      BY <1>3, <1>6
    <3> QED BY <2>2, <3>1, <3>2 DEF StoreMoves, VideoInv, VideoShape
  <2> QED BY <2>1, <2>2 DEF Discard
<1> QED BY <1>1, <1>5, <1>7, RowsRest, ClaimsRest, CourseRests, JobsRest, MovesKeepWork

(* A new callback has an id that no output has (worker.ts:108-112). *)
LEMMA FetchKeeps ==
  ASSUME VideoInv, NEW w \in Attempts, NEW j \in Jobs, Fetch(w, j)
  PROVE  VideoInv' /\ Moves
<1> USE DEF courseVars, sourceVars, jobVars, workerVars
<1>1. UNCHANGED <<version, published, ordered, aborting>> /\ whole' = whole \ {w}
  BY DEF Fetch
<1>2. job[j] \in JobRecords /\ job[j].of \in Versions /\ job[j].state = "waiting"
  BY DEF Fetch, VideoInv, VideoShape, JobsName
<1>3. JobsName(job')
  <2> DEFINE r == [job[j] EXCEPT !.state = "active"]
  <2>1. r \in JobRecords /\ r.of = job[j].of /\ job' = [job EXCEPT ![j] = r]
    BY <1>2 DEF Fetch, VideoInv, VideoShape, JobsName, JobRecords
  <2> HIDE DEF r
  <2> QED BY <1>2, <2>1 DEF VideoInv, VideoShape, JobsName
<1>4. PICK pc \in {"check", "claim"} : handler' = [handler EXCEPT ![w] = [pc |-> pc, job |-> j, task |-> job[j]]]
  BY DEF Fetch
<1> DEFINE h == [pc |-> pc, job |-> j, task |-> job[j]]
<1>5. h \in HandlerRecords /\ h.pc = pc /\ h.task.of = job[j].of
  BY <1>2, <1>4 DEF HandlerRecords
<1>6. handler' = [handler EXCEPT ![w] = h]
  BY <1>4
<1> HIDE DEF h
<1>7. handler' \in [Attempts -> HandlerRecords] /\ handler'[w] = h
      /\ \A x \in Attempts : x # w => handler'[x] = handler[x]
  BY <1>5, <1>6 DEF VideoInv, VideoShape
<1>8. TaskNames(h)
  BY <1>2, <1>4, <1>5 DEF TaskNames, AtRest
<1>9. VideoShape'
  BY <1>1, <1>3, <1>7, <1>8 DEF VideoInv, VideoShape
<1>10. \A v \in Versions : In(v, Holding) => version[v].output # w
  BY DEF Fetch, Fresh, Holding
<1>11. OutputsOfWork'
  BY <1>1, <1>7, <1>10 DEF VideoInv, OutputsOfWork, In
<1>12. ClaimedIsWhole'
  <2> SUFFICES ASSUME NEW x \in Attempts, handler'[x].pc = "produced", Fenced(x)'
               PROVE  x \in whole'
    BY DEF ClaimedIsWhole
  <2>1. x # w
    BY <1>4, <1>5, <1>7
  <2>2. handler'[x] = handler[x]
    BY <1>7, <2>1
  <2>3. Fenced(x)
    BY <1>1, <2>2 DEF Fenced, In
  <2>4. x \in whole
    BY <2>2, <2>3 DEF VideoInv, ClaimedIsWhole
  <2> QED BY <1>1, <2>1, <2>4
<1>13. ReadyIsWhole'
  <2> SUFFICES ASSUME NEW v \in Versions, In(v, Served)
               PROVE  version[v].output \in whole \ {w}
    BY <1>1 DEF ReadyIsWhole, In, Served
  <2>1. version[v].output \in whole /\ In(v, Holding)
    BY DEF VideoInv, ReadyIsWhole, In, Served, Holding
  <2> QED BY <1>10, <2>1
<1>14. Moves /\ CourseMoves
  BY <1>1, RowsRest, CourseRests
<1> QED BY <1>9, <1>11, <1>12, <1>13, <1>14, MovesKeepRows DEF VideoInv

-----------------------------------------------------------------------------
(* A claim that holds: the output is whole, and it becomes the row's (worker.ts:143-213). *)
Promotes(w) ==
  /\ handler[w].pc = "produced" /\ Fenced(w) /\ handler[w].task.of \notin aborting
  /\ version' = Promoted(w)

PromotedFacts(w, v) ==
  /\ version'[v].status = "ready" /\ version'[v].output = w
  /\ \A u \in Versions : u # v =>
       /\ version'[u].output = version[u].output /\ version'[u].attempt = version[u].attempt
       /\ version'[u].status = IF In(u, {"ready"}) THEN "superseded" ELSE version[u].status

LEMMA PromotedIs ==
  ASSUME VideoInv, NEW w \in Attempts, Promotes(w)
  PROVE  version' \in [Versions -> VersionRecords] /\ PromotedFacts(w, handler[w].task.of)
<1> DEFINE v == handler[w].task.of
<1>1. v \in Versions /\ version \in [Versions -> VersionRecords]
  BY DEF Promotes, VideoInv, VideoShape, TaskNames, AtRest
<1>2. version' = [u \in Versions |->
        IF u = v THEN [version[u] EXCEPT !.status = "ready", !.attempt = Nil, !.output = w]
        ELSE IF In(u, {"ready"}) THEN [version[u] EXCEPT !.status = "superseded"] ELSE version[u]]
  BY DEF Promotes, Promoted, ReadyVersions
<1> HIDE DEF v
<1>3. ASSUME NEW u \in Versions
      PROVE  /\ version'[u] \in VersionRecords
             /\ u = v => version'[u].status = "ready" /\ version'[u].output = w
             /\ u # v => /\ version'[u].output = version[u].output /\ version'[u].attempt = version[u].attempt
                         /\ version'[u].status = IF In(u, {"ready"}) THEN "superseded" ELSE version[u].status
  <2>0. version[u] \in VersionRecords
    BY <1>1
  <2>1. CASE u = v
    <3>1. version'[u] = [version[u] EXCEPT !.status = "ready", !.attempt = Nil, !.output = w]
      BY <1>2, <2>1
    <3> QED BY <2>0, <2>1, <3>1 DEF VersionRecords, Statuses
  <2>2. CASE u # v /\ In(u, {"ready"})
    <3>1. version'[u] = [version[u] EXCEPT !.status = "superseded"]
      BY <1>2, <2>2
    <3> QED BY <2>0, <2>2, <3>1 DEF VersionRecords, Statuses
  <2>3. CASE u # v /\ ~In(u, {"ready"})
    BY <1>2, <2>0, <2>3
  <2> QED BY <2>1, <2>2, <2>3
<1>4. version' \in [Versions -> VersionRecords]
  <2>1. version' = [u \in Versions |-> version'[u]]
    BY <1>2
  <2> QED BY <1>3, <2>1
<1>5. PromotedFacts(w, v)
  BY <1>1, <1>3 DEF PromotedFacts
<1> QED BY <1>4, <1>5 DEF v

LEMMA PromotionKeeps ==
  ASSUME VideoInv, NEW w \in Attempts, Promotes(w), UNCHANGED <<courseVars, sourceVars, jobVars, whole>>,
         Continue(w, "settle") \/ Continue(w, "failing")
  PROVE  VideoInv'
<1> USE DEF courseVars, sourceVars, jobVars
<1> DEFINE v == handler[w].task.of
<1>1. v \in Versions /\ In(v, {"transcoding"}) /\ version[v].attempt = w /\ v \notin aborting /\ v # Nil
      /\ handler[w].pc \notin AtRest /\ w \in whole /\ w # Nil
  BY VideoAssumption DEF Promotes, VideoInv, VideoShape, TaskNames, AtRest, Fenced, ClaimedIsWhole, VideoAssumption
<1>2. version' \in [Versions -> VersionRecords] /\ PromotedFacts(w, v)
  BY PromotedIs
<1>3. PICK pc \in {"settle", "failing"} : Continue(w, pc)
  OBVIOUS
<1>4. pc \in PCs \ {"idle", "produced"}
  BY <1>3 DEF PCs
<1>5. /\ handler' \in [Attempts -> HandlerRecords]
      /\ handler'[w].pc = pc /\ handler'[w].task.of \in {v, Nil}
      /\ \A x \in Attempts : x # w => handler'[x] = handler[x]
      /\ \A x \in Attempts : TaskNames(handler'[x])
  BY <1>1, <1>3, <1>4, ToFacts
<1> HIDE DEF v
<1>6. ASSUME NEW u \in Versions, version'[u].status \in Holding, u # v
      PROVE  /\ In(u, Holding) /\ version'[u].output = version[u].output
             /\ version[u].output # w
  <2>1. In(u, Holding) /\ version'[u].output = version[u].output
    BY <1>2, <1>6 DEF PromotedFacts, In, Holding
  <2>2. ASSUME version[u].output = w PROVE FALSE
    <3>1. handler[w].task.of \in {u, Nil}
      BY <2>1, <2>2 DEF VideoInv, OutputsOfWork
    <3> QED BY <1>1, <1>6, <3>1 DEF v
  <2> QED BY <2>1, <2>2
<1>7. VideoShape'
  BY <1>2, <1>5 DEF VideoInv, VideoShape
<1>8. OutputsOfRows'
  <2>1. ASSUME NEW u \in Versions, version'[u].output # Nil
        PROVE  In(u, Holding \cup {"deleted"})'
    <3>1. CASE u = v
      BY <1>2, <3>1 DEF PromotedFacts, In, Holding
    <3>2. CASE u # v
      <4>1. version[u].output # Nil
        BY <1>2, <2>1, <3>2 DEF PromotedFacts
      <4>2. In(u, Holding \cup {"deleted"})
        BY <4>1 DEF VideoInv, OutputsOfRows
      <4> QED BY <1>2, <3>2, <4>2 DEF PromotedFacts, In, Holding
    <3> QED BY <3>1, <3>2
  <2>2. ASSUME NEW u \in Versions, NEW x \in Versions, version'[u].status \in Holding, version'[x].status \in Holding,
               version'[u].output = version'[x].output, version'[u].output # Nil
        PROVE  u = x
    <3>1. version'[v].output = w
      BY <1>2 DEF PromotedFacts
    <3>2. CASE u # v /\ x # v
      <4>1. In(u, Holding) /\ In(x, Holding) /\ version[u].output = version[x].output /\ version[u].output # Nil
        BY <1>6, <2>2, <3>2
      <4> QED BY <4>1 DEF VideoInv, OutputsOfRows
    <3>3. CASE u = v /\ x # v
      BY <1>6, <2>2, <3>1, <3>3
    <3>4. CASE u # v /\ x = v
      BY <1>6, <2>2, <3>1, <3>4
    <3> QED BY <3>2, <3>3, <3>4
  <2> QED BY <2>1, <2>2 DEF OutputsOfRows, In
<1>9. OutputsOfWork'
  <2> SUFFICES ASSUME NEW u \in Versions, NEW x \in Attempts, version'[u].status \in Holding, version'[u].output = x
               PROVE  handler'[x].task.of \in {u, Nil}
    BY DEF OutputsOfWork, In
  <2>1. CASE u = v
    BY <1>2, <1>5, <2>1 DEF PromotedFacts
  <2>2. CASE u # v
    <3>1. In(u, Holding) /\ version[u].output = x /\ x # w
      BY <1>6, <2>2
    <3> QED BY <1>5, <3>1 DEF VideoInv, OutputsOfWork
  <2> QED BY <2>1, <2>2
<1>10. ClaimedIsWhole'
  <2> SUFFICES ASSUME NEW x \in Attempts, handler'[x].pc = "produced",
                      version'[handler'[x].task.of].status = "transcoding",
                      version'[handler'[x].task.of].attempt = x
               PROVE  x \in whole'
    BY DEF ClaimedIsWhole, Fenced, In
  <2>1. x # w
    BY <1>4, <1>5
  <2>2. handler'[x] = handler[x] /\ handler[x].task.of \in Versions
    BY <1>5, <2>1 DEF TaskNames, AtRest
  <2>3. handler[x].task.of # v
    BY <1>2, <2>2 DEF PromotedFacts
  <2>4. version[handler[x].task.of].status = "transcoding" /\ version[handler[x].task.of].attempt = x
    BY <1>2, <2>2, <2>3 DEF PromotedFacts
  <2> QED BY <2>2, <2>4 DEF VideoInv, ClaimedIsWhole, Fenced, In
<1>11. AbortsServeNothing'
  <2> SUFFICES ASSUME NEW u \in aborting
               PROVE  version'[u].output = Nil /\ version'[u].status \notin Served
    BY DEF AbortsServeNothing, In
  <2>1. u \in Versions /\ u # v /\ version[u].output = Nil /\ ~In(u, Served)
    BY <1>1 DEF VideoInv, VideoShape, AbortsServeNothing
  <2> QED BY <1>2, <2>1 DEF PromotedFacts, In, Served
<1>12. OneCurrent'
  BY <1>1, <1>2 DEF OneCurrent, PromotedFacts, In
<1>13. OrderedVideoKept'
  BY <1>2 DEF VideoInv, VideoShape, OrderedVideoKept, PromotedFacts, In
<1>14. ReadyIsWhole'
  <2> SUFFICES ASSUME NEW u \in Versions, version'[u].status \in Served
               PROVE  version'[u].output \in whole
    BY DEF ReadyIsWhole, In, Served
  <2>1. CASE u = v
    BY <1>1, <1>2, <2>1 DEF PromotedFacts
  <2>2. CASE u # v
    <3>1. In(u, Served) /\ version'[u].output = version[u].output
      BY <1>2, <2>2 DEF PromotedFacts, In, Served
    <3> QED BY <3>1 DEF VideoInv, ReadyIsWhole, In, Served
  <2> QED BY <2>1, <2>2
<1> QED BY <1>7, <1>8, <1>9, <1>10, <1>11, <1>12, <1>13, <1>14 DEF VideoInv

LEMMA MarkReadyKeeps ==
  ASSUME VideoInv, NEW w \in Attempts, MarkReady(w)
  PROVE  VideoInv' /\ (Moves \/ Promotes(w))
<1>1. CASE Promotes(w) /\ (Continue(w, "settle") \/ Continue(w, "failing"))
  BY <1>1, PromotionKeeps DEF MarkReady
<1>2. CASE UNCHANGED version /\ (Continue(w, "drop") \/ Continue(w, "failing"))
  <2>1. UNCHANGED <<version, whole, job, published, ordered, aborting>>
    BY <1>2 DEF MarkReady, courseVars, sourceVars, jobVars
  <2>2. PICK pc \in PCs \ {"idle", "produced"} : Continue(w, pc)
    BY <1>2 DEF PCs
  <2>3. handler[w].pc \notin AtRest
    BY DEF MarkReady, AtRest
  <2> QED BY <2>1, <2>2, <2>3, RowsRest, ClaimsRest, CourseRests, StoreRests, JobsRest, ToMoves, MovesKeepWork
<1> QED BY <1>1, <1>2 DEF MarkReady, Promotes

-----------------------------------------------------------------------------
LEMMA VideoInvInit == VideoInit => VideoInv
<1> SUFFICES ASSUME VideoInit PROVE VideoInv
  OBVIOUS
<1>0. 0 \in 0..RetryLimit
  BY VideoAssumption DEF VideoAssumption
<1>1. PICK served \in [Legacy -> Attempts \cup {Nil}], gone \in SUBSET (Versions \ Legacy) :
       /\ version = [v \in Versions |->
            IF v \in gone THEN [NoVersion EXCEPT !.status = "deleted"]
            ELSE IF v \notin Legacy THEN NoVersion
            ELSE IF served[v] = Nil THEN [NoVersion EXCEPT !.status = "failed"]
            ELSE [NoVersion EXCEPT !.status = "ready", !.output = served[v]]]
       /\ whole = {served[v] : v \in Legacy} \ {Nil}
  BY DEF VideoInit
<1>2. ASSUME NEW v \in Versions
      PROVE  /\ version[v] \in VersionRecords
             /\ \/ version[v].status \in {"none", "failed", "deleted"} /\ version[v].output = Nil
                \/ v \in Legacy /\ version[v].status = "ready" /\ version[v].output \in whole
  <2>1. CASE v \in gone \/ v \notin Legacy \/ served[v] = Nil
    <3>1. NoVersion \in VersionRecords /\ NoVersion.output = Nil /\ NoVersion.status = "none"
      BY DEF NoVersion, VersionRecords, Statuses
    <3> DEFINE r(s) == [NoVersion EXCEPT !.status = s]
    <3>2. \A s \in {"failed", "deleted"} : r(s) \in VersionRecords /\ r(s).output = Nil /\ r(s).status = s
      BY <3>1 DEF VersionRecords, Statuses
    <3>3. version[v] = NoVersion \/ \E s \in {"failed", "deleted"} : version[v] = r(s)
      BY <1>1, <2>1
    <3> HIDE DEF r
    <3>4. version[v] \in VersionRecords /\ version[v].output = Nil
      BY <3>1, <3>2, <3>3
    <3>5. version[v].status \in {"none", "failed", "deleted"}
      BY <3>1, <3>2, <3>3
    <3> QED BY <3>4, <3>5
  <2>2. CASE v \notin gone /\ v \in Legacy /\ served[v] # Nil
    <3>1. version[v] = [NoVersion EXCEPT !.status = "ready", !.output = served[v]]
      BY <1>1, <2>2
    <3>2. served[v] \in Attempts /\ served[v] \in whole
      BY <1>1, <2>2
    <3> QED BY <2>2, <3>1, <3>2 DEF NoVersion, VersionRecords, Statuses
  <2> QED BY <2>1, <2>2
<1>3. Resting \in HandlerRecords /\ TaskNames(Resting) /\ Resting.pc = "idle" /\ Resting.task.of = Nil
  BY <1>0 DEF Resting, NoJob, HandlerRecords, JobRecords, TaskNames, AtRest
<1>4. handler = [x \in Attempts |-> Resting] /\ ordered = {} /\ aborting = {} /\ published = FALSE
  BY DEF VideoInit
<1>5. VideoShape
  <2>1. version \in [Versions -> VersionRecords]
    <3>1. version = [v \in Versions |-> version[v]]
      BY <1>1
    <3> QED BY <1>2, <3>1
  <2>2. NoJob \in JobRecords /\ NoJob.state = "none"
    BY <1>0 DEF NoJob, JobRecords
  <2>3. JobsName(job)
    BY <2>2 DEF VideoInit, JobsName
  <2>4. whole \subseteq Attempts
    BY <1>1
  <2> QED BY <1>3, <1>4, <2>1, <2>3, <2>4 DEF VideoShape
<1>6. OutputsOfRows
  BY <1>2, VideoAssumption DEF OutputsOfRows, In, Holding, VideoAssumption
<1>7. OutputsOfWork
  BY <1>3, <1>4 DEF OutputsOfWork
<1>8. ClaimedIsWhole
  BY <1>3, <1>4 DEF ClaimedIsWhole
<1>9. AbortsServeNothing /\ OrderedVideoKept
  BY <1>4 DEF AbortsServeNothing, OrderedVideoKept
<1>10. OneCurrent
  BY <1>2, <1>4, VideoAssumption DEF OneCurrent, In, VideoAssumption
<1>11. ReadyIsWhole
  BY <1>2 DEF ReadyIsWhole, In
<1> QED BY <1>5, <1>6, <1>7, <1>8, <1>9, <1>10, <1>11 DEF VideoInv

LEMMA VideoStep ==
  ASSUME VideoInv, [VideoNext]_videoVars
  PROVE  VideoInv' /\ (Moves \/ \E w \in Attempts : Promotes(w))
<1>1. CASE Publish \/ (\E v \in Versions : Order(v) \/ PassDeadline(v) \/ CollectObject(v))
             \/ (\E j \in Jobs : Lapse(j)) \/ UNCHANGED videoVars
  BY <1>1, OthersKeep
<1>2. CASE \E v \in Versions : \/ Create(v) \/ Complete(v) \/ Verify(v) \/ Retry(v)
                                \/ AbortBegin(v) \/ AbortEnd(v) \/ Delete(v)
  BY <1>2, TrainerKeeps
<1>3. CASE \E v \in Versions : Sweep(v) \/ SweepStops(v)
  BY <1>3, SweepKeeps
<1>4. ASSUME NEW w \in Attempts, Step(w) \/ Crash(w) PROVE VideoInv' /\ (Moves \/ Promotes(w))
  BY <1>4, EasyStepsKeep, RowStepsKeep, DiscardKeeps, MarkReadyKeeps DEF Step
<1>5. CASE \E w \in Attempts : \E j \in Jobs : Fetch(w, j)
  BY <1>5, FetchKeeps
<1> QED BY <1>1, <1>2, <1>3, <1>4, <1>5 DEF VideoNext

LEMMA NoRowStepsBack ==
  ASSUME VideoInv, [VideoNext]_videoVars
  PROVE  NoStepBack
<1> SUFFICES ASSUME NEW v \in Versions PROVE RemovalIsFinal(v) /\ PublishedIsImmutable(v)
  BY DEF NoStepBack
<1>1. CASE Moves
  BY <1>1 DEF Moves, RowMoves, RemovalIsFinal, PublishedIsImmutable, In, Served
<1>2. ASSUME NEW w \in Attempts, Promotes(w) PROVE RemovalIsFinal(v) /\ PublishedIsImmutable(v)
  <2>1. PromotedFacts(w, handler[w].task.of) /\ In(handler[w].task.of, {"transcoding"})
    BY <1>2, PromotedIs DEF Promotes, Fenced
  <2>2. CASE v = handler[w].task.of
    BY <2>1, <2>2 DEF RemovalIsFinal, PublishedIsImmutable, In
  <2>3. CASE v # handler[w].task.of
    BY <2>1, <2>3 DEF PromotedFacts, RemovalIsFinal, PublishedIsImmutable, In
  <2> QED BY <2>2, <2>3
<1> QED BY <1>1, <1>2, VideoStep

LEMMA VideoInvHolds == VideoSpec => []VideoInv
<1>1. VideoInv /\ [VideoNext]_videoVars => VideoInv'
  BY VideoStep
<1> QED BY <1>1, VideoInvInit, PTL DEF VideoSpec

LEMMA InvIsWhole == VideoInv => WholeNow
<1> SUFFICES ASSUME VideoInv PROVE AlwaysOneCurrent
  BY DEF VideoInv, WholeNow
<1>1. \A u, v \in ReadyVersions : u = v
  BY DEF VideoInv, OneCurrent, ReadyVersions
<1>2. Cardinality(ReadyVersions) <= 1
  <2>1. CASE ReadyVersions = {}
    BY <2>1, FS_EmptySet
  <2>2. CASE ReadyVersions # {}
    <3>1. PICK v \in ReadyVersions : TRUE
      BY <2>2
    <3>2. ReadyVersions = {v}
      BY <1>1, <3>1
    <3> QED BY <3>2, FS_Singleton
  <2> QED BY <2>1, <2>2
<1>3. published => ReadyVersions # {}
  BY DEF VideoInv, OneCurrent, ReadyVersions
<1> QED BY <1>2, <1>3 DEF AlwaysOneCurrent

(* For any versions, attempts, jobs and retries, with workers that die, are *)
(* taken for dead or stall past their retry: what is offered or was sold is *)
(* whole and stays what it is, and nothing that was removed comes back      *)
(* (worker.ts:121-256, video/service.ts:184-395).                          *)
THEOREM WhatIsServedStaysWhole == VideoSpec => ServedStaysWhole
<1>1. VideoInv /\ [VideoNext]_videoVars => [NoStepBack]_videoVars
  BY NoRowStepsBack
<1> QED BY <1>1, VideoInvHolds, InvIsWhole, PTL DEF VideoSpec, ServedStaysWhole

-----------------------------------------------------------------------------
(* What is confirmed as watched.  Take a session whose observations all come    *)
(* through: between two of them with no seek in between, the first of which may *)
(* be the one that the API has stored, all was played; and between the last and *)
(* where the player is now.  A rejected observation is never a seek, so what    *)
(* remains is still so.                                                         *)

Events == {"playing", "pause", "seeking", "ended"}

Observation == [session : PlaySessions, seq : Nat, event : Events, pos : 0..Duration, at : Nat]
Stored == [seq : Nat, event : Events \cup {"none"}, pos : 0..Duration, at : Nat, received : Nat]
Media == [state : {"none", "open", "closed"}, playing : BOOLEAN, pos : 0..Duration, seq : Nat]

Queued(s) == {tail[s][i] : i \in DOMAIN tail[s]}
Underway(s) == {h \in heartbeats : h.session = s}
Pending(s) == Queued(s) \cup Underway(s)

(* Observations that an interval may begin with. *)
Openers(s) ==
  Pending(s) \cup (IF s \in authorised /\ baseline[s].event # "none" THEN {baseline[s]} ELSE {})

Covered(s, p, q) == p <= q /\ \A tick \in 0..Duration : p <= tick /\ tick < q => tick \in seen[s]

NoSeek(s, a, b) == \A z \in Pending(s) : a < z.seq /\ z.seq <= b => z.event # "seeking"

InOrder(s) ==
  /\ \A i, j \in DOMAIN tail[s] : i < j => tail[s][i].seq < tail[s][j].seq
  /\ \A h \in Underway(s) : h.seq = awaited[s] /\ awaited[s] # 0
  /\ \A h \in Underway(s) : \A y \in Queued(s) : h.seq < y.seq
  /\ \A g, h \in Underway(s) : g = h
  /\ \A y \in Pending(s) : baseline[s].seq < y.seq /\ y.seq <= player[s].seq
  /\ baseline[s].seq <= player[s].seq

Played(s) ==
  /\ \A x \in Openers(s), y \in Pending(s) :
       x.seq < y.seq /\ NoSeek(s, x.seq, y.seq) => Covered(s, x.pos, y.pos)
  /\ \A x \in Openers(s) : NoSeek(s, x.seq, player[s].seq) => Covered(s, x.pos, player[s].pos)

NotYetOpen(s) ==
  player[s].state = "none" =>
    Pending(s) = {} /\ baseline[s].event = "none" /\ baseline[s].seq = 0 /\ player[s].playing = FALSE

SessionHolds(s) == s \in lossless => InOrder(s) /\ Played(s) /\ NotYetOpen(s)

Interval == [session : PlaySessions, from : 0..Duration, to : 0..Duration]
Spans(T) == T \subseteq Interval /\ IsFiniteSet(T) /\ \A i \in T : i.from < i.to
AllTicks(T) == UNION {Ticks(i) : i \in T}

WatchShape ==
  /\ watchClock \in 0..MaxWatchClock
  /\ player \in [PlaySessions -> Media]
  /\ tail \in [PlaySessions -> Seq(Observation)]
  /\ \A s \in PlaySessions : \A y \in Queued(s) : y.session = s
  /\ awaited \in [PlaySessions -> Nat]
  /\ heartbeats \subseteq Observation
  /\ baseline \in [PlaySessions -> Stored]
  /\ authorised \subseteq PlaySessions /\ lossless \subseteq PlaySessions
  /\ Spans(intervals)
  /\ seen \in [PlaySessions -> SUBSET (0..Duration)]
  /\ \A s \in PlaySessions : player[s].playing => player[s].pos < Duration

CreditedWasPlayed == \A i \in intervals : i.session \in lossless => Ticks(i) \subseteq seen[i.session]

(* Progress is the length of what the intervals cover. *)
ProgressCounts == progress = Cardinality(AllTicks(intervals)) /\ IsFiniteSet(AllTicks(intervals))

WatchInv ==
  WatchShape /\ (\A s \in PlaySessions : SessionHolds(s)) /\ CreditedWasPlayed /\ ProgressCounts

LEMMA LeastNumber ==
  ASSUME NEW S \in SUBSET Nat, S # {}
  PROVE  \E n \in S : \A m \in S : n <= m
<1>1. IsWellFoundedOn(OpToRel(<, Nat), Nat)
  BY NatLessThanWellFounded
<1>2. PICK n \in S : \A m \in Nat : <<m, n>> \in OpToRel(<, Nat) => m \notin S
  BY <1>1, WFMin
<1>3. \A m \in S : ~(m < n)
  BY <1>2 DEF OpToRel
<1> QED
  BY <1>3

LEMMA GreatestPosition ==
  ASSUME NEW N, N # {}, N \subseteq 0..Duration
  PROVE  \E n \in N : \A m \in N : m <= n
<1> DEFINE Short == {Duration - p : p \in N}
<1>0. Duration \in Nat
  BY WatchAssumption
<1>1. Short # {} /\ Short \in SUBSET Nat
  <2>1. \A p \in N : Duration - p \in Nat
    BY <1>0
  <2>2. PICK p : p \in N
    OBVIOUS
  <2>3. Duration - p \in Short
    BY <2>2
  <2> QED
    BY <2>1, <2>3
<1>2. PICK d \in Short : \A e \in Short : d <= e
  <2> HIDE DEF Short
  <2> QED
    BY <1>1, LeastNumber
<1>3. PICK n \in N : d = Duration - n
  BY <1>2
<1>4. ASSUME NEW m \in N PROVE m <= n
  <2>1. d <= Duration - m
    BY <1>2
  <2> QED
    BY <1>0, <1>3, <2>1
<1> QED
  BY <1>4


(* The sort has a last element. *)
LEMMA LastIsThere ==
  ASSUME NEW T, Spans(T), T # {}
  PROVE  LastOf(T) \in T /\ \A j \in T : Before(j, LastOf(T))
<1> DEFINE Froms == {i.from : i \in T}
<1>1. Froms # {} /\ Froms \subseteq 0..Duration
  BY DEF Spans, Interval
<1>2. PICK a \in Froms : \A b \in Froms : b <= a
  <2> HIDE DEF Froms
  <2> QED
    BY <1>1, GreatestPosition
<1> DEFINE Tos == {i.to : i \in {j \in T : j.from = a}}
<1>3. Tos # {} /\ Tos \subseteq 0..Duration
  BY <1>2 DEF Spans, Interval
<1>4. PICK c \in Tos : \A b \in Tos : b <= c
  <2> HIDE DEF Tos
  <2> QED
    BY <1>3, GreatestPosition
<1>5. PICK i \in T : i.from = a /\ i.to = c
  BY <1>4
<1>6. ASSUME NEW j \in T PROVE Before(j, i)
  <2>1. j.from <= a /\ j.from \in 0..Duration /\ a \in 0..Duration
    BY <1>1, <1>2 DEF Spans, Interval
  <2>2. j.from = a => j.to <= c
    BY <1>4
  <2> QED
    BY <1>5, <2>1, <2>2, WatchAssumption DEF Before
<1> QED
  BY <1>5, <1>6 DEF LastOf

(* What is merged of T when it is known for smaller sets. *)
MergeStep(f, T) ==
  IF T = {} THEN NoneMerged
  ELSE Merge(f[T \ {LastOf(T)}], T = {LastOf(T)}, LastOf(T))

MergedUpTo(S, n, f) ==
  /\ f = [T \in SUBSET S |-> f[T]]
  /\ \A T \in SUBSET S : Cardinality(T) <= n => f[T] = MergeStep(f, T)

LEMMA Smaller ==
  ASSUME NEW T, Spans(T), T # {}
  PROVE  /\ Spans(T \ {LastOf(T)}) /\ Cardinality(T) \in Nat
         /\ Cardinality(T \ {LastOf(T)}) = Cardinality(T) - 1
<1>1. IsFiniteSet(T) /\ LastOf(T) \in T
  BY LastIsThere DEF Spans
<1>2. IsFiniteSet(T \ {LastOf(T)}) /\ Cardinality(T \ {LastOf(T)}) = Cardinality(T) - 1
  BY <1>1, FS_RemoveElement
<1> QED
  BY <1>1, <1>2, FS_CardinalityType DEF Spans

LEMMA MergeExists ==
  ASSUME NEW S, Spans(S), NEW n \in Nat
  PROVE  \E f : MergedUpTo(S, n, f)
<1> DEFINE Failing == {k \in Nat : ~\E f : MergedUpTo(S, k, f)}
<1>0. \A T \in SUBSET S : Spans(T) /\ Cardinality(T) \in Nat
  BY FS_Subset, FS_CardinalityType DEF Spans
<1> SUFFICES ASSUME Failing # {} PROVE FALSE
  OBVIOUS
<1>1. PICK k \in Failing : \A m \in Failing : k <= m
  <2>1. Failing \in SUBSET Nat
    OBVIOUS
  <2> HIDE DEF Failing
  <2> QED
    BY <2>1, LeastNumber
<1>2. CASE k = 0
  <2> DEFINE f == [T \in SUBSET S |-> NoneMerged]
  <2>1. ASSUME NEW T \in SUBSET S, Cardinality(T) <= 0 PROVE f[T] = MergeStep(f, T)
    <3>1. T = {}
      BY <1>0, <2>1, FS_EmptySet DEF Spans
    <3> QED
      BY <3>1 DEF MergeStep
  <2>2. f = [T \in SUBSET S |-> f[T]]
    OBVIOUS
  <2> HIDE DEF f
  <2>3. MergedUpTo(S, 0, f)
    BY <2>1, <2>2 DEF MergedUpTo
  <2> QED
    BY <1>1, <1>2, <2>3
<1>3. CASE k # 0
  <2>1. k - 1 \in Nat /\ k - 1 \notin Failing
    BY <1>1, <1>3
  <2>2. PICK f : MergedUpTo(S, k - 1, f)
    BY <2>1
  <2> DEFINE g == [T \in SUBSET S |-> MergeStep(f, T)]
  <2>3. g = [T \in SUBSET S |-> g[T]] /\ \A T \in SUBSET S : g[T] = MergeStep(f, T)
    OBVIOUS
  <2> HIDE DEF g
  <2>4. ASSUME NEW T \in SUBSET S, Cardinality(T) <= k PROVE g[T] = MergeStep(g, T)
    <3>1. CASE T = {}
      BY <2>3, <3>1 DEF MergeStep
    <3>2. CASE T # {}
      <4> DEFINE R == T \ {LastOf(T)}
      <4>1. R \in SUBSET S /\ Cardinality(R) <= k - 1
        BY <1>0, <2>1, <2>4, <3>2, Smaller
      <4> HIDE DEF R
      <4>2. g[R] = f[R]
        BY <2>2, <2>3, <4>1 DEF MergedUpTo
      <4>3. MergeStep(f, T) = Merge(f[R], T = {LastOf(T)}, LastOf(T))
        BY <3>2 DEF MergeStep, R
      <4>4. MergeStep(g, T) = Merge(g[R], T = {LastOf(T)}, LastOf(T))
        BY <3>2 DEF MergeStep, R
      <4> QED
        BY <2>3, <4>2, <4>3, <4>4
    <3> QED
      BY <3>1, <3>2
  <2>5. MergedUpTo(S, k, g)
    BY <2>3, <2>4 DEF MergedUpTo
  <2> QED
    BY <1>1, <2>5
<1> QED
  BY <1>2, <1>3

(* The recursive definition of MergeIntervals has a value. *)
LEMMA MergeUnfolds ==
  ASSUME NEW S, Spans(S)
  PROVE  \E f : MergeIntervals(S) = f[S] /\ \A T \in SUBSET S : f[T] = MergeStep(f, T)
<1> DEFINE IsMerge(f) == f = [T \in SUBSET S |-> IF T = {} THEN NoneMerged
                               ELSE Merge(f[T \ {LastOf(T)}], T = {LastOf(T)}, LastOf(T))]
<1>1. Cardinality(S) \in Nat /\ \A T \in SUBSET S : Cardinality(T) <= Cardinality(S)
  BY FS_Subset, FS_CardinalityType DEF Spans
<1>2. PICK f : MergedUpTo(S, Cardinality(S), f)
  BY <1>1, MergeExists
<1>3. IsMerge(f)
  BY <1>1, <1>2 DEF MergedUpTo, MergeStep
<1> DEFINE h == CHOOSE g : IsMerge(g)
<1>4. IsMerge(h)
  BY <1>3
<1>5. MergeIntervals(S) = h[S]
  BY DEF MergeIntervals
<1> HIDE DEF h
<1>6. \A T \in SUBSET S : h[T] = MergeStep(h, T)
  BY <1>4 DEF MergeStep
<1> QED
  BY <1>5, <1>6

(* What has been merged of T: the last interval, and the ticks before it. *)
MergedWell(T, m) ==
  /\ T = {} => m = NoneMerged
  /\ T # {} => \E i \in T : m.from = i.from
  /\ m \in [done : Nat, from : Nat, to : Nat] /\ m.from <= m.to
  /\ \E D : /\ IsFiniteSet(D) /\ m.done = Cardinality(D) /\ \A d \in D : d \in Nat /\ d < m.from
            /\ AllTicks(T) = D \cup (m.from..(m.to - 1))

LEMMA MergedCounts ==
  ASSUME NEW T, NEW m, MergedWell(T, m)
  PROVE  /\ IsFiniteSet(AllTicks(T)) /\ AllTicks(T) \subseteq Nat
         /\ m.done + (m.to - m.from) = Cardinality(AllTicks(T))
<1>0. m.from \in Nat /\ m.to \in Nat /\ m.from <= m.to
  BY DEF MergedWell
<1>1. PICK D : /\ IsFiniteSet(D) /\ m.done = Cardinality(D) /\ \A d \in D : d \in Nat /\ d < m.from
               /\ AllTicks(T) = D \cup (m.from..(m.to - 1))
  BY DEF MergedWell
<1> DEFINE J == m.from..(m.to - 1)
<1>2. IsFiniteSet(J) /\ Cardinality(J) = m.to - m.from
  <2>1. m.from \in Int /\ m.to - 1 \in Int
    BY <1>0
  <2>2. IsFiniteSet(J) /\ Cardinality(J) = IF m.from > m.to - 1 THEN 0 ELSE m.to - 1 - m.from + 1
    BY <2>1, FS_Interval
  <2> QED
    BY <1>0, <2>2
<1>3. D \cap J = {}
  BY <1>0, <1>1
<1>4. J \subseteq Nat
  BY <1>0
<1> HIDE DEF J
<1>5. Cardinality(D \cap J) = 0
  BY <1>3, FS_EmptySet
<1>6. Cardinality(D) \in Nat /\ Cardinality(J) \in Nat
  BY <1>1, <1>2, FS_CardinalityType
<1>7. AllTicks(T) = D \cup J
  BY <1>1 DEF J
<1>8. IsFiniteSet(D \cup J) /\ Cardinality(D \cup J) = Cardinality(D) + Cardinality(J) - Cardinality(D \cap J)
  BY <1>1, <1>2, FS_Union
<1>9. AllTicks(T) \subseteq Nat
  BY <1>1, <1>4, <1>7
<1>10. m.done + (m.to - m.from) = Cardinality(D) + Cardinality(J) - Cardinality(D \cap J)
  BY <1>1, <1>2, <1>5, <1>6
<1> QED
  BY <1>7, <1>8, <1>9, <1>10

LEMMA MergesOne ==
  ASSUME NEW T, Spans(T), NEW i \in Interval, i.from < i.to, i \notin T,
         \A j \in T : j.from <= i.from, NEW m, MergedWell(T, m)
  PROVE  MergedWell(T \cup {i}, Merge(m, T = {}, i))
<1>0. i.from \in Nat /\ i.to \in Nat /\ Duration \in Nat
  BY WatchAssumption DEF Interval
<1>1. m.from \in Nat /\ m.to \in Nat /\ m.from <= m.to
  BY DEF MergedWell
<1>2. AllTicks(T \cup {i}) = AllTicks(T) \cup (i.from..(i.to - 1))
  BY DEF AllTicks, Ticks
<1>3. CASE T # {} /\ i.from <= m.to
  <2>1. PICK D : /\ IsFiniteSet(D) /\ m.done = Cardinality(D) /\ \A d \in D : d \in Nat /\ d < m.from
                 /\ AllTicks(T) = D \cup (m.from..(m.to - 1))
    BY DEF MergedWell
  <2>2. m.from <= i.from /\ \E j \in T : m.from = j.from
    BY <1>3 DEF MergedWell
  <2>3. PICK far \in Nat : far = (IF i.to > m.to THEN i.to ELSE m.to)
    BY <1>0, <1>1
  <2>4. PICK n : n = [m EXCEPT !.to = far]
    OBVIOUS
  <2>5. /\ n \in [done : Nat, from : Nat, to : Nat]
        /\ n.from = m.from /\ n.to = far /\ n.done = m.done
    BY <2>3, <2>4 DEF MergedWell
  <2>6. Merge(m, T = {}, i) = n
    BY <1>3, <2>3, <2>4 DEF Merge
  <2>7. (m.from..(m.to - 1)) \cup (i.from..(i.to - 1)) = m.from..(far - 1)
    BY <1>0, <1>1, <1>3, <2>2, <2>3
  <2>8. AllTicks(T \cup {i}) = D \cup (n.from..(n.to - 1))
    BY <1>2, <2>1, <2>5, <2>7
  <2>9. n.from <= n.to
    BY <1>0, <1>1, <2>3, <2>5
  <2> HIDE DEF MergedWell
  <2>10. MergedWell(T \cup {i}, n)
    BY <1>1, <2>1, <2>2, <2>3, <2>5, <2>8, <2>9 DEF MergedWell
  <2> QED
    BY <2>6, <2>10
<1>4. CASE ~(T # {} /\ i.from <= m.to)
  <2>1. PICK n : n = [done |-> m.done + (m.to - m.from), from |-> i.from, to |-> i.to]
    OBVIOUS
  <2>2. Merge(m, T = {}, i) = n
    BY <1>4, <2>1 DEF Merge
  <2>3. /\ IsFiniteSet(AllTicks(T)) /\ AllTicks(T) \subseteq Nat
        /\ n.done = Cardinality(AllTicks(T)) /\ n.from = i.from /\ n.to = i.to
    BY <2>1, MergedCounts
  <2>4. \A d \in AllTicks(T) : d < i.from
    <3>1. CASE T = {}
      BY <3>1 DEF AllTicks
    <3>2. CASE T # {}
      <4>1. PICK D : /\ \A d \in D : d \in Nat /\ d < m.from
                     /\ AllTicks(T) = D \cup (m.from..(m.to - 1))
        BY DEF MergedWell
      <4> QED
        BY <1>0, <1>1, <1>4, <3>2, <4>1
    <3> QED
      BY <3>1, <3>2
  <2>5. AllTicks(T \cup {i}) = AllTicks(T) \cup (n.from..(n.to - 1))
    BY <1>2, <2>3
  <2>6. n \in [done : Nat, from : Nat, to : Nat] /\ n.from <= n.to
    <3>1. m.done + (m.to - m.from) \in Nat
      BY <2>3, <2>1, FS_CardinalityType
    <3> QED
      BY <1>0, <2>1, <2>3, <3>1
  <2>7. /\ T \cup {i} # {} /\ \E j \in T \cup {i} : n.from = j.from
        /\ \A d \in AllTicks(T) : d \in Nat /\ d < n.from
    BY <2>3, <2>4
  <2>8. MergedWell(T \cup {i}, n)
    BY <2>3, <2>5, <2>6, <2>7 DEF MergedWell
  <2> QED
    BY <2>2, <2>8
<1> QED
  BY <1>3, <1>4

(* mergeIntervals keeps the ticks, and uniqueWatchedSeconds counts them. *)
LEMMA WatchedSecondsCountTicks ==
  ASSUME NEW S, Spans(S)
  PROVE  UniqueWatchedSeconds(S) = Cardinality(AllTicks(S)) /\ IsFiniteSet(AllTicks(S))
<1>1. PICK f : MergeIntervals(S) = f[S] /\ \A T \in SUBSET S : f[T] = MergeStep(f, T)
  BY MergeUnfolds
<1> DEFINE Failing == {k \in Nat : \E T \in SUBSET S : Cardinality(T) = k /\ ~MergedWell(T, f[T])}
<1>2. \A T \in SUBSET S : Spans(T) /\ Cardinality(T) \in Nat
  BY FS_Subset, FS_CardinalityType DEF Spans
<1>3. Failing = {}
  <2> SUFFICES ASSUME Failing # {} PROVE FALSE
    OBVIOUS
  <2>1. PICK k \in Failing : \A m \in Failing : k <= m
    <3>1. Failing \in SUBSET Nat
      OBVIOUS
    <3> HIDE DEF Failing
    <3> QED
      BY <3>1, LeastNumber
  <2>2. PICK T \in SUBSET S : Cardinality(T) = k /\ ~MergedWell(T, f[T])
    BY <2>1
  <2>3. CASE T = {}
    <3>1. f[T] = NoneMerged
      BY <1>1, <2>3 DEF MergeStep
    <3>2. PICK m : m = NoneMerged
      OBVIOUS
    <3>3. m.from = 0 /\ m.to = 0 /\ m.done = 0 /\ m \in [done : Nat, from : Nat, to : Nat]
      BY <3>2 DEF NoneMerged
    <3>4. AllTicks(T) = {} \cup (m.from..(m.to - 1))
      BY <2>3, <3>3 DEF AllTicks
    <3>5. IsFiniteSet({}) /\ m.done = Cardinality({})
      BY <3>3, FS_EmptySet
    <3>6. MergedWell(T, m)
      BY <2>3, <3>2, <3>3, <3>4, <3>5 DEF MergedWell
    <3> QED
      BY <2>2, <3>1, <3>2, <3>6
  <2>4. CASE T # {}
    <3>1. PICK i : i = LastOf(T)
      OBVIOUS
    <3>2. PICK R : R = T \ {i}
      OBVIOUS
    <3>3. i \in T /\ (\A j \in T : Before(j, i)) /\ Spans(T)
      BY <1>2, <2>4, <3>1, LastIsThere
    <3>4. R \in SUBSET S /\ Spans(R) /\ Cardinality(R) = k - 1 /\ k - 1 \in Nat
      <4>1. Cardinality(T) \in Nat /\ Cardinality(T \ {LastOf(T)}) = Cardinality(T) - 1
            /\ Spans(T \ {LastOf(T)})
        BY <1>2, <2>4, Smaller
      <4>2. Cardinality(T \ {LastOf(T)}) \in Nat
        BY <4>1, FS_CardinalityType DEF Spans
      <4> QED
        BY <2>2, <3>1, <3>2, <4>1, <4>2
    <3>5. MergedWell(R, f[R])
      <4>1. k - 1 \notin Failing
        BY <2>1, <3>4
      <4> QED
        BY <3>4, <4>1
    <3>6. f[T] = Merge(f[R], R = {}, i)
      <4>1. (T = {LastOf(T)}) <=> (R = {})
        BY <3>1, <3>2, <3>3
      <4>2. f[T] = Merge(f[R], T = {LastOf(T)}, i)
        BY <1>1, <2>4, <3>1, <3>2 DEF MergeStep
      <4> QED
        BY <4>1, <4>2 DEF Merge
    <3>7. i \in Interval /\ i.from < i.to /\ i \notin R /\ T = R \cup {i}
      BY <3>2, <3>3 DEF Spans
    <3>8. \A j \in R : j.from <= i.from
      BY <3>2, <3>3, <3>7, WatchAssumption DEF Spans, Before, Interval
    <3>9. PICK m : m = f[R]
      OBVIOUS
    <3>10. MergedWell(T, Merge(m, R = {}, i))
      BY <3>4, <3>5, <3>7, <3>8, <3>9, MergesOne
    <3> QED
      BY <2>2, <3>6, <3>9, <3>10
  <2> QED
    BY <2>3, <2>4
<1>4. MergedWell(S, f[S])
  BY <1>2, <1>3
<1>5. PICK m : m = f[S]
  OBVIOUS
<1>6. UniqueWatchedSeconds(S) = m.done + (m.to - m.from)
  BY <1>1, <1>5 DEF UniqueWatchedSeconds
<1> QED
  BY <1>4, <1>5, <1>6, MergedCounts

(* The media element as its events change it. *)
LEMMA MediaNumbered ==
  ASSUME NEW m \in Media, NEW n \in Nat
  PROVE  \E q \in Media : /\ q = [m EXCEPT !.seq = n]
                         /\ q.state = m.state /\ q.playing = m.playing /\ q.pos = m.pos /\ q.seq = n
<1> DEFINE q == [m EXCEPT !.seq = n]
<1>1. q \in Media
  BY DEF Media
<1>2. q.state = m.state /\ q.playing = m.playing /\ q.pos = m.pos /\ q.seq = n
  BY DEF Media
<1> QED
  BY <1>1, <1>2

LEMMA MediaStarts ==
  ASSUME NEW m \in Media
  PROVE  \E q \in Media : /\ q = [m EXCEPT !.playing = TRUE]
                         /\ q.state = m.state /\ q.pos = m.pos /\ q.seq = m.seq
<1> DEFINE q == [m EXCEPT !.playing = TRUE]
<1>1. q \in Media
  BY DEF Media
<1>2. q.state = m.state /\ q.pos = m.pos /\ q.seq = m.seq
  BY DEF Media
<1> QED
  BY <1>1, <1>2

LEMMA MediaStops ==
  ASSUME NEW m \in Media
  PROVE  \E q \in Media : /\ q = [m EXCEPT !.playing = FALSE]
                         /\ q.state = m.state /\ q.playing = FALSE /\ q.pos = m.pos /\ q.seq = m.seq
<1> DEFINE q == [m EXCEPT !.playing = FALSE]
<1>1. q \in Media
  BY DEF Media
<1>2. q.state = m.state /\ q.playing = FALSE /\ q.pos = m.pos /\ q.seq = m.seq
  BY DEF Media
<1> QED
  BY <1>1, <1>2

LEMMA MediaCloses ==
  ASSUME NEW m \in Media
  PROVE  \E q \in Media : /\ q = [m EXCEPT !.state = "closed", !.playing = FALSE]
                         /\ q.state = "closed" /\ q.playing = FALSE /\ q.pos = m.pos /\ q.seq = m.seq
<1> DEFINE q == [m EXCEPT !.state = "closed", !.playing = FALSE]
<1>1. q \in Media
  BY DEF Media
<1>2. q.state = "closed" /\ q.playing = FALSE /\ q.pos = m.pos /\ q.seq = m.seq
  BY DEF Media
<1> QED
  BY <1>1, <1>2

LEMMA MediaOpens ==
  ASSUME NEW p \in 0..Duration
  PROVE  \E q \in Media : /\ q = [NoMedia EXCEPT !.state = "open", !.pos = p]
                         /\ q.state = "open" /\ q.playing = FALSE /\ q.pos = p /\ q.seq = 0
<1> DEFINE q == [NoMedia EXCEPT !.state = "open", !.pos = p]
<1>1. q \in Media
  BY DEF Media, NoMedia
<1>2. q.state = "open" /\ q.playing = FALSE /\ q.pos = p /\ q.seq = 0
  BY DEF Media, NoMedia
<1> QED
  BY <1>1, <1>2

(* The order of what waits at one end of the tail. *)
LEMMA TailFacts ==
  ASSUME WatchShape, NEW s \in PlaySessions
  PROVE  /\ Len(tail[s]) \in Nat /\ DOMAIN tail[s] = 1..Len(tail[s])
         /\ \A i \in DOMAIN tail[s] : tail[s][i] \in Observation
         /\ Queued(s) \subseteq Observation /\ Pending(s) \subseteq Observation
         /\ \A y \in Pending(s) : y.session = s
<1>1. tail[s] \in Seq(Observation)
  BY DEF WatchShape
<1>2. Len(tail[s]) \in Nat /\ DOMAIN tail[s] = 1..Len(tail[s])
      /\ tail[s] \in [1..Len(tail[s]) -> Observation]
  BY <1>1, LenProperties
<1>3. \A i \in DOMAIN tail[s] : tail[s][i] \in Observation
  BY <1>2
<1> QED
  BY <1>2, <1>3 DEF Queued, Pending, Underway, WatchShape

(* A session that a step leaves alone. *)
LEMMA Untouched ==
  ASSUME NEW t \in PlaySessions, SessionHolds(t),
         tail'[t] = tail[t], awaited'[t] = awaited[t], baseline'[t] = baseline[t], seen'[t] = seen[t],
         player'[t].seq = player[t].seq, player'[t].pos = player[t].pos,
         player'[t].state = "none" => player[t].state = "none" /\ player'[t].playing = player[t].playing,
         \A h : h.session = t => (h \in heartbeats' <=> h \in heartbeats),
         t \in authorised' => t \in authorised, t \in lossless' => t \in lossless
  PROVE  SessionHolds(t)'
<1> SUFFICES ASSUME t \in lossless' PROVE (InOrder(t) /\ Played(t) /\ NotYetOpen(t))'
  BY DEF SessionHolds
<1>1. InOrder(t) /\ Played(t) /\ NotYetOpen(t)
  BY DEF SessionHolds
<1>2. Queued(t)' = Queued(t) /\ Underway(t)' = Underway(t) /\ Pending(t)' = Pending(t)
  BY DEF Queued, Underway, Pending
<1>3. Openers(t)' \subseteq Openers(t)
  BY <1>2 DEF Openers
<1>4. InOrder(t)'
  BY <1>1, <1>2 DEF InOrder
<1>5. Played(t)'
  <2>1. \A a, b : NoSeek(t, a, b)' <=> NoSeek(t, a, b)
    BY <1>2 DEF NoSeek
  <2>2. \A p, q : Covered(t, p, q)' <=> Covered(t, p, q)
    BY DEF Covered
  <2> QED
    BY <1>1, <1>2, <1>3, <2>1, <2>2 DEF Played
<1>6. NotYetOpen(t)'
  BY <1>1, <1>2 DEF NotYetOpen
<1> QED
  BY <1>4, <1>5, <1>6

LEMMA WaitingGrows ==
  ASSUME NEW t \in PlaySessions, tail[t] \in Seq(Observation), NEW y \in Observation,
         tail'[t] = Append(tail[t], y)
  PROVE  Queued(t)' = Queued(t) \cup {y}
<1>1. Len(tail[t]) \in Nat /\ DOMAIN tail[t] = 1..Len(tail[t])
  BY LenProperties
<1>2. /\ \A i \in 1..Len(tail[t]) : Append(tail[t], y)[i] = tail[t][i]
      /\ Append(tail[t], y)[Len(tail[t]) + 1] = y
      /\ DOMAIN Append(tail[t], y) = 1..(Len(tail[t]) + 1)
  BY <1>1, AppendProperties
<1>3. /\ DOMAIN tail'[t] = 1..(Len(tail[t]) + 1)
      /\ \A i \in 1..Len(tail[t]) : tail'[t][i] = tail[t][i]
      /\ tail'[t][Len(tail[t]) + 1] = y
  BY <1>2
<1>4. Queued(t)' \subseteq Queued(t) \cup {y}
  <2> SUFFICES ASSUME NEW i \in 1..(Len(tail[t]) + 1) PROVE tail'[t][i] \in Queued(t) \cup {y}
    BY <1>3 DEF Queued
  <2>1. CASE i = Len(tail[t]) + 1
    BY <1>3, <2>1
  <2>2. CASE i \in 1..Len(tail[t])
    BY <1>1, <1>3, <2>2 DEF Queued
  <2> QED
    BY <1>1, <2>1, <2>2
<1>5. Queued(t) \subseteq Queued(t)'
  <2> SUFFICES ASSUME NEW i \in 1..Len(tail[t]) PROVE tail[t][i] \in Queued(t)'
    BY <1>1 DEF Queued
  <2>1. i \in 1..(Len(tail[t]) + 1) /\ tail'[t][i] = tail[t][i]
    BY <1>1, <1>3
  <2> QED
    BY <1>3, <2>1 DEF Queued
<1>6. y \in Queued(t)'
  <2>1. Len(tail[t]) + 1 \in 1..(Len(tail[t]) + 1)
    BY <1>1
  <2> QED
    BY <1>3, <2>1 DEF Queued
<1> QED
  BY <1>4, <1>5, <1>6

(* An observation is made: a seek, or what has been played up to here. *)
LEMMA Observes ==
  ASSUME WatchShape, NEW t \in lossless, SessionHolds(t), NEW y \in Observation,
         NEW was \in 0..Duration, was = player[t].pos,
         tail'[t] = Append(tail[t], y), y.session = t, y.seq = player[t].seq + 1,
         player'[t].seq = y.seq, player'[t].pos = y.pos, player'[t].state # "none",
         seen[t] \subseteq seen'[t],
         y.event = "seeking" \/ Covered(t, was, y.pos)',
         player'[t].pos \in 0..Duration,
         awaited'[t] = awaited[t], baseline'[t] = baseline[t], UNCHANGED <<heartbeats, authorised>>
  PROVE  SessionHolds(t)'
<1>0. t \in PlaySessions /\ InOrder(t) /\ Played(t)
  BY DEF WatchShape, SessionHolds
<1>1. /\ Len(tail[t]) \in Nat /\ DOMAIN tail[t] = 1..Len(tail[t]) /\ tail[t] \in Seq(Observation)
      /\ Pending(t) \subseteq Observation /\ player[t] \in Media /\ baseline[t] \in Stored
  BY <1>0, TailFacts DEF WatchShape
<1>2. /\ Len(Append(tail[t], y)) = Len(tail[t]) + 1
      /\ \A i \in 1..Len(tail[t]) : Append(tail[t], y)[i] = tail[t][i]
      /\ Append(tail[t], y)[Len(tail[t]) + 1] = y
      /\ DOMAIN Append(tail[t], y) = 1..(Len(tail[t]) + 1)
  BY <1>1, AppendProperties
<1>3. /\ DOMAIN tail'[t] = 1..(Len(tail[t]) + 1)
      /\ \A i \in 1..Len(tail[t]) : tail'[t][i] = tail[t][i]
      /\ tail'[t][Len(tail[t]) + 1] = y
  BY <1>2
<1>4. Queued(t)' = Queued(t) \cup {y}
  BY <1>0, <1>1, WaitingGrows
<1>5. Underway(t)' = Underway(t) /\ Pending(t)' = Pending(t) \cup {y} /\ Openers(t)' = Openers(t) \cup {y}
  BY <1>4 DEF Underway, Pending, Openers
<1>6. /\ player[t].seq \in Nat /\ baseline[t].seq \in Nat /\ y.seq = player[t].seq + 1
      /\ \A z \in Pending(t) : z.seq \in Nat /\ z.seq <= player[t].seq
      /\ \A x \in Openers(t) : x.seq \in Nat /\ x.seq <= player[t].seq /\ x.pos \in 0..Duration
  BY <1>0, <1>1 DEF InOrder, Media, Stored, Observation, Openers
<1>7. InOrder(t)'
  <2>1. \A i, j \in DOMAIN tail'[t] : i < j => tail'[t][i].seq < tail'[t][j].seq
    <3> SUFFICES ASSUME NEW i \in 1..(Len(tail[t]) + 1), NEW j \in 1..(Len(tail[t]) + 1), i < j
                 PROVE  tail'[t][i].seq < tail'[t][j].seq
      BY <1>3
    <3>1. i \in 1..Len(tail[t]) /\ tail'[t][i] = tail[t][i] /\ tail[t][i] \in Pending(t)
      BY <1>1, <1>3 DEF Queued, Pending
    <3>2. CASE j = Len(tail[t]) + 1
      BY SMTT(40), <1>3, <1>6, <3>1, <3>2
    <3>3. CASE j \in 1..Len(tail[t])
      BY <1>0, <1>1, <1>3, <3>1, <3>3 DEF InOrder
    <3> QED
      BY <1>1, <3>2, <3>3
  <2>2. \A h \in Underway(t)' : h.seq < y.seq
    BY <1>5, <1>6 DEF Pending
  <2>3. baseline[t].seq < y.seq /\ baseline[t].seq <= player'[t].seq
    BY <1>0, <1>6 DEF InOrder
  <2>4. \A z \in Pending(t)' : z.seq <= player'[t].seq
    BY <1>5, <1>6
  <2> QED
    BY <1>0, <1>4, <1>5, <2>1, <2>2, <2>3, <2>4 DEF InOrder
<1>8. ASSUME NEW x \in Openers(t), NEW b \in Nat, b <= player[t].seq, NoSeek(t, x.seq, b)'
      PROVE  NoSeek(t, x.seq, b)
  BY <1>5, <1>8 DEF NoSeek
<1>9. \A p, q : Covered(t, p, q) => Covered(t, p, q)'
  BY DEF Covered
<1>10. ASSUME NEW x \in Openers(t), NoSeek(t, x.seq, y.seq)'
       PROVE  Covered(t, x.pos, y.pos)'
  <2>1. y.event # "seeking"
    BY <1>5, <1>6, <1>10 DEF NoSeek
  <2>2. NoSeek(t, x.seq, player[t].seq)
    BY <1>5, <1>6, <1>10 DEF NoSeek
  <2>3. Covered(t, x.pos, was)'
    BY <1>0, <1>9, <2>2 DEF Played
  <2>4. x.pos \in 0..Duration /\ y.pos \in 0..Duration
    BY <1>6 DEF Observation
  <2> QED
    BY SMTT(40), <2>1, <2>3, <2>4, WatchAssumption DEF Covered
<1>11. Covered(t, y.pos, y.pos)'
  BY WatchAssumption DEF Covered, Observation
<1>12. Played(t)'
  <2>1. ASSUME NEW x \in Openers(t)', NEW z \in Pending(t)', x.seq < z.seq, NoSeek(t, x.seq, z.seq)'
        PROVE  Covered(t, x.pos, z.pos)'
    <3>1. CASE x \in Openers(t) /\ z = y
      BY <1>10, <2>1, <3>1
    <3>2. CASE x \in Openers(t) /\ z \in Pending(t)
      <4>1. NoSeek(t, x.seq, z.seq)
        BY <1>6, <1>8, <2>1, <3>2
      <4> QED
        BY <1>0, <1>9, <2>1, <3>2, <4>1 DEF Played
    <3>3. CASE x = y
      BY <1>5, <1>6, <2>1, <3>3
    <3> QED
      BY <1>5, <3>1, <3>2, <3>3
  <2>2. ASSUME NEW x \in Openers(t)', NoSeek(t, x.seq, y.seq)'
        PROVE  Covered(t, x.pos, y.pos)'
    BY <1>5, <1>10, <1>11, <2>2
  <2> QED
    BY <2>1, <2>2 DEF Played
<1> QED
  BY <1>7, <1>12 DEF SessionHolds, NotYetOpen

(* Time passes for a player. *)
LEMMA Advances ==
  ASSUME WatchShape, NEW t \in lossless, SessionHolds(t),
         NEW was \in 0..Duration, was = player[t].pos,
         NEW now \in 0..Duration, now = player'[t].pos, Covered(t, was, now)',
         tail'[t] = tail[t], player'[t].seq = player[t].seq,
         player'[t].state = player[t].state, player[t].state # "none",
         seen[t] \subseteq seen'[t],
         awaited'[t] = awaited[t], baseline'[t] = baseline[t], UNCHANGED <<heartbeats, authorised>>
  PROVE  SessionHolds(t)'
<1>0. t \in PlaySessions /\ InOrder(t) /\ Played(t)
  BY DEF WatchShape, SessionHolds
<1>1. Queued(t)' = Queued(t) /\ Underway(t)' = Underway(t) /\ Pending(t)' = Pending(t)
      /\ Openers(t)' = Openers(t)
  BY DEF Queued, Underway, Pending, Openers
<1>2. InOrder(t)'
  BY <1>0, <1>1 DEF InOrder
<1>3. \A a, b : NoSeek(t, a, b)' <=> NoSeek(t, a, b)
  BY <1>1 DEF NoSeek
<1>4. \A p, q : Covered(t, p, q) => Covered(t, p, q)'
  BY DEF Covered
<1>5. \A x \in Openers(t) : x.pos \in 0..Duration
  BY <1>0, TailFacts DEF Openers, Observation, WatchShape, Stored
<1>7. ASSUME NEW x \in Openers(t), NoSeek(t, x.seq, player[t].seq)
      PROVE  Covered(t, x.pos, now)'
  <2>1. Covered(t, x.pos, was)'
    BY <1>0, <1>4, <1>7 DEF Played
  <2> QED
    BY <1>5, <2>1, WatchAssumption DEF Covered
<1>8. Played(t)'
  <2>1. ASSUME NEW x \in Openers(t)', NEW z \in Pending(t)', x.seq < z.seq, NoSeek(t, x.seq, z.seq)'
        PROVE  Covered(t, x.pos, z.pos)'
    BY <1>0, <1>1, <1>3, <1>4, <2>1 DEF Played
  <2>2. ASSUME NEW x \in Openers(t)', NoSeek(t, x.seq, player[t].seq)
        PROVE  Covered(t, x.pos, now)'
    BY <1>1, <1>7, <2>2
  <2> QED
    BY <1>3, <2>1, <2>2 DEF Played
<1> QED
  BY <1>2, <1>8 DEF SessionHolds, NotYetOpen

-----------------------------------------------------------------------------
LEMMA CreditStays ==
  ASSUME WatchInv, intervals' = intervals, progress' = progress, lossless' \subseteq lossless,
         \A t \in lossless' : seen[t] \subseteq seen'[t]
  PROVE  CreditedWasPlayed' /\ ProgressCounts'
<1>1. \A i \in intervals : Ticks(i)' = Ticks(i)
  BY DEF Ticks
<1>2. AllTicks(intervals)' = AllTicks(intervals)
  BY DEF AllTicks, Ticks
<1> QED
  BY <1>1, <1>2 DEF WatchInv, CreditedWasPlayed, ProgressCounts

LEMMA ReportKeeps ==
  ASSUME WatchInv, NEW s \in PlaySessions, NEW event \in Events, NEW media \in Media,
         Report(s, event, media), media.seq = player[s].seq, media.state # "none",
         event = "seeking" \/ media.pos = player[s].pos,
         media.playing => media.pos < Duration,
         UNCHANGED <<watchClock, awaited, heartbeats, baseline, authorised, intervals, progress, seen, lossless>>
  PROVE  WatchInv'
<1>0. WatchShape /\ player \in [PlaySessions -> Media] /\ tail \in [PlaySessions -> Seq(Observation)]
      /\ player[s] \in Media /\ tail[s] \in Seq(Observation) /\ watchClock \in Nat
  BY DEF WatchInv, WatchShape
<1>1. PICK y \in Observation : /\ y = Observed(s, event, media) /\ y.session = s
                               /\ y.seq = player[s].seq + 1 /\ y.event = event /\ y.pos = media.pos
  <2>1. player[s].seq + 1 \in Nat /\ media.pos \in 0..Duration
    BY <1>0 DEF Media
  <2> DEFINE y == Observed(s, event, media)
  <2>2. y \in Observation
    BY <1>0, <2>1 DEF Observed, Observation
  <2>3. y.session = s /\ y.seq = player[s].seq + 1 /\ y.event = event /\ y.pos = media.pos
    BY DEF Observed
  <2> QED
    BY <2>2, <2>3
<1>2. PICK moved \in Media : /\ moved = [media EXCEPT !.seq = player[s].seq + 1]
                             /\ moved.seq = player[s].seq + 1 /\ moved.pos = media.pos
                             /\ moved.state = media.state /\ moved.playing = media.playing
  <2>1. player[s].seq + 1 \in Nat
    BY <1>0 DEF Media
  <2> QED
    BY <2>1, MediaNumbered
<1>3. player' = [player EXCEPT ![s] = moved] /\ tail' = [tail EXCEPT ![s] = Append(tail[s], y)]
  BY <1>1, <1>2 DEF Report
<1>4. Append(tail[s], y) \in Seq(Observation)
  BY <1>0, <1>1, AppendProperties
<1>5. /\ player' \in [PlaySessions -> Media] /\ tail' \in [PlaySessions -> Seq(Observation)]
      /\ player'[s] = moved /\ tail'[s] = Append(tail[s], y)
      /\ \A t \in PlaySessions : t # s => player'[t] = player[t] /\ tail'[t] = tail[t]
  BY <1>0, <1>2, <1>3, <1>4
<1>6. \A t \in PlaySessions : \A z \in Queued(t)' : z.session = t
  <2>1. Queued(s)' = Queued(s) \cup {y}
    BY <1>0, <1>1, <1>5, WaitingGrows
  <2>2. \A t \in PlaySessions : t # s => Queued(t)' = Queued(t)
    BY <1>5 DEF Queued
  <2> QED
    BY <1>0, <1>1, <2>1, <2>2 DEF WatchShape
<1>7. WatchShape'
  BY ZenonT(60), <1>0, <1>2, <1>5, <1>6 DEF WatchShape
<1>8. ASSUME NEW t \in PlaySessions PROVE SessionHolds(t)'
  <2>0. SessionHolds(t)
    BY DEF WatchInv
  <2>1. CASE t # s
    BY <1>5, <2>0, <2>1, Untouched
  <2>2. CASE t \notin lossless
    BY <2>2 DEF SessionHolds
  <2>3. ASSUME s \in lossless PROVE SessionHolds(s)'
    <3>0. SessionHolds(s)
      BY DEF WatchInv
    <3>1. PICK was \in 0..Duration : was = player[s].pos
      BY <1>0 DEF Media
    <3>2. y.event = "seeking" \/ Covered(s, was, y.pos)'
      BY <1>1, <3>1, WatchAssumption DEF Covered
    <3>3. player'[s].pos = y.pos /\ player'[s].seq = y.seq /\ player'[s].state # "none"
          /\ player'[s].pos \in 0..Duration /\ tail'[s] = Append(tail[s], y)
      BY <1>1, <1>2, <1>5 DEF Observation
    <3>4. seen[s] \subseteq seen'[s] /\ awaited'[s] = awaited[s] /\ baseline'[s] = baseline[s]
          /\ UNCHANGED <<heartbeats, authorised>>
      OBVIOUS
    <3> QED
      BY <1>0, <1>1, <2>3, <3>0, <3>1, <3>2, <3>3, <3>4, Observes
  <2> QED
    BY <2>1, <2>2, <2>3
<1>9. CreditedWasPlayed' /\ ProgressCounts'
  BY CreditStays
<1> QED
  BY <1>7, <1>8, <1>9 DEF WatchInv

LEMMA PlayerKeeps ==
  ASSUME WatchInv, NEW s \in PlaySessions,
         Play(s) \/ Pause(s) \/ Detach(s) \/ (\E p \in SeekTargets : Seek(s, p))
  PROVE  WatchInv'
<1>0. player[s] \in Media /\ player[s].state = "open" /\ SeekTargets \subseteq 0..Duration
      /\ (player[s].playing => player[s].pos < Duration)
  BY ZenonT(60), WatchAssumption DEF WatchInv, WatchShape, Play, Pause, Detach, Seek, Report
<1>1. CASE Play(s)
  <2>1. PICK media \in Media : /\ media = [player[s] EXCEPT !.playing = TRUE]
                               /\ media.seq = player[s].seq /\ media.state = "open"
                               /\ media.pos = player[s].pos
    BY <1>0, MediaStarts
  <2> QED
    BY <1>1, <2>1, ReportKeeps DEF Play, Events
<1>2. CASE Pause(s)
  <2>1. PICK media \in Media : /\ media = [player[s] EXCEPT !.playing = FALSE]
                               /\ media.seq = player[s].seq /\ media.state = "open"
                               /\ media.pos = player[s].pos /\ media.playing = FALSE
    BY <1>0, MediaStops
  <2> QED
    BY <1>2, <2>1, ReportKeeps DEF Pause, Events
<1>3. CASE Detach(s)
  <2>1. PICK media \in Media : /\ media = [player[s] EXCEPT !.state = "closed", !.playing = FALSE]
                               /\ media.seq = player[s].seq /\ media.state = "closed"
                               /\ media.pos = player[s].pos /\ media.playing = FALSE
    BY <1>0, MediaCloses
  <2> QED
    BY <1>3, <2>1, ReportKeeps DEF Detach, Events
<1>4. ASSUME NEW p \in SeekTargets, Seek(s, p) PROVE WatchInv'
  <2>1. p \in 0..Duration
    BY <1>0
  <2>2. PICK media : media = [player[s] EXCEPT !.pos = p, !.playing = FALSE]
    OBVIOUS
  <2>3. media \in Media /\ media.state = "open" /\ media.playing = FALSE /\ media.seq = player[s].seq
    <3>1. player[s] \in Media
      BY <1>0
    <3>2. media \in Media
      BY <2>1, <2>2, <3>1 DEF Media
    <3>3. media.state = player[s].state
      BY <2>1, <2>2, <3>1 DEF Media
    <3>4. media.playing = FALSE
      BY <2>1, <2>2, <3>1 DEF Media
    <3>5. media.seq = player[s].seq
      BY <2>1, <2>2, <3>1 DEF Media
    <3> QED
      BY <1>0, <3>2, <3>3, <3>4, <3>5
  <2> QED
    BY <1>4, <2>2, <2>3, ReportKeeps DEF Seek, Events
<1> QED
  BY <1>1, <1>2, <1>3, <1>4

(* A session resumes where an interval ends or where a player was. *)
LEMMA ResumesWithin ==
  ASSUME WatchInv
  PROVE  ResumeAt \in 0..Duration
<1>0. Spans(intervals) /\ Duration \in Nat
  BY WatchAssumption DEF WatchInv, WatchShape
<1>1. CASE intervals = {}
  BY <1>0, <1>1 DEF ResumeAt
<1>2. CASE intervals # {}
  <2> DEFINE Ends == {i.to : i \in intervals}
  <2>1. Ends # {} /\ Ends \subseteq 0..Duration
    BY <1>0, <1>2 DEF Spans, Interval
  <2>2. PICK p \in Ends : \A q \in Ends : q <= p
    <3> HIDE DEF Ends
    <3> QED
      BY <2>1, GreatestPosition
  <2>3. ResumeAt \in Ends
    BY <1>2, <2>2 DEF ResumeAt
  <2> QED
    BY <2>1, <2>3
<1> QED
  BY <1>1, <1>2

LEMMA CreatePlaybackSessionKeeps ==
  ASSUME WatchInv, NEW s \in PlaySessions, CreatePlaybackSession(s)
  PROVE  WatchInv'
<1>0. WatchShape /\ player \in [PlaySessions -> Media] /\ player[s].state = "none"
      /\ authorised' = authorised \cup {s}
      /\ UNCHANGED <<watchClock, tail, awaited, heartbeats, baseline, intervals, progress, seen, lossless>>
  BY DEF WatchInv, WatchShape, CreatePlaybackSession
<1>1. PICK p \in {ResumeAt} \cup {player[t].pos : t \in {u \in PlaySessions : player[u].state = "closed"}} :
        player' = [player EXCEPT ![s] = [NoMedia EXCEPT !.state = "open", !.pos = p]]
  BY DEF CreatePlaybackSession
<1>2. p \in 0..Duration
  BY <1>0, ResumesWithin DEF Media
<1>3. PICK media \in Media : /\ media = [NoMedia EXCEPT !.state = "open", !.pos = p]
                             /\ media.state = "open" /\ media.seq = 0 /\ media.playing = FALSE
  BY <1>2, MediaOpens
<1>4. /\ player' \in [PlaySessions -> Media] /\ player'[s] = media
      /\ \A t \in PlaySessions : t # s => player'[t] = player[t]
  BY <1>0, <1>1, <1>3
<1>5. WatchShape'
  <2>1. \A t \in PlaySessions : Queued(t)' = Queued(t)
    BY <1>0 DEF Queued
  <2>2. \A t \in PlaySessions : player'[t].playing => player'[t].pos < Duration
    BY <1>0, <1>3, <1>4 DEF WatchShape
  <2>3. authorised' \subseteq PlaySessions
    BY <1>0 DEF WatchShape
  <2> QED
    BY <1>0, <1>4, <2>1, <2>2, <2>3 DEF WatchShape
<1>6. ASSUME NEW t \in PlaySessions PROVE SessionHolds(t)'
  <2>0. SessionHolds(t)
    BY DEF WatchInv
  <2>1. CASE t # s
    BY <1>0, <1>4, <2>0, <2>1, Untouched
  <2>2. CASE t = s /\ t \in lossless
    <3>1. Pending(s) = {} /\ baseline[s].event = "none" /\ baseline[s].seq = 0 /\ InOrder(s)
      BY <1>0, <2>0, <2>2 DEF SessionHolds, NotYetOpen
    <3>2. Queued(s)' = Queued(s) /\ Underway(s)' = Underway(s) /\ Pending(s)' = {} /\ Openers(s)' = {}
      BY <1>0, <3>1 DEF Queued, Underway, Pending, Openers
    <3>3. InOrder(s)'
      BY <1>0, <1>3, <1>4, <3>1, <3>2 DEF InOrder
    <3>4. Played(s)'
      BY <3>2 DEF Played
    <3>5. NotYetOpen(s)'
      BY <1>3, <1>4 DEF NotYetOpen
    <3> QED
      BY <2>2, <3>3, <3>4, <3>5 DEF SessionHolds
  <2>3. CASE t \notin lossless
    BY <1>0, <2>3 DEF SessionHolds
  <2> QED
    BY <2>1, <2>2, <2>3
<1>7. CreditedWasPlayed' /\ ProgressCounts'
  BY <1>0, CreditStays
<1> QED
  BY <1>5, <1>6, <1>7 DEF WatchInv

(* Time: what plays advances by a tick that it sees, or has ended. *)
LEMMA WatchTickKeeps ==
  ASSUME WatchInv, WatchTick
  PROVE  WatchInv'
<1> DEFINE playing == {s \in PlaySessions : player[s].playing}
           ending == {s \in playing : player[s].pos + 1 = Duration}
           last(t) == [session |-> t, seq |-> player[t].seq + 1, event |-> "ended",
                       pos |-> Duration, at |-> watchClock + 1]
<1>0. /\ WatchShape /\ watchClock' = watchClock + 1 /\ watchClock \in Nat
      /\ watchClock + 1 \in 0..MaxWatchClock
      /\ player \in [PlaySessions -> Media] /\ tail \in [PlaySessions -> Seq(Observation)]
      /\ seen \in [PlaySessions -> SUBSET (0..Duration)]
      /\ UNCHANGED <<awaited, heartbeats, baseline, authorised, intervals, progress, lossless>>
  <2>1. MaxWatchClock \in Nat
    BY WatchAssumption
  <2>2. watchClock \in 0..MaxWatchClock /\ watchClock < MaxWatchClock
    BY DEF WatchInv, WatchShape, WatchTick
  <2>3. watchClock \in Nat /\ watchClock + 1 \in 0..MaxWatchClock
    BY <2>1, <2>2
  <2> QED
    BY <2>3 DEF WatchInv, WatchShape, WatchTick
<1>1. /\ player' = [s \in PlaySessions |->
             IF s \in playing
             THEN [player[s] EXCEPT !.pos = @ + 1, !.playing = s \notin ending,
                                    !.seq = IF s \in ending THEN @ + 1 ELSE @]
             ELSE player[s]]
      /\ tail' = [s \in PlaySessions |-> IF s \in ending THEN Append(tail[s], last(s)) ELSE tail[s]]
      /\ seen' = [s \in PlaySessions |->
                    IF s \in playing \cap lossless THEN seen[s] \cup {player[s].pos} ELSE seen[s]]
  BY DEF WatchTick
<1>2. ASSUME NEW t \in PlaySessions, ~player[t].playing
      PROVE  player'[t] = player[t] /\ tail'[t] = tail[t] /\ seen'[t] = seen[t]
  BY <1>1, <1>2
<1>3. ASSUME NEW t \in PlaySessions, player[t].playing
      PROVE  /\ player[t].pos \in 0..Duration /\ player[t].pos + 1 \in 0..Duration
             /\ player'[t] \in Media /\ player'[t].pos = player[t].pos + 1
             /\ player'[t].state = player[t].state
             /\ t \in lossless => seen'[t] = seen[t] \cup {player[t].pos}
             /\ t \notin lossless => seen'[t] = seen[t]
  <2>1. player[t] \in Media /\ player[t].pos < Duration /\ Duration \in Nat
    <3>1. Duration \in Nat
      BY WatchAssumption
    <3>2. player[t] \in Media
      BY <1>0
    <3>3. player[t].pos < Duration
      BY <1>0, <1>3 DEF WatchShape
    <3> QED
      BY <3>1, <3>2, <3>3
  <2>2. player[t].pos \in 0..Duration /\ player[t].pos + 1 \in 0..Duration /\ player[t].seq \in Nat
    BY <2>1 DEF Media
  <2>3. t \in playing
    BY <1>3
  <2> HIDE DEF ending
  <2>4. PICK b \in BOOLEAN : b = (t \notin ending)
    OBVIOUS
  <2>5. PICK n \in Nat : n = IF t \in ending THEN player[t].seq + 1 ELSE player[t].seq
    BY <2>2
  <2>6. player'[t] = [player[t] EXCEPT !.pos = player[t].pos + 1, !.playing = b, !.seq = n]
    BY <1>1, <2>3, <2>4, <2>5
  <2>7. player'[t] \in Media /\ player'[t].pos = player[t].pos + 1 /\ player'[t].state = player[t].state
    <3>1. PICK m \in Media : m = player[t]
      BY <2>1
    <3>2. PICK q : q = [m EXCEPT !.pos = m.pos + 1, !.playing = b, !.seq = n] /\ q = player'[t]
      BY <2>6, <3>1
    <3>3. q \in Media /\ q.pos = m.pos + 1 /\ q.state = m.state
      BY <2>2, <3>1, <3>2 DEF Media
    <3> QED
      BY <3>1, <3>2, <3>3
  <2>8. /\ t \in lossless => seen'[t] = seen[t] \cup {player[t].pos}
        /\ t \notin lossless => seen'[t] = seen[t]
    BY <1>1, <2>3
  <2> QED
    BY <2>2, <2>7, <2>8
<1>4. ASSUME NEW t \in PlaySessions, player[t].playing, player[t].pos + 1 = Duration
      PROVE  /\ tail'[t] = Append(tail[t], last(t)) /\ player'[t].seq = player[t].seq + 1
             /\ player'[t].playing = FALSE
  <2>1. t \in playing /\ t \in ending
    BY <1>4
  <2> HIDE DEF playing, ending, last
  <2>2. tail'[t] = Append(tail[t], last(t))
    BY <1>1, <2>1
  <2>3. player'[t] = [player[t] EXCEPT !.pos = @ + 1, !.playing = FALSE, !.seq = @ + 1]
    BY <1>1, <2>1
  <2>4. player[t] \in Media
    BY <1>0
  <2> QED
    BY <2>2, <2>3, <2>4 DEF Media
<1>5. ASSUME NEW t \in PlaySessions, player[t].playing, player[t].pos + 1 # Duration
      PROVE  tail'[t] = tail[t] /\ player'[t].seq = player[t].seq
  <2>1. t \in playing /\ t \notin ending
    BY <1>5
  <2> HIDE DEF playing, ending, last
  <2>2. tail'[t] = tail[t]
    BY <1>1, <2>1
  <2>3. player'[t] = [player[t] EXCEPT !.pos = @ + 1, !.playing = TRUE, !.seq = @]
    BY <1>1, <2>1
  <2>4. player[t] \in Media
    BY <1>0
  <2> QED
    BY <2>2, <2>3, <2>4 DEF Media
<1>6. ASSUME NEW t \in PlaySessions
      PROVE  last(t) \in Observation /\ last(t).session = t /\ last(t).seq = player[t].seq + 1
             /\ last(t).event = "ended" /\ last(t).pos = Duration
  <2>1. player[t].seq + 1 \in Nat /\ watchClock + 1 \in Nat /\ Duration \in 0..Duration
    BY <1>0, WatchAssumption DEF Media
  <2> QED
    BY <2>1 DEF Observation, Events
<1>7. \A t \in PlaySessions : Queued(t)' \subseteq Queued(t) \cup {last(t)}
  <2> HIDE DEF last
  <2> SUFFICES ASSUME NEW t \in PlaySessions PROVE Queued(t)' \subseteq Queued(t) \cup {last(t)}
    OBVIOUS
  <2>1. CASE tail'[t] = tail[t]
    BY <2>1 DEF Queued
  <2>2. CASE tail'[t] = Append(tail[t], last(t))
    BY <1>0, <1>6, <2>2, WaitingGrows
  <2> QED
    BY <1>2, <1>4, <1>5, <2>1, <2>2
<1> HIDE DEF playing, ending, last
<1>8. WatchShape'
  <2>1. player' \in [PlaySessions -> Media]
    <3>1. \A t \in PlaySessions : player'[t] \in Media
      BY <1>0, <1>2, <1>3
    <3> QED
      BY <1>1, <3>1
  <2>2. tail' \in [PlaySessions -> Seq(Observation)]
    <3>1. \A t \in PlaySessions : tail'[t] \in Seq(Observation)
      <4> SUFFICES ASSUME NEW t \in PlaySessions PROVE tail'[t] \in Seq(Observation)
        OBVIOUS
      <4>1. Append(tail[t], last(t)) \in Seq(Observation) /\ tail[t] \in Seq(Observation)
        BY <1>0, <1>6, AppendProperties
      <4> QED
        BY <1>2, <1>4, <1>5, <4>1
    <3> QED
      BY <1>1, <3>1
  <2>3. seen' \in [PlaySessions -> SUBSET (0..Duration)]
    <3>1. \A t \in PlaySessions : seen'[t] \in SUBSET (0..Duration)
      BY ZenonT(60), <1>0, <1>2, <1>3
    <3> QED
      BY <1>1, <3>1
  <2>4. \A t \in PlaySessions : player'[t].playing => player'[t].pos < Duration
    <3> SUFFICES ASSUME NEW t \in PlaySessions, player'[t].playing PROVE player'[t].pos < Duration
      OBVIOUS
    <3>1. CASE ~player[t].playing
      BY <1>0, <1>2, <3>1 DEF WatchShape
    <3>2. CASE player[t].playing
      <4>1. player[t].pos + 1 # Duration
        BY <1>4, <3>2
      <4> QED
        BY <1>3, <3>2, <4>1, WatchAssumption
    <3> QED
      BY <3>1, <3>2
  <2>5. \A t \in PlaySessions : \A z \in Queued(t)' : z.session = t
    BY <1>0, <1>6, <1>7 DEF WatchShape
  <2> QED
    BY <1>0, <2>1, <2>2, <2>3, <2>4, <2>5 DEF WatchShape
<1>9. ASSUME NEW t \in PlaySessions PROVE SessionHolds(t)'
  <2>0. SessionHolds(t)
    BY DEF WatchInv
  <2>1. CASE t \notin lossless
    BY <1>0, <2>1 DEF SessionHolds
  <2>2. CASE ~player[t].playing
    BY <1>0, <1>2, <2>0, <2>2, Untouched
  <2>3. CASE player[t].playing /\ t \in lossless
    <3>1. PICK was \in 0..Duration : was = player[t].pos
      BY <1>3, <2>3
    <3>2. PICK now \in 0..Duration : now = player'[t].pos /\ now = was + 1
      BY <1>3, <2>3, <3>1
    <3>3. seen'[t] = seen[t] \cup {was}
      BY <1>3, <2>3, <3>1
    <3>4. Covered(t, was, now)'
      BY <3>2, <3>3, WatchAssumption DEF Covered
    <3>5. player[t].state # "none" /\ player'[t].state = player[t].state
      BY <1>3, <2>0, <2>3 DEF SessionHolds, NotYetOpen
    <3>6. CASE now # Duration
      <4>1. tail'[t] = tail[t] /\ player'[t].seq = player[t].seq
        BY <1>5, <2>3, <3>1, <3>2, <3>6
      <4> QED
        BY <1>0, <2>0, <2>3, <3>1, <3>2, <3>3, <3>4, <3>5, <4>1, Advances
    <3>7. CASE now = Duration
      <4>1. PICK y \in Observation : y = last(t) /\ y.session = t /\ y.seq = player[t].seq + 1
                                     /\ y.event = "ended" /\ y.pos = now
        BY <1>6, <3>7
      <4>2. tail'[t] = Append(tail[t], y) /\ player'[t].seq = y.seq /\ player'[t].pos = y.pos
            /\ player'[t].pos \in 0..Duration
        BY <1>4, <2>3, <3>1, <3>2, <3>7, <4>1
      <4>3. Covered(t, was, y.pos)'
        BY <3>4, <4>1 DEF Covered
      <4> QED
        BY <1>0, <2>0, <2>3, <3>1, <3>3, <3>5, <4>1, <4>2, <4>3, Observes
    <3> QED
      BY <3>6, <3>7
  <2> QED
    BY <2>1, <2>2, <2>3
<1>10. CreditedWasPlayed' /\ ProgressCounts'
  <2>1. \A t \in lossless' : seen[t] \subseteq seen'[t]
    BY <1>0, <1>2, <1>3 DEF WatchShape
  <2> QED
    BY <1>0, <2>1, CreditStays
<1> QED
  BY <1>8, <1>9, <1>10 DEF WatchInv

(* The first of what waits is taken off the tail. *)
LEMMA HeadLeaves ==
  ASSUME WatchShape, NEW s \in PlaySessions, tail[s] # <<>>, NEW h, h = Head(tail[s]),
         NEW rest, rest = Tail(tail[s])
  PROVE  /\ rest \in Seq(Observation) /\ h \in Observation /\ h \in Queued(s)
         /\ Len(rest) \in Nat /\ DOMAIN rest = 1..Len(rest) /\ DOMAIN tail[s] = 1..(Len(rest) + 1)
         /\ h = tail[s][1] /\ \A i \in DOMAIN rest : rest[i] = tail[s][i + 1]
         /\ \A i \in DOMAIN rest : rest[i] \in Queued(s)
<1>1. tail[s] \in Seq(Observation)
  BY DEF WatchShape
<1>2. /\ rest \in Seq(Observation) /\ h \in Observation /\ Len(rest) = Len(tail[s]) - 1
      /\ Len(rest) \in Nat /\ Len(tail[s]) \in Nat
      /\ h = tail[s][1] /\ \A i \in 1..Len(rest) : rest[i] = tail[s][i + 1]
  BY <1>1, HeadTailProperties, LenProperties
<1>3. DOMAIN rest = 1..Len(rest) /\ DOMAIN tail[s] = 1..(Len(rest) + 1)
  BY <1>1, <1>2, LenProperties
<1>4. h \in Queued(s)
  BY <1>2, <1>3 DEF Queued
<1>5. \A i \in DOMAIN rest : rest[i] \in Queued(s)
  <2> SUFFICES ASSUME NEW i \in 1..Len(rest) PROVE rest[i] \in Queued(s)
    BY <1>3
  <2>1. i + 1 \in 1..(Len(rest) + 1) /\ rest[i] = tail[s][i + 1]
    BY <1>2
  <2> QED
    BY <1>3, <2>1 DEF Queued
<1> QED
  BY <1>2, <1>3, <1>4, <1>5

(* The first of what waits goes out: the same observations are pending. *)
LEMMA GoesOut ==
  ASSUME WatchShape, NEW s \in PlaySessions, SessionHolds(s), awaited[s] = 0, tail[s] # <<>>,
         NEW h, h = Head(tail[s]), NEW rest, rest = Tail(tail[s]), tail'[s] = rest,
         heartbeats' = heartbeats \cup {h}, awaited'[s] = h.seq,
         UNCHANGED <<player, baseline, authorised, seen, lossless>>
  PROVE  SessionHolds(s)'
<1> SUFFICES ASSUME s \in lossless PROVE (InOrder(s) /\ Played(s) /\ NotYetOpen(s))'
  BY DEF SessionHolds
<1>1. InOrder(s) /\ Played(s) /\ NotYetOpen(s)
  BY DEF SessionHolds
<1>2. /\ h \in Observation /\ h \in Queued(s) /\ h.session = s
      /\ Len(rest) \in Nat /\ DOMAIN rest = 1..Len(rest) /\ DOMAIN tail[s] = 1..(Len(rest) + 1)
      /\ h = tail[s][1] /\ \A i \in DOMAIN rest : rest[i] = tail[s][i + 1]
      /\ (\A i \in DOMAIN rest : rest[i] \in Queued(s))
      /\ \A z \in Queued(s) : z = h \/ \E i \in DOMAIN rest : z = rest[i]
  <2>1. \A z \in Queued(s) : z.session = s
    BY DEF WatchShape
  <2>2. /\ h \in Observation /\ h \in Queued(s)
        /\ Len(rest) \in Nat /\ DOMAIN rest = 1..Len(rest) /\ DOMAIN tail[s] = 1..(Len(rest) + 1)
        /\ h = tail[s][1] /\ \A i \in DOMAIN rest : rest[i] = tail[s][i + 1]
    BY HeadLeaves
  <2>3. \A i \in DOMAIN rest : rest[i] \in Queued(s)
    BY HeadLeaves, Zenon
  <2>4. ASSUME NEW k \in DOMAIN tail[s] PROVE tail[s][k] = h \/ \E i \in DOMAIN rest : tail[s][k] = rest[i]
    <3>1. CASE k = 1
      BY <2>2, <3>1
    <3>2. CASE k # 1
      <4>1. k - 1 \in 1..Len(rest) /\ k - 1 + 1 = k
        BY <2>2, <3>2
      <4>2. rest[k - 1] = tail[s][k - 1 + 1]
        BY <2>2, <4>1
      <4> QED
        BY <2>2, <4>1, <4>2
    <3> QED
      BY <3>1, <3>2
  <2>5. \A z \in Queued(s) : z = h \/ \E i \in DOMAIN rest : z = rest[i]
    BY <2>4 DEF Queued
  <2> QED
    BY <2>1, <2>2, <2>3, <2>5
<1>3. Underway(s) = {}
  BY <1>1 DEF InOrder
<1>4. Underway(s)' = {h}
  BY <1>2, <1>3 DEF Underway
<1>5. Queued(s)' = {rest[i] : i \in DOMAIN rest}
  BY DEF Queued
<1>6. Pending(s)' = Pending(s) /\ Openers(s)' = Openers(s)
  BY <1>2, <1>3, <1>4, <1>5 DEF Pending, Openers
<1>7. InOrder(s)'
  <2>1. \A i, j \in DOMAIN rest : i < j => rest[i].seq < rest[j].seq
    <3> SUFFICES ASSUME NEW i \in 1..Len(rest), NEW j \in 1..Len(rest), i < j
                 PROVE  rest[i].seq < rest[j].seq
      BY <1>2
    <3>1. i + 1 \in DOMAIN tail[s] /\ j + 1 \in DOMAIN tail[s] /\ i + 1 < j + 1
      BY <1>2
    <3>2. tail[s][i + 1].seq < tail[s][j + 1].seq
      BY <1>1, <3>1 DEF InOrder
    <3> QED
      BY <1>2, <3>2
  <2>2. \A y \in Queued(s)' : h.seq < y.seq
    <3> SUFFICES ASSUME NEW i \in 1..Len(rest) PROVE h.seq < rest[i].seq
      BY <1>2, <1>5
    <3>1. 1 \in DOMAIN tail[s] /\ i + 1 \in DOMAIN tail[s] /\ 1 < i + 1
      BY <1>2
    <3>2. tail[s][1].seq < tail[s][i + 1].seq
      BY <1>1, <3>1 DEF InOrder
    <3> QED
      BY <1>2, <3>2
  <2>3. h.seq # 0
    <3>1. baseline[s].seq < h.seq /\ baseline[s].seq \in Nat /\ h.seq \in Nat
      BY <1>1, <1>2 DEF InOrder, Pending, WatchShape, Stored, Observation
    <3> QED
      BY <3>1
  <2> QED
    BY <1>1, <1>4, <1>6, <2>1, <2>2, <2>3 DEF InOrder
<1>8. Played(s)'
  <2>1. \A a, b : NoSeek(s, a, b)' <=> NoSeek(s, a, b)
    BY <1>6 DEF NoSeek
  <2>2. \A p, q : Covered(s, p, q)' <=> Covered(s, p, q)
    BY DEF Covered
  <2> QED
    BY <1>1, <1>6, <2>1, <2>2 DEF Played
<1>9. NotYetOpen(s)'
  BY <1>1, <1>6 DEF NotYetOpen
<1> QED
  BY <1>7, <1>8, <1>9

LEMMA SendHeartbeatKeeps ==
  ASSUME WatchInv, NEW s \in PlaySessions, SendHeartbeat(s)
  PROVE  WatchInv'
<1>0. /\ WatchShape /\ awaited[s] = 0 /\ tail[s] # <<>>
      /\ UNCHANGED <<watchClock, player, baseline, authorised, intervals, progress>>
      /\ tail \in [PlaySessions -> Seq(Observation)] /\ awaited \in [PlaySessions -> Nat]
      /\ seen \in [PlaySessions -> SUBSET (0..Duration)] /\ lossless \subseteq PlaySessions
      /\ heartbeats \subseteq Observation
  BY DEF WatchInv, WatchShape, SendHeartbeat
<1>1. PICK h : h = Head(tail[s])
  OBVIOUS
<1>2. PICK rest : rest = Tail(tail[s])
  OBVIOUS
<1>3. rest \in Seq(Observation) /\ h \in Observation /\ h.session = s /\ h.seq \in Nat
      /\ {rest[i] : i \in DOMAIN rest} \subseteq Queued(s)
  <2>1. \A z \in Queued(s) : z.session = s
    BY <1>0 DEF WatchShape
  <2> QED
    <3>1. /\ rest \in Seq(Observation) /\ h \in Observation /\ h \in Queued(s)
          /\ \A i \in DOMAIN rest : rest[i] \in Queued(s)
      <4>1. WatchShape /\ tail[s] # << >>
        BY <1>0
      <4> QED
        BY <4>1, <1>1, <1>2, HeadLeaves
    <3>2. h.seq \in Nat
      BY <3>1 DEF Observation
    <3> QED
      BY <2>1, <3>1, <3>2
<1>4. tail' = [tail EXCEPT ![s] = rest]
  BY <1>2 DEF SendHeartbeat
<1>5. \/ lossless' = lossless \ {s} /\ seen' = [seen EXCEPT ![s] = {}] /\ UNCHANGED <<awaited, heartbeats>>
      \/ heartbeats' = heartbeats \cup {h} /\ awaited' = [awaited EXCEPT ![s] = h.seq]
         /\ UNCHANGED <<seen, lossless>>
  BY <1>1 DEF SendHeartbeat, Lose
<1>6. /\ tail' \in [PlaySessions -> Seq(Observation)] /\ awaited' \in [PlaySessions -> Nat]
      /\ seen' \in [PlaySessions -> SUBSET (0..Duration)] /\ lossless' \subseteq lossless
      /\ heartbeats' \subseteq Observation
      /\ tail'[s] = rest
      /\ \A t \in PlaySessions : t # s => tail'[t] = tail[t] /\ awaited'[t] = awaited[t] /\ seen'[t] = seen[t]
      /\ \A g : g.session # s => (g \in heartbeats' <=> g \in heartbeats)
  BY <1>0, <1>3, <1>4, <1>5
<1>7. WatchShape'
  <2>1. \A t \in PlaySessions : Queued(t)' \subseteq Queued(t)
    <3>1. \A t \in PlaySessions : t # s => Queued(t)' = Queued(t)
      BY <1>6 DEF Queued
    <3>2. Queued(s)' = {rest[i] : i \in DOMAIN rest}
      BY <1>6 DEF Queued
    <3> QED
      BY <1>3, <3>1, <3>2
  <2> QED
    BY <1>0, <1>6, <2>1 DEF WatchShape
<1>8. ASSUME NEW t \in PlaySessions PROVE SessionHolds(t)'
  <2>0. SessionHolds(t)
    BY DEF WatchInv
  <2>1. CASE t # s
    BY <1>0, <1>6, <2>0, <2>1, Untouched
  <2>2. CASE s \notin lossless'
    <3>1. CASE t = s
      BY <2>2, <3>1 DEF SessionHolds
    <3> QED
      BY <2>1, <3>1
  <2>3. CASE s \in lossless'
    <3>1. heartbeats' = heartbeats \cup {h} /\ awaited'[s] = h.seq /\ UNCHANGED <<seen, lossless>>
      BY <1>0, <1>5, <2>3
    <3>2. SessionHolds(s)
      BY DEF WatchInv
    <3>3. SessionHolds(s)'
      BY <1>0, <1>1, <1>2, <1>6, <3>1, <3>2, GoesOut
    <3> QED
      BY <2>1, <3>3
  <2> QED
    BY <2>2, <2>3
<1>9. CreditedWasPlayed' /\ ProgressCounts'
  <2>1. \A t \in lossless' : seen[t] \subseteq seen'[t]
    BY <1>0, <1>5, <1>6
  <2> QED
    BY <1>0, <1>6, <2>1, CreditStays
<1> QED
  BY <1>7, <1>8, <1>9 DEF WatchInv

LEMMA GiveUpHeartbeatKeeps ==
  ASSUME WatchInv, NEW s \in PlaySessions, GiveUpHeartbeat(s)
  PROVE  WatchInv'
<1>0. /\ WatchShape
      /\ UNCHANGED <<watchClock, player, tail, baseline, authorised, intervals, progress>>
      /\ awaited \in [PlaySessions -> Nat] /\ heartbeats \subseteq Observation
      /\ seen \in [PlaySessions -> SUBSET (0..Duration)] /\ lossless \subseteq PlaySessions
      /\ awaited' = [awaited EXCEPT ![s] = 0]
      /\ lossless' = lossless \ {s} /\ seen' = [seen EXCEPT ![s] = {}]
  BY DEF WatchInv, WatchShape, GiveUpHeartbeat, Lose
<1>1. heartbeats' \subseteq heartbeats /\ \A g : g.session # s => (g \in heartbeats' <=> g \in heartbeats)
  BY DEF GiveUpHeartbeat
<1>2. /\ awaited' \in [PlaySessions -> Nat] /\ seen' \in [PlaySessions -> SUBSET (0..Duration)]
      /\ \A t \in PlaySessions : t # s => awaited'[t] = awaited[t] /\ seen'[t] = seen[t]
  BY <1>0
<1>3. WatchShape'
  <2>1. \A t \in PlaySessions : Queued(t)' = Queued(t)
    BY <1>0 DEF Queued
  <2> QED
    BY <1>0, <1>1, <1>2, <2>1 DEF WatchShape
<1>4. ASSUME NEW t \in PlaySessions PROVE SessionHolds(t)'
  <2>0. SessionHolds(t)
    BY DEF WatchInv
  <2>1. CASE t # s
    BY <1>0, <1>1, <1>2, <2>0, <2>1, Untouched
  <2>2. CASE t = s
    BY <1>0, <2>2 DEF SessionHolds
  <2> QED
    BY <2>1, <2>2
<1>5. CreditedWasPlayed' /\ ProgressCounts'
  <2>1. \A t \in lossless' : seen[t] \subseteq seen'[t]
    BY <1>0, <1>2
  <2> QED
    BY <1>0, <2>1, CreditStays
<1> QED
  BY <1>3, <1>4, <1>5 DEF WatchInv

(* What arrives is the first of all that is pending. *)
LEMMA ArrivesFirst ==
  ASSUME WatchShape, NEW s \in lossless, SessionHolds(s), NEW h \in heartbeats, h.session = s
  PROVE  /\ Underway(s) = {h} /\ h \in Pending(s) /\ h.seq = awaited[s] /\ h.seq # 0 /\ h.seq \in Nat
         /\ baseline[s].seq < h.seq /\ h.seq <= player[s].seq
         /\ \A z \in Pending(s) : z.seq \in Nat /\ (z # h => h.seq < z.seq)
         /\ player[s].state # "none"
<1>0. s \in PlaySessions /\ InOrder(s) /\ NotYetOpen(s)
  BY DEF WatchShape, SessionHolds
<1>1. h \in Underway(s) /\ h \in Pending(s)
  BY DEF Underway, Pending
<1>2. \A z \in Pending(s) : z \in Observation /\ z.seq \in Nat
  BY <1>0, TailFacts DEF Observation
<1>3. Underway(s) = {h}
  BY <1>0, <1>1 DEF InOrder
<1>4. \A z \in Pending(s) : z # h => h.seq < z.seq
  BY <1>0, <1>1, <1>3 DEF InOrder, Pending
<1>5. h.seq = awaited[s] /\ awaited[s] # 0 /\ baseline[s].seq < h.seq /\ h.seq <= player[s].seq
  BY <1>0, <1>1 DEF InOrder
<1>6. player[s].state # "none"
  BY <1>0, <1>1 DEF NotYetOpen
<1> QED
  BY <1>1, <1>2, <1>3, <1>4, <1>5, <1>6

(* What an interval begins and ends with was played in between. *)
LEMMA AddedWasPlayed ==
  ASSUME WatchShape, NEW s \in lossless, SessionHolds(s), NEW h \in heartbeats, h.session = s,
         s \in authorised, Contiguous(baseline[s], h, watchClock)
  PROVE  Covered(s, baseline[s].pos, h.pos)
<1>1. /\ h \in Pending(s) /\ baseline[s].seq < h.seq /\ h.seq \in Nat
      /\ \A z \in Pending(s) : z.seq \in Nat /\ (z # h => h.seq < z.seq)
  BY ArrivesFirst
<1>2. h.event # "seeking" /\ baseline[s].event # "none"
  BY DEF Contiguous, Follows
<1>3. NoSeek(s, baseline[s].seq, h.seq)
  BY <1>1, <1>2 DEF NoSeek
<1>4. baseline[s] \in Openers(s)
  BY <1>2 DEF Openers
<1> QED
  BY <1>1, <1>3, <1>4 DEF SessionHolds, Played

(* The API has answered: it has stored the observation, or it has dropped one     *)
(* that is no seek or whose session may not play.                                  *)
LEMMA Arrives ==
  ASSUME WatchShape, NEW s \in lossless, SessionHolds(s), NEW h \in heartbeats, h.session = s,
         heartbeats' = heartbeats \ {h}, awaited'[s] = 0,
         player'[s].seq = player[s].seq, player'[s].pos = player[s].pos, player'[s].state # "none",
         \/ baseline'[s].seq = h.seq /\ baseline'[s].pos = h.pos
         \/ baseline'[s] = baseline[s] /\ (s \in authorised => h.event # "seeking"),
         UNCHANGED <<tail, authorised, seen, lossless>>
  PROVE  SessionHolds(s)'
<1>0. s \in PlaySessions /\ InOrder(s) /\ Played(s)
  BY DEF WatchShape, SessionHolds
<1>1. /\ Underway(s) = {h} /\ h \in Pending(s) /\ h.seq \in Nat
      /\ baseline[s].seq < h.seq /\ h.seq <= player[s].seq
      /\ \A z \in Pending(s) : z.seq \in Nat /\ (z # h => h.seq < z.seq)
  BY ArrivesFirst
<1>2. Queued(s)' = Queued(s) /\ h \notin Queued(s) /\ \A y \in Queued(s) : h.seq < y.seq
  BY <1>0, <1>1 DEF Queued, InOrder
<1>3. Underway(s)' = {}
  BY <1>1 DEF Underway
<1>4. Pending(s)' = Queued(s) /\ Pending(s) = Queued(s) \cup {h}
  BY <1>1, <1>2, <1>3 DEF Pending
<1>5. baseline[s].seq \in Nat /\ player[s].seq \in Nat
  BY <1>0 DEF WatchShape, Stored, Media
<1>6. InOrder(s)'
  <2>1. baseline'[s].seq <= player'[s].seq /\ \A y \in Queued(s) : baseline'[s].seq < y.seq
    BY <1>0, <1>1, <1>2, <1>4, <1>5 DEF InOrder
  <2> QED
    BY <1>0, <1>2, <1>3, <1>4, <2>1 DEF InOrder
<1>7. \A p, q : Covered(s, p, q)' <=> Covered(s, p, q)
  BY DEF Covered
<1>8. ASSUME NEW a \in Nat, NEW b, h.seq <= a \/ h.event # "seeking", NoSeek(s, a, b)'
      PROVE  NoSeek(s, a, b)
  BY <1>1, <1>4, <1>8 DEF NoSeek
<1>9. ASSUME NEW x \in Openers(s)'
      PROVE  \E w \in Openers(s) : /\ w.seq = x.seq /\ w.pos = x.pos /\ w.seq \in Nat
                                   /\ h.seq <= w.seq \/ h.event # "seeking"
  <2>1. CASE x \in Pending(s)'
    <3>1. x \in Openers(s) /\ h.seq <= x.seq /\ x.seq \in Nat
      BY <1>1, <1>2, <1>4, <2>1 DEF Openers
    <3> QED
      BY <3>1
  <2>2. CASE x = baseline'[s] /\ baseline'[s].seq = h.seq /\ baseline'[s].pos = h.pos
    <3>1. h \in Openers(s)
      BY <1>1 DEF Openers
    <3> QED
      BY <1>1, <2>2, <3>1
  <2>3. CASE x = baseline'[s] /\ baseline'[s] = baseline[s] /\ (s \in authorised => h.event # "seeking")
              /\ s \in authorised /\ baseline[s].event # "none"
    <3>1. baseline[s] \in Openers(s)
      BY <2>3 DEF Openers
    <3> QED
      BY <1>5, <2>3, <3>1
  <2> QED
    BY <1>9, <2>1, <2>2, <2>3 DEF Openers
<1>10. Played(s)'
  <2>1. ASSUME NEW x \in Openers(s)', NEW y \in Pending(s)', x.seq < y.seq, NoSeek(s, x.seq, y.seq)'
        PROVE  Covered(s, x.pos, y.pos)'
    <3>1. PICK w \in Openers(s) : /\ w.seq = x.seq /\ w.pos = x.pos /\ w.seq \in Nat
                                  /\ h.seq <= w.seq \/ h.event # "seeking"
      BY <1>9
    <3>2. y \in Pending(s) /\ w.seq < y.seq
      BY <1>4, <2>1, <3>1
    <3>3. NoSeek(s, w.seq, y.seq)
      BY <1>8, <2>1, <3>1
    <3>4. Covered(s, w.pos, y.pos)
      BY <1>0, <3>2, <3>3 DEF Played
    <3> QED
      BY <1>7, <3>1, <3>4
  <2>2. ASSUME NEW x \in Openers(s)', NoSeek(s, x.seq, player[s].seq)'
        PROVE  Covered(s, x.pos, player[s].pos)'
    <3>1. PICK w \in Openers(s) : /\ w.seq = x.seq /\ w.pos = x.pos /\ w.seq \in Nat
                                  /\ h.seq <= w.seq \/ h.event # "seeking"
      BY <1>9
    <3>2. PICK b : b = player[s].seq
      OBVIOUS
    <3>3. NoSeek(s, w.seq, b)'
      BY <2>2, <3>1, <3>2 DEF NoSeek
    <3>4. NoSeek(s, w.seq, b)
      BY <1>8, <3>1, <3>3
    <3>5. Covered(s, w.pos, player[s].pos)
      BY <1>0, <3>2, <3>4 DEF Played
    <3>6. PICK q : q = player[s].pos /\ q = player'[s].pos
      OBVIOUS
    <3> QED
      BY <1>7, <3>1, <3>5, <3>6 DEF Covered
  <2> QED
    BY <2>1, <2>2 DEF Played
<1> QED
  BY <1>6, <1>10 DEF SessionHolds, NotYetOpen

LEMMA RecordVideoProgressKeeps ==
  ASSUME WatchInv, NEW h \in heartbeats, RecordVideoProgress(h)
  PROVE  WatchInv'
<1>1. PICK s \in PlaySessions : s = h.session
  BY DEF WatchInv, WatchShape, Observation
<1>2. /\ WatchShape /\ h \in Observation
      /\ player \in [PlaySessions -> Media] /\ baseline \in [PlaySessions -> Stored]
      /\ awaited \in [PlaySessions -> Nat] /\ watchClock \in Nat /\ heartbeats \subseteq Observation
  BY DEF WatchInv, WatchShape
<1> DEFINE added == {[session |-> s, from |-> i.from, to |-> i.to] :
                       i \in IntervalFromHeartbeat(baseline[s], h, watchClock)}
           accepted == s \in authorised /\ ~OutOfBounds(baseline[s], h, watchClock)
<1>3. /\ heartbeats' = heartbeats \ {h}
      /\ awaited' = [awaited EXCEPT ![s] = IF @ = h.seq THEN 0 ELSE @]
      /\ UNCHANGED <<watchClock, tail, authorised, seen, lossless>>
      /\ accepted => /\ intervals' = intervals \cup added
                     /\ progress' = UniqueWatchedSeconds(intervals \cup added)
                     /\ baseline' = [baseline EXCEPT ![s] = StoreObservation(@, h)]
                     /\ player' = player
      /\ ~accepted => /\ player' = IF s \in authorised THEN player
                                   ELSE [player EXCEPT ![s].state = "closed", ![s].playing = FALSE]
                      /\ UNCHANGED <<intervals, progress, baseline>>
  BY <1>1 DEF RecordVideoProgress
<1>4. ASSUME NEW i \in added, accepted
      PROVE  /\ i \in Interval /\ i.from < i.to /\ i.session = s
             /\ i.from = baseline[s].pos /\ i.to = h.pos /\ Contiguous(baseline[s], h, watchClock)
  <2>1. PICK k \in IntervalFromHeartbeat(baseline[s], h, watchClock) :
          i = [session |-> s, from |-> k.from, to |-> k.to]
    BY <1>4
  <2>2. Contiguous(baseline[s], h, watchClock) /\ k = [from |-> baseline[s].pos, to |-> h.pos]
    BY <2>1 DEF IntervalFromHeartbeat
  <2>3. i.session = s /\ i.from = baseline[s].pos /\ i.to = h.pos
        /\ i = [session |-> s, from |-> baseline[s].pos, to |-> h.pos]
    BY <2>1, <2>2
  <2>4. baseline[s].pos \in 0..Duration /\ h.pos \in 0..Duration
    BY <1>2 DEF Stored, Observation
  <2>5. i \in Interval
    BY <2>3, <2>4 DEF Interval
  <2>6. h.pos > baseline[s].pos
    BY <2>2 DEF Contiguous
  <2>7. i.from < i.to
    BY <2>3, <2>4, <2>6
  <2> QED
    BY <2>2, <2>3, <2>5, <2>7
<1>5. IsFiniteSet(added)
  <2> DEFINE one == [session |-> s, from |-> baseline[s].pos, to |-> h.pos]
  <2>1. added \subseteq {one}
    BY DEF IntervalFromHeartbeat
  <2> HIDE DEF added, one
  <2> QED
    BY <2>1, FS_Singleton, FS_Subset
<1> HIDE DEF added, accepted
<1>6. Spans(intervals')
  <2>1. Spans(intervals)
    BY <1>2 DEF WatchShape
  <2>2. CASE accepted
    <3>1. intervals' = intervals \cup added
      BY <1>3, <2>2
    <3>2. IsFiniteSet(intervals \cup added)
      BY <1>5, <2>1, FS_Union DEF Spans
    <3>3. \A i \in added : i \in Interval /\ i.from < i.to
      BY <1>4, <2>2
    <3> QED
      BY <2>1, <3>1, <3>2, <3>3 DEF Spans
  <2>3. CASE ~accepted
    <3>1. intervals' = intervals
      BY <1>3, <2>3
    <3> QED
      BY <2>1, <3>1
  <2> QED
    BY <2>2, <2>3
<1>7. /\ player' \in [PlaySessions -> Media] /\ player'[s].seq = player[s].seq /\ player'[s].pos = player[s].pos
      /\ \A t \in PlaySessions : t # s => player'[t] = player[t]
      /\ \A t \in PlaySessions : player'[t].playing => player[t].playing /\ player'[t].pos = player[t].pos
      /\ player'[s].state = player[s].state \/ player'[s].state = "closed"
  <2>1. CASE player' = player
    BY <1>2, <2>1 DEF Media
  <2>2. CASE player' = [player EXCEPT ![s].state = "closed", ![s].playing = FALSE]
    <3>1. PICK q \in Media : /\ q = [player[s] EXCEPT !.state = "closed", !.playing = FALSE]
                            /\ q.state = "closed" /\ q.playing = FALSE
                            /\ q.pos = player[s].pos /\ q.seq = player[s].seq
      <4>1. player[s] \in Media
        BY <1>2
      <4> QED
        BY <4>1, MediaCloses
    <3>2. player' = [player EXCEPT ![s] = q]
      BY <1>2, <2>2, <3>1
    <3> QED
      BY <1>2, <3>1, <3>2
  <2> QED
    BY <1>3, <2>1, <2>2
<1>8. /\ baseline' \in [PlaySessions -> Stored] /\ \A t \in PlaySessions : t # s => baseline'[t] = baseline[t]
      /\ accepted /\ h.seq > baseline[s].seq => baseline'[s].seq = h.seq /\ baseline'[s].pos = h.pos
  <2>1. CASE ~accepted
    BY <1>2, <1>3, <2>1
  <2>2. CASE accepted
    <3>1. PICK b : b = StoreObservation(baseline[s], h)
      OBVIOUS
    <3>2. baseline' = [baseline EXCEPT ![s] = b]
      BY <1>3, <2>2, <3>1
    <3>3. b \in Stored
      BY <1>2, <3>1 DEF StoreObservation, Stored, Observation
    <3>4. h.seq > baseline[s].seq => b.seq = h.seq /\ b.pos = h.pos
      BY <3>1 DEF StoreObservation
    <3> QED
      BY <1>2, <3>2, <3>3, <3>4
  <2> QED
    BY <2>1, <2>2
<1>9. WatchShape'
  <2>1. \A t \in PlaySessions : Queued(t)' = Queued(t)
    BY <1>3 DEF Queued
  <2>2. awaited' \in [PlaySessions -> Nat] /\ heartbeats' \subseteq Observation
    BY <1>2, <1>3
  <2>3. \A t \in PlaySessions : player'[t].playing => player'[t].pos < Duration
    BY <1>2, <1>7 DEF WatchShape
  <2>4. Spans(intervals)'
    BY <1>6
  <2> QED
    BY <1>2, <1>3, <1>7, <1>8, <2>1, <2>2, <2>3, <2>4 DEF WatchShape
<1>10. ASSUME NEW t \in PlaySessions PROVE SessionHolds(t)'
  <2>0. SessionHolds(t)
    BY DEF WatchInv
  <2>1. CASE t # s
    <3>1. awaited'[t] = awaited[t] /\ baseline'[t] = baseline[t] /\ player'[t] = player[t]
      BY <1>2, <1>3, <1>7, <1>8, <2>1
    <3>2. \A g : g.session = t => (g \in heartbeats' <=> g \in heartbeats)
      BY <1>1, <1>3, <2>1
    <3> QED
      BY <1>3, <2>0, <3>1, <3>2, Untouched
  <2>2. CASE t \notin lossless
    BY <1>3, <2>2 DEF SessionHolds
  <2>3. ASSUME s \in lossless PROVE SessionHolds(s)'
    <3>0. SessionHolds(s)
      BY DEF WatchInv
    <3>1. h.seq = awaited[s] /\ baseline[s].seq < h.seq /\ h.seq \in Nat /\ player[s].state # "none"
      BY <1>1, <1>2, <2>3, <3>0, ArrivesFirst
    <3>2. awaited'[s] = 0 /\ player'[s].state # "none"
      BY <1>2, <1>3, <1>7, <3>1
    <3>3. \/ baseline'[s].seq = h.seq /\ baseline'[s].pos = h.pos
          \/ baseline'[s] = baseline[s] /\ (s \in authorised => h.event # "seeking")
      <4>1. CASE accepted
        <5>1. baseline[s].seq \in Nat
          BY <1>2 DEF Stored
        <5> QED
          BY <1>8, <3>1, <4>1, <5>1
      <4>2. CASE ~accepted
        <5>1. s \in authorised => OutOfBounds(baseline[s], h, watchClock)
          BY <4>2 DEF accepted
        <5> QED
          BY <1>3, <4>2, <5>1 DEF OutOfBounds, Contiguous
      <4> QED
        BY <4>1, <4>2
    <3> QED
      BY <1>1, <1>2, <1>3, <1>7, <2>3, <3>0, <3>2, <3>3, Arrives
  <2> QED
    BY <2>1, <2>2, <2>3
<1>11. CreditedWasPlayed'
  <2>1. CreditedWasPlayed
    BY DEF WatchInv
  <2>2. ASSUME NEW i \in intervals', i.session \in lossless PROVE Ticks(i) \subseteq seen[i.session]
    <3>1. CASE i \in intervals
      BY <2>1, <2>2, <3>1 DEF CreditedWasPlayed
    <3>2. CASE i \notin intervals
      <4>1. accepted /\ i \in added
        BY <1>3, <2>2, <3>2
      <4>2. /\ i \in Interval /\ i.session = s /\ i.from = baseline[s].pos /\ i.to = h.pos
            /\ Contiguous(baseline[s], h, watchClock)
        BY <1>4, <4>1
      <4>3. SessionHolds(s)
        BY DEF WatchInv
      <4>4. s \in authorised
        BY <4>1 DEF accepted
      <4>5. Covered(s, baseline[s].pos, h.pos)
        BY <1>1, <1>2, <2>2, <4>2, <4>3, <4>4, AddedWasPlayed
      <4> QED
        BY <4>2, <4>5, WatchAssumption DEF Covered, Ticks, Interval
    <3> QED
      BY <3>1, <3>2
  <2>3. \A i \in intervals' : Ticks(i)' = Ticks(i)
    BY DEF Ticks
  <2> QED
    BY <1>3, <2>2 DEF CreditedWasPlayed, Ticks
<1>12. ProgressCounts'
  <2>1. CASE accepted
    <3>1. progress' = UniqueWatchedSeconds(intervals')
      BY <1>3, <2>1
    <3>2. PICK S : S = intervals'
      OBVIOUS
    <3>3. UniqueWatchedSeconds(S) = Cardinality(AllTicks(S)) /\ IsFiniteSet(AllTicks(S))
      BY <1>6, <3>2, WatchedSecondsCountTicks
    <3>4. AllTicks(intervals)' = AllTicks(S)
      BY <3>2 DEF AllTicks, Ticks
    <3> QED
      BY <3>1, <3>2, <3>3, <3>4 DEF ProgressCounts
  <2>2. CASE ~accepted
    <3>1. AllTicks(intervals)' = AllTicks(intervals)
      BY <1>3, <2>2 DEF AllTicks, Ticks
    <3> QED
      BY <1>3, <2>2, <3>1 DEF WatchInv, ProgressCounts
  <2> QED
    BY <2>1, <2>2
<1> QED
  BY <1>9, <1>10, <1>11, <1>12 DEF WatchInv

LEMMA PlaybackEnds ==
  ASSUME WatchInv, WithdrawAccess \/ \E s \in PlaySessions : ExpirePlayback(s)
  PROVE  WatchInv'
<1>1. /\ UNCHANGED <<watchClock, tail, awaited, heartbeats, baseline, intervals, progress, seen, lossless>>
      /\ authorised' \subseteq authorised
      /\ player \in [PlaySessions -> Media] /\ WatchShape
  BY DEF WatchInv, WatchShape, WithdrawAccess, ExpirePlayback
<1>2. ASSUME NEW t \in PlaySessions
      PROVE  /\ player'[t] \in Media /\ player'[t].seq = player[t].seq /\ player'[t].pos = player[t].pos
             /\ player'[t].playing => player[t].playing
             /\ player'[t].state = "none" => player'[t] = player[t]
  <2>1. player[t] \in Media
    BY <1>1
  <2>2. CASE player' = player
    BY <2>1, <2>2
  <2>3. CASE WithdrawAccess
    <3>1. player'[t] = player[t] \/ player'[t] = [player[t] EXCEPT !.state = "closed"]
      BY <2>3 DEF WithdrawAccess
    <3>2. CASE player'[t] = player[t]
      BY <2>1, <3>2
    <3>3. CASE player'[t] = [player[t] EXCEPT !.state = "closed"]
      BY <2>1, <3>3 DEF Media
    <3> QED
      BY <3>1, <3>2, <3>3
  <2> QED
    BY <2>2, <2>3 DEF ExpirePlayback
<1>3. player' \in [PlaySessions -> Media]
  <2>1. player' = player \/ player' = [s \in PlaySessions |-> player'[s]]
    BY DEF WithdrawAccess, ExpirePlayback
  <2> QED
    BY <1>1, <1>2, <2>1
<1>4. WatchShape'
  <2>1. \A t \in PlaySessions : Queued(t)' = Queued(t)
    BY <1>1 DEF Queued
  <2>2. \A t \in PlaySessions : player'[t].playing => player'[t].pos < Duration
    BY <1>1, <1>2 DEF WatchShape
  <2> QED
    BY <1>1, <1>3, <2>1, <2>2 DEF WatchShape
<1>5. ASSUME NEW t \in PlaySessions PROVE SessionHolds(t)'
  <2>1. SessionHolds(t)
    BY DEF WatchInv
  <2> QED
    BY <1>1, <1>2, <2>1, Untouched
<1>6. CreditedWasPlayed' /\ ProgressCounts'
  BY <1>1, CreditStays
<1> QED
  BY <1>4, <1>5, <1>6 DEF WatchInv

LEMMA WatchInitHolds ==
  ASSUME WatchInit
  PROVE  WatchInv
<1>1. WatchShape
  <2>1. NoMedia \in Media /\ NoMedia.playing = FALSE
    BY WatchAssumption DEF NoMedia, Media
  <2>2. NoBaseline \in Stored
    BY WatchAssumption DEF NoBaseline, Stored
  <2>3. <<>> \in Seq(Observation) /\ \A s \in PlaySessions : tail[s] = <<>> /\ Queued(s) = {}
    BY DEF WatchInit, Queued
  <2>4. Spans(intervals)
    BY FS_EmptySet DEF WatchInit, Spans
  <2>5. \A s \in PlaySessions : player[s].playing = FALSE
    BY <2>1 DEF WatchInit
  <2>6. 0 \in 0..MaxWatchClock
    BY WatchAssumption
  <2> QED
    BY <2>1, <2>2, <2>3, <2>4, <2>5, <2>6 DEF WatchInit, WatchShape
<1>2. ASSUME NEW s \in PlaySessions PROVE SessionHolds(s)
  <2>1. /\ Queued(s) = {} /\ Underway(s) = {} /\ Pending(s) = {} /\ Openers(s) = {}
        /\ tail[s] = <<>> /\ baseline[s] = NoBaseline /\ player[s] = NoMedia
    BY DEF WatchInit, Queued, Underway, Pending, Openers
  <2>2. InOrder(s)
    <3>1. baseline[s].seq = 0 /\ player[s].seq = 0 /\ DOMAIN tail[s] = {}
      BY <2>1 DEF NoBaseline, NoMedia
    <3> QED
      BY <2>1, <3>1 DEF InOrder
  <2>3. Played(s) /\ NotYetOpen(s)
    BY <2>1 DEF Played, NotYetOpen, NoBaseline, NoMedia
  <2> QED
    BY <2>2, <2>3 DEF SessionHolds
<1>3. CreditedWasPlayed /\ ProgressCounts
  <2>1. AllTicks(intervals) = {}
    BY DEF WatchInit, AllTicks
  <2> QED
    BY <2>1, FS_EmptySet DEF WatchInit, CreditedWasPlayed, ProgressCounts
<1> QED
  BY <1>1, <1>2, <1>3 DEF WatchInv

LEMMA WatchStays ==
  ASSUME WatchInv, UNCHANGED watchVars
  PROVE  WatchInv'
<1>0. UNCHANGED <<watchClock, player, tail, awaited, heartbeats, baseline, authorised,
                  intervals, progress, seen, lossless>>
  BY DEF watchVars
<1>1. \A t \in PlaySessions : Queued(t)' = Queued(t)
  BY <1>0 DEF Queued
<1>2. WatchShape'
  BY <1>0, <1>1 DEF WatchInv, WatchShape
<1>3. ASSUME NEW t \in PlaySessions PROVE SessionHolds(t)'
  <2>1. SessionHolds(t)
    BY DEF WatchInv
  <2> QED
    BY <1>0, <2>1, Untouched
<1>4. CreditedWasPlayed' /\ ProgressCounts'
  BY <1>0, CreditStays
<1> QED
  BY <1>2, <1>3, <1>4 DEF WatchInv

LEMMA WatchSteps == WatchInv /\ [WatchNext]_watchVars => WatchInv'
<1> SUFFICES ASSUME WatchInv, [WatchNext]_watchVars PROVE WatchInv'
  OBVIOUS
<1>1. ASSUME NEW s \in PlaySessions,
             \/ CreatePlaybackSession(s) \/ Play(s) \/ Pause(s)
             \/ \E p \in SeekTargets : Seek(s, p)
             \/ Detach(s) \/ SendHeartbeat(s) \/ GiveUpHeartbeat(s) \/ ExpirePlayback(s)
      PROVE  WatchInv'
  BY <1>1, CreatePlaybackSessionKeeps, PlayerKeeps, SendHeartbeatKeeps, GiveUpHeartbeatKeeps, PlaybackEnds
<1>2. ASSUME NEW h \in heartbeats, RecordVideoProgress(h) PROVE WatchInv'
  BY <1>2, RecordVideoProgressKeeps
<1>3. CASE WatchTick
  BY <1>3, WatchTickKeeps
<1>4. CASE WithdrawAccess
  BY <1>4, PlaybackEnds
<1>5. CASE UNCHANGED watchVars
  BY <1>5, WatchStays
<1> QED
  BY <1>1, <1>2, <1>3, <1>4, <1>5 DEF WatchNext

LEMMA WatchInvCredits == WatchInv => CreditedWasSeen
<1> SUFFICES ASSUME WatchInv PROVE CreditedWasSeen
  OBVIOUS
<1>1. \A i \in intervals : i.session \in lossless => Ticks(i) \subseteq seen[i.session]
  BY DEF WatchInv, CreditedWasPlayed
<1>2. ASSUME lossless = PlaySessions
      PROVE  progress <= Cardinality(UNION {seen[s] : s \in PlaySessions})
  <2> DEFINE Sights == UNION {seen[s] : s \in PlaySessions}
  <2>1. AllTicks(intervals) \subseteq Sights
    <3>1. \A i \in intervals : i.session \in PlaySessions
      BY DEF WatchInv, WatchShape, Spans, Interval
    <3>2. ASSUME NEW i \in intervals PROVE Ticks(i) \subseteq Sights
      BY <1>1, <1>2, <3>1
    <3> HIDE DEF Sights
    <3> QED
      BY <3>2 DEF AllTicks
  <2>2. Sights \subseteq 0..Duration
    BY DEF WatchInv, WatchShape
  <2>3. IsFiniteSet(Sights)
    <3>1. IsFiniteSet(0..Duration)
      BY FS_Interval, WatchAssumption
    <3> HIDE DEF Sights
    <3> QED
      BY <2>2, <3>1, FS_Subset
  <2> HIDE DEF Sights
  <2>4. Cardinality(AllTicks(intervals)) <= Cardinality(Sights)
    BY <2>1, <2>3, FS_Subset
  <2> QED
    BY <2>4 DEF Sights, WatchInv, ProgressCounts
<1> QED
  BY <1>1, <1>2 DEF CreditedWasSeen

LEMMA WatchInvTypes == WatchInv => WatchTypeOK
<1> SUFFICES ASSUME WatchInv PROVE WatchTypeOK
  OBVIOUS
<1>1. WatchShape /\ ProgressCounts /\ Duration \in Nat
  BY WatchAssumption DEF WatchInv
<1>2. AllTicks(intervals) \subseteq 0..(Duration - 1)
  <2>1. ASSUME NEW i \in intervals PROVE Ticks(i) \subseteq 0..(Duration - 1)
    <3>1. i.from \in 0..Duration /\ i.to \in 0..Duration
      BY <1>1 DEF WatchShape, Spans, Interval
    <3> QED
      BY <1>1, <3>1 DEF Ticks
  <2> QED
    BY <2>1 DEF AllTicks
<1>3. IsFiniteSet(0..(Duration - 1)) /\ Cardinality(0..(Duration - 1)) = Duration
  <2>1. 0 \in Int /\ Duration - 1 \in Int
    BY <1>1
  <2>2. /\ IsFiniteSet(0..(Duration - 1))
        /\ Cardinality(0..(Duration - 1)) = IF 0 > Duration - 1 THEN 0 ELSE Duration - 1 - 0 + 1
    BY <2>1, FS_Interval
  <2> QED
    BY <1>1, <2>2
<1>4. Cardinality(AllTicks(intervals)) <= Duration /\ Cardinality(AllTicks(intervals)) \in Nat
  BY <1>2, <1>3, FS_Subset, FS_CardinalityType
<1>5. progress \in 0..Duration
  BY <1>1, <1>4 DEF ProgressCounts
<1> QED
  BY <1>1, <1>5 DEF WatchShape, WatchTypeOK, Media, Spans, Interval

(* Confirmed progress never exceeds the length of the video, and every position *)
(* and interval lies within it (progress.ts:48-52, service.ts:570-578).          *)
THEOREM ProgressWithinVideo == WatchSpec => []WatchTypeOK
<1>1. WatchInit => WatchInv
  BY WatchInitHolds
<1>2. WatchInv /\ [WatchNext]_watchVars => WatchInv'
  BY WatchSteps
<1>3. WatchInv => WatchTypeOK
  BY WatchInvTypes
<1> QED
  BY <1>1, <1>2, <1>3, PTL DEF WatchSpec

(* Whatever is sought, paused, stalled, renewed, delayed or lost, what the API  *)
(* confirms as watched has been played (progress.ts:17-65, service.ts:498-590).  *)
THEOREM CreditsAlwaysSeen == WatchSpec => []CreditedWasSeen
<1>1. WatchInit => WatchInv
  BY WatchInitHolds
<1>2. WatchInv /\ [WatchNext]_watchVars => WatchInv'
  BY WatchSteps
<1>3. WatchInv => CreditedWasSeen
  BY WatchInvCredits
<1> QED
  BY <1>1, <1>2, <1>3, PTL DEF WatchSpec
=============================================================================
