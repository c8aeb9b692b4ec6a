---- MODULE WorkerLife ----
(* The life of a video worker process (apps/video-worker/src/lifecycle.ts and   *)
(* the end of worker.ts): it sweeps once, subscribes to the queue, transcodes    *)
(* what it fetches, and leaves on a signal, when start-up fails, or when it has   *)
(* been idle and the queue holds nothing for it.  Leaving waits for start-up,     *)
(* then for the callbacks and their acknowledgements, then for every task, and    *)
(* only then disconnects.  What a task does to a video is in the module Video.    *)
(* The queue is pg-boss: what it does between a fetch and a callback is external. *)
EXTENDS Naturals, FiniteSets

CONSTANTS
  TranscodeJobs,  \* jobs of the transcode queue
  IdleExit,       \* idleExitMs is not 0
  Concurrency     \* localConcurrency of the subscription

ASSUME WorkerAssumption ==
  /\ IsFiniteSet(TranscodeJobs) /\ IdleExit \in BOOLEAN /\ Concurrency \in Nat \ {0}

VARIABLES
  life,         \* state of the lifecycle
  shutdown,     \* how far the body of stop has come
  startup,      \* how far start-up has come
  activeTasks,
  sweeping,     \* cleanupDeletePending is running
  callback,     \* of each job: none, fetched, running, settling
  queued,       \* pgboss.job.state, or "absent"
  polling,      \* the worker is subscribed to the queue
  timers,       \* the two intervals are set
  queueOpen, poolOpen,
  quiet,        \* idleExitMs have passed since lastActivity
  checking,     \* checkIdle: no, asking, answered
  pending,      \* the answer it has got
  touched,      \* generation # observedGeneration
  since         \* history: the jobs that were sent since that answer was read

lifeVars == <<life, shutdown, startup, activeTasks, sweeping, callback, queued, polling,
              timers, queueOpen, poolOpen, quiet, checking, pending, touched, since>>
queueVars == <<callback, queued, polling>>
checkVars == <<checking, pending, since>>
openVars == <<queueOpen, poolOpen>>

-----------------------------------------------------------------------------
(* pendingTranscodeSql. *)
Waiting == {j \in TranscodeJobs : queued[j] \in {"created", "retry", "active"}}

Busy == {j \in TranscodeJobs : callback[j] # "none"}

LifeInit ==
  /\ life = "running" /\ shutdown = "none" /\ startup = "sweeping"
  /\ activeTasks = 1 /\ sweeping = TRUE
  /\ callback = [j \in TranscodeJobs |-> "none"]
  /\ queued \in [TranscodeJobs -> {"absent", "created"}]
  /\ polling = FALSE /\ timers = FALSE /\ queueOpen = TRUE /\ poolOpen = TRUE
  /\ quiet = FALSE /\ checking = "no" /\ pending = FALSE /\ touched = FALSE /\ since = {}

(* runTask: maintenance does not count as activity, but it does change the     *)
(* generation; the end of the last task wakes a shutdown that waits for it.     *)
BeginTask(countsAsActivity) ==
  /\ activeTasks' = activeTasks + 1 /\ touched' = TRUE
  /\ quiet' = (quiet /\ ~countsAsActivity)

EndTask(countsAsActivity) ==
  /\ activeTasks' = activeTasks - 1 /\ touched' = TRUE
  /\ quiet' = (quiet /\ ~countsAsActivity)

Resolved == IF activeTasks = 1 /\ shutdown = "waiting" THEN "released" ELSE shutdown

(* stop: a second call shares the first one's promise. *)
Stop ==
  IF shutdown # "none" THEN UNCHANGED <<life, shutdown, timers>>
  ELSE life' = "draining" /\ shutdown' = "draining" /\ timers' = FALSE

Signal == shutdown = "none" /\ Stop
          /\ UNCHANGED <<startup, activeTasks, sweeping, queueVars, openVars, quiet, checkVars, touched>>

(* drainWorkers: start-up first, then offWork, which waits for what was fetched. *)
StopPolling ==
  /\ shutdown = "draining" /\ startup = "ended"
  /\ shutdown' = "leaving" /\ polling' = FALSE
  /\ UNCHANGED <<life, startup, activeTasks, sweeping, callback, queued, timers, openVars, quiet,
                 checkVars, touched>>

(* Mutant: the tasks are not waited for. *)
DrainedAtOnce ==
  /\ shutdown = "leaving" /\ Busy = {} /\ shutdown' = "released"
  /\ UNCHANGED <<life, startup, activeTasks, sweeping, queueVars, timers, openVars, quiet,
                 checkVars, touched>>

Drained ==
  /\ shutdown = "leaving" /\ Busy = {}
  /\ shutdown' = IF activeTasks > 0 THEN "waiting" ELSE "released"
  /\ UNCHANGED <<life, startup, activeTasks, sweeping, queueVars, timers, openVars, quiet,
                 checkVars, touched>>

(* stopQueue; the resources are closed also when it fails. *)
StopQueue ==
  /\ shutdown = "released" /\ shutdown' = "closing" /\ queueOpen' = FALSE
  /\ UNCHANGED <<life, startup, activeTasks, sweeping, queueVars, timers, poolOpen, quiet,
                 checkVars, touched>>

CloseResources ==
  /\ shutdown = "closing" /\ shutdown' = "closed" /\ poolOpen' = FALSE /\ life' = "stopped"
  /\ UNCHANGED <<startup, activeTasks, sweeping, queueVars, timers, queueOpen, quiet,
                 checkVars, touched>>

-----------------------------------------------------------------------------
(* startup: every await is followed by a look at isRunning; a failure stops the *)
(* process by the same path.                                                    *)
StartupFails == startup' = "ended" /\ Stop

EndSweep ==
  /\ sweeping /\ sweeping' = FALSE /\ EndTask(FALSE)
  /\ \/ startup # "sweeping" /\ shutdown' = Resolved /\ UNCHANGED <<life, startup, timers>>
     \/ startup = "sweeping" /\ StartupFails
     \/ /\ startup = "sweeping" /\ startup' = IF life = "running" THEN "starting" ELSE "ended"
        /\ UNCHANGED <<life, shutdown, timers>>
  /\ UNCHANGED <<queueVars, openVars, checkVars>>

QueueStarted ==
  /\ startup = "starting"
  /\ \/ StartupFails
     \/ startup' = (IF life = "running" THEN "registering" ELSE "ended")
        /\ UNCHANGED <<life, shutdown, timers>>
  /\ UNCHANGED <<activeTasks, sweeping, queueVars, openVars, quiet, checkVars, touched>>

WorkRegistered ==
  /\ startup = "registering"
  /\ \/ StartupFails /\ UNCHANGED polling
     \/ /\ startup' = "ended" /\ polling' = TRUE /\ timers' = (life = "running")
        /\ UNCHANGED <<life, shutdown>>
  /\ UNCHANGED <<activeTasks, sweeping, callback, queued, openVars, quiet, checkVars, touched>>

(* cleanupTimer. *)
TimerSweep ==
  /\ timers /\ life = "running" /\ ~sweeping
  /\ sweeping' = TRUE /\ BeginTask(FALSE)
  /\ UNCHANGED <<life, shutdown, startup, queueVars, timers, openVars, checkVars>>

-----------------------------------------------------------------------------
(* The queue: the API or a takeover sends a job; pg-boss fetches it for the     *)
(* subscription, calls back, and acknowledges or schedules a retry afterwards.  *)
SendJob(j) ==
  /\ queued[j] = "absent"
  /\ queued' = [queued EXCEPT ![j] = "created"] /\ since' = since \cup {j}
  /\ UNCHANGED <<life, shutdown, startup, activeTasks, sweeping, callback, polling, timers,
                 openVars, quiet, checking, pending, touched>>

FetchJob(j) ==
  /\ polling /\ queueOpen /\ queued[j] \in {"created", "retry"}
  /\ Cardinality(Busy) < Concurrency /\ callback[j] = "none"
  /\ queued' = [queued EXCEPT ![j] = "active"] /\ callback' = [callback EXCEPT ![j] = "fetched"]
  /\ UNCHANGED <<life, shutdown, startup, activeTasks, sweeping, polling, timers, openVars, quiet,
                 checkVars, touched>>

RunJob(j) ==
  /\ callback[j] = "fetched" /\ callback' = [callback EXCEPT ![j] = "running"] /\ BeginTask(TRUE)
  /\ UNCHANGED <<life, shutdown, startup, sweeping, queued, polling, timers, openVars, checkVars>>

FinishJob(j) ==
  /\ callback[j] = "running" /\ callback' = [callback EXCEPT ![j] = "settling"] /\ EndTask(TRUE)
  /\ shutdown' = Resolved
  /\ UNCHANGED <<life, startup, sweeping, queued, polling, timers, openVars, checkVars>>

SettleCallback(j) ==
  /\ callback[j] = "settling" /\ callback' = [callback EXCEPT ![j] = "none"]
  /\ \E s \in {"completed", "retry"} : queued' = [queued EXCEPT ![j] = s]
  /\ UNCHANGED <<life, shutdown, startup, activeTasks, sweeping, polling, timers, openVars, quiet,
                 checkVars, touched>>

-----------------------------------------------------------------------------
(* The idle check, in its steps: the interval has passed, the timer asks, the   *)
(* database reads, and the answer is judged by what has happened meanwhile.     *)
Elapse ==
  /\ IdleExit /\ ~quiet /\ quiet' = TRUE
  /\ UNCHANGED <<life, shutdown, startup, activeTasks, sweeping, queueVars, timers, openVars,
                 checkVars, touched>>

CheckIdle ==
  /\ timers /\ checking = "no" /\ life = "running" /\ IdleExit /\ activeTasks = 0 /\ quiet
  /\ checking' = "asking" /\ touched' = FALSE
  /\ UNCHANGED <<life, shutdown, startup, activeTasks, sweeping, queueVars, timers, openVars, quiet,
                 pending, since>>

ReadPending ==
  /\ checking = "asking" /\ checking' = "answered" /\ pending' = (Waiting # {}) /\ since' = {}
  /\ UNCHANGED <<life, shutdown, startup, activeTasks, sweeping, queueVars, timers, openVars, quiet,
                 touched>>

ProbeFails ==
  /\ checking = "asking" /\ checking' = "no"
  /\ UNCHANGED <<life, shutdown, startup, activeTasks, sweeping, queueVars, timers, openVars, quiet,
                 pending, since, touched>>

(* Mutant: what ran while the database was asked is not looked at. *)
StillIdleUntouched == life = "running" /\ activeTasks = 0

StillIdle == life = "running" /\ activeTasks = 0 /\ ~touched

Conclude ==
  /\ checking = "answered" /\ checking' = "no"
  /\ \/ ~StillIdle /\ UNCHANGED <<life, shutdown, timers, quiet>>
     \/ StillIdle /\ pending /\ quiet' = FALSE /\ UNCHANGED <<life, shutdown, timers>>
     \/ StillIdle /\ ~pending /\ Stop /\ UNCHANGED quiet
  /\ UNCHANGED <<startup, activeTasks, sweeping, queueVars, openVars, pending, since, touched>>

LifeNext ==
  \/ Signal \/ StopPolling \/ Drained \/ StopQueue \/ CloseResources
  \/ EndSweep \/ QueueStarted \/ WorkRegistered \/ TimerSweep
  \/ \E j \in TranscodeJobs : SendJob(j) \/ FetchJob(j) \/ RunJob(j) \/ FinishJob(j) \/ SettleCallback(j)
  \/ Elapse \/ CheckIdle \/ ReadPending \/ ProbeFails \/ Conclude

LifeSpec == LifeInit /\ [][LifeNext]_lifeVars

(* Tasks, acknowledgements and calls come back; nothing is asked of signals,    *)
(* fetches or timers.                                                           *)
LifeFairness ==
  /\ WF_lifeVars(StopPolling \/ Drained \/ StopQueue \/ CloseResources)
  /\ WF_lifeVars(EndSweep) /\ WF_lifeVars(QueueStarted \/ WorkRegistered)
  /\ \A j \in TranscodeJobs : WF_lifeVars(RunJob(j) \/ FinishJob(j) \/ SettleCallback(j))

FairLifeSpec == LifeSpec /\ LifeFairness

-----------------------------------------------------------------------------
(* The types of the variables. *)
LifeTypeOK ==
  /\ life \in {"running", "draining", "stopped"}
  /\ shutdown \in {"none", "draining", "leaving", "waiting", "released", "closing", "closed"}
  /\ startup \in {"sweeping", "starting", "registering", "ended"}
  /\ activeTasks \in Nat
  /\ callback \in [TranscodeJobs -> {"none", "fetched", "running", "settling"}]
  /\ queued \in [TranscodeJobs -> {"absent", "created", "retry", "active", "completed"}]
  /\ {sweeping, polling, timers, queueOpen, poolOpen, quiet, pending, touched} \subseteq BOOLEAN
  /\ checking \in {"no", "asking", "answered"} /\ since \subseteq TranscodeJobs

(* Nothing is cut off: the queue is closed only when no job is fetched, running *)
(* or unacknowledged, and the database only when no task at all is under way     *)
(* and start-up has ended (lifecycle.ts:46-58, worker.ts:343-354).               *)
NothingCutOff ==
  /\ ~queueOpen => Busy = {}
  /\ ~poolOpen => ~queueOpen /\ activeTasks = 0 /\ ~sweeping /\ startup = "ended"

(* An idle exit is one: no task ran since the whole interval began, and every    *)
(* job that waits was sent after the queue had been read (lifecycle.ts:62-77).   *)
IdleExitIsIdle ==
  [][checking = "answered" /\ checking' = "no" /\ life' # life =>
       quiet /\ activeTasks = 0 /\ Waiting \subseteq since]_lifeVars

(* Who is told to stop does stop: start-up, callbacks, sweeps and shutdown do    *)
(* not wait for each other in a circle (lifecycle.ts:42-60, worker.ts:369-406).   *)
DrainEnds == life = "draining" ~> life = "stopped"

(* The worker stops of its own accord only when it is idle, and whoever told it  *)
(* to stop sees it stop (lifecycle.ts:42-77).                                    *)
StopsInTime == IdleExitIsIdle /\ DrainEnds
=============================================================================
