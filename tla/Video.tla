------------------------------- MODULE Video -------------------------------
(***************************************************************************)
(* The hosted videos of one course run: the trainer's requests             *)
(* (video/service.ts), the queue between the API and the worker (pg-boss), *)
(* and the worker's jobs and sweeps (apps/video-worker/src/worker.ts).     *)
(*                                                                         *)
(* A worker process may stop at any await, and the queue may believe that  *)
(* it did although it goes on: then two handlers work on one version.      *)
(***************************************************************************)
EXTENDS Naturals, FiniteSets

CONSTANTS
  Versions,        \* the video versions of the run
  Legacy,          \* the one that migration 016 may have made of an older upload
  Attempts,        \* handler invocations, each with an attempt id and a prefix
  Jobs,            \* queue entries
  RetryLimit,      \* VIDEO_TRANSCODE_RETRY_LIMIT (5 in the code)
  MaxSends,        \* bound: jobs that the API enqueues
  LastRetryMayDie, \* may the handler of a job's last retry stop half-way?
  LateCalls,       \* may a callback claim or settle after its job's next attempt began?
  Nil

ASSUME VideoAssumption ==
  /\ Legacy \subseteq Versions /\ \A u, v \in Legacy : u = v
  /\ RetryLimit \in Nat \ {0} /\ MaxSends \in Nat
  /\ LastRetryMayDie \in BOOLEAN /\ LateCalls \in BOOLEAN
  /\ Nil \notin Versions \cup Attempts \cup Jobs

VARIABLES
  published, \* is the course on sale?
  version,  \* rows of course_video_versions
  source,   \* asset_status of the source file
  object,   \* versions whose source object is in the store
  open,     \* versions whose multipart upload is open in the store
  expired,  \* versions past upload_expires_at
  ordered,  \* versions that an order item is bound to
  aborting, \* versions an abort request has read as upload_pending
  job,      \* the queue
  sent,     \* enqueues so far
  handler,  \* invocations of the worker's callback
  whole     \* attempts whose prefix in the store has the whole output

courseVars == <<published, ordered>>
sourceVars == <<source, object, open, expired, aborting>>
jobVars == <<job, sent>>
workerVars == <<handler, whole>>
videoVars == <<courseVars, version, sourceVars, jobVars, workerVars>>

-----------------------------------------------------------------------------
NoVersion == [status |-> "none", attempt |-> Nil, output |-> Nil,
              terminal |-> FALSE]
NoJob == [state |-> "none", of |-> Nil, count |-> 0, resume |-> FALSE, left |-> 0]
Resting == [pc |-> "idle", job |-> Nil, task |-> NoJob]

(* An older upload waits for its first transcode or has been through it;   *)
(* other versions do not exist yet or are gone.                            *)
VideoInit ==
  /\ published = FALSE
  /\ \E served \in [Legacy -> Attempts \cup {Nil}], gone \in SUBSET (Versions \ Legacy) :
       /\ version = [v \in Versions |->
            IF v \in gone THEN [NoVersion EXCEPT !.status = "deleted"]
            ELSE IF v \notin Legacy THEN NoVersion
            ELSE IF served[v] = Nil THEN [NoVersion EXCEPT !.status = "failed"]
            ELSE [NoVersion EXCEPT !.status = "ready", !.output = served[v]]]
       /\ source = [v \in Versions |->
            IF v \in gone THEN "deleted" ELSE IF v \in Legacy THEN "ready" ELSE "none"]
       /\ whole = {served[v] : v \in Legacy} \ {Nil}
       /\ sent = Cardinality(whole)
       /\ sent <= 1
       /\ expired = Legacy \cup gone
  /\ object = Legacy
  /\ open = {}
  /\ ordered = {}
  /\ aborting = {}
  /\ job = [j \in Jobs |-> NoJob]
  /\ handler = [w \in Attempts |-> Resting]

In(v, statuses) == version[v].status \in statuses
Becomes(v, status) == version' = [version EXCEPT ![v].status = status]
ReadyVersions == {v \in Versions : In(v, {"ready"})}   \* is_current goes with "ready"

-----------------------------------------------------------------------------
(* The queue *)

(* A finished entry is reused once no callback can settle it any more.     *)
FreeJobs == {j \in Jobs : job[j] = NoJob /\ \A w \in Attempts : handler[w].job # j}

PutJob(j, v, resume, left) ==
  job' = [job EXCEPT ![j] = [state |-> "waiting", of |-> v, count |-> 0,
                             resume |-> resume, left |-> left]]

(* The API enqueues after its commit, and may fail to.  A job that is sent *)
(* late is as good as one that is fetched late.  singletonKey excludes     *)
(* nothing in a queue without a policy.                                    *)
Enqueue(v) ==
  \/ UNCHANGED jobVars
  \/ /\ sent < MaxSends
     /\ sent' = sent + 1
     /\ \E j \in FreeJobs : PutJob(j, v, FALSE, RetryLimit)

(* An attempt that ended badly: try again or give the job up. *)
TryAgain(j) ==
  job' = [job EXCEPT ![j] = IF job[j].count < RetryLimit
                            THEN [job[j] EXCEPT !.state = "waiting", !.count = job[j].count + 1]
                            ELSE NoJob]

(* No heartbeat for a minute, or six hours of work: the queue takes the    *)
(* handler for dead, whether it is or not.                                 *)
Lapse(j) ==
  /\ job[j].state = "active"
  /\ TryAgain(j)
  /\ UNCHANGED <<courseVars, version, sourceVars, sent, workerVars>>

-----------------------------------------------------------------------------
(* The trainer *)

Create(v) ==
  /\ In(v, {"none"})
  /\ \A u \in Versions : ~In(u, {"upload_pending", "queued", "transcoding"})
  /\ Becomes(v, "upload_pending")
  /\ source' = [source EXCEPT ![v] = "pending"]
  /\ open' = open \cup {v}
  /\ UNCHANGED <<courseVars, object, expired, aborting, jobVars, workerVars>>

(* The store completes the upload, and the transaction commits or is lost; *)
(* a later call finds the object.                                          *)
Complete(v) ==
  /\ In(v, {"upload_pending"})
  /\ v \notin expired
  /\ v \in object \cup open
  /\ object' = object \cup {v}
  /\ open' = open \ {v}
  /\ \/ source' = [source EXCEPT ![v] = IF @ = "pending" THEN "uploaded" ELSE @]
     \/ UNCHANGED source
  /\ UNCHANGED <<courseVars, version, expired, aborting, jobVars, workerVars>>

Verify(v) ==
  /\ In(v, {"upload_pending"})
  /\ source[v] = "uploaded"
  /\ v \in object
  /\ source' = [source EXCEPT ![v] = "ready"]
  /\ version' = [version EXCEPT ![v].status = "queued", ![v].terminal = FALSE]
  /\ Enqueue(v)
  /\ UNCHANGED <<courseVars, object, open, expired, aborting, workerVars>>

(* A retry, or a verification repeated with its key: the stored answer     *)
(* says "queued", so the job is sent once more whatever came of the first. *)
Retry(v) ==
  /\ \/ /\ In(v, {"failed", "queued"})
        /\ source[v] = "ready"
        /\ ~version[v].terminal
        /\ Becomes(v, "queued")
     \/ /\ In(v, {"transcoding"})
        /\ UNCHANGED version
  /\ Enqueue(v)
  /\ UNCHANGED <<courseVars, sourceVars, workerVars>>

(* The abort reads the status, ... *)
AbortBegin(v) ==
  /\ In(v, {"upload_pending"})
  /\ aborting' = aborting \cup {v}
  /\ UNCHANGED <<courseVars, version, source, object, open, expired, jobVars, workerVars>>

(* ... closes the upload if it is still open, and marks the version, which *)
(* the constraint on is_current refuses for a current one.  It may also    *)
(* die before that.                                                        *)
AbortEnd(v) ==
  /\ v \in aborting
  /\ aborting' = aborting \ {v}
  /\ open' = open \ {v}
  /\ \/ /\ ~In(v, {"ready"})
        /\ Becomes(v, "delete_pending")
        /\ source' = [source EXCEPT ![v] = IF @ = "pending" THEN "delete_pending" ELSE @]
     \/ UNCHANGED <<version, source>>
  /\ UNCHANGED <<courseVars, object, expired, jobVars, workerVars>>

Deletable == {"upload_pending", "queued", "failed", "superseded"}

Delete(v) ==
  /\ v \notin ordered
  /\ In(v, Deletable)
  /\ Becomes(v, "delete_pending")
  /\ source' = [source EXCEPT ![v] = "delete_pending"]
  /\ open' = open \ {v}
  /\ UNCHANGED <<courseVars, object, expired, aborting, jobVars, workerVars>>

-----------------------------------------------------------------------------
(* Around it: moderators, buyers, time and the maintenance task *)

Publish ==
  /\ ~published
  /\ ReadyVersions # {}
  /\ published' = TRUE
  /\ UNCHANGED <<ordered, version, sourceVars, jobVars, workerVars>>

Order(v) ==
  /\ published
  /\ v \in ReadyVersions
  /\ ordered' = ordered \cup {v}
  /\ UNCHANGED <<published, version, sourceVars, jobVars, workerVars>>

PassDeadline(v) ==
  /\ source[v] \in {"pending", "uploaded", "delete_pending"}
  /\ v \notin expired
  /\ expired' = expired \cup {v}
  /\ UNCHANGED <<courseVars, version, source, object, open, aborting, jobVars, workerVars>>

(* The store refuses, obliges, or obliges while the transaction is lost.   *)
CollectObject(v) ==
  /\ v \in expired
  /\ \/ source[v] = "delete_pending"
     \/ source[v] \in {"pending", "uploaded"} /\ ~published
  /\ \/ /\ object' = object \ {v}
        /\ source' = [source EXCEPT ![v] = "deleted"]
     \/ /\ source' = [source EXCEPT ![v] = "delete_pending"]
        /\ UNCHANGED object
     \/ /\ object' = object \ {v}
        /\ UNCHANGED source
  /\ UNCHANGED <<courseVars, version, open, expired, aborting, jobVars, workerVars>>

-----------------------------------------------------------------------------
(* The worker's callback *)

(* What a callback knows of its task is forgotten when it needs it no more. *)
Continue(w, pc) ==
  handler' = [handler EXCEPT ![w] =
    [@ EXCEPT !.pc = pc,
              !.task = IF pc \in {"settle", "reject"} THEN [NoJob EXCEPT !.count = handler[w].task.count]
                       ELSE IF pc = "running"
                       THEN [handler[w].task EXCEPT !.resume = FALSE, !.left = 0]
                       ELSE handler[w].task]]

(* A new attempt has an id, and a prefix, that no other callback and no    *)
(* output has.  (The id of a callback that died is as good as a new one.)  *)
Fresh(w) ==
  /\ handler[w] = Resting
  /\ \A v \in Versions :
       In(v, {"ready", "superseded", "delete_pending"}) => version[v].output # w

Unclaimed == {"check", "takeover", "claim"}

(* A retry is fetched half a minute after the attempt before it ended.     *)
Fetch(w, j) ==
  /\ Fresh(w)
  /\ job[j].state = "waiting"
  /\ \A x \in Attempts : handler[x].job = j /\ handler[x].pc \in Unclaimed => LateCalls
  /\ job' = [job EXCEPT ![j].state = "active"]
  /\ handler' = [handler EXCEPT ![w] =
       [pc |-> IF job[j].count > 0 THEN "check" ELSE "claim", job |-> j, task |-> job[j]]]
  /\ whole' = whole \ {w}
  /\ UNCHANGED <<courseVars, version, sourceVars, sent>>

(* isTranscoding *)
Check(w) ==
  /\ handler[w].pc = "check"
  /\ Continue(w, IF In(handler[w].task.of, {"transcoding"}) THEN "takeover" ELSE "claim")
  /\ UNCHANGED <<courseVars, version, sourceVars, jobVars, whole>>

(* spawnTakeover: a successor with an id of its own, or the end of it. *)
Takeover(w) ==
  LET v == handler[w].task.of
      left == handler[w].task.left
  IN /\ handler[w].pc = "takeover"
     /\ IF left > 0
        THEN /\ \E j \in FreeJobs : PutJob(j, v, TRUE, left - 1)
             /\ UNCHANGED version
        ELSE /\ version' = [version EXCEPT ![v] =
                  IF @.status = "transcoding"
                  THEN [@ EXCEPT !.status = "failed", !.attempt = Nil, !.terminal = TRUE]
                  ELSE @]
             /\ UNCHANGED job
     /\ Continue(w, "settle")
     /\ UNCHANGED <<courseVars, sourceVars, sent, whole>>

(* loadAndClaim *)
Claim(w) ==
  LET v == handler[w].task.of
  IN /\ handler[w].pc = "claim"
     /\ IF In(v, {"queued"}) \/ (handler[w].task.resume /\ In(v, {"transcoding"}))
        THEN /\ version' = [version EXCEPT ![v].status = "transcoding", ![v].attempt = w]
             /\ Continue(w, "running")
        ELSE /\ UNCHANGED version
             /\ Continue(w, "settle")
     /\ UNCHANGED <<courseVars, sourceVars, jobVars, whole>>

(* Is it the last of the job's attempts that stops here? *)
MayDie(w) == handler[w].task.count < RetryLimit \/ LastRetryMayDie

(* The database does not answer one of the three. *)
Throw(w) ==
  /\ handler[w].pc \in Unclaimed
  /\ handler[w].pc = "claim" \/ MayDie(w)
  /\ Continue(w, "reject")
  /\ UNCHANGED <<courseVars, version, sourceVars, jobVars, whole>>

(* Download, probe, encode, and upload to the attempt's own prefixes. *)
Produce(w) ==
  /\ handler[w].pc = "running"
  /\ \/ /\ handler[w].task.of \in object
        /\ whole' = whole \cup {w}
        /\ Continue(w, "produced")
     \/ /\ handler[w].task.of \in object
        /\ Continue(w, "invalid")
        /\ UNCHANGED whole
     \/ /\ Continue(w, "failing")
        /\ UNCHANGED whole
  /\ UNCHANGED <<courseVars, version, sourceVars, jobVars>>

Fenced(w) == In(handler[w].task.of, {"transcoding"}) /\ version[handler[w].task.of].attempt = w

(* The former current version makes room, in the same transaction. *)
Promoted(w) ==
  [v \in Versions |->
     IF v = handler[w].task.of
     THEN [version[v] EXCEPT !.status = "ready", !.attempt = Nil, !.output = w]
     ELSE IF v \in ReadyVersions THEN [version[v] EXCEPT !.status = "superseded"]
     ELSE version[v]]

(* Mutant: the claim is compared with nothing. *)
MarkReadyUnfenced(w) ==
  /\ handler[w].pc = "produced"
  /\ \/ /\ handler[w].task.of \notin aborting
        /\ version' = Promoted(w)
        /\ Continue(w, "settle") \/ Continue(w, "failing")
     \/ /\ UNCHANGED version
        /\ Continue(w, "failing")
  /\ UNCHANGED <<courseVars, sourceVars, jobVars, whole>>

(* markReady: the COMMIT may fail, or take effect although its answer is   *)
(* lost.  An abort, which waits for one call to the store, is assumed to   *)
(* be over before a transcode that began after it.                         *)
MarkReady(w) ==
  /\ handler[w].pc = "produced"
  /\ \/ /\ Fenced(w)
        /\ handler[w].task.of \notin aborting
        /\ version' = Promoted(w)
        /\ Continue(w, "settle") \/ Continue(w, "failing")
     \/ /\ ~Fenced(w)
        /\ UNCHANGED version
        /\ Continue(w, "drop")
     \/ /\ UNCHANGED version
        /\ Continue(w, "failing")
  /\ UNCHANGED <<courseVars, sourceVars, jobVars, whole>>

(* recordFailure *)
Record(w) ==
  LET v == handler[w].task.of
      terminal == handler[w].pc = "invalid" \/ handler[w].task.count >= RetryLimit
  IN /\ handler[w].pc \in {"failing", "invalid"}
     /\ version' = [version EXCEPT ![v] =
          IF Fenced(w)
          THEN [@ EXCEPT !.status = IF terminal THEN "failed" ELSE "queued",
                         !.attempt = Nil, !.terminal = terminal]
          ELSE @]
     /\ Continue(w, IF terminal THEN "drop" ELSE "retreat")
     /\ UNCHANGED <<courseVars, sourceVars, jobVars, whole>>

RecordFails(w) ==
  /\ handler[w].pc \in {"failing", "invalid"}
  /\ MayDie(w)
  /\ Continue(w, "retreat")
  /\ UNCHANGED <<courseVars, version, sourceVars, jobVars, whole>>

Referenced(w) ==
  /\ In(handler[w].task.of, {"ready", "superseded"})
  /\ version[handler[w].task.of].output = w

(* finally: the prefix goes unless a row serves it.  What is left behind   *)
(* because the database or the store refuses is of no consequence here.    *)
Discard(w) ==
  /\ handler[w].pc \in {"drop", "retreat"}
  /\ whole' = IF Referenced(w) THEN whole ELSE whole \ {w}
  /\ Continue(w, IF handler[w].pc = "drop" THEN "settle" ELSE "reject")
  /\ UNCHANGED <<courseVars, version, sourceVars, jobVars>>

(* The queue learns how the callback ended: by the id of the job, which    *)
(* another callback may have by now.  Without LateCalls such an answer is  *)
(* lost.                                                                   *)
SettleJob(w) ==
  LET j == handler[w].job
      late == job[j].count # handler[w].task.count
  IN /\ handler[w].pc \in {"settle", "reject"}
     /\ IF job[j].state # "active" \/ (late /\ ~LateCalls) THEN UNCHANGED job
        ELSE IF handler[w].pc = "reject" THEN TryAgain(j)
        ELSE job' = [job EXCEPT ![j] = NoJob]
     /\ handler' = [handler EXCEPT ![w] = Resting]
     /\ UNCHANGED <<courseVars, version, sourceVars, sent, whole>>

Crash(w) ==
  /\ handler[w] # Resting
  /\ MayDie(w)
  /\ handler' = [handler EXCEPT ![w] = Resting]
  /\ UNCHANGED <<courseVars, version, sourceVars, jobVars, whole>>

(* Prefixes below the root of a version. *)
Below(v) == {w \in Attempts : version[v].output = w \/ handler[w].task.of = v}

(* cleanupDeletePending: the store first, then the rows ... *)
Sweep(v) ==
  /\ In(v, {"delete_pending"})
  /\ object' = object \ {v}
  /\ whole' = whole \ Below(v)
  /\ Becomes(v, "deleted")
  /\ source' = [source EXCEPT ![v] = IF @ = "delete_pending" THEN "deleted" ELSE @]
  /\ UNCHANGED <<courseVars, open, expired, aborting, jobVars, handler>>

(* ... unless it stops between the two. *)
SweepStops(v) ==
  /\ In(v, {"delete_pending"})
  /\ object' = object \ {v}
  /\ whole' = whole \ Below(v)
  /\ UNCHANGED <<courseVars, version, source, open, expired, aborting, jobVars, handler>>

-----------------------------------------------------------------------------
Step(w) ==
  \/ Check(w) \/ Takeover(w) \/ Claim(w) \/ Throw(w) \/ Produce(w) \/ MarkReady(w)
  \/ Record(w) \/ RecordFails(w) \/ Discard(w) \/ SettleJob(w)

VideoNext ==
  \/ Publish
  \/ \E v \in Versions :
       \/ Create(v) \/ Complete(v) \/ Verify(v) \/ Retry(v)
       \/ AbortBegin(v) \/ AbortEnd(v) \/ Delete(v)
       \/ Order(v) \/ PassDeadline(v) \/ CollectObject(v) \/ Sweep(v) \/ SweepStops(v)
  \/ \E w \in Attempts : Step(w) \/ Crash(w) \/ \E j \in Jobs : Fetch(w, j)
  \/ \E j \in Jobs : Lapse(j)

VideoSpec == VideoInit /\ [][VideoNext]_videoVars

Abandoned(j) == \A w \in Attempts : handler[w].job # j

(* A worker is running: it polls, its callbacks go on unless it stops, it  *)
(* sweeps, and the queue notices what it abandoned.                        *)
VideoFairness ==
  /\ \A w \in Attempts : WF_videoVars(Step(w))
  /\ \A j \in Jobs : /\ WF_videoVars(\E w \in Attempts : Fetch(w, j))
                     /\ WF_videoVars(Abandoned(j) /\ Lapse(j))
  /\ \A v \in Versions : WF_videoVars(Sweep(v))

FairVideoSpec == VideoSpec /\ VideoFairness

-----------------------------------------------------------------------------
Statuses == {"none", "upload_pending", "queued", "transcoding", "ready", "failed",
             "superseded", "delete_pending", "deleted"}
JobRecords == [state : {"none", "waiting", "active"}, of : Versions \cup {Nil},
               count : 0..RetryLimit, resume : BOOLEAN, left : 0..RetryLimit]

VersionRecords == [status : Statuses, attempt : Attempts \cup {Nil},
                   output : Attempts \cup {Nil}, terminal : BOOLEAN]
HandlerRecords ==
  [pc : {"idle", "check", "takeover", "claim", "running", "produced", "failing",
         "invalid", "drop", "retreat", "settle", "reject"},
   job : Jobs \cup {Nil}, task : JobRecords]

VideoTypeOK ==
  /\ published \in BOOLEAN
  /\ version \in [Versions -> VersionRecords]
  /\ source \in [Versions -> {"none", "pending", "uploaded", "ready",
                              "delete_pending", "deleted"}]
  /\ object \subseteq Versions /\ open \subseteq Versions /\ expired \subseteq Versions
  /\ ordered \subseteq Versions /\ aborting \subseteq Versions
  /\ job \in [Jobs -> JobRecords]
  /\ sent \in 0..MaxSends
  /\ handler \in [Attempts -> HandlerRecords]
  /\ whole \subseteq Attempts
  /\ \A v \in Versions : In(v, {"transcoding"}) => version[v].attempt # Nil

(* What a row serves is complete, whatever callbacks were taken over, died *)
(* or were told that their commit failed (worker.ts:197-208, 251).         *)
ReadyIsWhole ==
  \A v \in Versions :
    In(v, {"ready", "superseded"}) =>
      version[v].output \in whole

(* A published course has a current video at every moment, and no run has  *)
(* two (worker.ts:159-170; 016_hosted_video.sql, course_video_versions_    *)
(* current_uq).                                                            *)
AlwaysOneCurrent ==
  /\ Cardinality(ReadyVersions) <= 1
  /\ published => ReadyVersions # {}

(* A video that someone bought stays playable                              *)
(* (video/service.ts:390-391; HOSTED_VIDEO_DEPLOYMENT.md:39).              *)
OrderedVideoKept == \A v \in ordered : In(v, {"ready", "superseded"})

(* One version at most is on offer, one is while the course is published,  *)
(* and what is on offer or was bought can be played to its end             *)
(* (worker.ts:159-208; video/service.ts:390-391).                          *)
WholeNow == ReadyIsWhole /\ AlwaysOneCurrent /\ OrderedVideoKept

(* A version in transcoding is in someone's hands: nobody else could free  *)
(* it, for it can be neither retried nor deleted (worker.ts:303-323).      *)
TranscodingIsAttended ==
  \A v \in Versions :
    In(v, {"transcoding"}) =>
      \/ \E j \in Jobs : job[j].of = v
      \/ \E w \in Attempts : handler[w].task.of = v

(* Deletion is not undone by a callback that was still running, and        *)
(* nothing leaves it but for the end (worker.ts:145, 156, 195).            *)
RemovalIsFinal(v) ==
  In(v, {"delete_pending", "deleted"}) => version'[v].status \in {"delete_pending", "deleted"}

(* What a buyer of a version watches is never replaced by the output of a  *)
(* later attempt, and a version is never current again                     *)
(* (worker.ts:155-157, HOSTED_VIDEO_DEPLOYMENT.md:39).                     *)
PublishedIsImmutable(v) ==
  /\ In(v, {"ready"}) => version'[v].status \in {"ready", "superseded"}
  /\ In(v, {"superseded"}) => version'[v].status \in {"superseded", "delete_pending"}
  /\ In(v, {"ready", "superseded"}) => version'[v].output = version[v].output

(* A version never goes back, neither from its removal nor behind the      *)
(* output that was sold (worker.ts:145-195).                               *)
NoStepBack == \A v \in Versions : RemovalIsFinal(v) /\ PublishedIsImmutable(v)

(* Both: what is offered or was sold is there, whole, and stays what it is *)
(* (worker.ts:145-208, HOSTED_VIDEO_DEPLOYMENT.md:39).                     *)
ServedStaysWhole == []WholeNow /\ [][NoStepBack]_videoVars

(* Work that was begun comes to an end, however often handlers are lost    *)
(* (worker.ts:303-323).                                                    *)
TranscodingEnds ==
  \A v \in Versions : In(v, {"transcoding"}) ~> ~In(v, {"transcoding"})
=============================================================================
