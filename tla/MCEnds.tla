------------------------------- MODULE MCEnds -------------------------------
(***************************************************************************)
(* What has been begun comes to an end: payments that Stripe reports,      *)
(* notices of decided refunds, files that were removed, videos in          *)
(* transcoding and workers that are told to stop.  The five components     *)
(* share no state here, so a behaviour of this module is a behaviour of    *)
(* one of them, which `part' names, while the others stay in an initial    *)
(* state.                                                                  *)
(***************************************************************************)
EXTENDS TopUp, Notices, Video, WorkerLife

CONSTANTS
  Contents, CourseRuns, Assets, Requests, MaxFiles, MaxPending, MaxCopies, Bytes,
  SlowStore, LostAcks, None

VARIABLES
  part,
  status, primary, checked, asset, url, store, request, erasing, erased

Files == INSTANCE Uploads

fileVars == <<status, primary, checked, asset, url, store, request, erasing, erased>>

EndsInit ==
  /\ part \in {"payments", "notices", "files", "films", "worker"}
  /\ Init /\ NoticeInit /\ Files!Init /\ VideoInit /\ LifeInit
  /\ part # "films" => whole = {}
  /\ part # "worker" => \A j \in TranscodeJobs : queued[j] = "absent"

EndsNext ==
  /\ UNCHANGED part
  /\ \/ /\ part = "payments" /\ Next
        /\ UNCHANGED <<noticeVars, fileVars, videoVars, lifeVars>>
     \/ /\ part = "notices" /\ NoticeNext
        /\ UNCHANGED <<vars, fileVars, videoVars, lifeVars>>
     \/ /\ part = "files" /\ Files!Next
        /\ UNCHANGED <<vars, noticeVars, videoVars, lifeVars>>
     \/ /\ part = "films" /\ VideoNext
        /\ UNCHANGED <<vars, noticeVars, fileVars, lifeVars>>
     \/ /\ part = "worker" /\ LifeNext
        /\ UNCHANGED <<vars, noticeVars, fileVars, videoVars>>

(* The fairness of each component, asked of its own behaviours only. *)
EndsFairness ==
  /\ \A e \in Events : WF_vars(part = "payments" /\ Accept(e))
  /\ WF_noticeVars(part = "notices" /\ \E listens \in BOOLEAN : Listen(listens))
  /\ WF_noticeVars(part = "notices" /\ \E q \in Polls : StartPoll(q))
  /\ \A q \in Polls :
       /\ WF_noticeVars(part = "notices" /\ (WaitEnds(q) \/ ReadAgain(q)))
       /\ SF_noticeVars(part = "notices" /\ ReadUnread(q) /\ page.current = q)
       /\ WF_noticeVars(part = "notices" /\ (LosePoll(q) \/ ReceiveAnswer(q)))
       /\ SF_noticeVars(part = "notices" /\ ReceiveAnswer(q) /\ page.current = q)
  /\ \A a \in Assets :
       /\ WF_fileVars(part = "files" /\ Files!Age(a))
       /\ WF_fileVars(part = "files" /\ Files!Settle(a))
       /\ WF_fileVars(part = "files" /\ Files!Collect(a))
  /\ \A w \in Attempts : WF_videoVars(part = "films" /\ Step(w))
  /\ \A j \in Jobs :
       /\ WF_videoVars(part = "films" /\ \E w \in Attempts : Fetch(w, j))
       /\ WF_videoVars(part = "films" /\ Abandoned(j) /\ Lapse(j))
  /\ \A v \in Versions : WF_videoVars(part = "films" /\ Sweep(v))
  /\ WF_lifeVars(part = "worker" /\ (StopPolling \/ Drained \/ StopQueue \/ CloseResources))
  /\ WF_lifeVars(part = "worker" /\ EndSweep)
  /\ WF_lifeVars(part = "worker" /\ (QueueStarted \/ WorkRegistered))
  /\ \A j \in TranscodeJobs :
       WF_lifeVars(part = "worker" /\ (RunJob(j) \/ FinishJob(j) \/ SettleCallback(j)))

EndsSpec ==
  EndsInit /\ [][EndsNext]_<<part, vars, noticeVars, fileVars, videoVars, lifeVars>>
    /\ EndsFairness

(* A file that was removed is collected, and a version that is transcoded  *)
(* gets a result (Uploads, storage-reconciliation.ts:34-104; Video,        *)
(* worker.ts:303-323).                                                     *)
StorageSettles == Files!RemovedIsCollected /\ TranscodingEnds
=============================================================================
