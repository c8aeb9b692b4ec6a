---- MODULE VideoSender ----
(* Sending the video of a course in parts (src/utils/videoUpload.js and           *)
(* src/components/uploads/CourseVideoUploader.jsx): the page keeps the key and     *)
(* the file of an upload in the browser's storage, so that the upload can be       *)
(* paused, resumed with the same file after a reload, or cancelled; the API lists  *)
(* the parts R2 has, assembles them, and queues the version (video/service.ts,     *)
(* video/video-storage.ts).  Calls may fail before or after they took effect.      *)
(* What becomes of a version that is queued is in the module Video.                *)
EXTENDS Naturals

CONSTANTS
  Sources,   \* video files of one size, so of as many parts
  PartCount,
  Keys,      \* request keys; a key makes one version, which bears its name
  Nothing

(* What the page keeps of an upload. *)
Upload == [key : Keys, known : BOOLEAN, file : Sources]

ASSUME SenderAssumption == PartCount \in Nat \ {0} /\ Nothing \notin Sources \cup Keys \cup Upload

VARIABLES
  kept,     \* the upload in the browser's storage, or Nothing
  saved,    \* the upload in the state of the page
  summary,  \* video_status of the versions, as the page read it, or Nothing
  sender,   \* the call that the page awaits
  version,  \* course_video_versions.video_status
  asset,    \* asset_status of the source: pending or uploaded
  declared, \* file of the upload intent
  remote,   \* the multipart upload at R2: none, open, assembled, gone
  parts     \* source of every part that R2 has

trainerVars == <<kept, saved, summary, sender>>
apiVars == <<version, asset, declared, remote, parts>>
senderVars == <<trainerVars, apiVars>>

-----------------------------------------------------------------------------
Part == 1..PartCount
Resting == [step |-> "none", answer |-> "no", of |-> Nothing, file |-> Nothing,
            etags |-> [n \in Part |-> Nothing], part |-> 0, tries |-> 0]

SenderInit ==
  /\ kept = Nothing /\ saved = Nothing /\ summary = Nothing /\ sender = Resting
  /\ version = [k \in Keys |-> "none"] /\ asset = [k \in Keys |-> "pending"]
  /\ declared = [k \in Keys |-> Nothing] /\ remote = [k \in Keys |-> "none"]
  /\ parts = [k \in Keys |-> [n \in Part |-> Nothing]]

(* persist: storage may refuse the record, the state of the page takes it. *)
Persist(upload) == saved' = upload /\ kept' \in {upload, kept}

(* getCourseVideo.  Reading it takes time: the effects look at what was read. *)
Refresh == summary' = version /\ UNCHANGED <<kept, saved, sender, apiVars>>

CanUpload == \A k \in Keys : summary[k] \notin {"upload_pending", "queued"}

(* The effect that forgets an upload whose version is past uploading. *)
Forget ==
  /\ sender.step = "none" /\ saved # Nothing /\ saved.known /\ summary # Nothing
  /\ summary[saved.key] \in {"queued", "processed", "deleted"}
  /\ Persist(Nothing) /\ UNCHANGED <<summary, sender, apiVars>>

Reload ==
  /\ saved' = kept /\ summary' = Nothing /\ sender' = Resting /\ UNCHANGED <<kept, apiVars>>

-----------------------------------------------------------------------------
(* start: a resumed upload takes the exact file it was begun with.  The key is   *)
(* kept before the first call, so that an answer that is lost can be asked for    *)
(* again.                                                                        *)
(* Mutant: any file will do. *)
AnyVideoFile(a, b) == {a, b} \subseteq Sources

SameVideoFile(a, b) == a = b

BeginSending(upload) ==
  sender' = [Resting EXCEPT !.step = IF upload.known THEN "list" ELSE "create",
                            !.of = upload.key, !.file = upload.file]

StartNew(f, k) ==
  /\ sender.step = "none" /\ summary # Nothing /\ saved = Nothing /\ CanUpload
  /\ version[k] = "none" /\ declared[k] = Nothing
  /\ LET next == [key |-> k, known |-> FALSE, file |-> f] IN Persist(next) /\ BeginSending(next)
  /\ declared' = [declared EXCEPT ![k] = f]
  /\ UNCHANGED <<summary, version, asset, remote, parts>>

StartResume(f) ==
  /\ sender.step = "none" /\ summary # Nothing /\ saved # Nothing
  /\ SameVideoFile(saved.file, f) /\ Persist(saved)
  /\ BeginSending([saved EXCEPT !.file = f]) /\ UNCHANGED <<summary, apiVars>>

(* cancel: an intent whose answer was lost is asked for again, then aborted. *)
Cancel ==
  /\ sender.step = "none" /\ summary # Nothing /\ saved # Nothing
  /\ sender' = [Resting EXCEPT !.step = IF saved.known THEN "abort" ELSE "create for abort",
                               !.of = saved.key, !.file = saved.file]
  /\ UNCHANGED <<kept, saved, summary, apiVars>>

(* Pausing aborts the call that is awaited; any call may also fail. *)
Stopped ==
  /\ sender.step # "none" /\ sender' = Resting /\ UNCHANGED <<kept, saved, summary, apiVars>>

-----------------------------------------------------------------------------
(* The API and R2. *)
Answers(a) == sender' = [sender EXCEPT !.answer = a]

CreateVideoUploadIntent(k) ==
  IF version[k] # "none" THEN Answers("intent") /\ UNCHANGED apiVars
  ELSE IF \E j \in Keys : version[j] \in {"upload_pending", "queued"}
  THEN Answers("error") /\ UNCHANGED apiVars
  ELSE /\ Answers("intent")
       /\ version' = [version EXCEPT ![k] = "upload_pending"] /\ remote' = [remote EXCEPT ![k] = "open"]
       /\ UNCHANGED <<asset, declared, parts>>

(* listVideoMultipartParts; R2 knows an upload until it is assembled or aborted. *)
ListVideoMultipartParts(k) ==
  /\ Answers(IF version[k] # "upload_pending" THEN "completed"
             ELSE IF remote[k] # "open" THEN "expired" ELSE "parts")
  /\ UNCHANGED apiVars

(* signVideoMultipartPart and the PUT to what it signed. *)
PutVideoPart(k, n) ==
  IF version[k] = "upload_pending" /\ remote[k] = "open"
  THEN /\ Answers("stored") /\ parts' = [parts EXCEPT ![k][n] = sender.file]
       /\ UNCHANGED <<version, asset, declared, remote>>
  ELSE Answers("error") /\ UNCHANGED apiVars

(* completeVideoMultipart: R2 assembles the parts inside the transaction, whose  *)
(* COMMIT may fail nevertheless; an object that is there is not assembled again.  *)
Recorded(k) == Answers("finished") /\ asset' = [asset EXCEPT ![k] = "uploaded"]

CompleteVideoMultipart(k) ==
  \/ asset[k] = "uploaded" /\ Answers("finished") /\ UNCHANGED apiVars
  \/ /\ asset[k] = "pending" /\ version[k] = "upload_pending" /\ remote[k] = "assembled"
     /\ Recorded(k) /\ UNCHANGED <<version, declared, remote, parts>>
  \/ /\ asset[k] = "pending" /\ version[k] = "upload_pending" /\ remote[k] = "open"
     /\ parts[k] = sender.etags /\ remote' = [remote EXCEPT ![k] = "assembled"]
     /\ (Recorded(k) \/ (Answers("error") /\ UNCHANGED asset))
     /\ UNCHANGED <<version, declared, parts>>
  \/ /\ asset[k] = "pending" /\ (version[k] # "upload_pending" \/ parts[k] # sender.etags)
     /\ Answers("error") /\ UNCHANGED apiVars

(* queueVerifiedVideo. *)
QueueVerifiedVideo(k) ==
  IF version[k] = "upload_pending" /\ asset[k] = "uploaded"
  THEN /\ Answers("queued") /\ version' = [version EXCEPT ![k] = "queued"]
       /\ UNCHANGED <<asset, declared, remote, parts>>
  ELSE /\ Answers(IF version[k] \in {"queued", "processed"} THEN "queued" ELSE "error")
       /\ UNCHANGED apiVars

(* abortVideoMultipart and deleteVideoVersion. *)
Withdraw(k) ==
  /\ version' = [version EXCEPT ![k] = "delete_pending"]
  /\ remote' = [remote EXCEPT ![k] = IF @ = "open" THEN "gone" ELSE @]
  /\ UNCHANGED <<asset, declared, parts>>

AbortVideoMultipart(k) ==
  /\ Answers("aborted")
  /\ IF version[k] = "upload_pending" THEN Withdraw(k) ELSE UNCHANGED apiVars

DeleteVideoVersion(k) ==
  /\ sender.step = "none" /\ summary # Nothing /\ version[k] \in {"upload_pending", "queued"}
  /\ Withdraw(k) /\ UNCHANGED trainerVars

(* What the worker does with a version, as far as the page can see. *)
WorkerMoves(k) ==
  /\ \/ version[k] = "queued" /\ version' = [version EXCEPT ![k] = "processed"]
     \/ version[k] = "delete_pending" /\ version' = [version EXCEPT ![k] = "deleted"]
  /\ UNCHANGED <<trainerVars, asset, declared, remote, parts>>

Serve ==
  LET k == sender.of IN
  /\ sender.step # "none" /\ sender.answer = "no" /\ UNCHANGED <<kept, saved, summary>>
  /\ \/ sender.step \in {"create", "create for abort"} /\ CreateVideoUploadIntent(k)
     \/ sender.step = "list" /\ ListVideoMultipartParts(k)
     \/ sender.step = "part" /\ PutVideoPart(k, sender.part)
     \/ sender.step = "finish" /\ CompleteVideoMultipart(k)
     \/ sender.step = "verify" /\ QueueVerifiedVideo(k)
     \/ sender.step = "abort" /\ AbortVideoMultipart(k)

-----------------------------------------------------------------------------
(* uploadVideo, one await after the other. *)
Await(step) == sender' = [sender EXCEPT !.step = step, !.answer = "no"]

Missing(etags) == {n \in Part : etags[n] = Nothing}

(* Parts are sent in order, those that R2 has are skipped, and all are finished. *)
SendRest(etags) ==
  IF Missing(etags) = {}
  THEN sender' = [sender EXCEPT !.step = "finish", !.answer = "no", !.etags = etags]
  ELSE sender' = [sender EXCEPT !.step = "part", !.answer = "no", !.etags = etags, !.tries = 0,
                                !.part = CHOOSE n \in Missing(etags) : \A m \in Missing(etags) : n <= m]

ReceiveIntent ==
  /\ sender.answer = "intent"
  /\ IF sender.step = "create for abort" THEN Await("abort") /\ UNCHANGED <<kept, saved>>
     ELSE Await("list") /\ Persist([saved EXCEPT !.known = TRUE])
  /\ UNCHANGED <<summary, apiVars>>

ReceiveParts ==
  /\ \/ sender.answer = "parts" /\ SendRest(parts[sender.of])
     \/ sender.answer = "completed" /\ Await("verify")
  /\ UNCHANGED <<kept, saved, summary, apiVars>>

PartSent ==
  /\ sender.answer = "stored" /\ SendRest([sender.etags EXCEPT ![sender.part] = sender.file])
  /\ UNCHANGED <<kept, saved, summary, apiVars>>

(* A part is tried three times, whatever became of it at R2. *)
PartFails ==
  /\ sender.step = "part" /\ sender.tries < 2
  /\ sender' = [sender EXCEPT !.answer = "no", !.tries = @ + 1]
  /\ UNCHANGED <<kept, saved, summary, apiVars>>

Finished ==
  /\ sender.answer = "finished" /\ Await("verify") /\ UNCHANGED <<kept, saved, summary, apiVars>>

(* The upload is queued, or withdrawn: the page forgets it. *)
Done ==
  /\ sender.answer \in {"queued", "aborted"} /\ sender' = Resting /\ Persist(Nothing)
  /\ UNCHANGED <<summary, apiVars>>

SenderNext ==
  \/ Refresh \/ Forget \/ Reload \/ Cancel \/ Stopped \/ Serve
  \/ ReceiveIntent \/ ReceiveParts \/ PartSent \/ PartFails \/ Finished \/ Done
  \/ \E f \in Sources : StartResume(f) \/ \E k \in Keys : StartNew(f, k)
  \/ \E k \in Keys : DeleteVideoVersion(k) \/ WorkerMoves(k)

SenderSpec == SenderInit /\ [][SenderNext]_senderVars

-----------------------------------------------------------------------------
(* The types of the variables. *)
SenderTypeOK ==
  /\ {kept, saved} \subseteq Upload \cup {Nothing}
  /\ summary = Nothing \/ summary = [k \in Keys |-> summary[k]]
  /\ sender.step \in {"none", "create", "create for abort", "list", "part", "finish", "verify", "abort"}
  /\ version \in [Keys -> {"none", "upload_pending", "queued", "processed", "delete_pending", "deleted"}]
  /\ asset \in [Keys -> {"pending", "uploaded"}] /\ declared \in [Keys -> Sources \cup {Nothing}]
  /\ remote \in [Keys -> {"none", "open", "assembled", "gone"}]
  /\ parts \in [Keys -> [Part -> Sources \cup {Nothing}]]

(* A version that is queued is the whole of the one file it was begun with,      *)
(* however often its upload was paused, resumed after a reload, or lost answers   *)
(* (CourseVideoUploader.jsx:50-55, videoUpload.js:69-98).                         *)
QueuedIsOneFile ==
  \A k \in Keys : version[k] \in {"queued", "processed"} =>
    /\ remote[k] = "assembled"
    /\ parts[k] = [n \in Part |-> declared[k]]

(* "R2 multipart completion and the DB commit cannot be atomic. First check the  *)
(* unique server-generated key so a retry can recover when R2 completed but the   *)
(* prior database transaction rolled back." (video/service.ts:271-273): resuming   *)
(* an upload that R2 has assembled is not refused as expired.                     *)
AssembledIsRecovered ==
  sender.answer = "expired" => remote[sender.of] # "assembled"
=============================================================================
