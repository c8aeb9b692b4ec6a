---- MODULE Uploader ----
(* The list of private files on the page of a draft (src/components/uploads/     *)
(* PrivateAssetUploader.jsx, src/api/uploads.js): the member chooses files, also  *)
(* before the draft exists; they are uploaded one at a time, retried under the    *)
(* key of their reservation, removed while they are under way; and the list the    *)
(* API gives is merged into the rows that are there.  Every call can fail before    *)
(* or after it took effect.  The API side is the part of Uploads that the page      *)
(* sees: one reservation per request key, so an asset bears the name of its file.   *)
(* Assumed: bytes whose PUT has failed for the page have reached the store by the   *)
(* time the page asks for them again, or never do.                                  *)
CONSTANTS
  Chosen, \* files that may be chosen, or were on an earlier visit
  NoFile

ASSUME UploaderAssumption == NoFile \notin Chosen

VARIABLES
  page,      \* new, creating, refreshing, open or left
  local,     \* row of a file that was chosen here
  restored,  \* status of the row that the API's list has put there
  active,    \* activeTransfer: the file, or NoFile
  cancelled, \* cancelledIds
  transfer,  \* the call that uploadQueuedItem awaits
  listing,   \* the call for the list: no, asked, served, failed
  listed,    \* what it has read
  removing,  \* rows whose removal is asked
  reserved,  \* storage_assets.asset_status
  stored     \* files with bytes at their signed key

rowVars == <<local, restored>>
fileServerVars == <<reserved, stored>>
listVars == <<listing, listed>>
uploaderVars == <<page, rowVars, active, cancelled, transfer, listVars, removing, fileServerVars>>

-----------------------------------------------------------------------------
ActiveStatuses == {"preparing", "uploading", "verifying", "deleting"}
NoRow == [status |-> "absent", known |-> FALSE, file |-> FALSE, attempted |-> FALSE]
NoCall == [step |-> "none", answer |-> "no", again |-> FALSE, intent |-> FALSE]
Rows == {"local", "restored"} \X Chosen

(* localItem. *)
LocalItem == [NoRow EXCEPT !.status = "queued", !.file = TRUE]

(* A new draft, or one that is opened again with what an earlier visit left. *)
UploaderInit ==
  /\ page \in {"new", "open"}
  /\ reserved \in [Chosen -> {"none", "pending", "ready", "quarantined"}]
  /\ stored \in SUBSET {f \in Chosen : reserved[f] \in {"pending", "quarantined"}}
  /\ page = "new" => \A f \in Chosen : reserved[f] = "none"
  /\ local = [f \in Chosen |-> NoRow] /\ restored = [f \in Chosen |-> "absent"]
  /\ active = NoFile /\ cancelled = {} /\ transfer = [f \in Chosen |-> NoCall]
  /\ listing = (IF page = "open" THEN "asked" ELSE "no")
  /\ listed = [f \in Chosen |-> "none"] /\ removing = {}

(* patchItem: no row, no change. *)
Patch(f, row) == local' = IF local[f].status = "absent" THEN local ELSE [local EXCEPT ![f] = row]

(* The API: a replayed key finds its reservation; a new one discards what the    *)
(* draft has not finished.                                                       *)
RequestAnswer(f) ==
  IF reserved[f] \in {"none", "pending"} THEN "pending"
  ELSE IF reserved[f] = "ready" THEN "ready" ELSE "failed"

Incomplete == {f \in Chosen : reserved[f] \in {"pending", "quarantined"}}

ReserveFor(f) ==
  reserved' = IF reserved[f] # "none" THEN reserved
              ELSE [g \in Chosen |-> IF g = f THEN "pending"
                                     ELSE IF g \in Incomplete THEN "delete_pending" ELSE reserved[g]]

ServeComplete(f, verdict) == reserved' = [reserved EXCEPT ![f] = verdict]

(* deleteUploadIntent: the object goes at once or is left to the reconciler. *)
ServeRemoval(f) ==
  \/ reserved[f] \in {"none", "deleted"} /\ UNCHANGED reserved
  \/ /\ reserved[f] \notin {"none", "deleted"}
     /\ \E s \in {"delete_pending", "deleted"} : reserved' = [reserved EXCEPT ![f] = s]

-----------------------------------------------------------------------------
(* createDraft of the page: the uploader is disabled until the listings are     *)
(* refreshed, but asks for its list as soon as the draft exists.                 *)
CreateDraft ==
  /\ \/ page = "new" /\ page' = "creating" /\ UNCHANGED listing
     \/ page = "creating" /\ page' = "new" /\ UNCHANGED listing
     \/ page = "creating" /\ page' = "refreshing" /\ listing' = "asked"
     \/ page = "refreshing" /\ page' = "open" /\ UNCHANGED listing
  /\ UNCHANGED <<rowVars, active, cancelled, transfer, listed, removing, fileServerVars>>

Listable(f) == reserved[f] \notin {"none", "deleted"}

ServeList ==
  /\ listing = "asked" /\ listing' = "served"
  /\ listed' = [f \in Chosen |-> IF Listable(f) THEN reserved[f] ELSE "none"]
  /\ UNCHANGED <<page, rowVars, active, cancelled, transfer, removing, fileServerVars>>

(* The effect of the list: byAssetId keeps a row that is being worked on, the    *)
(* rest of what the API knows is restored, and what it does not know stays        *)
(* unless it is ready.  A row that does not know its asset yet is not matched.    *)
Matched(f) == local[f].known /\ local[f].status # "absent"

Kept(f) == Matched(f) /\ local[f].status \in ActiveStatuses
KeptRestored(f) == ~Matched(f) /\ restored[f] = "deleting"

RestoredRow(f) == IF listed[f] = "ready" THEN "ready" ELSE "interrupted"

ReceiveList ==
  /\ listing = "served" /\ page # "left" /\ listing' = "no"
  /\ local' = [f \in Chosen |->
       IF \/ listed[f] = "none" /\ local[f].status = "ready"
          \/ listed[f] # "none" /\ Matched(f) /\ ~Kept(f)
       THEN NoRow ELSE local[f]]
  /\ restored' = [f \in Chosen |->
       IF listed[f] = "none" THEN (IF restored[f] = "ready" THEN "absent" ELSE restored[f])
       ELSE IF Kept(f) THEN "absent"
       ELSE IF KeptRestored(f) THEN restored[f] ELSE RestoredRow(f)]
  /\ UNCHANGED <<page, active, cancelled, transfer, listed, removing, fileServerVars>>

(* The list fails, and the member asks for it again. *)
ListFails ==
  /\ listing \in {"asked", "served"} /\ page # "left" /\ listing' = "failed"
  /\ UNCHANGED <<page, rowVars, active, cancelled, transfer, listed, removing, fileServerVars>>

RetryList ==
  /\ listing = "failed" /\ page # "left" /\ listing' = "asked"
  /\ UNCHANGED <<page, rowVars, active, cancelled, transfer, listed, removing, fileServerVars>>

(* addFiles: a file that is in the list is not added, but queued again when it   *)
(* has failed.  A new row has a new key.                                         *)
Fresh(f) == local[f].status = "absent" /\ transfer[f].step = "none" /\ reserved[f] = "none"

AddFiles(f) ==
  /\ page \in {"new", "open"}
  /\ \/ Fresh(f) /\ local' = [local EXCEPT ![f] = LocalItem]
     \/ local[f].status = "error" /\ local[f].file /\ Patch(f, [local[f] EXCEPT !.status = "queued"])
  /\ UNCHANGED <<page, restored, active, cancelled, transfer, listVars, removing, fileServerVars>>

RetryItem(f) ==
  /\ page \in {"creating", "refreshing", "open"} /\ local[f].status = "error" /\ local[f].file
  /\ Patch(f, [local[f] EXCEPT !.status = "queued"])
  /\ UNCHANGED <<page, restored, active, cancelled, transfer, listVars, removing, fileServerVars>>

-----------------------------------------------------------------------------
(* uploadQueuedItem, one await after the other.  `again' is item.attempted as    *)
(* it was before, `intent' whether active.intent is set.                         *)
StartUpload(f) ==
  /\ page = "open" /\ active = NoFile /\ local[f].status = "queued" /\ local[f].file
  /\ active' = f
  /\ local' = [local EXCEPT ![f].status = "preparing", ![f].attempted = TRUE]
  /\ transfer' = [transfer EXCEPT ![f] = [NoCall EXCEPT !.step = "request", !.again = local[f].attempted]]
  /\ UNCHANGED <<page, restored, cancelled, listVars, removing, fileServerVars>>

AwaitCall(f, step) ==
  transfer' = [transfer EXCEPT ![f].step = step, ![f].answer = "no", ![f].intent = TRUE]

(* finally: a cancelled upload gives its reservation up, if it knows it. *)
Finish(f, intent) ==
  IF f \in cancelled /\ intent
  THEN /\ AwaitCall(f, "cleanup") /\ UNCHANGED <<active, cancelled>>
  ELSE /\ transfer' = [transfer EXCEPT ![f] = NoCall] /\ cancelled' = cancelled \ {f}
       /\ active' = (IF active = f THEN NoFile ELSE active)

MarkReady(f) ==
  IF f \in cancelled THEN UNCHANGED local
  ELSE Patch(f, [local[f] EXCEPT !.status = "ready", !.known = TRUE, !.file = FALSE])

FailItem(f) ==
  IF f \in cancelled THEN UNCHANGED local ELSE Patch(f, [local[f] EXCEPT !.status = "error"])

(* What the awaited call did at the API or the store; its answer may yet be lost. *)
ServeTransfer(f) ==
  LET c == transfer[f]
      Answers(a) == transfer' = [transfer EXCEPT ![f].answer = a] IN
  /\ c.step # "none" /\ c.answer = "no"
  /\ \/ c.step = "request" /\ ReserveFor(f) /\ Answers(RequestAnswer(f)) /\ UNCHANGED stored
     \/ c.step = "put" /\ stored' = stored \cup {f} /\ Answers("stored") /\ UNCHANGED reserved
     \/ /\ c.step \in {"recheck", "complete"} /\ UNCHANGED stored
        /\ \/ reserved[f] = "ready" /\ Answers("ready") /\ UNCHANGED reserved
           \/ reserved[f] = "pending" /\ f \notin stored /\ Answers("absent") /\ UNCHANGED reserved
           \/ reserved[f] = "pending" /\ f \in stored /\ Answers("ready") /\ ServeComplete(f, "ready")
           \/ reserved[f] = "pending" /\ f \in stored /\ Answers("failed") /\ ServeComplete(f, "quarantined")
           \/ reserved[f] \notin {"ready", "pending"} /\ Answers("failed") /\ UNCHANGED reserved
     \/ c.step = "cleanup" /\ ServeRemoval(f) /\ Answers("removed") /\ UNCHANGED stored
  /\ UNCHANGED <<page, rowVars, active, cancelled, listVars, removing>>

Receives(f, step, answer) ==
  transfer[f].step = step /\ transfer[f].answer = answer

(* Only bytes that the server has confirmed to be absent are sent again. *)
StartPut(f) ==
  /\ AwaitCall(f, "put") /\ Patch(f, [local[f] EXCEPT !.status = "uploading", !.known = TRUE])
  /\ UNCHANGED <<active, cancelled>>

(* Mutant: a retry does not ask what became of the earlier attempt. *)
ReceiveReservationUnchecked(f) ==
  /\ Receives(f, "request", "pending")
  /\ \/ f \in cancelled /\ Finish(f, TRUE) /\ UNCHANGED local
     \/ f \notin cancelled /\ StartPut(f)
  /\ UNCHANGED <<page, restored, listVars, removing, fileServerVars>>

ReceiveReservation(f) ==
  /\ Receives(f, "request", "pending")
  /\ \/ f \in cancelled /\ Finish(f, TRUE) /\ UNCHANGED local
     \/ f \notin cancelled /\ ~transfer[f].again /\ StartPut(f)
     \/ /\ f \notin cancelled /\ transfer[f].again /\ AwaitCall(f, "recheck")
        /\ Patch(f, [local[f] EXCEPT !.known = TRUE]) /\ UNCHANGED <<active, cancelled>>
  /\ UNCHANGED <<page, restored, listVars, removing, fileServerVars>>

ReceiveAbsent(f) ==
  /\ Receives(f, "recheck", "absent")
  /\ \/ f \in cancelled /\ Finish(f, TRUE) /\ UNCHANGED local
     \/ f \notin cancelled /\ StartPut(f)
  /\ UNCHANGED <<page, restored, listVars, removing, fileServerVars>>

ReceiveStored(f) ==
  /\ Receives(f, "put", "stored")
  /\ \/ f \in cancelled /\ Finish(f, TRUE) /\ UNCHANGED local
     \/ /\ f \notin cancelled /\ AwaitCall(f, "complete")
        /\ Patch(f, [local[f] EXCEPT !.status = "verifying"]) /\ UNCHANGED <<active, cancelled>>
  /\ UNCHANGED <<page, restored, listVars, removing, fileServerVars>>

ReceiveReady(f) ==
  /\ \E step \in {"request", "recheck", "complete"} : Receives(f, step, "ready")
  /\ MarkReady(f) /\ Finish(f, TRUE)
  /\ UNCHANGED <<page, restored, listVars, removing, fileServerVars>>

(* An error answer, or none. *)
ReceiveFailure(f) ==
  /\ transfer[f].step \notin {"none", "cleanup"}
  /\ FailItem(f) /\ Finish(f, transfer[f].intent)
  /\ UNCHANGED <<page, restored, listVars, removing, fileServerVars>>

(* cleanupIntent ignores how its call ended. *)
CleanedUp(f) ==
  /\ transfer[f].step = "cleanup"
  /\ transfer' = [transfer EXCEPT ![f] = NoCall] /\ cancelled' = cancelled \ {f}
  /\ active' = (IF active = f THEN NoFile ELSE active)
  /\ UNCHANGED <<page, rowVars, listVars, removing, fileServerVars>>

-----------------------------------------------------------------------------
(* An aborted PUT rejects; other calls are awaited, and looked at afterwards. *)
Abort(f) ==
  /\ cancelled' = cancelled \cup {f}
  /\ transfer' = IF transfer[f].step = "put" THEN [transfer EXCEPT ![f].answer = "failed"] ELSE transfer

(* removeItem: the row that is being uploaded, a row without an asset, a row     *)
(* with one.                                                                     *)
RemoveItem(f) ==
  /\ page # "left" /\ local[f].status \notin {"absent", "deleting"}
  /\ \/ active = f /\ Abort(f) /\ local' = [local EXCEPT ![f] = NoRow] /\ UNCHANGED removing
     \/ /\ active # f /\ ~local[f].known /\ local' = [local EXCEPT ![f] = NoRow]
        /\ UNCHANGED <<cancelled, transfer, removing>>
     \/ /\ active # f /\ local[f].known /\ local' = [local EXCEPT ![f].status = "deleting"]
        /\ removing' = removing \cup {<<"local", f>>} /\ UNCHANGED <<cancelled, transfer>>
  /\ UNCHANGED <<page, restored, active, listVars, fileServerVars>>

RemoveRestored(f) ==
  /\ page # "left" /\ restored[f] \notin {"absent", "deleting"}
  /\ restored' = [restored EXCEPT ![f] = "deleting"] /\ removing' = removing \cup {<<"restored", f>>}
  /\ UNCHANGED <<page, local, active, cancelled, transfer, listVars, fileServerVars>>

(* Whether or not it took effect, the removal succeeds or fails for the page. *)
PatchRemoved(r, gone) ==
  IF r[1] = "local"
  THEN Patch(r[2], IF gone THEN NoRow ELSE [local[r[2]] EXCEPT !.status = "error"]) /\ UNCHANGED restored
  ELSE /\ UNCHANGED local
       /\ restored' = IF restored[r[2]] = "absent" THEN restored
                      ELSE [restored EXCEPT ![r[2]] = IF gone THEN "absent" ELSE "error"]

EndRemoval(r) ==
  /\ r \in removing /\ removing' = removing \ {r}
  /\ \/ ServeRemoval(r[2]) /\ \E gone \in BOOLEAN : PatchRemoved(r, gone)
     \/ UNCHANGED reserved /\ PatchRemoved(r, FALSE)
  /\ UNCHANGED <<page, active, cancelled, transfer, listVars, stored>>

(* The page is left: the transfer is aborted and cleans up behind it. *)
Leave ==
  /\ page = "open" /\ page' = "left"
  /\ local' = [f \in Chosen |-> NoRow] /\ restored' = [f \in Chosen |-> "absent"]
  /\ IF active = NoFile THEN UNCHANGED <<cancelled, transfer>> ELSE Abort(active)
  /\ UNCHANGED <<active, removing, listVars, fileServerVars>>

UploaderNext ==
  \/ CreateDraft \/ ServeList \/ ReceiveList \/ ListFails \/ RetryList \/ Leave
  \/ \E f \in Chosen :
       \/ AddFiles(f) \/ RetryItem(f) \/ StartUpload(f) \/ ServeTransfer(f)
       \/ ReceiveReservation(f) \/ ReceiveAbsent(f) \/ ReceiveStored(f) \/ ReceiveReady(f)
       \/ ReceiveFailure(f) \/ CleanedUp(f) \/ RemoveItem(f) \/ RemoveRestored(f)
  \/ \E r \in Rows : EndRemoval(r)

UploaderSpec == UploaderInit /\ [][UploaderNext]_uploaderVars

-----------------------------------------------------------------------------
(* The types of the variables. *)
UploaderTypeOK ==
  /\ page \in {"new", "creating", "refreshing", "open", "left"}
  /\ local \in [Chosen -> [status : {"absent", "queued", "ready", "error"} \cup ActiveStatuses,
                           known : BOOLEAN, file : BOOLEAN, attempted : BOOLEAN]]
  /\ restored \in [Chosen -> {"absent", "interrupted", "ready", "deleting", "error"}]
  /\ active \in Chosen \cup {NoFile} /\ cancelled \subseteq Chosen
  /\ transfer \in [Chosen -> [step : {"none", "request", "recheck", "put", "complete", "cleanup"},
       answer : {"no", "pending", "ready", "absent", "stored", "failed", "removed"},
       again : BOOLEAN, intent : BOOLEAN]]
  /\ listing \in {"no", "asked", "served", "failed"}
  /\ removing \subseteq Rows /\ stored \subseteq Chosen
  /\ reserved \in [Chosen -> {"none", "pending", "ready", "quarantined", "delete_pending", "deleted"}]

(* After an answer was lost the file may be at the server: its bytes are sent    *)
(* again only when the server has none (PrivateAssetUploader.jsx:174-183).       *)
ResentOnlyIfAbsent ==
  [][\A f \in Chosen : transfer[f].step # "put" /\ transfer'[f].step = "put" => f \notin stored]_uploaderVars
=============================================================================
