------------------------------ MODULE Uploads ------------------------------
(***************************************************************************)
(* Files of one member, who sells content and gives courses: reserving an  *)
(* upload, putting the bytes, completing it, removing it, submitting the   *)
(* listing, and the maintenance that collects what is left over.           *)
(*                                                                         *)
(* A transaction is atomic: it locks the listing (and, to reserve, the     *)
(* storage of the account) before it looks at a file.  Completing a file   *)
(* is two transactions with the inspection between them, and removing one  *)
(* is a transaction, a call to the store and an update; other requests,    *)
(* the browser's own PUT, and a crash come between any two of these steps. *)
(*                                                                         *)
(* The store compares entity tags, which are digests of the bytes, so the  *)
(* bytes stand for the tag.  Files are of one size, which makes the quota  *)
(* a number of files.  Hosted video has a route of its own.                *)
(***************************************************************************)
EXTENDS FiniteSets, Naturals

CONSTANTS
  Contents,     \* content versions
  CourseRuns,   \* course runs with the delivery mode "cloud"
  Assets,       \* rows of storage_assets and course_delivery_assets
  Requests,     \* completions that may be in flight
  MaxFiles,     \* CONTENT_STORAGE_QUOTA_BYTES
  MaxPending,   \* CONTENT_PENDING_UPLOAD_LIMIT
  MaxCopies,    \* bound: promoted copies made of one file
  Bytes,        \* what a browser may put: see AllBytes
  SlowStore,    \* may a deletion be under way when the safety window ends?
  LostAcks,     \* may the answer to a COMMIT be lost?
  None          \* no asset

AllBytes == {"clean", "blocked", "wrong"}  \* "wrong": not the declared size

ASSUME UploadsAssumption ==
  /\ Bytes \subseteq AllBytes
  /\ MaxFiles \in Nat
  /\ MaxPending \in Nat
  /\ MaxCopies \in Nat
  /\ SlowStore \in BOOLEAN
  /\ LostAcks \in BOOLEAN
  /\ None \notin Assets \cup Contents \cup CourseRuns
  /\ Contents \cap CourseRuns = {}

Listings == Contents \cup CourseRuns
Absent == "absent"
Incoming == 0                            \* copies are numbered from 1
Copies == 0 .. MaxCopies

VARIABLES
  status,    \* publication_status and version_status or run_status
  primary,   \* content_versions.storage_asset_id
  checked,   \* course submissions between the readiness check and the UPDATE
  asset,     \* the rows
  url,       \* age of the asset's signed PUT URL
  store,     \* what the object store holds under a key of the asset
  request,   \* completions in flight
  erasing,   \* assets whose object a request is about to delete
  erased     \* assets whose object it has deleted, the row still to be closed

listingVars == <<status, primary, checked>>
removalVars == <<erasing, erased>>
vars == <<listingVars, asset, url, store, request, removalVars>>

Idle == [pc |-> "idle", asset |-> None, tag |-> Absent, copy |-> Incoming]
New(l) == [of |-> l, state |-> "pending", copy |-> Incoming, sized |-> FALSE]
Unused == [of |-> None, state |-> "none", copy |-> Incoming, sized |-> FALSE]

Init ==
  /\ status = [l \in Listings |-> "draft"]
  /\ primary = [c \in Contents |-> None]
  /\ checked = {}
  /\ asset = [a \in Assets |-> Unused]
  /\ url = [a \in Assets |-> "none"]
  /\ store = [a \in Assets |-> [n \in Copies |-> Absent]]
  /\ request = [r \in Requests |-> Idle]
  /\ erasing = {}
  /\ erased = {}

Of(rows, l, states) == {a \in Assets : rows[a].of = l /\ rows[a].state \in states}
Ready(l) == Of(asset, l, {"ready"})
Draft(l) == status[l] = "draft"
IsPrimary(a) == \E c \in Contents : primary[c] = a

Mark(S, state) ==
  [a \in Assets |-> IF a \in S THEN [asset[a] EXCEPT !.state = state] ELSE asset[a]]

-----------------------------------------------------------------------------
(* Reserving an upload *)

Stored(rows) == {a \in Assets : rows[a].state \notin {"none", "deleted"}}
Pending(rows) == {a \in Assets : rows[a].state = "pending" /\ url[a] = "live"}

(* A content draft keeps one incomplete upload, a course draft any number. *)
Discarded(l) ==
  IF l \in Contents THEN Of(asset, l, {"pending", "quarantined"}) ELSE {}

(* What an account over its quota gets back: uploads whose URL is dead and *)
(* that the store, when it answers, says it does not have.                 *)
Releasable(rows) ==
  {a \in Assets : /\ rows[a].state \in {"pending", "delete_pending"}
                  /\ ~rows[a].sized
                  /\ url[a] = "dead"
                  /\ ~IsPrimary(a)
                  /\ store[a][rows[a].copy] = Absent}

Reserve(l, a) ==
  LET rows == Mark(Discarded(l), "delete_pending")
  IN /\ Draft(l)
     /\ asset[a] = Unused
     /\ Cardinality(Pending(rows)) < MaxPending
     /\ \E S \in SUBSET Releasable(rows) :
          /\ Cardinality(Stored(rows)) < MaxFiles => S = {}
          /\ Cardinality(Stored(rows) \ S) < MaxFiles
          /\ asset' = [b \in Assets |->
               IF b = a THEN New(l)
               ELSE IF b \in S THEN [rows[b] EXCEPT !.state = "deleted"] ELSE rows[b]]
     /\ url' = [url EXCEPT ![a] = "live"]
     /\ erasing' = erasing \cup Discarded(l)
     /\ UNCHANGED <<listingVars, store, request, erased>>

(* The same key again, after the URL has expired. *)
Reopen(a) ==
  /\ asset[a].state = "pending"
  /\ Draft(asset[a].of)
  /\ url[a] # "live"
  /\ Cardinality(Pending(asset)) < MaxPending
  /\ url' = [url EXCEPT ![a] = "live"]
  /\ UNCHANGED <<listingVars, asset, store, request, removalVars>>

(* The browser uploads.  Signing takes time and clocks differ, so a URL    *)
(* may still work while the asset is "late".                               *)
Put(a, bytes) ==
  /\ url[a] \in {"live", "late"}
  /\ store' = [store EXCEPT ![a][Incoming] = bytes]
  /\ UNCHANGED <<listingVars, asset, url, request, removalVars>>

(* upload_expires_at, and then the safety window, go by. *)
Age(a) ==
  /\ url[a] \in {"live", "late"}
  /\ a \in erased => SlowStore
  /\ url' = [url EXCEPT ![a] = IF @ = "live" THEN "late" ELSE "dead"]
  /\ UNCHANGED <<listingVars, asset, store, request, removalVars>>

-----------------------------------------------------------------------------
(* Completing an upload *)

To(r, pc) == request' = [request EXCEPT ![r].pc = pc]
Stop(r) == request' = [request EXCEPT ![r] = Idle]

Judged(row, state, copy) == [of |-> row.of, state |-> state, copy |-> copy, sized |-> TRUE]

(* Step 1.  Anything but a live pending upload with an object is answered  *)
(* without a change.                                                       *)
Examine(r, a) ==
  /\ request[r].pc = "idle"
  /\ asset[a].state = "pending"
  /\ Draft(asset[a].of)
  /\ url[a] = "live"
  /\ store[a][Incoming] # Absent
  /\ IF store[a][Incoming] = "wrong"
     THEN /\ asset' = [asset EXCEPT ![a] = Judged(@, "quarantined", @.copy)]
          /\ UNCHANGED request
     ELSE /\ request' = [request EXCEPT ![r] =
               [pc |-> "inspect", asset |-> a, tag |-> store[a][Incoming],
                copy |-> Incoming]]
          /\ UNCHANGED asset
  /\ UNCHANGED <<listingVars, url, store, removalVars>>

SameObject(r) == store[request[r].asset][Incoming] = request[r].tag

(* Step 2, without a transaction: read the bytes that were examined, ... *)
Inspect(r) ==
  /\ request[r].pc = "inspect"
  /\ SameObject(r)
  /\ To(r, IF request[r].tag = "blocked" THEN "reject" ELSE "promote")
  /\ UNCHANGED <<listingVars, asset, url, store, removalVars>>

(* Mutant: the copy takes whatever is there now. *)
PromoteUnpinned(r) ==
  LET a == request[r].asset
  IN /\ request[r].pc = "promote"
     /\ store[a][Incoming] # Absent
     /\ \E n \in Copies \ {Incoming} :
          /\ store[a][n] = Absent
          /\ \A q \in Requests : request[q].asset = a => request[q].copy # n
          /\ asset[a].copy # n
          /\ store' = [store EXCEPT ![a][n] = store[a][Incoming]]
          /\ request' = [request EXCEPT ![r] =
               [pc |-> "commit", asset |-> a, tag |-> @.tag, copy |-> n]]
     /\ UNCHANGED <<listingVars, asset, url, removalVars>>

(* ... and copy them, if they are still there, to a key of their own. *)
Promote(r) ==
  LET a == request[r].asset
  IN /\ request[r].pc = "promote"
     /\ SameObject(r)
     /\ \E n \in Copies \ {Incoming} :
          /\ store[a][n] = Absent
          /\ \A q \in Requests : request[q].asset = a => request[q].copy # n
          /\ asset[a].copy # n
          /\ store' = [store EXCEPT ![a][n] = store[a][Incoming]]
          /\ request' = [request EXCEPT ![r] =
               [pc |-> "commit", asset |-> a, tag |-> @.tag, copy |-> n]]
     /\ UNCHANGED <<listingVars, asset, url, removalVars>>

Concluding(r) == request[r].pc \in {"reject", "commit"}
StillPending(r) ==
  /\ Draft(asset[request[r].asset].of)
  /\ asset[request[r].asset].state = "pending"

(* Mutant: step 3 does not lock the draft again. *)
AcceptUnlocked(r) ==
  LET a == request[r].asset
      l == asset[a].of
  IN /\ request[r].pc = "commit"
     /\ asset[a].state = "pending"
     /\ asset' = [asset EXCEPT ![a] = Judged(@, "ready", request[r].copy)]
     /\ primary' = IF l \in Contents /\ primary[l] = None
                   THEN [primary EXCEPT ![l] = a] ELSE primary
     /\ To(r, "tidy")
     /\ UNCHANGED <<status, checked, url, store, removalVars>>

(* Step 3: the verdict is recorded if the file is still what step 1 saw.   *)
(* When the COMMIT took effect and its answer was lost, the request fails  *)
(* like one that was rolled back.                                          *)
Accept(r) ==
  LET a == request[r].asset
      l == asset[a].of
  IN /\ request[r].pc = "commit"
     /\ StillPending(r)
     /\ asset' = [asset EXCEPT ![a] = Judged(@, "ready", request[r].copy)]
     /\ primary' = IF l \in Contents /\ primary[l] = None
                   THEN [primary EXCEPT ![l] = a] ELSE primary
     /\ To(r, "tidy") \/ (LostAcks /\ To(r, "withdraw"))
     /\ UNCHANGED <<status, checked, url, store, removalVars>>

Reject(r) ==
  /\ request[r].pc = "reject"
  /\ StillPending(r)
  /\ asset' = [asset EXCEPT ![request[r].asset] = Judged(@, "quarantined", @.copy)]
  /\ To(r, "tidy")
  /\ UNCHANGED <<listingVars, url, store, removalVars>>

(* Another completion of the file got there first. *)
Overtaken(r) ==
  /\ Concluding(r)
  /\ Draft(asset[request[r].asset].of)
  /\ asset[request[r].asset].state = "ready"
  /\ To(r, IF request[r].pc = "commit" THEN "yield" ELSE "tidy")
  /\ UNCHANGED <<listingVars, asset, url, store, removalVars>>

(* The listing or the file has moved on, or the transaction failed. *)
Fail(r) ==
  /\ Concluding(r)
  /\ IF request[r].pc = "commit" THEN To(r, "withdraw") ELSE Stop(r)
  /\ UNCHANGED <<listingVars, asset, url, store, removalVars>>

(* discardUncommittedPromotion, whose own failure is ignored. *)
Withdraw(r) ==
  /\ request[r].pc \in {"withdraw", "yield"}
  /\ \/ store' = [store EXCEPT ![request[r].asset][request[r].copy] = Absent]
     \/ UNCHANGED store
  /\ IF request[r].pc = "yield" THEN To(r, "tidy") ELSE Stop(r)
  /\ UNCHANGED <<listingVars, asset, url, removalVars>>

(* The incoming object goes, whatever the verdict. *)
Tidy(r) ==
  /\ request[r].pc = "tidy"
  /\ \/ store' = [store EXCEPT ![request[r].asset][Incoming] = Absent]
     \/ UNCHANGED store
  /\ Stop(r)
  /\ UNCHANGED <<listingVars, asset, url, removalVars>>

(* The store or the scanner fails, the object has changed, or the API      *)
(* process ends.                                                           *)
Abandon(r) ==
  /\ request[r].pc # "idle"
  /\ Stop(r)
  /\ UNCHANGED <<listingVars, asset, url, store, removalVars>>

-----------------------------------------------------------------------------
(* Removing *)

RemoveContentFile(a) ==
  LET l == asset[a].of
  IN /\ l \in Contents
     /\ Draft(l)
     /\ asset[a].state # "deleted"
     /\ asset' = Mark({a}, "delete_pending")
     /\ IF primary[l] # a THEN UNCHANGED primary
        ELSE \/ /\ Ready(l) \ {a} = {}
                /\ primary' = [primary EXCEPT ![l] = None]
             \/ \E b \in Ready(l) \ {a} : primary' = [primary EXCEPT ![l] = b]
     /\ erasing' = erasing \cup {a}
     /\ UNCHANGED <<status, checked, url, store, request, erased>>

RemoveCourseFile(a) ==
  /\ asset[a].of \in CourseRuns
  /\ Draft(asset[a].of)
  /\ IF asset[a].state = "deleted" THEN UNCHANGED asset
     ELSE asset' = Mark({a}, "delete_pending")
  /\ erasing' = erasing \cup {a}
  /\ UNCHANGED <<listingVars, url, store, request, erased>>

(* Mutant: the archived version keeps its primary file. *)
DeleteAttached(c) ==
  LET files == {a \in Stored(asset) : asset[a].of = c}
  IN /\ Draft(c)
     /\ status' = [status EXCEPT ![c] = "archived"]
     /\ asset' = Mark(files, "delete_pending")
     /\ erasing' = erasing \cup files
     /\ UNCHANGED <<primary, checked, url, store, request, erased>>

DeleteContentDraft(c) ==
  LET files == {a \in Stored(asset) : asset[a].of = c}
  IN /\ Draft(c)
     /\ status' = [status EXCEPT ![c] = "archived"]
     /\ primary' = [primary EXCEPT ![c] = None]
     /\ asset' = Mark(files, "delete_pending")
     /\ erasing' = erasing \cup files
     /\ UNCHANGED <<checked, url, store, request, erased>>

DeleteCourseDraft(l) ==
  /\ Draft(l)
  /\ status' = [status EXCEPT ![l] = "archived"]
  /\ UNCHANGED <<primary, checked, asset, url, store, request, removalVars>>

(* After the commit: delete the object, ... *)
Erase(a) ==
  /\ a \in erasing
  /\ store' = [store EXCEPT ![a][asset[a].copy] = Absent]
  /\ erasing' = erasing \ {a}
  /\ erased' = erased \cup {a}
  /\ UNCHANGED <<listingVars, asset, url, request>>

(* Mutant: the row is closed as soon as the URL has expired. *)
SettleEarly(a) ==
  /\ a \in erased
  /\ asset' = IF url[a] # "live" /\ asset[a].state = "delete_pending"
              THEN Mark({a}, "deleted") ELSE asset
  /\ erased' = erased \ {a}
  /\ UNCHANGED <<listingVars, url, store, request, erasing>>

(* ... and, when its URL cannot bring it back, close the row. *)
Settle(a) ==
  /\ a \in erased
  /\ asset' = IF url[a] = "dead" /\ asset[a].state = "delete_pending"
              THEN Mark({a}, "deleted") ELSE asset
  /\ erased' = erased \ {a}
  /\ UNCHANGED <<listingVars, url, store, request, erasing>>

EraseFails(a) ==
  /\ a \in erasing \cup erased
  /\ erasing' = erasing \ {a}
  /\ erased' = erased \ {a}
  /\ UNCHANGED <<listingVars, asset, url, store, request>>

(* The scheduled task holds the locks from its recheck to its update.      *)
Collectable(a) ==
  LET l == asset[a].of
  IN /\ url[a] = "dead"
     /\ ~IsPrimary(a)
     /\ \/ asset[a].state = "delete_pending"
        \/ asset[a].state = "pending" /\ status[l] \in {"draft", "archived"}
        \/ asset[a].state \in {"ready", "quarantined"} /\ status[l] = "archived"

Collect(a) ==
  /\ Collectable(a)
  /\ store' = [store EXCEPT ![a][asset[a].copy] = Absent]
  /\ asset' = Mark({a}, "deleted")
  /\ UNCHANGED <<listingVars, url, request, removalVars>>

(* The store refuses, or it obliges and the transaction is lost. *)
CollectFails(a) ==
  /\ Collectable(a)
  /\ \/ asset' = Mark({a}, "delete_pending") /\ UNCHANGED store
     \/ store' = [store EXCEPT ![a][asset[a].copy] = Absent] /\ UNCHANGED asset
  /\ UNCHANGED <<listingVars, url, request, removalVars>>

-----------------------------------------------------------------------------
(* Submitting and moderating *)

Active(c) == Of(asset, c, {"pending", "ready", "quarantined"})
ContentReady(c) == Ready(c) # {} /\ Active(c) = Ready(c)
CourseReady(l) == Ready(l) # {}

SubmitContent(c) ==
  /\ Draft(c)
  /\ ContentReady(c)
  /\ status' = [status EXCEPT ![c] = "submitted"]
  /\ UNCHANGED <<primary, checked, asset, url, store, request, removalVars>>

(* The readiness check of a course takes no lock ... *)
CheckCourse(l) ==
  /\ CourseReady(l)
  /\ checked' = checked \cup {l}
  /\ UNCHANGED <<status, primary, asset, url, store, request, removalVars>>

(* ... and the UPDATE looks at the status alone. *)
SubmitCourse(l) ==
  /\ l \in checked
  /\ checked' = checked \ {l}
  /\ status' = IF Draft(l) THEN [status EXCEPT ![l] = "submitted"] ELSE status
  /\ UNCHANGED <<primary, asset, url, store, request, removalVars>>

PublishContent(c) ==
  /\ status[c] = "submitted"
  /\ ContentReady(c)
  /\ status' = [status EXCEPT ![c] = "published"]
  /\ UNCHANGED <<primary, checked, asset, url, store, request, removalVars>>

(* Mutant: publication relies on the check at submission. *)
PublishUnchecked(l) ==
  /\ status[l] = "submitted"
  /\ status' = [status EXCEPT ![l] = "published"]
  /\ UNCHANGED <<primary, checked, asset, url, store, request, removalVars>>

PublishCourse(l) ==
  /\ status[l] = "submitted"
  /\ CourseReady(l)
  /\ status' = [status EXCEPT ![l] = "published"]
  /\ UNCHANGED <<primary, checked, asset, url, store, request, removalVars>>

Refuse(l) ==
  /\ status[l] = "submitted"
  /\ status' = [status EXCEPT ![l] = "rejected"]
  /\ UNCHANGED <<primary, checked, asset, url, store, request, removalVars>>

-----------------------------------------------------------------------------
Uploading ==
  \E a \in Assets :
    \/ \E l \in Listings : Reserve(l, a)
    \/ Reopen(a)
    \/ \E bytes \in Bytes : Put(a, bytes)
    \/ Age(a)

Completing ==
  \E r \in Requests :
    \/ \E a \in Assets : Examine(r, a)
    \/ Inspect(r) \/ Promote(r)
    \/ Accept(r) \/ Reject(r) \/ Overtaken(r) \/ Fail(r)
    \/ Withdraw(r) \/ Tidy(r) \/ Abandon(r)

Removing ==
  \/ \E a \in Assets :
       \/ RemoveContentFile(a) \/ RemoveCourseFile(a)
       \/ Erase(a) \/ Settle(a) \/ EraseFails(a)
       \/ Collect(a) \/ CollectFails(a)
  \/ \E c \in Contents : DeleteContentDraft(c)
  \/ \E l \in CourseRuns : DeleteCourseDraft(l)

Publishing ==
  \/ \E c \in Contents : SubmitContent(c) \/ PublishContent(c)
  \/ \E l \in CourseRuns : CheckCourse(l) \/ SubmitCourse(l) \/ PublishCourse(l)
  \/ \E l \in Listings : Refuse(l)

Next == Uploading \/ Completing \/ Removing \/ Publishing

Spec == Init /\ [][Next]_vars
Fairness ==
  \A a \in Assets : WF_vars(Age(a)) /\ WF_vars(Settle(a)) /\ WF_vars(Collect(a))

(* Time passes, the maintenance task is scheduled and runs, and the store  *)
(* does not refuse one object for ever (docs/R2_BACKEND_HANDOFF.md:481).   *)
FairSpec == Spec /\ Fairness

-----------------------------------------------------------------------------
States == {"none", "pending", "ready", "quarantined", "delete_pending", "deleted"}
Steps == {"idle", "inspect", "promote", "reject", "commit", "withdraw", "yield", "tidy"}

Row == [of : Listings \cup {None}, state : States, copy : Copies, sized : BOOLEAN]
Completion == [pc : Steps, asset : Assets \cup {None}, tag : AllBytes \cup {Absent},
               copy : Copies]

(* Types.  A row that was never inserted has no URL, and only such a row.  *)
TypeOK ==
  /\ status \in [Listings -> {"draft", "submitted", "published", "rejected", "archived"}]
  /\ primary \in [Contents -> Assets \cup {None}]
  /\ checked \subseteq CourseRuns
  /\ asset \in [Assets -> Row]
  /\ url \in [Assets -> {"none", "live", "late", "dead"}]
  /\ store \in [Assets -> [Copies -> AllBytes \cup {Absent}]]
  /\ request \in [Requests -> Completion]
  /\ erasing \subseteq Assets
  /\ erased \subseteq Assets
  /\ \A a \in Assets : IF url[a] = "none" THEN asset[a] = Unused
                                          ELSE asset[a].of # None

(* A ready file of a listing that was not deleted is stored under a key    *)
(* the browser cannot write, with the bytes that passed the inspection:    *)
(* whatever is uploaded again, and however many completions of it race     *)
(* (upload-verification.ts:76-113, r2.ts:76-108).                          *)
ReadyServesInspected ==
  \A a \in Assets :
    asset[a].state = "ready" /\ status[asset[a].of] # "archived"
      => asset[a].copy # Incoming /\ store[a][asset[a].copy] = "clean"

(* What is published can be delivered: content has no file that was not    *)
(* verified, a course has at least one that was, although its submission   *)
(* races with the removal of files (catalog.ts:202-206, 417, 504-516).     *)
PublishedIsServable ==
  \A l \in Listings :
    status[l] = "published"
      => IF l \in Contents THEN ContentReady(l) ELSE CourseReady(l)

(* A row is closed only when its object is gone for good: no upload, copy  *)
(* or late answer brings it back (storage-deletion.ts:1-4).                *)
ClosedIsGone ==
  \A a \in Assets :
    asset[a].state = "deleted"
      => url[a] = "dead" /\ store[a][asset[a].copy] = Absent

(* After submission no file of a listing becomes ready, or stops being it, *)
(* or is stored elsewhere, whatever completions and removals were still in *)
(* flight (docs/R2_BACKEND_HANDOFF.md:313).                                *)
SubmittedFilesFrozen ==
  [][\A l \in Listings, a \in Assets :
       status[l] \in {"submitted", "published"} /\ asset[a].of = l
         => (asset[a].state = "ready" \/ asset'[a].state = "ready"
              => asset'[a] = asset[a])]_vars

(* A removed file is collected in the end, even when every attempt to      *)
(* delete its object is lost, and even when the listing is published first *)
(* (storage-reconciliation.ts:71-73).                                      *)
RemovedIsCollected ==
  \A a \in Assets :
    asset[a].state = "delete_pending" ~> asset[a].state = "deleted"
=============================================================================
