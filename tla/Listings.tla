---- MODULE Listings ----
(* A listing from its draft to the decision of a reviewer.  Its owner edits it,   *)
(* changes its cover, attaches files, submits or deletes it from several tabs at  *)
(* once; reviewers load it, look at its cover and open its files, and publish or  *)
(* reject it.  A handler locks the rows of the listing, but what a submission     *)
(* finds ready is read before, and an image is normalised before its transaction. *)
(* The owner keeps the role and the certificate that every handler asks for.      *)
EXTENDS Integers, FiniteSets

CONSTANTS
  Terms,      \* titles, prices and schedules that an owner may enter
  Hosted,     \* those of a course that is delivered as a file
  Covers,     \* images, by numbers
  ListingFiles,
  Reviewers

ASSUME ListingAssumption == Hosted \subseteq Terms /\ Covers \subseteq Nat \ {0}

VARIABLES
  kind,      \* "course" or "content"
  status,    \* publication_status and the status of its run or version
  terms,     \* what is sold
  cover,     \* its cover, and 0 for NULL
  file,      \* the status of each file
  image,     \* a cover that is being normalised, 0 for a deletion, or NoImage
  call,      \* the submission on its way: read, or answered
  editor,    \* the editor's page
  review,    \* the page of each reviewer
  approved   \* history: the page that the listing was published from

listingVars == <<kind, status, terms, cover, file, image, call, editor, review, approved>>
draftVars == <<kind, status, terms, cover, file, image>>

NoImage == -1
Nothing == [known |-> FALSE, terms |-> "none", cover |-> FALSE, files |-> <<>>, image |-> NoImage,
            opened |-> {}, sent |-> "none"]

Active == {f \in ListingFiles : file[f] \in {"pending", "ready", "quarantined"}}
Ready  == {f \in ListingFiles : file[f] = "ready"}

(* assertCourseReadyForSubmission: a file course needs one file that is ready;    *)
(* for content every attached file must be ready.                                 *)
IsReady == IF kind = "course" THEN terms \in Hosted => Ready # {}
           ELSE Active # {} /\ Active = Ready

-----------------------------------------------------------------------------
ListingInit ==
  /\ kind \in {"course", "content"}
  /\ status = "none" /\ terms \in Terms /\ cover = 0
  /\ file = [f \in ListingFiles |-> "none"]
  /\ image = NoImage /\ call = "none" /\ editor = "new"
  /\ review = [r \in Reviewers |-> Nothing] /\ approved = Nothing

(* The form is saved; only its answer turns the page into the editor of a draft.  *)
CreateListing ==
  /\ status = "none" /\ status' = "draft"
  /\ UNCHANGED <<kind, terms, cover, file, image, call, editor, review, approved>>

(* The page of a draft: from the answer, or with its id from the list of listings. *)
OpenEditor ==
  /\ status = "draft" /\ editor = "new" /\ editor' = "editing"
  /\ UNCHANGED <<draftVars, call, review, approved>>

LeaveEditor ==
  /\ editor \in {"editing", "submitted"} /\ editor' = "new"
  /\ UNCHANGED <<draftVars, call, review, approved>>

(* Only a course can be edited once it is saved, in Publishing tools. *)
UpdateCourse(t) ==
  /\ kind = "course" /\ status = "draft" /\ t # terms
  /\ terms' = t
  /\ UNCHANGED <<kind, status, cover, file, image, call, editor, review, approved>>

(* updateListingCover reads and normalises the image, and then takes its locks.   *)
SendCover(c) ==
  /\ status # "none" /\ image = NoImage
  /\ image' = c
  /\ UNCHANGED <<kind, status, terms, cover, file, call, editor, review, approved>>

(* Mutant: the rows are locked, but their state is not part of the condition. *)
StoreCover_AnyState ==
  /\ image # NoImage /\ image' = NoImage
  /\ cover' = image
  /\ UNCHANGED <<kind, status, terms, file, call, editor, review, approved>>

StoreCover ==
  /\ image # NoImage /\ image' = NoImage
  /\ cover' = IF status = "draft" THEN image ELSE cover
  /\ UNCHANGED <<kind, status, terms, file, call, editor, review, approved>>

(* An upload is begun, completed, and removed on a locked draft.  An intent that  *)
(* expires and a file in quarantine are collected whatever became of the draft.   *)
ChangeFile(f) ==
  /\ \/ /\ status = "draft"
        /\ \/ file[f] = "none" /\ file' = [file EXCEPT ![f] = "pending"]
           \/ file[f] = "pending" /\ \E s \in {"ready", "quarantined"} : file' = [file EXCEPT ![f] = s]
           \/ file[f] \in {"ready", "quarantined"} /\ file' = [file EXCEPT ![f] = "gone"]
     \/ file[f] \in {"pending", "quarantined"} /\ file' = [file EXCEPT ![f] = "gone"]
  /\ UNCHANGED <<kind, status, terms, cover, image, call, editor, review, approved>>

(* A run takes no order before it is published, so nothing blocks the deletion.   *)
DeleteDraft ==
  /\ status = "draft" /\ status' = "archived" /\ cover' = 0
  /\ file' = IF kind = "content" THEN [f \in ListingFiles |-> "gone"] ELSE file
  /\ UNCHANGED <<kind, terms, image, call, editor, review, approved>>

-----------------------------------------------------------------------------
(* The button is enabled while the page believes that its files are ready, which  *)
(* another tab may have changed; one submission is on its way at a time.          *)
SendSubmission ==
  /\ editor = "editing" /\ call = "none"
  /\ editor' = "submitting" /\ call' = "sent"
  /\ UNCHANGED <<draftVars, review, approved>>

(* submitCourse asks whether the course is ready without a lock. *)
ReadReadiness ==
  /\ kind = "course" /\ call = "sent"
  /\ call' = IF status # "none" /\ IsReady THEN "ready" ELSE "refused"
  /\ UNCHANGED <<draftVars, editor, review, approved>>

(* Its UPDATE, and submitContent, which locks before it reads. *)
Submit ==
  /\ IF kind = "course" THEN call = "ready" ELSE call = "sent"
  /\ IF status = "draft" /\ (kind = "content" => IsReady)
       THEN call' = "ok" /\ status' = "submitted"
       ELSE call' = "refused" /\ UNCHANGED status
  /\ UNCHANGED <<kind, terms, cover, file, image, editor, review, approved>>

SubmissionAnswered ==
  /\ call \in {"ok", "refused"} /\ call' = "none"
  /\ editor' = IF editor = "submitting" THEN IF call = "ok" THEN "submitted" ELSE "editing"
               ELSE editor
  /\ UNCHANGED <<draftVars, review, approved>>

(* No answer comes, or too late: the page shows the error and can be used again.  *)
SubmissionLost ==
  /\ editor = "submitting" /\ editor' = "editing"
  /\ UNCHANGED <<draftVars, call, review, approved>>

-----------------------------------------------------------------------------
(* The queue holds what is submitted; of a row that stays on the page the files   *)
(* that were opened are remembered.                                               *)
LoadQueue(r) ==
  /\ review[r].sent = "none"
  /\ review' = [review EXCEPT ![r] =
       IF status = "submitted"
         THEN [known |-> TRUE, terms |-> terms, cover |-> cover # 0,
               files |-> [f \in Active |-> file[f]], image |-> @.image, opened |-> @.opened,
               sent |-> "none"]
         ELSE Nothing]
  /\ UNCHANGED <<draftVars, call, editor, approved>>

PreviewCover(r) ==
  /\ review[r].known /\ review[r].cover /\ review[r].image = NoImage
  /\ status = "submitted" /\ cover # 0
  /\ review' = [review EXCEPT ![r].image = cover]
  /\ UNCHANGED <<draftVars, call, editor, approved>>

(* A link is given for a file that is ready in a submission, and opened. *)
PreviewFile(r, f) ==
  /\ kind = "content" /\ review[r].known /\ review[r].sent = "none"
  /\ f \in DOMAIN review[r].files /\ review[r].files[f] = "ready" /\ f \notin review[r].opened
  /\ status = "submitted" /\ file[f] = "ready"
  /\ review' = [review EXCEPT ![r].opened = @ \cup {f}]
  /\ UNCHANGED <<draftVars, call, editor, approved>>

(* canPublishReviewedAssets *)
MayApprove(r) == kind = "content" =>
  /\ DOMAIN review[r].files # {}
  /\ \A f \in DOMAIN review[r].files : review[r].files[f] = "ready" /\ f \in review[r].opened

SendDecision(r, decision) ==
  /\ review[r].known /\ review[r].sent = "none"
  /\ decision = "published" => MayApprove(r)
  /\ review' = [review EXCEPT ![r].sent = decision]
  /\ UNCHANGED <<draftVars, call, editor, approved>>

(* The page loads the queue again; if that fails, or no answer came, the row stays. *)
AfterDecision(r) == review' \in {[review EXCEPT ![r] = Nothing], [review EXCEPT ![r].sent = "none"]}

(* The decision locks the submission, and asks again whether it is ready. *)
Publish(r) ==
  /\ review[r].sent = "published" /\ status = "submitted" /\ IsReady
  /\ status' = "published" /\ approved' = review[r]
  /\ AfterDecision(r)
  /\ UNCHANGED <<kind, terms, cover, file, image, call, editor>>

(* The draft cannot be taken up again; a course loses its cover. *)
Reject(r) ==
  /\ review[r].sent = "rejected" /\ status = "submitted"
  /\ status' = "rejected" /\ cover' = IF kind = "course" THEN 0 ELSE cover
  /\ AfterDecision(r)
  /\ UNCHANGED <<kind, terms, file, image, call, editor, approved>>

(* 409: the page shows the error over the row that it has. *)
RefuseDecision(r) ==
  /\ review[r].sent # "none"
  /\ status # "submitted" \/ (review[r].sent = "published" /\ ~IsReady)
  /\ review' = [review EXCEPT ![r].sent = "none"]
  /\ UNCHANGED <<draftVars, call, editor, approved>>

ListingNext ==
  \/ CreateListing \/ OpenEditor \/ LeaveEditor \/ StoreCover \/ DeleteDraft
  \/ \E t \in Terms : UpdateCourse(t)
  \/ \E c \in Covers \cup {0} : SendCover(c)
  \/ \E f \in ListingFiles : ChangeFile(f)
  \/ SendSubmission \/ ReadReadiness \/ Submit \/ SubmissionAnswered \/ SubmissionLost
  \/ \E r \in Reviewers :
       \/ LoadQueue(r) \/ PreviewCover(r) \/ Publish(r) \/ Reject(r) \/ RefuseDecision(r)
       \/ \E f \in ListingFiles : PreviewFile(r, f)
       \/ \E d \in {"published", "rejected"} : SendDecision(r, d)

ListingSpec == ListingInit /\ [][ListingNext]_listingVars

-----------------------------------------------------------------------------
(* What is public is what a reviewer had on the page and opened: its terms, its    *)
(* cover if it was looked at, and every file of content, all of them ready; and   *)
(* the editor says that a listing is submitted only if it left the draft that way *)
(* (listing-covers.ts:53 "review cannot race a cover change"; catalog.ts:407-419, *)
(* 497-518; AdminPlatformPages.jsx:476 "Content must be privately previewed").    *)
PublishedAsReviewed ==
  /\ status = "published" =>
       /\ terms = approved.terms /\ (cover # 0) = approved.cover
       /\ approved.image \in {NoImage, cover}
       /\ kind = "content" => Ready = approved.opened \cap Active /\ Active = DOMAIN approved.files
       /\ IsReady
  /\ editor = "submitted" => status \in {"submitted", "published", "rejected"}
====
