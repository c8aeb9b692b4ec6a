--------------------------- MODULE UploadsProofs ---------------------------
(* Theorems about Uploads for any number of listings, files, requests and   *)
(* promoted copies, and for any limits; and about Archives for any records, *)
(* directories and limits.                                                  *)
EXTENDS WellFoundedInduction, Uploads, Archives, FiniteSetTheorems, SequenceTheorems, TLAPS

(* What an action does to one row, and to the completion of one request.    *)

LEMMA UnusedIsRow == Unused \in Row /\ Idle \in Completion
BY UploadsAssumption DEF Unused, Idle, Row, Completion, States, Steps, Copies, Incoming

LEMMA MarkedRow ==
  ASSUME asset \in [Assets -> Row], NEW S, NEW state \in States
  PROVE  /\ Mark(S, state) \in [Assets -> Row]
         /\ \A a \in Assets :
              Mark(S, state)[a] = IF a \in S THEN [asset[a] EXCEPT !.state = state]
                                             ELSE asset[a]
BY DEF Mark, Row

LEMMA NextStep ==
  ASSUME request \in [Requests -> Completion], NEW r \in Requests
  PROVE  /\ \A pc \in Steps : To(r, pc) =>
              /\ request' \in [Requests -> Completion]
              /\ request'[r] = [request[r] EXCEPT !.pc = pc]
              /\ \A q \in Requests \ {r} : request'[q] = request[q]
         /\ Stop(r) =>
              /\ request' \in [Requests -> Completion]
              /\ request'[r] = Idle
              /\ \A q \in Requests \ {r} : request'[q] = request[q]
<1>1. ASSUME NEW pc \in Steps, To(r, pc)
      PROVE  /\ request' \in [Requests -> Completion]
             /\ request'[r] = [request[r] EXCEPT !.pc = pc]
             /\ \A q \in Requests \ {r} : request'[q] = request[q]
  BY <1>1 DEF To, Completion
<1>2. ASSUME Stop(r)
      PROVE  /\ request' \in [Requests -> Completion]
             /\ request'[r] = Idle
             /\ \A q \in Requests \ {r} : request'[q] = request[q]
  BY <1>2, UnusedIsRow DEF Stop
<1> QED
  BY <1>1, <1>2

-----------------------------------------------------------------------------
(* Types *)

StatusType == status \in [Listings -> {"draft", "submitted", "published", "rejected", "archived"}]
PrimaryType == primary \in [Contents -> Assets \cup {None}]
UrlType == url \in [Assets -> {"none", "live", "late", "dead"}]
StoreType == store \in [Assets -> [Copies -> AllBytes \cup {Absent}]]
SetsType == checked \subseteq CourseRuns /\ erasing \subseteq Assets /\ erased \subseteq Assets
RowsHaveUrls ==
  \A a \in Assets : IF url[a] = "none" THEN asset[a] = Unused ELSE asset[a].of # None

LEMMA TypeParts ==
  TypeOK <=> /\ StatusType /\ PrimaryType /\ UrlType /\ StoreType /\ SetsType
             /\ asset \in [Assets -> Row]
             /\ request \in [Requests -> Completion]
             /\ RowsHaveUrls
BY DEF TypeOK, StatusType, PrimaryType, UrlType, StoreType, SetsType, RowsHaveUrls

(* A row in use keeps its listing when its state changes. *)
LEMMA MarkTypes ==
  ASSUME TypeOK, NEW S, NEW state \in States, asset' = Mark(S, state), UNCHANGED url,
         \A a \in S \cap Assets : url[a] # "none"
  PROVE  asset' \in [Assets -> Row] /\ RowsHaveUrls'
<1>1. asset \in [Assets -> Row] /\ RowsHaveUrls
  BY TypeParts
<1>2. \A a \in Assets : asset'[a] = IF a \in S THEN [asset[a] EXCEPT !.state = state]
                                               ELSE asset[a]
  BY <1>1, MarkedRow
<1>3. \A a \in Assets : a \in S => asset'[a].of = asset[a].of
  BY <1>1, <1>2 DEF Row
<1> QED
  BY ZenonT(60), <1>1, <1>2, <1>3, MarkedRow DEF RowsHaveUrls

LEMMA InUse ==
  ASSUME TypeOK, NEW a \in Assets
  PROVE  /\ asset[a].of # None => url[a] # "none" /\ asset[a].of \in Listings
         /\ asset[a].state # "none" => asset[a].of # None
BY TypeParts DEF RowsHaveUrls, Unused, Row

LEMMA StatusChange ==
  ASSUME StatusType, NEW l \in Listings,
         NEW new \in {"draft", "submitted", "published", "rejected", "archived"},
         status' = [status EXCEPT ![l] = new]
  PROVE  StatusType'
BY DEF StatusType

LEMMA ReserveTypes ==
  ASSUME TypeOK, NEW l \in Listings, NEW a \in Assets, Reserve(l, a)
  PROVE  TypeOK'
<1> DEFINE rows == Mark(Discarded(l), "delete_pending")
<1>1. /\ asset \in [Assets -> Row] /\ RowsHaveUrls /\ UrlType /\ SetsType
      /\ "delete_pending" \in States
  BY TypeParts DEF States
<1>2. rows \in [Assets -> Row]
  BY <1>1, MarkedRow
<1>3. \A b \in Assets : rows[b] = asset[b] \/ (b \in Discarded(l) /\ rows[b].of = asset[b].of)
  <2>1. \A b \in Assets : rows[b] = IF b \in Discarded(l)
                                   THEN [asset[b] EXCEPT !.state = "delete_pending"]
                                   ELSE asset[b]
    BY DEF Mark
  <2>2. \A b \in Assets : [asset[b] EXCEPT !.state = "delete_pending"].of = asset[b].of
    BY <1>1 DEF Row
  <2> QED
    BY <2>1, <2>2
<1>4. \A b \in Discarded(l) : b \in Assets /\ asset[b].state # "none"
  BY DEF Discarded, Of
<1>5. PICK S \in SUBSET Releasable(rows) :
        asset' = [b \in Assets |->
               IF b = a THEN New(l)
               ELSE IF b \in S THEN [rows[b] EXCEPT !.state = "deleted"] ELSE rows[b]]
  BY DEF Reserve
<1>6. New(l) \in Row /\ New(l).of = l
  BY UploadsAssumption DEF New, Row, States, Copies, Incoming
<1>7. \A b \in Assets : [rows[b] EXCEPT !.state = "deleted"] \in Row
  BY <1>2 DEF Row, States
<1>8. asset' \in [Assets -> Row]
  BY <1>2, <1>5, <1>6, <1>7
<1>9. RowsHaveUrls'
  <2>1. asset'[a].of = l /\ l # None
    <3>1. asset'[a] = New(l)
      BY <1>5
    <3>2. l # None
      BY UploadsAssumption DEF Listings
    <3> QED
      BY <1>6, <3>1, <3>2
  <2>2. ASSUME NEW b \in Assets \ {a}
        PROVE  IF url'[b] = "none" THEN asset'[b] = Unused ELSE asset'[b].of # None
    <3>1. url'[b] = url[b]
      BY <1>1 DEF Reserve, UrlType
    <3>2. b \in S => rows[b].state # "none" /\ asset'[b] = [rows[b] EXCEPT !.state = "deleted"]
      BY <1>5 DEF Releasable
    <3>3. b \notin S => asset'[b] = rows[b]
      BY <1>5
    <3>4. b \in S => asset'[b].of = rows[b].of
      BY <1>2, <3>2 DEF Row
    <3>5. rows[b] = Unused => rows[b].state = "none"
      BY DEF Unused
    <3>6. b \in Discarded(l) => url[b] # "none"
      BY <1>1, <1>4 DEF RowsHaveUrls, Unused
    <3> QED
      BY <1>1, <1>3, <3>1, <3>2, <3>3, <3>4, <3>5, <3>6 DEF RowsHaveUrls
  <2> QED
    BY <1>1, <2>1, <2>2 DEF RowsHaveUrls, Reserve, UrlType
<1>10. UrlType' /\ SetsType'
  BY <1>1, <1>4 DEF Reserve, UrlType, SetsType, removalVars, listingVars
<1> QED
  BY <1>8, <1>9, <1>10 DEF TypeOK, Reserve, listingVars, UrlType, SetsType, RowsHaveUrls

(* Removals, and the maintenance, mark rows that are in use. *)
LEMMA MarkingTypes ==
  ASSUME TypeOK, NEW a \in Assets,
         RemoveContentFile(a) \/ RemoveCourseFile(a) \/ Settle(a)
           \/ Collect(a) \/ CollectFails(a)
  PROVE  asset' \in [Assets -> Row] /\ RowsHaveUrls'
<1>1. asset \in [Assets -> Row] /\ RowsHaveUrls /\ UNCHANGED url
  BY TypeParts DEF RemoveContentFile, RemoveCourseFile, Settle, Collect, CollectFails
<1>2. {"deleted", "delete_pending"} \subseteq States
  BY DEF States
<1>3. asset' = asset \/ (/\ asset[a].of # None
                        /\ \E state \in {"deleted", "delete_pending"} : asset' = Mark({a}, state))
  BY InUse, UploadsAssumption
     DEF RemoveContentFile, RemoveCourseFile, Settle, Collect, CollectFails, Collectable
<1>4. CASE asset' = asset
  BY <1>1, <1>4 DEF RowsHaveUrls
<1>5. ASSUME asset[a].of # None, NEW state \in {"deleted", "delete_pending"},
             asset' = Mark({a}, state)
      PROVE  asset' \in [Assets -> Row] /\ RowsHaveUrls'
  <2>1. \A b \in {a} \cap Assets : url[b] # "none"
    BY <1>5, InUse
  <2> QED
    BY <1>1, <1>2, <1>5, <2>1, MarkTypes
<1> QED
  BY <1>3, <1>4, <1>5

LEMMA CompletionTypes ==
  ASSUME TypeOK, NEW r \in Requests
  PROVE  /\ \A a \in Assets : Examine(r, a) => TypeOK'
         /\ Inspect(r) \/ Promote(r) \/ Accept(r) \/ Reject(r) \/ Overtaken(r) \/ Fail(r)
              \/ Withdraw(r) \/ Tidy(r) \/ Abandon(r) => TypeOK'
<1>1. /\ asset \in [Assets -> Row] /\ request \in [Requests -> Completion]
      /\ StatusType /\ PrimaryType /\ UrlType /\ StoreType /\ SetsType /\ RowsHaveUrls
  BY TypeParts
<1>2. \A pc : To(r, pc) /\ pc \in Steps => request' \in [Requests -> Completion]
  BY <1>1, NextStep
<1>3. Stop(r) => request' \in [Requests -> Completion]
  BY <1>1, NextStep
<1>4. request[r] \in Completion /\ Incoming \in Copies
  BY <1>1, UploadsAssumption DEF Copies, Incoming
<1>5. {"inspect", "promote", "reject", "commit", "withdraw", "yield", "tidy"} \subseteq Steps
  BY DEF Steps
<1>6. \A row \in Row, state \in {"ready", "quarantined"}, copy \in Copies :
         Judged(row, state, copy) \in Row /\ Judged(row, state, copy).of = row.of
  BY DEF Judged, Row, States
<1>7. ASSUME NEW a \in Assets, NEW state \in {"ready", "quarantined"}, NEW copy \in Copies,
             asset' = [asset EXCEPT ![a] = Judged(@, state, copy)],
             asset[a].state = "pending", UNCHANGED url
      PROVE  asset' \in [Assets -> Row] /\ RowsHaveUrls'
  <2>1. asset[a].of # None
    BY <1>7, InUse
  <2>2. url[a] # "none" /\ asset'[a].of = asset[a].of
    BY <1>1, <1>6, <1>7, <2>1, InUse
  <2>3. \A b \in Assets \ {a} : asset'[b] = asset[b]
    BY <1>1, <1>7
  <2> QED
    BY <1>1, <1>6, <1>7, <2>1, <2>2, <2>3 DEF RowsHaveUrls
<1>8. ASSUME NEW a \in Assets, Examine(r, a)
      PROVE  TypeOK'
  <2>1. asset[a] \in Row /\ store[a][Incoming] \in AllBytes \cup {Absent}
    BY <1>1, <1>4 DEF StoreType
  <2>2. CASE store[a][Incoming] = "wrong"
    <3>1. asset' \in [Assets -> Row] /\ RowsHaveUrls'
      BY <1>7, <1>8, <2>1, <2>2 DEF Examine, Row
    <3> QED
      BY <1>1, <1>8, <2>2, <3>1 DEF Examine, TypeOK, StatusType, PrimaryType, UrlType,
         StoreType, SetsType, RowsHaveUrls, listingVars, removalVars
  <2>3. CASE store[a][Incoming] # "wrong"
    <3>1. [pc |-> "inspect", asset |-> a, tag |-> store[a][Incoming], copy |-> Incoming]
            \in Completion
      BY <1>4, <1>5, <2>1 DEF Completion
    <3>2. request' \in [Requests -> Completion]
      BY <1>1, <1>8, <2>3, <3>1 DEF Examine
    <3> QED
      BY <1>1, <1>8, <2>3, <3>2 DEF Examine, TypeOK, StatusType, PrimaryType, UrlType,
         StoreType, SetsType, RowsHaveUrls, listingVars, removalVars
  <2> QED
    BY <2>2, <2>3
<1>9. ASSUME Inspect(r) \/ Overtaken(r) \/ Fail(r) \/ Abandon(r)
      PROVE  TypeOK'
  <2>1. request' \in [Requests -> Completion]
    BY <1>2, <1>3, <1>5, <1>9 DEF Inspect, Overtaken, Fail, Abandon
  <2>2. UNCHANGED <<status, primary, checked, asset, url, store, erasing, erased>>
    BY <1>9 DEF Inspect, Overtaken, Fail, Abandon, listingVars, removalVars
  <2> QED
    BY <1>1, <2>1, <2>2 DEF TypeOK, StatusType, PrimaryType, UrlType, StoreType, SetsType,
       RowsHaveUrls
<1>10. ASSUME Promote(r)
       PROVE  TypeOK'
  <2> DEFINE a == request[r].asset
  <2>1. request[r].asset \in Assets \/ request[r].asset = None
    BY <1>4 DEF Completion
  <2>2. PICK n \in Copies \ {Incoming} :
          /\ store' = [store EXCEPT ![a][n] = store[a][Incoming]]
          /\ request' = [request EXCEPT ![r] =
               [pc |-> "commit", asset |-> a, tag |-> @.tag, copy |-> n]]
    BY <1>10 DEF Promote
  <2>3. StoreType'
    <3>1. CASE a \in Assets
      BY <1>1, <1>4, <2>2, <3>1 DEF StoreType
    <3>2. CASE a \notin Assets
      BY <1>1, <2>2, <3>2 DEF StoreType
    <3> QED
      BY <3>1, <3>2
  <2>4. [pc |-> "commit", asset |-> a, tag |-> request[r].tag, copy |-> n] \in Completion
    BY <1>4, <1>5 DEF Completion
  <2>5. request' \in [Requests -> Completion]
    BY <1>1, <2>2, <2>4
  <2> QED
    BY <1>1, <1>10, <2>3, <2>5 DEF Promote, TypeOK, StatusType, PrimaryType, UrlType,
       StoreType, SetsType, RowsHaveUrls, listingVars, removalVars
<1>11. ASSUME Accept(r) \/ Reject(r)
       PROVE  TypeOK'
  <2> DEFINE a == request[r].asset
  <2>1. asset[a].state = "pending" /\ UNCHANGED url
    BY <1>11 DEF Accept, Reject, StillPending
  <2>2. request' \in [Requests -> Completion]
    BY <1>2, <1>3, <1>5, <1>11 DEF Accept, Reject
  <2>3. PICK state \in {"ready", "quarantined"}, copy \in Copies \cup {asset[a].copy} :
          asset' = [asset EXCEPT ![a] = Judged(@, state, copy)]
    BY <1>4, <1>11 DEF Accept, Reject, Completion
  <2>4. asset' \in [Assets -> Row] /\ RowsHaveUrls'
    <3>1. CASE a \in Assets
      <4>1. copy \in Copies
        BY <1>1, <2>3, <3>1 DEF Row
      <4> QED
        BY <1>7, <2>1, <2>3, <3>1, <4>1
    <3>2. CASE a \notin Assets
      <4>1. asset' = asset
        BY <1>1, <2>3, <3>2
      <4> QED
        BY <1>1, <2>1, <4>1 DEF RowsHaveUrls
    <3> QED
      BY <3>1, <3>2
  <2>5. PrimaryType'
    <3>1. CASE a \in Assets \cup {None}
      BY <1>1, <1>11, <3>1 DEF Accept, Reject, PrimaryType, listingVars
    <3> QED
      BY <1>4, <3>1 DEF Completion
  <2> QED
    BY <1>1, <1>11, <2>2, <2>4, <2>5 DEF Accept, Reject, TypeOK, StatusType, PrimaryType,
       UrlType, StoreType, SetsType, RowsHaveUrls, listingVars, removalVars
<1>12. ASSUME Withdraw(r) \/ Tidy(r)
       PROVE  TypeOK'
  <2> DEFINE a == request[r].asset
  <2>1. request' \in [Requests -> Completion]
    BY <1>2, <1>3, <1>5, <1>12 DEF Withdraw, Tidy
  <2>2. StoreType'
    <3>1. \/ UNCHANGED store
          \/ \E n \in Copies : store' = [store EXCEPT ![a][n] = Absent]
      BY <1>4, <1>12 DEF Withdraw, Tidy, Completion
    <3>2. ASSUME NEW n \in Copies, store' = [store EXCEPT ![a][n] = Absent]
          PROVE  StoreType'
      <4>1. CASE a \in Assets
        BY <1>1, <3>2, <4>1 DEF StoreType
      <4>2. CASE a \notin Assets
        BY <1>1, <3>2, <4>2 DEF StoreType
      <4> QED
        BY <4>1, <4>2
    <3>3. CASE UNCHANGED store
      BY <1>1, <3>3 DEF StoreType
    <3> QED
      BY <3>1, <3>2, <3>3
  <2> QED
    BY <1>1, <1>12, <2>1, <2>2 DEF Withdraw, Tidy, TypeOK, StatusType, PrimaryType,
       UrlType, StoreType, SetsType, RowsHaveUrls, listingVars, removalVars
<1> QED
  BY <1>8, <1>9, <1>10, <1>11, <1>12

LEMMA TypeStep == TypeOK /\ [Next]_vars => TypeOK'
<1> SUFFICES ASSUME TypeOK, [Next]_vars
             PROVE  TypeOK'
  OBVIOUS
<1> USE DEF StatusType, PrimaryType, UrlType, StoreType, SetsType, RowsHaveUrls
<1>1. /\ asset \in [Assets -> Row] /\ request \in [Requests -> Completion]
      /\ StatusType /\ PrimaryType /\ UrlType /\ StoreType /\ SetsType /\ RowsHaveUrls
  BY TypeParts
<1>2. Incoming \in Copies
  BY UploadsAssumption DEF Copies, Incoming
<1>3. CASE UNCHANGED vars
  BY <1>3 DEF vars, listingVars, removalVars, TypeOK
<1>4. CASE Uploading
  <2>1. ASSUME NEW a \in Assets, NEW l \in Listings, Reserve(l, a)
        PROVE  TypeOK'
    BY <2>1, ReserveTypes
  <2>2. ASSUME NEW a \in Assets, Reopen(a) \/ Age(a)
        PROVE  TypeOK'
    <3>1. url[a] # "none"
      BY <2>2, InUse DEF Reopen, Age
    <3>2. \E age \in {"live", "late", "dead"} : url' = [url EXCEPT ![a] = age]
      BY <1>1, <2>2 DEF Reopen, Age
    <3>3. UrlType' /\ \A b \in Assets : url'[b] = "none" <=> url[b] = "none"
      BY <1>1, <3>1, <3>2
    <3> QED
      BY <1>1, <2>2, <3>3 DEF Reopen, Age, TypeOK, listingVars, removalVars
  <2>3. ASSUME NEW a \in Assets, NEW bytes \in Bytes, Put(a, bytes)
        PROVE  TypeOK'
    <3>1. StoreType'
      BY <1>1, <1>2, <2>3, UploadsAssumption DEF Put
    <3> QED
      BY <1>1, <2>3, <3>1 DEF Put, TypeOK, listingVars, removalVars
  <2> QED
    BY <1>4, <2>1, <2>2, <2>3 DEF Uploading
<1>5. CASE Completing
  BY <1>5, CompletionTypes DEF Completing
<1>6. CASE Removing
  <2>1. ASSUME NEW a \in Assets,
               RemoveContentFile(a) \/ RemoveCourseFile(a) \/ Settle(a)
                 \/ Collect(a) \/ CollectFails(a)
        PROVE  TypeOK'
    <3>1. asset' \in [Assets -> Row] /\ RowsHaveUrls'
      BY <2>1, MarkingTypes
    <3>2. asset[a].copy \in Copies
      BY <1>1 DEF Row
    <3>3. StoreType'
      <4>1. UNCHANGED store \/ store' = [store EXCEPT ![a][asset[a].copy] = Absent]
        BY <2>1 DEF RemoveContentFile, RemoveCourseFile, Settle, Collect, CollectFails
      <4> QED
        BY <1>1, <3>2, <4>1
    <3>4. PrimaryType'
      <4>1. UNCHANGED primary \/ \E l : \E b \in Assets \cup {None} :
              primary' = [primary EXCEPT ![l] = b]
        BY <2>1 DEF RemoveContentFile, RemoveCourseFile, Settle, Collect, CollectFails,
           listingVars, Ready, Of
      <4> QED
        BY <1>1, <4>1
    <3>5. SetsType' /\ UNCHANGED <<status, url, request>>
      BY <1>1, <2>1 DEF RemoveContentFile, RemoveCourseFile, Settle, Collect, CollectFails,
         listingVars, removalVars
    <3> QED
      BY <1>1, <3>1, <3>3, <3>4, <3>5 DEF TypeOK
  <2>2. ASSUME NEW a \in Assets, Erase(a) \/ EraseFails(a)
        PROVE  TypeOK'
    <3>1. asset[a].copy \in Copies
      BY <1>1 DEF Row
    <3>2. StoreType'
      BY SMTT(40), <1>1, <2>2, <3>1 DEF Erase, EraseFails
    <3> QED
      BY <1>1, <2>2, <3>2 DEF Erase, EraseFails, TypeOK, listingVars
  <2>3. ASSUME NEW c \in Contents, DeleteContentDraft(c)
        PROVE  TypeOK'
    <3> DEFINE files == {a \in Stored(asset) : asset[a].of = c}
    <3>1. asset' = Mark(files, "delete_pending") /\ "delete_pending" \in States
      BY <2>3 DEF DeleteContentDraft, States
    <3>2. files \subseteq Assets /\ \A a \in files \cap Assets : url[a] # "none"
      BY InUse DEF Stored
    <3>3. asset' \in [Assets -> Row] /\ RowsHaveUrls'
      BY <2>3, <3>1, <3>2, MarkTypes DEF DeleteContentDraft
    <3>4. StatusType' /\ PrimaryType'
      BY <1>1, <2>3 DEF DeleteContentDraft, Listings
    <3> QED
      BY <1>1, <2>3, <3>2, <3>3, <3>4 DEF DeleteContentDraft, TypeOK
  <2>4. ASSUME NEW l \in CourseRuns, DeleteCourseDraft(l)
        PROVE  TypeOK'
    BY <1>1, <2>4 DEF DeleteCourseDraft, TypeOK, Listings, removalVars
  <2> QED
    BY <1>6, <2>1, <2>2, <2>3, <2>4 DEF Removing
<1>7. CASE Publishing
  <2>1. ASSUME NEW l \in Listings,
               SubmitContent(l) \/ PublishContent(l) \/ PublishCourse(l) \/ Refuse(l)
                 \/ SubmitCourse(l)
        PROVE  TypeOK'
    <3>1. StatusType'
      BY <1>1, <2>1 DEF SubmitContent, PublishContent, PublishCourse, Refuse, SubmitCourse
    <3> QED
      BY <1>1, <2>1, <3>1 DEF SubmitContent, PublishContent, PublishCourse, Refuse,
         SubmitCourse, TypeOK, removalVars
  <2>2. ASSUME NEW l \in CourseRuns, CheckCourse(l)
        PROVE  TypeOK'
    BY <1>1, <2>2 DEF CheckCourse, TypeOK, removalVars
  <2> QED
    BY <1>7, <2>1, <2>2 DEF Publishing, Listings
<1> QED
  BY <1>3, <1>4, <1>5, <1>6, <1>7 DEF Next

-----------------------------------------------------------------------------
(* What is published can be delivered. *)

Gone == {"delete_pending", "deleted"}

(* What a step does to one row: only a draft gains or loses files, except   *)
(* for what the maintenance closes.                                         *)
RowChange(a) ==
  /\ asset[a].state \in Gone => asset'[a].state \in Gone
  /\ asset'[a].state = "ready" /\ asset[a].state # "ready"
       => \E r \in Requests : Accept(r) /\ request[r].asset = a
  /\ asset'[a].copy # asset[a].copy
       => \E r \in Requests : Accept(r) /\ request[r].asset = a
  /\ asset'[a] # asset[a] /\ asset[a].of # None
       => /\ asset'[a].of = asset[a].of
          /\ \/ Draft(asset[a].of)
             \/ asset[a].state \in Gone /\ asset'[a].state \in Gone
             \/ asset[a].state = "pending" /\ asset'[a].state \in Gone
             \/ status[asset[a].of] = "archived" /\ asset'[a].state \in Gone
  /\ asset[a].of = None => asset'[a].of = None \/ Draft(asset'[a].of)

LEMMA RowStep ==
  ASSUME TypeOK, [Next]_vars, NEW a \in Assets
  PROVE  RowChange(a)
<1> USE DEF RowChange
<1>1. asset \in [Assets -> Row] /\ asset[a] \in Row
  BY TypeParts
<1>2. CASE asset'[a] = asset[a]
  BY <1>2
<1>3. ASSUME NEW S, NEW state \in Gone, asset' = Mark(S, state),
             a \in S => /\ asset[a].of # None
                       /\ \/ Draft(asset[a].of)
                          \/ asset[a].state \in Gone
                          \/ asset[a].state = "pending"
                          \/ status[asset[a].of] = "archived"
      PROVE  RowChange(a)
  <2>1. asset'[a] = IF a \in S THEN [asset[a] EXCEPT !.state = state] ELSE asset[a]
    BY <1>3 DEF Mark
  <2>2. a \in S => /\ asset'[a].state = state /\ asset'[a].of = asset[a].of
                  /\ asset'[a].copy = asset[a].copy
    BY <1>1, <2>1 DEF Row
  <2>3. a \notin S => asset'[a] = asset[a]
    BY <2>1
  <2> QED
    BY <1>2, <1>3, <2>2, <2>3 DEF Gone
<1>4. CASE Uploading
  <2>1. ASSUME NEW b \in Assets, NEW l \in Listings, Reserve(l, b)
        PROVE  RowChange(a)
    <3> DEFINE rows == Mark(Discarded(l), "delete_pending")
    <3>1. PICK S \in SUBSET Releasable(rows) :
            asset' = [c \in Assets |->
               IF c = b THEN New(l)
               ELSE IF c \in S THEN [rows[c] EXCEPT !.state = "deleted"] ELSE rows[c]]
      BY <2>1 DEF Reserve
    <3>2. rows[a] = IF a \in Discarded(l) THEN [asset[a] EXCEPT !.state = "delete_pending"]
                                          ELSE asset[a]
      BY DEF Mark
    <3>3. a \in Discarded(l) => Draft(asset[a].of) /\ asset[a].of = l /\ l # None
      BY <2>1, UploadsAssumption DEF Discarded, Of, Reserve, Listings
    <3>4. CASE a = b
      BY <2>1, <3>1, <3>4 DEF Reserve, New, Unused, Gone
    <3>5. CASE a # b /\ a \in S
      <4>1. rows[a].state \in {"pending", "delete_pending"}
        BY <3>5 DEF Releasable
      <4>2. asset'[a].state = "deleted" /\ asset'[a].of = asset[a].of
              /\ asset'[a].copy = asset[a].copy
        BY <1>1, <3>1, <3>2, <3>5 DEF Row
      <4> QED
        BY <1>1, <3>2, <3>3, <4>1, <4>2 DEF Gone, Row
    <3>6. CASE a # b /\ a \notin S
      <4>1. asset'[a] = rows[a]
        BY <3>1, <3>6
      <4>2. a \in Discarded(l) => /\ rows[a].of = asset[a].of /\ rows[a].copy = asset[a].copy
                                 /\ rows[a].state = "delete_pending"
        BY <1>1, <3>2 DEF Row
      <4> QED
        BY <1>2, <3>2, <3>3, <4>1, <4>2 DEF Gone
    <3> QED
      BY <3>4, <3>5, <3>6
  <2>2. ASSUME NEW b \in Assets,
               Reopen(b) \/ Age(b) \/ \E bytes \in Bytes : Put(b, bytes)
        PROVE  RowChange(a)
    BY <1>2, <2>2 DEF Reopen, Age, Put
  <2> QED
    BY <1>4, <2>1, <2>2 DEF Uploading
<1>5. CASE Completing
  <2>1. ASSUME NEW r \in Requests,
               Inspect(r) \/ Promote(r) \/ Overtaken(r) \/ Fail(r)
                 \/ Withdraw(r) \/ Tidy(r) \/ Abandon(r)
        PROVE  RowChange(a)
    BY <1>2, <2>1 DEF Inspect, Promote, Overtaken, Fail, Withdraw, Tidy, Abandon
  <2>2. ASSUME NEW b \in Assets, NEW state, NEW copy,
               asset' = [asset EXCEPT ![b] = Judged(@, state, copy)],
               asset[b].state = "pending", Draft(asset[b].of), b = a
        PROVE  /\ asset'[a].state = state /\ asset'[a].of = asset[a].of
               /\ asset'[a].copy = copy
    BY <1>1, <2>2 DEF Judged
  <2>3. ASSUME NEW r \in Requests, NEW b \in Assets, Examine(r, b)
        PROVE  RowChange(a)
    <3>1. asset' = asset
            \/ (/\ asset' = [asset EXCEPT ![b] = Judged(@, "quarantined", asset[b].copy)]
                /\ asset[b].state = "pending" /\ Draft(asset[b].of))
      BY <2>3 DEF Examine
    <3>2. CASE b = a /\ asset' # asset
      <4>1. /\ asset'[a].state = "quarantined" /\ asset'[a].of = asset[a].of
            /\ asset'[a].copy = asset[a].copy
        BY SMTT(40), <2>2, <3>1, <3>2
      <4>2. asset[a].state = "pending" /\ Draft(asset[a].of)
        BY <3>1, <3>2
      <4> QED
        BY <4>1, <4>2, UploadsAssumption DEF Gone
    <3>3. CASE b # a \/ asset' = asset
      BY <1>1, <1>2, <3>1, <3>3
    <3> QED
      BY <3>2, <3>3
  <2>4. ASSUME NEW r \in Requests, Reject(r) \/ Accept(r)
        PROVE  RowChange(a)
    <3> DEFINE b == request[r].asset
    <3>1. PICK state, copy :
            /\ asset' = [asset EXCEPT ![b] = Judged(@, state, copy)]
            /\ state = "ready" \/ copy # asset[b].copy => Accept(r)
      BY <2>4 DEF Reject, Accept
    <3>2. asset[b].state = "pending" /\ Draft(asset[b].of)
      BY <2>4 DEF Reject, Accept, StillPending
    <3>3. CASE b = a
      <4>1. asset'[a].state = state /\ asset'[a].of = asset[a].of /\ asset'[a].copy = copy
        BY ZenonT(60), <2>2, <3>1, <3>2, <3>3
      <4>2. request[r].asset = a /\ asset[a].state = "pending" /\ Draft(asset[a].of)
        BY <3>2, <3>3
      <4>3. state = "ready" \/ copy # asset[a].copy
              => \E q \in Requests : Accept(q) /\ request[q].asset = a
        BY <3>1, <4>2
      <4> QED
        BY <4>1, <4>2, <4>3, UploadsAssumption DEF Gone
    <3>4. CASE b # a
      BY <1>1, <1>2, <3>1, <3>4
    <3> QED
      BY <3>3, <3>4
  <2> QED
    BY <1>5, <2>1, <2>3, <2>4 DEF Completing
<1>6. CASE Removing
  <2>1. ASSUME NEW b \in Assets,
               RemoveContentFile(b) \/ RemoveCourseFile(b) \/ Settle(b)
                 \/ Collect(b) \/ CollectFails(b)
        PROVE  RowChange(a)
    <3>1. asset' = asset \/ \E state \in Gone :
            /\ asset' = Mark({b}, state)
            /\ asset[b].of # None
            /\ \/ Draft(asset[b].of)
               \/ asset[b].state \in Gone
               \/ asset[b].state = "pending"
               \/ status[asset[b].of] = "archived"
      <4>1. asset[b].state \in {"delete_pending", "pending", "ready", "quarantined"}
              => asset[b].of # None
        BY InUse
      <4>2. asset[b].of \in Listings => asset[b].of # None
        BY UploadsAssumption DEF Listings
      <4>3. CASE RemoveContentFile(b)
        BY <4>2, <4>3 DEF RemoveContentFile, Gone, Listings
      <4>4. CASE RemoveCourseFile(b)
        BY <4>2, <4>4 DEF RemoveCourseFile, Gone, Listings
      <4>5. CASE Settle(b)
        BY <4>1, <4>5 DEF Settle, Gone
      <4>6. CASE Collect(b)
        BY <4>1, <4>6 DEF Collect, Collectable, Gone
      <4>7. CASE CollectFails(b)
        BY <4>1, <4>7 DEF CollectFails, Collectable, Gone
      <4> QED
        BY <2>1, <4>3, <4>4, <4>5, <4>6, <4>7
    <3> QED
      BY <1>2, <1>3, <3>1
  <2>2. ASSUME NEW b \in Assets, Erase(b) \/ EraseFails(b)
        PROVE  RowChange(a)
    BY <1>2, <2>2 DEF Erase, EraseFails
  <2>3. ASSUME NEW c \in Contents, DeleteContentDraft(c)
        PROVE  RowChange(a)
    <3> DEFINE files == {f \in Stored(asset) : asset[f].of = c}
    <3>1. asset' = Mark(files, "delete_pending") /\ Draft(c) /\ c # None
      BY <2>3, UploadsAssumption DEF DeleteContentDraft
    <3>2. a \in files => asset[a].of = c
      OBVIOUS
    <3> QED
      BY <1>3, <3>1, <3>2 DEF Gone
  <2>4. ASSUME NEW l \in CourseRuns, DeleteCourseDraft(l)
        PROVE  RowChange(a)
    BY <1>2, <2>4 DEF DeleteCourseDraft
  <2> QED
    BY <1>6, <2>1, <2>2, <2>3, <2>4 DEF Removing
<1>7. CASE Publishing \/ UNCHANGED vars
  BY <1>2, <1>7 DEF Publishing, vars, SubmitContent, PublishContent, CheckCourse, SubmitCourse,
     PublishCourse, Refuse
<1> QED
  BY <1>4, <1>5, <1>6, <1>7 DEF Next

LEMMA InitTypes == Init => TypeOK
<1> SUFFICES ASSUME Init
             PROVE  TypeOK
  OBVIOUS
<1>1. Incoming \in Copies
  BY UploadsAssumption DEF Copies, Incoming
<1>2. asset \in [Assets -> Row] /\ request \in [Requests -> Completion]
  BY UnusedIsRow DEF Init
<1>3. store \in [Assets -> [Copies -> AllBytes \cup {Absent}]]
  BY DEF Init
<1> QED
  BY <1>1, <1>2, <1>3 DEF Init, TypeOK

(* The variables keep their types, and a row that was never inserted has no *)
(* URL: Reserve inserts the row and signs its URL in one transaction        *)
(* (content-assets.ts:211-228).                                             *)
THEOREM Typing == Spec => []TypeOK
<1>1. Init => TypeOK
  BY InitTypes
<1>2. TypeOK /\ [Next]_vars => TypeOK'
  BY TypeStep
<1> QED
  BY <1>1, <1>2, PTL DEF Spec

(* What a step does to the status of one listing. *)
StatusMove(l) ==
  \/ status'[l] = status[l]
  \/ Draft(l) /\ status'[l] \in {"submitted", "archived"}
  \/ status[l] = "submitted" /\ status'[l] = "rejected"
  \/ /\ status[l] = "submitted" /\ status'[l] = "published" /\ asset' = asset
     /\ IF l \in Contents THEN ContentReady(l) ELSE CourseReady(l)

LEMMA StatusStep ==
  ASSUME TypeOK, [Next]_vars, NEW l \in Listings
  PROVE  StatusMove(l)
<1> USE DEF StatusMove
<1>1. StatusType /\ Contents \cap CourseRuns = {}
  BY TypeParts, UploadsAssumption
<1>2. ASSUME NEW m \in Listings, NEW new,
             status' = [status EXCEPT ![m] = new]
      PROVE  status'[l] = IF l = m THEN new ELSE status[l]
  BY <1>1, <1>2 DEF StatusType
<1>3. CASE UNCHANGED status
  BY <1>3
<1>4. CASE Uploading
  BY SMTT(40), <1>3, <1>4 DEF Uploading, Reserve, Reopen, Put, Age, listingVars
<1>5. CASE Completing
  BY <1>3, <1>5 DEF Completing, Examine, Inspect, Promote, Accept, Reject, Overtaken, Fail,
     Withdraw, Tidy, Abandon, listingVars
<1>6. CASE Removing
  <2>1. ASSUME NEW m \in Listings, Draft(m), status' = [status EXCEPT ![m] = "archived"]
        PROVE  StatusMove(l)
    BY <1>2, <2>1 DEF Draft
  <2>2. UNCHANGED status \/ \E m \in Listings : Draft(m) /\ status' = [status EXCEPT ![m] = "archived"]
    BY <1>6 DEF Removing, RemoveContentFile, RemoveCourseFile, Erase, Settle, EraseFails,
       Collect, CollectFails, DeleteContentDraft, DeleteCourseDraft, listingVars, Listings
  <2> QED
    BY <1>3, <2>1, <2>2
<1>7. CASE Publishing
  <2>1. ASSUME NEW c \in Contents, SubmitContent(c)
        PROVE  StatusMove(l)
    BY <1>2, <2>1 DEF SubmitContent, Listings, Draft
  <2>2. ASSUME NEW c \in Contents, PublishContent(c)
        PROVE  StatusMove(l)
    BY <1>2, <2>2 DEF PublishContent, Listings
  <2>3. ASSUME NEW m \in CourseRuns, CheckCourse(m)
        PROVE  StatusMove(l)
    BY <1>3, <2>3 DEF CheckCourse
  <2>4. ASSUME NEW m \in CourseRuns, SubmitCourse(m)
        PROVE  StatusMove(l)
    BY <1>2, <2>4 DEF SubmitCourse, Listings, Draft
  <2>5. ASSUME NEW m \in CourseRuns, PublishCourse(m)
        PROVE  StatusMove(l)
    BY <1>1, <1>2, <2>5 DEF PublishCourse, Listings
  <2>6. ASSUME NEW m \in Listings, Refuse(m)
        PROVE  StatusMove(l)
    BY <1>2, <2>6 DEF Refuse
  <2> QED
    BY <1>7, <2>1, <2>2, <2>3, <2>4, <2>5, <2>6 DEF Publishing
<1>8. CASE UNCHANGED vars
  BY <1>3, <1>8 DEF vars, listingVars
<1> QED
  BY <1>4, <1>5, <1>6, <1>7, <1>8 DEF Next

(* Once a listing is submitted, its files are what they were. *)
LEMMA FilesStay ==
  ASSUME TypeOK, [Next]_vars, NEW l \in Listings, status[l] \notin {"draft", "archived"},
         NEW a \in Assets
  PROVE  /\ asset'[a].of = l /\ asset'[a].state \notin Gone => asset'[a] = asset[a]
         /\ asset[a].of = l /\ asset[a].state = "ready" => asset'[a] = asset[a]
<1>1. l # None
  BY UploadsAssumption DEF Listings
<1>2. asset[a].of = None => asset'[a].of # l
  BY <1>1, RowStep DEF RowChange, Draft
<1>3. asset'[a] # asset[a] /\ asset[a].of = l
        => asset[a].state \in Gone \cup {"pending"} /\ asset'[a].state \in Gone
  BY <1>1, RowStep DEF RowChange, Draft
<1>4. asset'[a] # asset[a] /\ asset[a].of # None => asset'[a].of = asset[a].of
  BY RowStep DEF RowChange
<1> QED
  BY <1>2, <1>3, <1>4 DEF Gone

LEMMA ServableStep ==
  ASSUME TypeOK, PublishedIsServable, [Next]_vars
  PROVE  PublishedIsServable'
<1> SUFFICES ASSUME NEW l \in Listings, status'[l] = "published"
             PROVE  IF l \in Contents THEN ContentReady(l)' ELSE CourseReady(l)'
  BY DEF PublishedIsServable
<1>1. CASE status[l] # "published"
  <2>1. asset' = asset /\ IF l \in Contents THEN ContentReady(l) ELSE CourseReady(l)
    BY <1>1, StatusStep DEF StatusMove, Draft
  <2> QED
    BY <2>1 DEF ContentReady, CourseReady, Ready, Active, Of
<1>2. CASE status[l] = "published"
  <2>1. IF l \in Contents THEN ContentReady(l) ELSE CourseReady(l)
    BY <1>2 DEF PublishedIsServable
  <2>2. \A a \in Assets :
          /\ asset'[a].of = l /\ asset'[a].state \notin Gone => asset'[a] = asset[a]
          /\ asset[a].of = l /\ asset[a].state = "ready" => asset'[a] = asset[a]
    BY <1>2, FilesStay
  <2>3. Ready(l)' = Ready(l)
    BY <2>2 DEF Ready, Of, Gone
  <2>4. Active(l)' \subseteq Active(l) /\ Ready(l)' \subseteq Active(l)'
    BY <2>2 DEF Active, Ready, Of, Gone
  <2> QED
    BY <2>1, <2>3, <2>4 DEF ContentReady, CourseReady
<1> QED
  BY <1>1, <1>2

(* Published content has no file that was not verified, and a published     *)
(* course has one that was, whatever completions, removals and submissions  *)
(* race, and even when the answer to a COMMIT is lost                       *)
(* (catalog.ts:202-206, 504-516).                                           *)
THEOREM Servable == Spec => []PublishedIsServable
<1>1. Init => TypeOK /\ PublishedIsServable
  BY InitTypes DEF Init, PublishedIsServable
<1>2. TypeOK /\ PublishedIsServable /\ [Next]_vars => TypeOK' /\ PublishedIsServable'
  BY TypeStep, ServableStep
<1> QED
  BY <1>1, <1>2, PTL DEF Spec

(* After submission no file of a listing becomes ready, stops being it or   *)
(* is stored elsewhere (docs/R2_BACKEND_HANDOFF.md:313).                    *)
THEOREM Frozen == Spec => SubmittedFilesFrozen
<1> DEFINE Step == \A l \in Listings, a \in Assets :
       status[l] \in {"submitted", "published"} /\ asset[a].of = l
         => (asset[a].state = "ready" \/ asset'[a].state = "ready"
              => asset'[a] = asset[a])
<1>1. TypeOK /\ [Next]_vars => Step
  <2> SUFFICES ASSUME TypeOK, [Next]_vars, NEW l \in Listings, NEW a \in Assets,
                      status[l] \in {"submitted", "published"}, asset[a].of = l,
                      asset[a].state = "ready" \/ asset'[a].state = "ready"
               PROVE  asset'[a] = asset[a]
    OBVIOUS
  <2>1. asset'[a] # asset[a] => asset'[a].of = l
    BY RowStep, UploadsAssumption DEF RowChange, Listings
  <2> QED
    BY <2>1, FilesStay DEF Gone
<1>2. TypeOK /\ [Next]_vars => [Step]_vars
  BY <1>1
<1> QED
  BY <1>2, Typing, PTL DEF Spec, SubmittedFilesFrozen

-----------------------------------------------------------------------------
(* What is ready was inspected. *)

(* A completion that has a promoted copy of its own. *)
Holding == {"commit", "withdraw", "yield"}

CompletionFacts ==
  \A r \in Requests :
    LET q == request[r]
    IN /\ q.pc # "idle" => q.asset \in Assets
       /\ q.pc = "inspect" => q.tag \in {"clean", "blocked"}
       /\ q.pc = "promote" => q.tag = "clean"
       /\ q.pc \in Holding => q.copy # Incoming /\ asset[q.asset].copy # q.copy
       /\ q.pc = "commit" => store[q.asset][q.copy] = "clean"

CopiesDiffer ==
  \A r, s \in Requests :
    /\ r # s
    /\ request[r].pc \in Holding
    /\ request[s].pc \in Holding
    /\ request[r].asset = request[s].asset
    => request[r].copy # request[s].copy

ErasureIsDue == \A a \in erasing : asset[a].state \in Gone

Inv == TypeOK /\ CompletionFacts /\ CopiesDiffer /\ ErasureIsDue /\ ReadyServesInspected

(* What a step writes to one key of the store. *)
StoreWrite(a, n) ==
  \/ n = Incoming
  \/ \E r \in Requests :
       /\ Promote(r) /\ request[r].asset = a /\ store[a][n] = Absent
       /\ asset[a].copy # n
  \/ \E r \in Requests : Withdraw(r) /\ request[r].asset = a /\ request[r].copy = n
  \/ n = asset[a].copy /\ (a \in erasing \/ Collectable(a))

LEMMA StoreStep ==
  ASSUME TypeOK, [Next]_vars, NEW a \in Assets, NEW n \in Copies,
         store'[a][n] # store[a][n]
  PROVE  StoreWrite(a, n)
<1> USE DEF StoreWrite
<1>1. store \in [Assets -> [Copies -> AllBytes \cup {Absent}]]
  BY TypeParts DEF StoreType
<1>2. store' # store
  OBVIOUS
<1>3. ASSUME NEW b, NEW m, NEW bytes, store' = [store EXCEPT ![b][m] = bytes]
      PROVE  a = b /\ n = m
  BY <1>1, <1>3
<1>4. CASE Uploading
  <2>1. PICK b \in Assets, bytes \in Bytes : Put(b, bytes)
    BY <1>2, <1>4 DEF Uploading, Reserve, Reopen, Age
  <2> QED
    BY <1>3, <2>1 DEF Put
<1>5. CASE Completing
  <2>1. PICK r \in Requests : Promote(r) \/ Withdraw(r) \/ Tidy(r)
    BY <1>2, <1>5 DEF Completing, Examine, Inspect, Accept, Reject, Overtaken, Fail, Abandon
  <2>2. CASE Promote(r)
    <3>1. PICK m \in Copies \ {Incoming} :
            /\ store[request[r].asset][m] = Absent
            /\ asset[request[r].asset].copy # m
            /\ store' = [store EXCEPT ![request[r].asset][m] = store[request[r].asset][Incoming]]
      BY <2>2 DEF Promote
    <3>2. a = request[r].asset /\ n = m
      BY <1>3, <3>1
    <3> QED
      BY <2>2, <3>1, <3>2
  <2>3. CASE Withdraw(r)
    <3>1. store' = [store EXCEPT ![request[r].asset][request[r].copy] = Absent]
      BY <1>2, <2>3 DEF Withdraw
    <3>2. a = request[r].asset /\ n = request[r].copy
      BY <1>3, <3>1
    <3> QED
      BY <2>3, <3>2
  <2>4. CASE Tidy(r)
    <3>1. store' = [store EXCEPT ![request[r].asset][Incoming] = Absent]
      BY <1>2, <2>4 DEF Tidy
    <3> QED
      BY <1>3, <3>1
  <2> QED
    BY <2>1, <2>2, <2>3, <2>4
<1>6. CASE Removing
  <2>1. PICK b \in Assets : Erase(b) \/ Collect(b) \/ CollectFails(b)
    BY <1>2, <1>6 DEF Removing, RemoveContentFile, RemoveCourseFile, Settle, EraseFails,
       DeleteContentDraft, DeleteCourseDraft
  <2>2. store' = [store EXCEPT ![b][asset[b].copy] = Absent]
    BY <1>2, <2>1 DEF Erase, Collect, CollectFails
  <2>3. a = b /\ n = asset[b].copy
    BY <1>3, <2>2
  <2> QED
    BY <2>1, <2>3 DEF Erase, Collect, CollectFails
<1>7. CASE Publishing \/ UNCHANGED vars
  BY <1>2, <1>7 DEF Publishing, SubmitContent, PublishContent, CheckCourse, SubmitCourse,
     PublishCourse, Refuse, vars
<1> QED
  BY <1>4, <1>5, <1>6, <1>7 DEF Next

(* What a step does to one completion. *)
RequestMove(r) ==
  \/ request'[r] = request[r] /\ ~Accept(r)
  \/ request'[r] = Idle /\ ~Accept(r)
  \/ \E a \in Assets :
       /\ request'[r].pc = "inspect" /\ request'[r].asset = a
       /\ request'[r].tag \in {"clean", "blocked"}
  \/ /\ request[r].pc = "inspect" /\ request'[r].pc \in {"promote", "reject"}
     /\ request'[r].asset = request[r].asset /\ request'[r].tag = request[r].tag
     /\ request[r].tag = "blocked" => request'[r].pc = "reject"
  \/ /\ Promote(r)
     /\ request'[r].pc = "commit" /\ request'[r].asset = request[r].asset
     /\ asset[request[r].asset].copy # request'[r].copy
     /\ request'[r].copy \in Copies \ {Incoming}
     /\ \A q \in Requests \ {r} :
          /\ request'[q] = request[q]
          /\ request[q].asset = request[r].asset => request[q].copy # request'[r].copy
     /\ request[r].asset \in Assets
          => store'[request[r].asset][request'[r].copy] = request[r].tag
  \/ /\ request[r].pc = "commit" /\ request'[r].pc \in {"yield", "withdraw"}
     /\ request'[r].asset = request[r].asset /\ request'[r].copy = request[r].copy
     /\ UNCHANGED <<asset, store>>
  \/ request[r].pc # "idle" /\ request'[r].pc = "tidy"
     /\ request'[r].asset = request[r].asset

LEMMA RequestStep ==
  ASSUME TypeOK, [Next]_vars, ~LostAcks, NEW r \in Requests
  PROVE  RequestMove(r)
<1> USE DEF RequestMove
<1>1. /\ request \in [Requests -> Completion] /\ request[r] \in Completion
      /\ store \in [Assets -> [Copies -> AllBytes \cup {Absent}]]
      /\ Incoming \in Copies
  BY TypeParts, UploadsAssumption DEF StoreType, Copies, Incoming
<1>2. Accept(r) => To(r, "tidy") /\ request[r].pc = "commit"
  BY DEF Accept
<1>3. \A pc : To(r, pc) => /\ request'[r].pc = pc
                           /\ request'[r].asset = request[r].asset
                           /\ request'[r].copy = request[r].copy
                           /\ request'[r].tag = request[r].tag
  BY <1>1 DEF To, Completion
<1>4. Stop(r) => request'[r] = Idle
  BY <1>1 DEF Stop
<1>5. Accept(r) => RequestMove(r)
  BY <1>2, <1>3
<1>6. ASSUME ~Accept(r), request'[r] # request[r], request'[r] # Idle
      PROVE  RequestMove(r)
  <2>1. PICK q \in Requests :
          \/ \E a \in Assets : Examine(q, a)
          \/ Inspect(q) \/ Promote(q)
          \/ Accept(q) \/ Reject(q) \/ Overtaken(q) \/ Fail(q)
          \/ Withdraw(q) \/ Tidy(q) \/ Abandon(q)
    BY <1>6 DEF Next, vars, Uploading, Completing, Removing, Publishing,
       Reserve, Reopen, Put, Age,
       RemoveContentFile, RemoveCourseFile, Erase, Settle, EraseFails, Collect, CollectFails,
       DeleteContentDraft, DeleteCourseDraft,
       SubmitContent, PublishContent, CheckCourse, SubmitCourse, PublishCourse, Refuse
  <2>2. \E new : request' = request \/ request' = [request EXCEPT ![q] = new]
    <3>1. \A pc : To(q, pc) => \E new : request' = [request EXCEPT ![q] = new]
      BY DEF To
    <3>2. Stop(q) => \E new : request' = [request EXCEPT ![q] = new]
      BY DEF Stop
    <3> QED
      BY <2>1, <3>1, <3>2 DEF Examine, Inspect, Promote, Accept, Reject, Overtaken, Fail,
         Withdraw, Tidy, Abandon
  <2>3. q = r
    BY <1>1, <1>6, <2>2
  <2>4. CASE \E a \in Assets : Examine(r, a)
    <3>1. PICK a \in Assets : Examine(r, a)
      BY <2>4
    <3>2. request' = [request EXCEPT ![r] =
               [pc |-> "inspect", asset |-> a, tag |-> store[a][Incoming],
                copy |-> Incoming]]
          /\ store[a][Incoming] \notin {"wrong", Absent}
      BY <1>6, <3>1 DEF Examine
    <3>3. store[a][Incoming] \in {"clean", "blocked"}
      BY <1>1, <3>2 DEF AllBytes
    <3> QED
      BY <1>1, <3>2, <3>3
  <2>5. CASE Inspect(r)
    BY <1>3, <2>5 DEF Inspect
  <2>6. CASE Promote(r)
    <3> DEFINE a == request[r].asset
    <3>1. PICK n \in Copies \ {Incoming} :
          /\ \A p \in Requests : request[p].asset = a => request[p].copy # n
          /\ asset[a].copy # n
          /\ store' = [store EXCEPT ![a][n] = store[a][Incoming]]
          /\ request' = [request EXCEPT ![r] =
               [pc |-> "commit", asset |-> a, tag |-> @.tag, copy |-> n]]
      BY <2>6 DEF Promote
    <3>2. request'[r] = [pc |-> "commit", asset |-> a, tag |-> request[r].tag, copy |-> n]
      BY <1>1, <3>1
    <3>3. \A p \in Requests \ {r} : request'[p] = request[p]
      BY <1>1, <3>1
    <3>4. a \in Assets => store'[a][n] = request[r].tag
      BY <1>1, <2>6, <3>1 DEF Promote, SameObject
    <3> QED
      BY <2>6, <3>1, <3>2, <3>3, <3>4
  <2>7. CASE Overtaken(r) \/ Fail(r)
    <3>1. request[r].pc \in {"reject", "commit"} /\ UNCHANGED <<asset, store>>
      BY <2>7 DEF Overtaken, Fail, Concluding
    <3>2. \/ request[r].pc = "commit" /\ (To(r, "yield") \/ To(r, "withdraw"))
          \/ To(r, "tidy")
      BY <1>4, <1>6, <2>7, <3>1 DEF Overtaken, Fail, Concluding
    <3> QED
      BY <1>3, <3>1, <3>2
  <2>8. CASE Reject(r) \/ Withdraw(r)
    <3>1. request[r].pc # "idle"
      BY <2>8 DEF Reject, Withdraw
    <3>2. To(r, "tidy")
      BY <1>4, <1>6, <2>8 DEF Reject, Withdraw
    <3> QED
      BY <1>3, <3>1, <3>2
  <2>9. CASE Tidy(r) \/ Abandon(r)
    BY <1>4, <1>6, <2>9 DEF Tidy, Abandon
  <2> QED
    BY <1>6, <2>1, <2>3, <2>4, <2>5, <2>6, <2>7, <2>8, <2>9
<1> QED
  BY <1>5, <1>6

(* An accepted file is the copy the completion made. *)
LEMMA Accepted ==
  ASSUME TypeOK, CompletionFacts, NEW r \in Requests, Accept(r)
  PROVE  LET a == request[r].asset
         IN /\ a \in Assets
            /\ request[r].pc = "commit"
            /\ asset'[a].copy = request[r].copy /\ request[r].copy # Incoming
            /\ UNCHANGED <<store, status>>
            /\ store[a][request[r].copy] = "clean"
<1> DEFINE a == request[r].asset
<1>1. asset \in [Assets -> Row]
  BY TypeParts
<1>2. /\ request[r].pc = "commit" /\ UNCHANGED <<store, status>>
      /\ asset' = [asset EXCEPT ![a] = Judged(@, "ready", request[r].copy)]
  BY DEF Accept
<1>3. a \in Assets /\ request[r].copy # Incoming /\ store[a][request[r].copy] = "clean"
  BY <1>2 DEF CompletionFacts, Holding
<1>4. asset'[a].copy = request[r].copy
  BY <1>1, <1>2, <1>3 DEF Judged
<1> QED
  BY <1>2, <1>3, <1>4

LEMMA ServesStep ==
  ASSUME Inv, [Next]_vars, ~LostAcks
  PROVE  ReadyServesInspected'
<1> SUFFICES ASSUME NEW a \in Assets, asset'[a].state = "ready",
                    status'[asset'[a].of] # "archived"
             PROVE  asset'[a].copy # Incoming /\ store'[a][asset'[a].copy] = "clean"
  BY DEF ReadyServesInspected
<1>1. TypeOK /\ CompletionFacts /\ CopiesDiffer /\ ErasureIsDue /\ ReadyServesInspected
  BY DEF Inv
<1>2. CASE \E r \in Requests : Accept(r) /\ request[r].asset = a
  BY <1>1, <1>2, Accepted
<1>3. CASE ~\E r \in Requests : Accept(r) /\ request[r].asset = a
  <2>1. asset[a].state = "ready" /\ asset'[a].copy = asset[a].copy
    BY <1>1, <1>3, RowStep DEF RowChange
  <2>2. asset[a].of # None /\ asset[a].of \in Listings
    BY <1>1, <2>1, InUse
  <2>3. asset'[a].of = asset[a].of
    BY <1>1, <2>2, RowStep DEF RowChange
  <2>4. status[asset[a].of] # "archived"
    BY <1>1, <2>2, <2>3, StatusStep DEF StatusMove, Draft
  <2>5. asset[a].copy # Incoming /\ store[a][asset[a].copy] = "clean"
    BY <1>1, <2>1, <2>4 DEF ReadyServesInspected
  <2>6. store'[a][asset[a].copy] = store[a][asset[a].copy]
    <3>1. asset[a].copy \in Copies
      BY <1>1, TypeParts DEF Row
    <3>2. a \notin erasing
      BY <1>1, <2>1 DEF ErasureIsDue, Gone
    <3>3. ~Collectable(a)
      BY <2>1, <2>4 DEF Collectable
    <3>4. ~\E r \in Requests : /\ Withdraw(r) /\ request[r].asset = a
                              /\ request[r].copy = asset[a].copy
      BY <1>1 DEF CompletionFacts, Withdraw, Holding
    <3> QED
      BY <1>1, <2>5, <3>1, <3>2, <3>3, <3>4, StoreStep DEF StoreWrite
  <2> QED
    BY <2>1, <2>5, <2>6
<1> QED
  BY <1>2, <1>3

(* A completion that holds a copy after a step held it before, or made it.  *)
LEMMA HoldingStep ==
  ASSUME TypeOK, [Next]_vars, ~LostAcks, NEW r \in Requests, request'[r].pc \in Holding
  PROVE  /\ request'[r].asset = request[r].asset
         /\ \/ request[r].pc \in Holding /\ request'[r].copy = request[r].copy
               /\ ~Accept(r)
            \/ Promote(r)
<1>1. request'[r].pc \in {"commit", "withdraw", "yield"}
  BY DEF Holding
<1>2. Accept(r) => request'[r].pc = "tidy"
  BY TypeParts DEF Accept, To, Completion
<1>3. Idle.pc = "idle"
  BY DEF Idle
<1>4. ~Accept(r)
  BY <1>1, <1>2
<1>5. \/ request'[r] = request[r]
      \/ Promote(r) /\ request'[r].asset = request[r].asset
      \/ /\ request[r].pc = "commit"
         /\ request'[r].asset = request[r].asset /\ request'[r].copy = request[r].copy
  BY <1>1, <1>3, RequestStep DEF RequestMove
<1> QED
  BY <1>1, <1>4, <1>5 DEF Holding

LEMMA CopiesStep ==
  ASSUME Inv, [Next]_vars, ~LostAcks
  PROVE  CopiesDiffer'
<1> SUFFICES ASSUME NEW r \in Requests, NEW s \in Requests, r # s,
                    request'[r].pc \in Holding, request'[s].pc \in Holding,
                    request'[r].asset = request'[s].asset
             PROVE  request'[r].copy # request'[s].copy
  BY DEF CopiesDiffer
<1>1. TypeOK /\ CopiesDiffer
  BY DEF Inv
<1>2. request[r].asset = request[s].asset
  BY <1>1, HoldingStep
<1>3. ASSUME NEW p \in {r, s}, NEW q \in {r, s}, p # q, Promote(p)
      PROVE  request'[p].copy # request'[q].copy
  <2>1. PICK n \in Copies \ {Incoming} :
          /\ \A o \in Requests : request[o].asset = request[p].asset => request[o].copy # n
          /\ request' = [request EXCEPT ![p] =
               [pc |-> "commit", asset |-> request[p].asset, tag |-> @.tag, copy |-> n]]
    BY <1>3 DEF Promote
  <2>2. request'[q] = request[q] /\ request'[p].copy = n
    BY <1>1, <1>3, <2>1, TypeParts
  <2> QED
    BY <1>2, <1>3, <2>1, <2>2
<1> QED
  BY <1>1, <1>2, <1>3, HoldingStep DEF CopiesDiffer

LEMMA ErasureStep ==
  ASSUME TypeOK, ErasureIsDue, [Next]_vars
  PROVE  ErasureIsDue'
<1> SUFFICES ASSUME NEW a \in erasing'
             PROVE  asset'[a].state \in Gone
  BY DEF ErasureIsDue
<1>1. /\ asset \in [Assets -> Row] /\ erasing \subseteq Assets
      /\ asset[a].state \in Gone => asset'[a].state \in Gone \/ a \notin Assets
  BY TypeParts, RowStep DEF RowChange, SetsType
<1>2. CASE a \in erasing
  BY <1>1, <1>2 DEF ErasureIsDue
<1>3. ASSUME NEW S, asset' = Mark(S, "delete_pending"), a \in S, a \in Assets
      PROVE  asset'[a].state \in Gone
  <2>1. asset'[a] = [asset[a] EXCEPT !.state = "delete_pending"]
    BY <1>3 DEF Mark
  <2> QED
    BY <1>1, <1>3, <2>1 DEF Gone, Row
<1>4. CASE a \notin erasing
  <2>1. CASE Uploading
    <3>1. PICK l \in Listings, b \in Assets : Reserve(l, b)
      BY <1>4, <2>1 DEF Uploading, Reopen, Put, Age, removalVars
    <3> DEFINE rows == Mark(Discarded(l), "delete_pending")
    <3>2. a \in Discarded(l)
      BY <1>4, <3>1 DEF Reserve
    <3>3. a # b /\ a \in Assets
      BY <3>1, <3>2 DEF Reserve, Discarded, Of, Unused
    <3>4. rows[a] = [asset[a] EXCEPT !.state = "delete_pending"]
      BY <3>2, <3>3 DEF Mark
    <3>5. asset'[a] = rows[a] \/ asset'[a] = [rows[a] EXCEPT !.state = "deleted"]
      BY <3>1, <3>3 DEF Reserve
    <3>6. asset[a] \in Row
      BY <1>1, <3>3
    <3>7. rows[a].state = "delete_pending" /\ rows[a] \in Row
      BY <3>4, <3>6 DEF Row, States
    <3>8. [rows[a] EXCEPT !.state = "deleted"].state = "deleted"
      BY SMTT(40), <3>7 DEF Row
    <3> QED
      BY <3>5, <3>7, <3>8 DEF Gone
  <2>2. CASE Completing
    BY <1>4, <2>2 DEF Completing, Examine, Inspect, Promote, Accept, Reject, Overtaken, Fail,
       Withdraw, Tidy, Abandon, removalVars
  <2>3. CASE Removing
    <3>1. CASE \E b \in Assets : RemoveContentFile(b)
      <4>1. a \in Assets /\ asset' = Mark({a}, "delete_pending")
        BY <1>4, <3>1 DEF RemoveContentFile
      <4> QED
        BY <1>3, <4>1
    <3>2. CASE \E b \in Assets : RemoveCourseFile(b)
      <4>1. /\ a \in Assets
            /\ \/ asset' = asset /\ asset[a].state = "deleted"
               \/ asset' = Mark({a}, "delete_pending")
        BY <1>4, <3>2 DEF RemoveCourseFile
      <4> QED
        BY <1>3, <4>1 DEF Gone
    <3>3. CASE \E c \in Contents : DeleteContentDraft(c)
      <4>1. PICK c \in Contents : DeleteContentDraft(c)
        BY <3>3
      <4> DEFINE files == {f \in Stored(asset) : asset[f].of = c}
      <4>2. asset' = Mark(files, "delete_pending") /\ a \in files
        BY <1>4, <4>1 DEF DeleteContentDraft
      <4>3. a \in Assets
        BY <4>2 DEF Stored
      <4> QED
        BY <1>3, <4>2, <4>3
    <3> QED
      BY <1>4, <2>3, <3>1, <3>2, <3>3 DEF Removing, Erase, Settle, EraseFails, Collect,
         CollectFails, DeleteCourseDraft, removalVars
  <2>4. CASE Publishing \/ UNCHANGED vars
    BY <1>4, <2>4 DEF Publishing, SubmitContent, PublishContent, CheckCourse, SubmitCourse,
       PublishCourse, Refuse, vars, removalVars
  <2> QED
    BY <2>1, <2>2, <2>3, <2>4 DEF Next
<1> QED
  BY <1>2, <1>4

LEMMA FactsStep ==
  ASSUME Inv, [Next]_vars, ~LostAcks
  PROVE  CompletionFacts'
<1>1. TypeOK /\ CompletionFacts /\ CopiesDiffer
  BY DEF Inv
<1> SUFFICES ASSUME NEW r \in Requests
             PROVE  LET q == request'[r]
                    IN /\ q.pc # "idle" => q.asset \in Assets
                       /\ q.pc = "inspect" => q.tag \in {"clean", "blocked"}
                       /\ q.pc = "promote" => q.tag = "clean"
                       /\ q.pc \in Holding => q.copy # Incoming /\ asset'[q.asset].copy # q.copy
                       /\ q.pc = "commit" => store'[q.asset][q.copy] = "clean"
  BY DEF CompletionFacts
<1>2. /\ request[r].pc # "idle" => request[r].asset \in Assets
      /\ request[r].pc = "inspect" => request[r].tag \in {"clean", "blocked"}
      /\ request[r].pc = "promote" => request[r].tag = "clean"
      /\ request[r].pc \in Holding => /\ request[r].copy # Incoming
                                     /\ asset[request[r].asset].copy # request[r].copy
      /\ request[r].pc = "commit" => store[request[r].asset][request[r].copy] = "clean"
  BY <1>1 DEF CompletionFacts
<1>3. Idle.pc = "idle" /\ (Promote(r) => request[r].pc = "promote")
  BY DEF Idle, Promote
<1>4. request'[r].pc # "idle" => request'[r].asset \in Assets
  BY <1>1, <1>2, <1>3, RequestStep DEF RequestMove
<1>5. request'[r].pc = "inspect" => request'[r].tag \in {"clean", "blocked"}
  BY <1>1, <1>2, <1>3, RequestStep DEF RequestMove
<1>6. request'[r].pc = "promote" => request'[r].tag = "clean"
  BY <1>1, <1>2, <1>3, RequestStep DEF RequestMove
<1>7. ASSUME Promote(r), request'[r].pc \in Holding
      PROVE  /\ request'[r].copy # Incoming
             /\ asset'[request'[r].asset].copy # request'[r].copy
             /\ store'[request'[r].asset][request'[r].copy] = "clean"
  <2>1. asset' = asset /\ request[r].pc = "promote"
    BY <1>7 DEF Promote
  <2>2. request[r].asset \in Assets /\ request[r].tag = "clean"
    BY <1>2, <2>1
  <2>3. PICK n \in Copies \ {Incoming} :
          /\ asset[request[r].asset].copy # n
          /\ store' = [store EXCEPT ![request[r].asset][n] = store[request[r].asset][Incoming]]
          /\ request' = [request EXCEPT ![r] =
               [pc |-> "commit", asset |-> request[r].asset, tag |-> @.tag, copy |-> n]]
    BY <1>7 DEF Promote
  <2>4. store[request[r].asset][Incoming] = "clean"
    BY <1>7, <2>2 DEF Promote, SameObject
  <2>5. request'[r].copy = n /\ request'[r].asset = request[r].asset
    BY <1>1, <2>3, TypeParts
  <2>6. store'[request[r].asset][n] = "clean"
    BY <1>1, <2>2, <2>3, <2>4, TypeParts DEF StoreType
  <2> QED
    BY <2>1, <2>3, <2>5, <2>6
<1>8. ASSUME ~Promote(r), request'[r].pc \in Holding
      PROVE  /\ request'[r].copy # Incoming
             /\ asset'[request'[r].asset].copy # request'[r].copy
             /\ request'[r].pc = "commit"
                  => store'[request'[r].asset][request'[r].copy] = "clean"
  <2> DEFINE a == request[r].asset
             n == request[r].copy
  <2>1. /\ request'[r].asset = a /\ request'[r].copy = n
        /\ request[r].pc \in Holding /\ ~Accept(r)
    BY <1>1, <1>8, HoldingStep
  <2>2. a \in Assets /\ n # Incoming /\ asset[a].copy # n /\ n \in Copies
    BY <1>1, <1>2, <2>1, TypeParts DEF Holding, Completion
  <2>3. asset'[a].copy # n
    <3>1. CASE asset'[a].copy = asset[a].copy
      BY <2>2, <3>1
    <3>2. CASE asset'[a].copy # asset[a].copy
      <4>1. PICK s \in Requests : Accept(s) /\ request[s].asset = a
        BY <1>1, <2>2, <3>2, RowStep DEF RowChange
      <4>2. asset'[a].copy = request[s].copy /\ request[s].pc = "commit"
        BY <1>1, <4>1, Accepted
      <4>3. r # s
        BY <2>1, <4>1
      <4> QED
        BY <1>1, <2>1, <4>1, <4>2, <4>3 DEF CopiesDiffer, Holding
    <3> QED
      BY <3>1, <3>2
  <2>4. ASSUME request'[r].pc = "commit"
        PROVE  store'[a][n] = "clean"
    <3>1. request'[r] = request[r]
      BY <1>1, <1>3, <1>8, <2>4, RequestStep DEF RequestMove
    <3>2. request[r].pc = "commit" /\ store[a][n] = "clean"
      BY <1>2, <2>4, <3>1
    <3>3. ~\E s \in Requests : Withdraw(s) /\ request[s].asset = a /\ request[s].copy = n
      <4> SUFFICES ASSUME NEW s \in Requests, Withdraw(s), request[s].asset = a,
                          request[s].copy = n
                   PROVE  FALSE
        OBVIOUS
      <4>1. request[s].pc \in {"withdraw", "yield"}
        BY DEF Withdraw
      <4>2. r # s
        BY <3>2, <4>1
      <4> QED
        BY <1>1, <2>1, <4>1, <4>2 DEF CopiesDiffer, Holding
    <3> QED
      BY <1>1, <2>2, <3>2, <3>3, StoreStep DEF StoreWrite, Absent
  <2> QED
    BY <2>1, <2>2, <2>3, <2>4
<1> QED
  BY <1>4, <1>5, <1>6, <1>7, <1>8 DEF Holding

(* When the answer to a COMMIT is never lost, a ready file is stored under   *)
(* a key the browser cannot write, with the bytes that passed inspection,   *)
(* for any number of completions and of uploads to the same URL             *)
(* (upload-verification.ts:76-113).  Every completion that may still commit *)
(* or delete has a promoted copy of its own, and none has the file's.       *)
THEOREM Serves ==
  ASSUME ~LostAcks
  PROVE  Spec => []ReadyServesInspected
<1>1. Init => Inv
  BY InitTypes, UploadsAssumption
     DEF Init, Inv, CompletionFacts, CopiesDiffer, ErasureIsDue, ReadyServesInspected, Holding,
         Idle, Unused
<1>2. Inv /\ [Next]_vars => Inv'
  <2> SUFFICES ASSUME Inv, [Next]_vars
               PROVE  Inv'
    OBVIOUS
  <2>1. TypeOK /\ ErasureIsDue
    BY DEF Inv
  <2> QED
    BY <2>1, TypeStep, FactsStep, CopiesStep, ErasureStep, ServesStep DEF Inv
<1>3. Inv => ReadyServesInspected
  BY DEF Inv
<1> QED
  BY <1>1, <1>2, <1>3, PTL DEF Spec

-----------------------------------------------------------------------------
(* What is closed is gone.                                                  *)

(* A removal whose deletion is done, or under way, is of a file that is to  *)
(* go; and once its URL is dead nothing is stored for it any more.          *)
ErasedIsGone ==
  \A a \in erased : /\ asset[a].state \in Gone
                    /\ url[a] = "dead" => store[a][asset[a].copy] = Absent

ClosedInv == TypeOK /\ ErasureIsDue /\ ErasedIsGone /\ ClosedIsGone

LEMMA GoneStep ==
  ASSUME TypeOK, [Next]_vars, NEW a \in Assets, asset[a].state \in Gone
  PROVE  asset'[a].state \in Gone /\ asset'[a].copy = asset[a].copy
<1>1. ~\E r \in Requests : Accept(r) /\ request[r].asset = a
  BY DEF Accept, StillPending, Gone
<1> QED
  BY <1>1, RowStep DEF RowChange

LEMMA UrlStep ==
  ASSUME TypeOK, [Next]_vars, NEW a \in Assets
  PROVE  /\ url'[a] # "dead" /\ url[a] = "dead" => asset[a].state \notin Gone
         /\ url'[a] = "dead" /\ url[a] # "dead" => Age(a)
<1>1. url \in [Assets -> {"none", "live", "late", "dead"}]
  BY TypeParts DEF UrlType
<1>2. CASE UNCHANGED url
  BY <1>2
<1>3. ASSUME NEW b \in Assets, NEW l \in Listings, Reserve(l, b)
      PROVE  /\ url'[a] # "dead" /\ url[a] = "dead" => asset[a].state \notin Gone
             /\ url'[a] = "dead" => url[a] = "dead"
  <2>1. url' = [url EXCEPT ![b] = "live"] /\ asset[b].state = "none"
    BY <1>3 DEF Reserve, Unused
  <2> QED
    BY <1>1, <2>1 DEF Gone
<1>4. ASSUME NEW b \in Assets, Reopen(b)
      PROVE  /\ url'[a] # "dead" /\ url[a] = "dead" => asset[a].state \notin Gone
             /\ url'[a] = "dead" => url[a] = "dead"
  <2>1. url' = [url EXCEPT ![b] = "live"] /\ asset[b].state = "pending"
    BY <1>4 DEF Reopen
  <2> QED
    BY <1>1, <2>1 DEF Gone
<1>5. ASSUME NEW b \in Assets, Age(b)
      PROVE  /\ url[a] = "dead" => url'[a] = "dead"
             /\ url'[a] = "dead" /\ url[a] # "dead" => a = b
  <2>1. url[b] # "dead" /\ \E age : url' = [url EXCEPT ![b] = age]
    BY <1>5 DEF Age
  <2> QED
    BY <1>1, <2>1
<1>6. CASE Uploading
  <2>1. CASE \E b \in Assets, bytes \in Bytes : Put(b, bytes)
    BY <1>2, <2>1 DEF Put
  <2> QED
    BY <1>3, <1>4, <1>5, <1>6, <2>1 DEF Uploading
<1>7. CASE Completing \/ Removing \/ Publishing \/ UNCHANGED vars
  <2>1. UNCHANGED url
    BY ZenonT(60), <1>7 DEF Completing, Examine, Inspect, Promote, Accept, Reject, Overtaken, Fail, Withdraw,
       Tidy, Abandon, Removing, RemoveContentFile, RemoveCourseFile, DeleteContentDraft,
       DeleteCourseDraft, Erase, Settle, EraseFails, Collect, CollectFails, Publishing,
       SubmitContent, CheckCourse, SubmitCourse, PublishContent, PublishCourse, Refuse, vars
  <2> QED
    BY <1>2, <2>1
<1> QED
  BY <1>6, <1>7 DEF Next

(* An object appears under the key of a row only while its URL works.       *)
LEMMA AbsentStays ==
  ASSUME TypeOK, [Next]_vars, NEW a \in Assets, store[a][asset[a].copy] = Absent,
         url[a] = "dead"
  PROVE  store'[a][asset[a].copy] = Absent
<1> DEFINE n == asset[a].copy
<1>1. store \in [Assets -> [Copies -> AllBytes \cup {Absent}]] /\ n \in Copies
  BY TypeParts DEF StoreType, Row
<1>2. CASE UNCHANGED store
  BY <1>2
<1>3. ASSUME NEW b, NEW m, store' = [store EXCEPT ![b][m] = Absent] PROVE store'[a][n] = Absent
  BY <1>1, <1>3
<1>4. CASE Uploading
  <2>1. ASSUME NEW b \in Assets, NEW bytes \in Bytes, Put(b, bytes) PROVE store'[a][n] = Absent
    <3>1. b # a /\ store' = [store EXCEPT ![b][Incoming] = bytes]
      BY <2>1 DEF Put
    <3> QED
      BY <1>1, <3>1
  <2> QED
    BY <1>2, <1>4, <2>1 DEF Uploading, Reserve, Reopen, Age
<1>5. CASE Completing
  <2>1. ASSUME NEW r \in Requests, Promote(r) PROVE store'[a][n] = Absent
    <3>1. PICK m \in Copies \ {Incoming} :
            /\ asset[request[r].asset].copy # m
            /\ store' = [store EXCEPT ![request[r].asset][m] = store[request[r].asset][Incoming]]
      BY <2>1 DEF Promote
    <3> QED
      BY <1>1, <3>1
  <2>2. ASSUME NEW r \in Requests, Withdraw(r) \/ Tidy(r) PROVE store'[a][n] = Absent
    BY <1>2, <1>3, <2>2 DEF Withdraw, Tidy
  <2> QED
    BY <1>2, <1>5, <2>1, <2>2 DEF Completing, Examine, Inspect, Accept, Reject, Overtaken, Fail,
       Abandon
<1>6. CASE Removing
  <2>1. UNCHANGED store \/ \E b \in Assets : store' = [store EXCEPT ![b][asset[b].copy] = Absent]
    BY <1>6 DEF Removing, RemoveContentFile, RemoveCourseFile, DeleteContentDraft,
       DeleteCourseDraft, Erase, Settle, EraseFails, Collect, CollectFails
  <2> QED
    BY <1>2, <1>3, <2>1
<1>7. CASE Publishing \/ UNCHANGED vars
  BY <1>2, <1>7 DEF Publishing, SubmitContent, CheckCourse, SubmitCourse, PublishContent,
     PublishCourse, Refuse, vars
<1> QED
  BY <1>4, <1>5, <1>6, <1>7 DEF Next

(* A row is closed where its URL is dead and its object is absent.          *)
LEMMA ClosingStep ==
  ASSUME TypeOK, ErasedIsGone, [Next]_vars, NEW a \in Assets,
         asset[a].state # "deleted", asset'[a].state = "deleted"
  PROVE  url'[a] = "dead" /\ store'[a][asset'[a].copy] = Absent
<1>1. /\ asset \in [Assets -> Row] /\ asset[a] \in Row
      /\ store \in [Assets -> [Copies -> AllBytes \cup {Absent}]]
  BY TypeParts DEF StoreType
<1>2. asset' # asset
  OBVIOUS
<1>3. ASSUME NEW S, NEW state, asset' = Mark(S, state)
      PROVE  /\ a \in S /\ state = "deleted"
             /\ asset'[a].copy = asset[a].copy
  <2>1. asset'[a] = IF a \in S THEN [asset[a] EXCEPT !.state = state] ELSE asset[a]
    BY <1>3 DEF Mark
  <2> QED
    BY <1>1, <2>1 DEF Row
<1>4. ASSUME NEW b, NEW state, state # "deleted",
             \E copy : asset' = [asset EXCEPT ![b] = Judged(@, state, copy)]
      PROVE  FALSE
  BY <1>1, <1>4 DEF Judged, Row
<1>5. CASE Uploading
  <2>1. PICK l \in Listings, b \in Assets : Reserve(l, b)
    BY <1>2, <1>5 DEF Uploading, Reopen, Put, Age
  <2> DEFINE rows == Mark(Discarded(l), "delete_pending")
  <2>2. PICK S \in SUBSET Releasable(rows) :
          asset' = [c \in Assets |->
               IF c = b THEN New(l)
               ELSE IF c \in S THEN [rows[c] EXCEPT !.state = "deleted"] ELSE rows[c]]
    BY <2>1 DEF Reserve
  <2>3. rows[a] = (IF a \in Discarded(l) THEN [asset[a] EXCEPT !.state = "delete_pending"] ELSE asset[a])
    BY DEF Mark
  <2>4. rows[a].copy = asset[a].copy /\ rows[a].state # "deleted" /\ rows[a] \in Row
    BY <1>1, <2>3 DEF Row, States
  <2> HIDE DEF rows
  <2>5. a # b /\ a \in S
    BY <2>2, <2>4 DEF New
  <2>6. a \in Releasable(rows) /\ asset'[a] = [rows[a] EXCEPT !.state = "deleted"]
    BY <2>2, <2>5
  <2>7. asset'[a].copy = asset[a].copy
    BY <2>4, <2>6 DEF Row
  <2>8. url[a] = "dead" /\ store[a][asset[a].copy] = Absent
    BY <2>4, <2>6 DEF Releasable
  <2>9. url'[a] = url[a] /\ UNCHANGED store
    <3>1. url' = [url EXCEPT ![b] = "live"] /\ UNCHANGED store
      BY <2>1 DEF Reserve
    <3> QED
      BY <2>5, <3>1, TypeParts DEF UrlType
  <2> QED
    BY <2>7, <2>8, <2>9
<1>6. CASE Completing
  <2>1. PICK r \in Requests : (\E b \in Assets : Examine(r, b)) \/ Accept(r) \/ Reject(r)
    BY <1>2, <1>6 DEF Completing, Inspect, Promote, Overtaken, Fail, Withdraw, Tidy, Abandon
  <2>2. \E b, copy : \E state \in {"quarantined", "ready"} :
          asset' = [asset EXCEPT ![b] = Judged(@, state, copy)]
    <3>1. CASE \E b \in Assets : Examine(r, b)
      <4>1. PICK b \in Assets : asset' = [asset EXCEPT ![b] = Judged(@, "quarantined", @.copy)]
        BY <1>2, <3>1 DEF Examine
      <4>2. asset' = [asset EXCEPT ![b] = Judged(@, "quarantined", asset[b].copy)]
        BY <4>1
      <4> QED
        BY <4>2
    <3>2. CASE Accept(r)
      BY <3>2 DEF Accept
    <3>3. CASE Reject(r)
      <4>1. asset' = [asset EXCEPT ![request[r].asset] =
                        Judged(@, "quarantined", asset[request[r].asset].copy)]
        BY <3>3 DEF Reject
      <4> QED
        BY <4>1
    <3> QED
      BY <2>1, <3>1, <3>2, <3>3
  <2>3. PICK b, copy, state : state # "deleted" /\ asset' = [asset EXCEPT ![b] = Judged(@, state, copy)]
    BY <2>2
  <2>4. \E kept : asset' = [asset EXCEPT ![b] = Judged(@, state, kept)]
    BY <2>3
  <2>5. state # "deleted"
    BY <2>3
  <2> QED
    BY <1>4, <2>4, <2>5
<1>7. CASE Removing
  <2>1. ASSUME NEW b \in Assets, Settle(b)
        PROVE  url'[a] = "dead" /\ store'[a][asset'[a].copy] = Absent
    <3>1. a = b /\ url[b] = "dead" /\ asset'[a].copy = asset[a].copy
      BY <1>2, <1>3, <2>1 DEF Settle
    <3> QED
      BY <2>1, <3>1 DEF Settle, ErasedIsGone
  <2>2. ASSUME NEW b \in Assets, Collect(b)
        PROVE  url'[a] = "dead" /\ store'[a][asset'[a].copy] = Absent
    <3>1. /\ a = b /\ url[b] = "dead" /\ asset'[a].copy = asset[a].copy
          /\ UNCHANGED url /\ store' = [store EXCEPT ![b][asset[b].copy] = Absent]
      BY <1>3, <2>2 DEF Collect, Collectable
    <3>2. asset[a].copy \in Copies
      BY <1>1 DEF Row
    <3> QED
      BY <1>1, <3>1, <3>2
  <2>3. CASE \E S : asset' = Mark(S, "delete_pending")
    BY <1>3, <2>3
  <2> QED
    BY <1>2, <1>7, <2>1, <2>2, <2>3 DEF Removing, RemoveContentFile, RemoveCourseFile, DeleteContentDraft,
       DeleteCourseDraft, Erase, EraseFails, CollectFails
<1>8. CASE Publishing \/ UNCHANGED vars
  BY <1>2, <1>8 DEF Publishing, SubmitContent, CheckCourse, SubmitCourse, PublishContent,
     PublishCourse, Refuse, vars
<1> QED
  BY <1>5, <1>6, <1>7, <1>8 DEF Next

LEMMA ErasedStep ==
  ASSUME ClosedInv, [Next]_vars, ~SlowStore
  PROVE  ErasedIsGone'
<1> SUFFICES ASSUME NEW a \in erased'
             PROVE  /\ asset'[a].state \in Gone
                    /\ url'[a] = "dead" => store'[a][asset'[a].copy] = Absent
  BY DEF ErasedIsGone
<1>1. /\ TypeOK /\ ErasureIsDue /\ ErasedIsGone /\ asset \in [Assets -> Row]
      /\ erased \subseteq Assets
      /\ store \in [Assets -> [Copies -> AllBytes \cup {Absent}]]
  BY TypeParts DEF ClosedInv, StoreType, SetsType
<1>2. CASE a \in erased
  <2>1. a \in Assets /\ asset[a].state \in Gone /\ (url[a] = "dead" => store[a][asset[a].copy] = Absent)
    BY <1>1, <1>2 DEF ErasedIsGone
  <2>2. ~Age(a) \/ url'[a] # "dead" \/ url[a] = "dead"
    BY <1>2 DEF Age
  <2> QED
    BY <1>1, <2>1, <2>2, GoneStep, UrlStep, AbsentStays
<1>3. CASE a \notin erased
  <2>1. CASE Uploading \/ Completing
    BY ZenonT(60), <1>3, <2>1 DEF Uploading, Reserve, Reopen, Put, Age, Completing, Examine, Inspect, Promote,
       Accept, Reject, Overtaken, Fail, Withdraw, Tidy, Abandon, removalVars
  <2>2. CASE Publishing \/ UNCHANGED vars
    BY <1>3, <2>2 DEF Publishing, SubmitContent, CheckCourse, SubmitCourse, PublishContent,
       PublishCourse, Refuse, vars, removalVars
  <2>3. CASE Removing
    <3>1. PICK b \in Assets : Erase(b)
      BY <1>3, <2>3 DEF Removing, RemoveContentFile, RemoveCourseFile, DeleteContentDraft,
         DeleteCourseDraft, Settle, EraseFails, Collect, CollectFails, removalVars
    <3>2. /\ a = b /\ a \in erasing /\ UNCHANGED <<asset, url>>
          /\ store' = [store EXCEPT ![a][asset[a].copy] = Absent]
      BY <1>3, <3>1 DEF Erase
    <3>3. asset[a].copy \in Copies
      BY <1>1, <3>1, <3>2 DEF Row
    <3> QED
      BY <1>1, <3>1, <3>2, <3>3 DEF ErasureIsDue
  <2> QED
    BY SMTT(40), <2>1, <2>2, <2>3 DEF Next
<1> QED
  BY <1>2, <1>3

LEMMA ClosedStep ==
  ASSUME ClosedInv, [Next]_vars
  PROVE  ClosedIsGone'
<1> SUFFICES ASSUME NEW a \in Assets, asset'[a].state = "deleted"
             PROVE  url'[a] = "dead" /\ store'[a][asset'[a].copy] = Absent
  BY DEF ClosedIsGone
<1>1. TypeOK /\ ErasedIsGone /\ ClosedIsGone
  BY DEF ClosedInv
<1>2. CASE asset[a].state = "deleted"
  <2>1. url[a] = "dead" /\ store[a][asset[a].copy] = Absent /\ asset[a].state \in Gone
    BY <1>1, <1>2 DEF ClosedIsGone, Gone
  <2> QED
    BY <1>1, <2>1, GoneStep, UrlStep, AbsentStays
<1>3. CASE asset[a].state # "deleted"
  BY <1>1, <1>3, ClosingStep
<1> QED
  BY <1>2, <1>3

(* As long as no deletion is still under way when the safety window after a *)
(* URL's expiry ends, a row is closed only when its object is gone for      *)
(* good, whatever puts, completions, removals and failures come between the *)
(* deletion and the update (storage-deletion.ts:1-4): the deletion of every *)
(* row that may be closed was done after the last upload the URL allows.    *)
THEOREM Closed ==
  ASSUME ~SlowStore
  PROVE  Spec => []ClosedIsGone
<1>1. Init => ClosedInv
  BY InitTypes DEF Init, ClosedInv, ErasureIsDue, ErasedIsGone, ClosedIsGone, Unused
<1>2. ClosedInv /\ [Next]_vars => ClosedInv'
  <2> SUFFICES ASSUME ClosedInv, [Next]_vars
               PROVE  ClosedInv'
    OBVIOUS
  <2>1. TypeOK /\ ErasureIsDue
    BY DEF ClosedInv
  <2> QED
    BY <2>1, TypeStep, ErasureStep, ErasedStep, ClosedStep DEF ClosedInv
<1>3. ClosedInv => ClosedIsGone
  BY DEF ClosedInv
<1> QED
  BY <1>1, <1>2, <1>3, PTL DEF Spec

-----------------------------------------------------------------------------
(* Archives: numbers that are added up.                                    *)

LEMMA LeastNumber ==
  ASSUME NEW S \in SUBSET Nat, S # {}
  PROVE  \E n \in S : \A m \in S : n <= m
<1>1. IsWellFoundedOn(OpToRel(<, Nat), Nat)
  BY NatLessThanWellFounded
<1>2. PICK n \in S : \A m \in Nat : <<m, n>> \in OpToRel(<, Nat) => m \notin S
  BY <1>1, WFMin
<1>3. \A m \in S : ~(m < n)
  BY <1>2 DEF OpToRel
<1> QED
  BY <1>3

AddedUpTo(w, k, f) ==
  f \in [0..k -> Nat] /\ f[0] = 0 /\ \A n \in 1..k : f[n] = f[n - 1] + w[n]

LEMMA AddingExists ==
  ASSUME NEW w \in Seq(Nat), NEW k \in 0..Len(w)
  PROVE  \E f : AddedUpTo(w, k, f)
<1> DEFINE Failing == {m \in 0..Len(w) : ~\E f : AddedUpTo(w, m, f)}
<1>0. Len(w) \in Nat /\ \A n \in 1..Len(w) : w[n] \in Nat
  OBVIOUS
<1> SUFFICES ASSUME Failing # {} PROVE FALSE
  OBVIOUS
<1>1. PICK m \in Failing : \A i \in Failing : m <= i
  <2>1. Failing \in SUBSET Nat
    BY <1>0
  <2> HIDE DEF Failing
  <2> QED
    BY <2>1, LeastNumber
<1>2. m \in 0..Len(w) /\ ~\E f : AddedUpTo(w, m, f)
  OBVIOUS
<1>3. CASE m = 0
  <2>1. AddedUpTo(w, 0, [n \in 0..0 |-> 0])
    BY DEF AddedUpTo
  <2> QED
    BY <1>2, <1>3, <2>1
<1>4. CASE m # 0
  <2>1. m - 1 \in 0..Len(w) /\ m - 1 \notin Failing /\ m \in 1..Len(w)
    <3>1. m \in 1..Len(w) /\ m - 1 \in 0..Len(w) /\ ~(m <= m - 1)
      BY <1>0, <1>2, <1>4
    <3> HIDE DEF Failing
    <3> QED
      BY <1>1, <3>1
  <2>2. PICK f : AddedUpTo(w, m - 1, f)
    BY <2>1
  <2> DEFINE g == [n \in 0..m |-> IF n = m THEN f[m - 1] + w[m] ELSE f[n]]
  <2>3. f[m - 1] \in Nat /\ w[m] \in Nat
    BY <1>0, <2>1, <2>2 DEF AddedUpTo
  <2>4. g \in [0..m -> Nat] /\ g[0] = 0
    BY SMTT(40), <1>0, <1>4, <2>1, <2>2, <2>3 DEF AddedUpTo
  <2>5. ASSUME NEW n \in 1..m PROVE g[n] = g[n - 1] + w[n]
    <3>1. g[n - 1] = f[n - 1]
      BY <1>0, <2>1
    <3>2. CASE n = m
      BY <2>1, <3>1, <3>2
    <3>3. CASE n # m
      <4>1. n \in 1..(m - 1) /\ g[n] = f[n]
        BY <1>0, <2>1, <3>3
      <4> QED
        BY <2>2, <3>1, <4>1 DEF AddedUpTo
    <3> QED
      BY <3>2, <3>3
  <2> HIDE DEF g
  <2>6. AddedUpTo(w, m, g)
    BY <2>4, <2>5 DEF AddedUpTo
  <2> QED
    BY <1>2, <2>6
<1> QED
  BY <1>3, <1>4

(* The recursive definition of Sums has a value. *)
LEMMA SumsUnfold ==
  ASSUME NEW w \in Seq(Nat)
  PROVE  AddedUpTo(w, Len(w), Sums(w))
<1> DEFINE Adds(f) == f = [n \in 0..Len(w) |-> IF n = 0 THEN 0 ELSE f[n - 1] + w[n]]
<1>0. Len(w) \in Nat /\ (\A n \in 1..Len(w) : w[n] \in Nat) /\ Len(w) \in 0..Len(w)
  OBVIOUS
<1>1. PICK f : AddedUpTo(w, Len(w), f)
  BY <1>0, AddingExists
<1>2. Adds(f)
  <2>1. \A n \in 0..Len(w) : f[n] = IF n = 0 THEN 0 ELSE f[n - 1] + w[n]
    BY <1>0, <1>1 DEF AddedUpTo
  <2> QED
    BY <1>1, <2>1 DEF AddedUpTo
<1> DEFINE h == CHOOSE g : Adds(g)
<1>3. Adds(h)
  BY <1>2
<1>4. Sums(w) = h
  BY DEF Sums
<1> HIDE DEF h
<1>5. DOMAIN h = 0..Len(w) /\ h[0] = 0 /\ \A n \in 1..Len(w) : h[n] = h[n - 1] + w[n]
  BY SMTT(40), <1>0, <1>3
<1>6. \A n \in 0..Len(w) : h[n] \in Nat
  <2> DEFINE Wrong == {n \in 0..Len(w) : h[n] \notin Nat}
  <2> SUFFICES ASSUME Wrong # {} PROVE FALSE
    OBVIOUS
  <2>1. PICK n \in Wrong : \A i \in Wrong : n <= i
    <3>1. Wrong \in SUBSET Nat
      BY <1>0
    <3> HIDE DEF Wrong
    <3> QED
      BY <3>1, LeastNumber
  <2>2. n \in 1..Len(w)
    BY <1>0, <1>5
  <2>3. n - 1 \in 0..Len(w) /\ n - 1 \notin Wrong
    BY <1>0, <2>1, <2>2
  <2>4. h[n - 1] \in Nat /\ w[n] \in Nat
    BY <1>0, <2>2, <2>3
  <2> QED
    BY SMTT(40), <1>5, <2>2, <2>4
<1>7. h \in [0..Len(w) -> Nat]
  BY <1>3, <1>6
<1> QED
  BY <1>4, <1>5, <1>7 DEF AddedUpTo

(* What is added up only grows. *)
LEMMA SumsGrow ==
  ASSUME NEW w \in Seq(Nat)
  PROVE  /\ Sums(w)[0] = 0 /\ \A n \in 0..Len(w) : Sums(w)[n] \in Nat
         /\ \A n \in 1..Len(w) : Sums(w)[n] = Sums(w)[n - 1] + w[n]
         /\ \A n \in 0..Len(w) : Sums(w)[n] <= Sums(w)[Len(w)]
<1>1. PICK h : h = Sums(w)
  OBVIOUS
<1>2. Len(w) \in Nat /\ h[0] = 0 /\ (\A n \in 0..Len(w) : h[n] \in Nat)
      /\ \A n \in 1..Len(w) : w[n] \in Nat /\ h[n] = h[n - 1] + w[n]
  BY <1>1, SumsUnfold DEF AddedUpTo
<1> DEFINE Wrong == {m \in 0..Len(w) : ~(h[Len(w) - m] <= h[Len(w)])}
<1>3. Wrong = {}
  <2> SUFFICES ASSUME Wrong # {} PROVE FALSE
    OBVIOUS
  <2>1. PICK m \in Wrong : \A i \in Wrong : m <= i
    <3>1. Wrong \in SUBSET Nat
      BY <1>2
    <3> HIDE DEF Wrong
    <3> QED
      BY <3>1, LeastNumber
  <2>2. m \in 0..Len(w) /\ ~(h[Len(w) - m] <= h[Len(w)])
    OBVIOUS
  <2>3. m # 0
    BY <1>2, <2>2
  <2>4. m - 1 \in 0..Len(w) /\ m - 1 \notin Wrong /\ Len(w) - (m - 1) \in 1..Len(w)
    BY <1>2, <2>1, <2>2, <2>3
  <2>5. h[Len(w) - (m - 1)] <= h[Len(w)]
    BY <2>4
  <2>6. PICK k \in 1..Len(w) : k = Len(w) - (m - 1)
    BY <2>4
  <2>7. h[k] = h[k - 1] + w[k] /\ k - 1 = Len(w) - m /\ w[k] \in Nat /\ h[k] \in Nat /\ h[k - 1] \in Nat /\ h[Len(w)] \in Nat
    BY SMTT(40), <1>2, <2>2, <2>6
  <2> QED
    BY SMTT(40), <2>2, <2>5, <2>6, <2>7
<1>4. ASSUME NEW n \in 0..Len(w) PROVE h[n] <= h[Len(w)]
  <2>0. Len(w) - n \in 0..Len(w) /\ n = Len(w) - (Len(w) - n)
    BY <1>2
  <2>1. PICK m \in 0..Len(w) : m = Len(w) - n /\ n = Len(w) - m
    BY <2>0
  <2>2. m \notin Wrong
    BY <1>3
  <2> QED
    BY <2>1, <2>2
<1> QED
  BY <1>1, <1>2, <1>4

-----------------------------------------------------------------------------
(* What an archive can be *)

LEMMA LimitsAreNumbers ==
  /\ MaxEntries \in Nat /\ MaxTotal \in Nat /\ MaxEntry \in Nat \ {0} /\ MaxRatio \in Nat
  /\ RatioFloor \in Nat /\ MaxRecords \in Nat
<1> QED
  BY ArchiveAssumption

LEMMA RecordFacts ==
  ASSUME NEW r \in Records
  PROVE  /\ r.size = 1 /\ r.out \in Nat \ {0} /\ (r.method = "stored" => r.out = 1)
         /\ SizeOf(r) \in Nat \ {0}
<1>1. r.size = 1 /\ r.out \in Nat \ {0} /\ (r.method = "stored" => r.out = 1)
  <2>0. MaxEntry \in Nat \ {0} /\ MaxEntry + 1 \in Nat \ {0}
    BY LimitsAreNumbers
  <2>1. ASSUME r \in {Plain, [Plain EXCEPT !.encrypted = TRUE], [Plain EXCEPT !.renamed = TRUE],
                     [Plain EXCEPT !.method = "other"], [Plain EXCEPT !.name = Types, !.content = "macro"]}
        PROVE  r.size = 1 /\ r.out = 1
    <3>1. Plain.size = 1 /\ Plain.out = 1
      BY DEF Plain
    <3>2. CASE r = [Plain EXCEPT !.encrypted = TRUE]
      BY <3>2 DEF Plain
    <3>3. CASE r = [Plain EXCEPT !.renamed = TRUE]
      BY <3>3 DEF Plain
    <3>4. CASE r = [Plain EXCEPT !.method = "other"]
      BY <3>4 DEF Plain
    <3>5. CASE r = [Plain EXCEPT !.name = Types, !.content = "macro"]
      BY <3>5 DEF Plain
    <3> QED
      BY <2>1, <3>1, <3>2, <3>3, <3>4, <3>5
  <2>2. ASSUME NEW n, r = [Plain EXCEPT !.name = n] PROVE r.size = 1 /\ r.out = 1
    BY <2>2 DEF Plain
  <2>3. ASSUME NEW c, r = [Plain EXCEPT !.content = c] PROVE r.size = 1 /\ r.out = 1
    BY <2>3 DEF Plain
  <2>4. ASSUME NEW n \in {2, MaxEntry, MaxEntry + 1},
               r = [Plain EXCEPT !.method = "deflated", !.descriptor = TRUE, !.out = n]
        PROVE  r.size = 1 /\ r.out \in Nat \ {0} /\ r.method # "stored"
    BY <2>0, <2>4 DEF Plain
  <2> QED
    BY <2>1, <2>2, <2>3, <2>4 DEF Records
<1> QED
  BY <1>1 DEF SizeOf

ArchiveShape(a) ==
  /\ a.records \in Seq(Records)
  /\ a.entries \in Seq((1..Len(a.records)) \X SUBSET Lies)

LEMMA FilesHaveShape ==
  ASSUME ArchiveInit
  PROVE  ArchiveShape(archive)
<1>1. CASE archive = Crowd
  <2>1. PICK k \in Nat : k = MaxEntries + 1
    BY LimitsAreNumbers
  <2>2. archive.records = [i \in 1..k |-> Plain] /\ archive.entries = [i \in 1..k |-> <<i, {}>>]
    BY <1>1, <2>1 DEF Crowd
  <2>3. Plain \in Records
    BY DEF Records
  <2>4. archive.records \in Seq(Records) /\ Len(archive.records) = k
    BY <2>2, <2>3
  <2>5. archive.entries \in [1..k -> (1..k) \X SUBSET Lies]
    BY <2>2
  <2> QED
    BY <2>4, <2>5 DEF ArchiveShape
<1>2. ASSUME NEW n \in 0..MaxRecords, archive \in Files(n) PROVE ArchiveShape(archive)
  <2>0. n \in Nat
    BY LimitsAreNumbers
  <2>1. PICK lies \in SUBSET SUBSET Lies :
          archive.records \in [1..n -> Records] /\ archive.entries \in Entries(n, lies)
    <3>1. LieSets \in SUBSET SUBSET Lies /\ {{}} \in SUBSET SUBSET Lies
      BY ArchiveAssumption
    <3>2. \E lies \in {LieSets, {{}}} : archive.records \in [1..n -> Records] /\ archive.entries \in Entries(n, lies)
      BY <1>2 DEF Files
    <3> QED
      BY <3>1, <3>2
  <2>2. PICK m \in 0..MaxRecords : archive.entries \in [1..m -> (1..n) \X lies]
    BY <2>1 DEF Entries
  <2>3. m \in Nat
    BY LimitsAreNumbers
  <2>4. archive.records \in Seq(Records) /\ Len(archive.records) = n
    BY <2>0, <2>1
  <2>5. archive.entries \in [1..m -> (1..n) \X SUBSET Lies]
    BY <2>1, <2>2
  <2> QED
    BY <2>3, <2>4, <2>5 DEF ArchiveShape
<1> QED
  BY <1>1, <1>2 DEF ArchiveInit

LEMMA EndsFacts ==
  ASSUME NEW a, ArchiveShape(a)
  PROVE  /\ Len(a.records) \in Nat /\ CentralOffset(a) \in Nat /\ FileLength(a) \in Nat
         /\ \A i \in 1..Len(a.records) : Start(a, i) \in Nat
<1>1. PICK k \in Nat : k = Len(a.records) /\ DOMAIN a.records = 1..k /\ \A i \in 1..k : a.records[i] \in Records
  BY DEF ArchiveShape
<1>2. PICK w : w = [i \in DOMAIN a.records |-> SizeOf(a.records[i])]
  OBVIOUS
<1>3. w \in [1..k -> Nat]
  BY <1>1, <1>2, RecordFacts
<1>4. w \in Seq(Nat) /\ Len(w) = k
  BY <1>3
<1>5. \A n \in 0..k : Ends(a)[n] \in Nat
  BY <1>2, <1>4, SumsGrow DEF Ends
<1>6. k \in 0..k /\ \A i \in 1..k : i - 1 \in 0..k
  OBVIOUS
<1>7. CentralOffset(a) \in Nat /\ \A i \in 1..k : Start(a, i) \in Nat
  BY <1>1, <1>5, <1>6 DEF CentralOffset, Start
<1>8. Len(a.entries) \in Nat
  BY SMTT(40) DEF ArchiveShape
<1> QED
  BY <1>1, <1>7, <1>8 DEF FileLength

LEMMA EntryFacts ==
  ASSUME NEW a, ArchiveShape(a), NEW e \in DOMAIN a.entries, NEW x, x = Entry(a, e)
  PROVE  /\ e \in Nat \ {0}
         /\ x.at \in Nat /\ x.declared \in Nat /\ x.size \in Nat /\ EndOf(x) \in Nat /\ x.at < EndOf(x)
<1>1. PICK k \in Nat : k = Len(a.records) /\ DOMAIN a.records = 1..k /\ \A i \in 1..k : a.records[i] \in Records
  BY ONLY ArchiveShape(a) DEF ArchiveShape
<1>2. e \in Nat \ {0} /\ a.entries[e] \in (1..k) \X SUBSET Lies
  <2>1. PICK W : W = (1..k) \X SUBSET Lies
    OBVIOUS
  <2>2. a.entries \in Seq(W)
    BY <1>1, <2>1 DEF ArchiveShape
  <2>3. e \in 1..Len(a.entries) /\ a.entries[e] \in W
    BY <2>2, LenProperties
  <2> QED
    BY <2>1, <2>2, <2>3, LenProperties
<1>3. PICK i \in 1..k, lies \in SUBSET Lies : i = a.entries[e][1] /\ lies = a.entries[e][2]
  BY <1>2
<1>4. PICK r \in Records : r = a.records[i]
  BY <1>1
<1>5. Start(a, i) \in Nat
  BY <1>1, EndsFacts
<1>6. r.size = 1 /\ r.out \in Nat
  BY <1>4, RecordFacts
<1>7. Extent(a, i, lies) \in Nat
  <2>1. PICK next \in Nat : next = IF i < Len(a.records) THEN SizeOf(a.records[i + 1]) ELSE 0
    <3>1. i < k => i + 1 \in 1..k
      OBVIOUS
    <3> QED
      BY <1>1, <3>1, RecordFacts
  <2>2. Extent(a, i, lies) = 1 + (IF "longer" \in lies THEN 1 ELSE 0) - (IF "shorter" \in lies THEN 1 ELSE 0)
                               + (IF "swallow" \in lies THEN next ELSE 0)
    BY <1>4, <1>6, <2>1 DEF Extent
  <2> QED
    BY <2>1, <2>2
<1>8. PICK yields, out : /\ yields = Yields(r, r.method, Extent(a, i, lies))
                         /\ out = IF "sized" \in lies THEN yields ELSE r.out
  OBVIOUS
<1>9. yields \in Nat
  BY <1>6, <1>7, <1>8 DEF Yields
<1>10. out \in Nat
  BY <1>6, <1>8, <1>9
<1>11. /\ x.at = Start(a, i) + (IF "offset" \in lies THEN 1 ELSE 0)
       /\ x.size = Extent(a, i, lies)
       /\ x.declared = IF "less" \in lies /\ out > 0 THEN out - 1 ELSE IF "more" \in lies THEN out + 1 ELSE out
  BY ZenonT(30), <1>3, <1>4, <1>8 DEF Entry
<1>12. x.at \in Nat /\ x.size \in Nat
  BY <1>5, <1>7, <1>11
<1>13. x.declared \in Nat
  <2>1. out - 1 \in Nat \/ ~(out > 0)
    BY <1>10
  <2> QED
    BY <1>10, <1>11, <2>1
<1>14. EndOf(x) \in Nat /\ x.at < EndOf(x)
  BY <1>12 DEF EndOf
<1> QED
  BY <1>2, <1>12, <1>13, <1>14

-----------------------------------------------------------------------------
(* Tiles: each record starts where the one before ended, if and only if each *)
(* unit belongs to exactly one.                                             *)

(* The entries fit before the directory. *)
Fits(a) == ArchiveShape(a) /\ \A e \in DOMAIN a.entries : EndOf(Entry(a, e)) <= CentralOffset(a)

Spots(a, m, b, f) ==
  /\ m \in Nat /\ DOMAIN a.entries = 1..m
  /\ b \in [1..m -> Nat] /\ f \in [1..m -> Nat]
  /\ \A e \in 1..m : /\ b[e] = Entry(a, e).at /\ f[e] = EndOf(Entry(a, e))
                     /\ b[e] < f[e] /\ f[e] <= CentralOffset(a)
  /\ \A d, e \in 1..m : Before(a, d, e) <=> b[d] < b[e] \/ (b[d] = b[e] /\ d < e)
  /\ CentralOffset(a) \in Nat

LEMMA SpotsExist ==
  ASSUME NEW a, Fits(a)
  PROVE  \E m, b, f : Spots(a, m, b, f)
<1>1. PICK m \in Nat : DOMAIN a.entries = 1..m
  BY DEF Fits, ArchiveShape
<1>2. PICK b, f : b = [e \in 1..m |-> Entry(a, e).at] /\ f = [e \in 1..m |-> EndOf(Entry(a, e))]
  OBVIOUS
<1>3. \A e \in 1..m : Entry(a, e).at \in Nat /\ EndOf(Entry(a, e)) \in Nat /\ Entry(a, e).at < EndOf(Entry(a, e))
  BY <1>1, EntryFacts DEF Fits
<1>4. b \in [1..m -> Nat] /\ f \in [1..m -> Nat]
  BY <1>2, <1>3
<1>5. \A e \in 1..m : b[e] = Entry(a, e).at /\ f[e] = EndOf(Entry(a, e)) /\ b[e] < f[e] /\ f[e] <= CentralOffset(a)
  BY <1>1, <1>2, <1>3 DEF Fits
<1>6. \A d, e \in 1..m : Before(a, d, e) <=> b[d] < b[e] \/ (b[d] = b[e] /\ d < e)
  BY <1>5 DEF Before
<1>7. CentralOffset(a) \in Nat
  BY EndsFacts DEF Fits
<1>8. Spots(a, m, b, f)
  BY <1>1, <1>4, <1>5, <1>6, <1>7 DEF Spots
<1> QED
  BY <1>8

LEMMA GreatestNumber ==
  ASSUME NEW top \in Nat, NEW S \in SUBSET (0..top), S # {}
  PROVE  \E n \in S : \A i \in S : i <= n
<1> DEFINE Short == {top - i : i \in S}
<1>1. Short \in SUBSET Nat /\ Short # {}
  <2>1. \A i \in S : top - i \in Nat
    OBVIOUS
  <2>2. PICK i : i \in S
    OBVIOUS
  <2>3. top - i \in Short
    BY <2>2
  <2> QED
    BY <2>1, <2>3
<1>2. PICK d \in Short : \A e \in Short : d <= e
  <2> HIDE DEF Short
  <2> QED
    BY <1>1, LeastNumber
<1>3. PICK n \in S : d = top - n
  BY <1>2
<1>4. ASSUME NEW i \in S PROVE i <= n
  <2>1. d <= top - i
    BY <1>2
  <2> QED
    BY <1>3, <2>1
<1> QED
  BY <1>4

LEMMA LatestIsThere ==
  ASSUME NEW a, NEW m, NEW b, NEW f, Spots(a, m, b, f), NEW S \in SUBSET (1..m), S # {}
  PROVE  Latest(a, S) \in S /\ \A c \in S : c = Latest(a, S) \/ Before(a, c, Latest(a, S))
<1>1. PICK C \in Nat : C = CentralOffset(a)
  BY DEF Spots
<1>2. m \in Nat /\ \A e \in S : e \in 1..m /\ b[e] \in 0..C
  BY <1>1 DEF Spots
<1> DEFINE B == {b[e] : e \in S}
<1>3. PICK v \in B : \A u \in B : u <= v
  <2>0. PICK e : e \in S
    OBVIOUS
  <2>1. b[e] \in B
    BY <2>0
  <2>2. B \in SUBSET (0..C)
    BY <1>2
  <2> HIDE DEF B
  <2> QED
    BY <1>1, <2>1, <2>2, GreatestNumber
<1> DEFINE T == {e \in S : b[e] = v}
<1>4. PICK d \in T : \A e \in T : e <= d
  <2>0. PICK e \in S : b[e] = v
    BY <1>3
  <2>1. e \in T
    BY <2>0
  <2>2. T \in SUBSET (0..m)
    <3>1. m \in Nat /\ \A x \in S : x \in 1..m
      BY <1>2
    <3>2. \A x \in S : x \in 0..m
      BY <3>1
    <3> QED
      BY ONLY <3>2
  <2> HIDE DEF T
  <2> QED
    BY <1>2, <2>1, <2>2, GreatestNumber
<1>5. d \in S /\ b[d] = v
  BY <1>4
<1>6. ASSUME NEW c \in S PROVE c = d \/ Before(a, c, d)
  <2>1. b[c] <= v /\ (b[c] = v => c <= d)
    BY <1>3, <1>4
  <2>2. c \in 1..m /\ d \in 1..m /\ b[c] \in 0..C /\ b[d] \in 0..C
    <3>1. d \in S
      BY <1>5
    <3> QED
      BY ONLY <1>2, <1>6, <3>1
  <2>3. b[c] \in Nat /\ b[d] \in Nat
    BY ONLY <2>2
  <2> HIDE DEF B, T
  <2>4. c = d \/ b[c] < b[d] \/ (b[c] = b[d] /\ c < d)
    BY <1>5, <2>1, <2>2, <2>3
  <2> QED
    BY <2>2, <2>4 DEF Spots
<1> QED
  BY <1>5, <1>6 DEF Latest

LEMMA ReachedIs ==
  ASSUME NEW a, NEW m, NEW b, NEW f, Spots(a, m, b, f), NEW S \in SUBSET (1..m)
  PROVE  /\ S = {} => Reached(a, S) = 0
         /\ S # {} => \E l \in S : /\ Reached(a, S) = f[l]
                                   /\ \A c \in S : c = l \/ b[c] < b[l] \/ (b[c] = b[l] /\ c < l)
<1>1. CASE S = {}
  BY <1>1 DEF Reached
<1>2. CASE S # {}
  <2>1. PICK l \in S : l = Latest(a, S) /\ \A c \in S : c = l \/ Before(a, c, l)
    BY <1>2, LatestIsThere
  <2>2. Reached(a, S) = f[l]
    BY <1>2, <2>1 DEF Reached, Spots
  <2>3. \A c \in S : c = l \/ b[c] < b[l] \/ (b[c] = b[l] /\ c < l)
    BY <2>1 DEF Spots
  <2> QED
    BY <1>2, <2>2, <2>3
<1> QED
  BY <1>1, <1>2

(* What belongs to whom. *)
Covers(b, f, e, u) == b[e] <= u /\ u < f[e]

LEMMA TilesDoNotOverlap ==
  ASSUME NEW a, NEW m, NEW b, NEW f, Spots(a, m, b, f), Tiles(a), NEW d \in 1..m, NEW e \in 1..m,
         b[d] < b[e] \/ (b[d] = b[e] /\ d < e)
  PROVE  f[d] <= b[e]
<1> DEFINE Bad == {v \in Nat : \E x, y \in 1..m : (b[x] < b[y] \/ (b[x] = b[y] /\ x < y))
                                                   /\ ~(f[x] <= b[y]) /\ v = b[y]}
<1>0. m \in Nat /\ (\A x \in 1..m : b[x] \in Nat /\ f[x] \in Nat /\ b[x] < f[x] /\ b[x] = Entry(a, x).at)
      /\ DOMAIN a.entries = 1..m
      /\ \A x, y \in 1..m : Before(a, x, y) <=> b[x] < b[y] \/ (b[x] = b[y] /\ x < y)
  BY DEF Spots
<1> SUFFICES ASSUME Bad # {} PROVE FALSE
  <2>1. b[e] \in Nat /\ b[e] \notin Bad
    BY <1>0
  <2> QED
    BY <2>1
<1>1. PICK v \in Bad : \A u \in Bad : v <= u
  <2>1. Bad \in SUBSET Nat
    OBVIOUS
  <2> HIDE DEF Bad
  <2> QED
    BY <2>1, LeastNumber
<1>2. PICK x \in 1..m, y \in 1..m :
        (b[x] < b[y] \/ (b[x] = b[y] /\ x < y)) /\ ~(f[x] <= b[y]) /\ v = b[y]
  OBVIOUS
<1>3. PICK S : S = {c \in 1..m : Before(a, c, y)}
  OBVIOUS
<1>4. S \in SUBSET (1..m) /\ x \in S
  BY <1>0, <1>2, <1>3
<1>5. PICK l \in S : /\ Reached(a, S) = f[l]
                     /\ \A c \in S : c = l \/ b[c] < b[l] \/ (b[c] = b[l] /\ c < l)
  <2> HIDE DEF Bad
  <2> QED
    BY ONLY Spots(a, m, b, f), <1>4, ReachedIs
<1>6. b[y] = f[l]
  <2>0. \A e1 \in DOMAIN a.entries : Entry(a, e1).at = Reached(a, {c \in DOMAIN a.entries : Before(a, c, e1)})
    BY DEF Tiles
  <2>1. S = {c \in DOMAIN a.entries : Before(a, c, y)} /\ y \in DOMAIN a.entries
    BY <1>0, <1>3
  <2>2. Entry(a, y).at = Reached(a, S)
    BY ONLY <2>0, <2>1
  <2> QED
    BY <1>0, <1>2, <1>5, <2>2
<1>7. l \in 1..m /\ b[l] < b[y] /\ b[l] \in Nat /\ b[y] \in Nat
  BY <1>0, <1>2, <1>4, <1>5, <1>6
<1>8. b[l] \notin Bad
  BY <1>1, <1>2, <1>7
<1>9. x # l
  BY <1>0, <1>2, <1>6
<1>10. b[x] < b[l] \/ (b[x] = b[l] /\ x < l)
  BY <1>4, <1>5, <1>9
<1>11. f[x] <= b[l]
  BY <1>7, <1>8, <1>10
<1> QED
  BY SMTT(40), <1>0, <1>2, <1>7, <1>11

LEMMA TilesCover ==
  ASSUME NEW a, NEW m, NEW b, NEW f, Spots(a, m, b, f), Tiles(a), NEW u \in 0..(CentralOffset(a) - 1)
  PROVE  \E e \in 1..m : Covers(b, f, e, u) /\ \A d \in 1..m : Covers(b, f, d, u) => d = e
<1>0. m \in Nat /\ (\A x \in 1..m : b[x] \in Nat /\ f[x] \in Nat /\ b[x] < f[x] /\ b[x] = Entry(a, x).at)
      /\ DOMAIN a.entries = 1..m /\ CentralOffset(a) \in Nat /\ u \in Nat /\ u < CentralOffset(a)
      /\ \A x, y \in 1..m : Before(a, x, y) <=> b[x] < b[y] \/ (b[x] = b[y] /\ x < y)
  BY DEF Spots
<1> DEFINE Later == {v \in Nat : \E e \in 1..m : v = b[e] /\ u < f[e]}
<1>1. Later # {}
  <2>0. PICK S \in SUBSET (1..m) : S = 1..m
    OBVIOUS
  <2>1. CentralOffset(a) = Reached(a, S)
    BY <1>0, <2>0 DEF Tiles
  <2>2. S # {}
    <3> SUFFICES ASSUME S = {} PROVE FALSE
      OBVIOUS
    <3>1. CentralOffset(a) = 0
      <4> HIDE DEF Later
      <4> QED
        BY <2>1, ReachedIs
    <3> QED
      BY <1>0, <3>1
  <2>3. PICK l \in S : Reached(a, S) = f[l]
    <3> HIDE DEF Later
    <3> QED
      BY <2>1, <2>2, ReachedIs
  <2>4. b[l] \in Nat /\ u < f[l] /\ l \in 1..m
    BY <1>0, <2>0, <2>1, <2>3
  <2> QED
    BY <2>4
<1>2. PICK v \in Later : \A w \in Later : v <= w
  <2>1. Later \in SUBSET Nat
    OBVIOUS
  <2> HIDE DEF Later
  <2> QED
    BY <1>1, <2>1, LeastNumber
<1>3. PICK e \in 1..m : v = b[e] /\ u < f[e]
  BY <1>2
<1>4. b[e] <= u
  <2> SUFFICES ASSUME u < b[e] PROVE FALSE
    BY <1>0
  <2>1. PICK S : S = {c \in 1..m : Before(a, c, e)}
    OBVIOUS
  <2>2. S \in SUBSET (1..m) /\ b[e] = Reached(a, S)
    <3>1. \A e1 \in DOMAIN a.entries : Entry(a, e1).at = Reached(a, {c \in DOMAIN a.entries : Before(a, c, e1)})
      BY DEF Tiles
    <3>2. S = {c \in DOMAIN a.entries : Before(a, c, e)} /\ e \in DOMAIN a.entries
      BY <1>0, <2>1
    <3>3. Entry(a, e).at = Reached(a, S)
      BY ONLY <3>1, <3>2
    <3>4. S \in SUBSET (1..m)
      BY ONLY <2>1
    <3> QED
      BY <1>0, <3>3, <3>4
  <2>3. S # {}
    <3> SUFFICES ASSUME S = {} PROVE FALSE
      OBVIOUS
    <3>1. Reached(a, S) = 0
      <4> HIDE DEF Later
      <4> QED
        BY <2>2, ReachedIs
    <3> QED
      BY <1>0, <2>2, <3>1
  <2>4. PICK l \in S : Reached(a, S) = f[l]
    <3> HIDE DEF Later
    <3> QED
      BY <2>2, <2>3, ReachedIs
  <2>5. l \in 1..m /\ b[l] \in Nat /\ u < f[l] /\ b[l] < b[e]
    BY <1>0, <2>2, <2>4
  <2>6. b[l] \in Later
    BY <2>5
  <2>7. v <= b[l]
    <3> HIDE DEF Later
    <3> QED
      BY <1>2, <2>6
  <2> QED
    BY <1>0, <1>3, <2>5, <2>7
<1>5. ASSUME NEW d \in 1..m, Covers(b, f, d, u) PROVE d = e
  <2> SUFFICES ASSUME d # e PROVE FALSE
    OBVIOUS
  <2>0. b[d] <= u /\ u < f[d]
    BY <1>5 DEF Covers
  <2>1. CASE b[d] < b[e] \/ (b[d] = b[e] /\ d < e)
    <3>1. f[d] <= b[e]
      <4> HIDE DEF Later
      <4> QED
        BY <2>1, TilesDoNotOverlap
    <3> QED
      BY <1>0, <1>4, <2>0, <3>1
  <2>2. CASE b[e] < b[d] \/ (b[e] = b[d] /\ e < d)
    <3>1. f[e] <= b[d]
      <4> HIDE DEF Later
      <4> QED
        BY <2>2, TilesDoNotOverlap
    <3> QED
      BY <1>0, <1>3, <2>0, <3>1
  <2> QED
    BY <1>0, <2>1, <2>2
<1> QED
  BY <1>3, <1>4, <1>5 DEF Covers

(* ... and back. *)
CoveredOnce(a, m, b, f) ==
  \A u \in 0..(CentralOffset(a) - 1) :
    \E e \in 1..m : Covers(b, f, e, u) /\ \A d \in 1..m : Covers(b, f, d, u) => d = e

LEMMA CoverTiles ==
  ASSUME NEW a, NEW m, NEW b, NEW f, Spots(a, m, b, f), CoveredOnce(a, m, b, f)
  PROVE  Tiles(a)
<1>0. m \in Nat /\ (\A x \in 1..m : b[x] \in Nat /\ f[x] \in Nat /\ b[x] < f[x] /\ f[x] <= CentralOffset(a)
                                    /\ b[x] = Entry(a, x).at)
      /\ DOMAIN a.entries = 1..m /\ CentralOffset(a) \in Nat
      /\ \A x, y \in 1..m : Before(a, x, y) <=> b[x] < b[y] \/ (b[x] = b[y] /\ x < y)
  BY DEF Spots
<1>1. ASSUME NEW d \in 1..m, NEW e \in 1..m, d # e, NEW u \in Nat, u < CentralOffset(a),
             b[d] <= u, u < f[d], b[e] <= u, u < f[e]
      PROVE  FALSE
  <2>1. u \in 0..(CentralOffset(a) - 1)
    BY <1>0, <1>1
  <2>2. PICK x \in 1..m : \A y \in 1..m : Covers(b, f, y, u) => y = x
    BY <2>1 DEF CoveredOnce
  <2> QED
    BY <1>1, <2>2 DEF Covers
(* A gap before an entry, or before the directory, belongs to an earlier one. *)
<1>2. ASSUME NEW S \in SUBSET (1..m), NEW l \in S, NEW t \in Nat, f[l] < t, t <= CentralOffset(a),
             \A c \in S : c = l \/ b[c] < b[l] \/ (b[c] = b[l] /\ c < l),
             \A c \in 1..m : b[c] < t => c \in S
      PROVE  FALSE
  <2>1. t - 1 \in 0..(CentralOffset(a) - 1) /\ l \in 1..m /\ b[l] \in Nat /\ f[l] \in Nat /\ b[l] < f[l]
    BY <1>0, <1>2
  <2>2. PICK d \in 1..m : b[d] <= t - 1 /\ t - 1 < f[d]
    BY <2>1 DEF CoveredOnce, Covers
  <2>3. d \in S /\ d # l /\ b[d] <= b[l] /\ b[l] < f[d] /\ b[l] < CentralOffset(a)
    BY SMTT(40), <1>0, <1>2, <2>1, <2>2
  <2> QED
    BY <1>1, <2>1, <2>3
<1>3. ASSUME NEW e \in 1..m PROVE Entry(a, e).at = Reached(a, {d \in 1..m : Before(a, d, e)})
  <2>1. PICK S : S = {d \in 1..m : Before(a, d, e)}
    OBVIOUS
  <2>2. S \in SUBSET (1..m) /\ \A c \in 1..m : b[c] < b[e] => c \in S
    BY <1>0, <2>1
  <2>3. CASE S = {}
    <3>1. Reached(a, S) = 0
      BY <2>2, <2>3, ReachedIs
    <3>2. b[e] = 0
      <4> SUFFICES ASSUME b[e] # 0 PROVE FALSE
        OBVIOUS
      <4>1. b[e] - 1 \in 0..(CentralOffset(a) - 1)
        BY <1>0
      <4>2. PICK d \in 1..m : b[d] <= b[e] - 1
        BY <4>1 DEF CoveredOnce, Covers
      <4> QED
        BY <1>0, <2>2, <2>3, <4>2
    <3> QED
      BY <1>0, <2>1, <3>1, <3>2
  <2>4. CASE S # {}
    <3>1. PICK l \in S : /\ Reached(a, S) = f[l]
                         /\ \A c \in S : c = l \/ b[c] < b[l] \/ (b[c] = b[l] /\ c < l)
      BY <2>2, <2>4, ReachedIs
    <3>2. l \in 1..m /\ l # e /\ b[l] <= b[e]
      BY <1>0, <2>1, <3>1
    <3>3. ~(b[e] < f[l])
      BY SMTT(40), <1>0, <1>1, <3>2
    <3>4. ~(f[l] < b[e])
      <4>1. b[e] \in Nat /\ b[e] <= CentralOffset(a)
        BY <1>0
      <4> QED
        BY <1>2, <2>2, <3>1, <4>1
    <3>5. f[l] = b[e]
      BY <1>0, <3>2, <3>3, <3>4
    <3> QED
      BY <1>0, <2>1, <3>1, <3>5
  <2> QED
    BY <2>3, <2>4
<1>4. CentralOffset(a) = Reached(a, 1..m)
  <2>0. PICK S \in SUBSET (1..m) : S = 1..m
    OBVIOUS
  <2>1. CASE S = {}
    <3>1. Reached(a, S) = 0
      BY <2>1, ReachedIs
    <3>2. ~(0 \in 0..(CentralOffset(a) - 1))
      BY <2>0, <2>1 DEF CoveredOnce
    <3> QED
      BY <1>0, <2>0, <3>1, <3>2
  <2>2. CASE S # {}
    <3>1. PICK l \in S : /\ Reached(a, S) = f[l]
                         /\ \A c \in S : c = l \/ b[c] < b[l] \/ (b[c] = b[l] /\ c < l)
      BY <2>2, ReachedIs
    <3>2. ~(f[l] < CentralOffset(a))
      <4>1. CentralOffset(a) \in Nat /\ CentralOffset(a) <= CentralOffset(a) /\ \A c \in 1..m : b[c] < CentralOffset(a) => c \in S
        BY <1>0, <2>0
      <4> QED
        BY <1>2, <3>1, <4>1
    <3> QED
      BY <1>0, <2>0, <3>1, <3>2
  <2> QED
    BY <2>1, <2>2
<1> QED
  BY <1>0, <1>3, <1>4 DEF Tiles

(* The records tile the file if and only if every unit is in one. *)
InOne(a, u) ==
  Cardinality({e \in DOMAIN a.entries : Entry(a, e).at <= u /\ u < EndOf(Entry(a, e))}) = 1

LEMMA TilesIffCovered ==
  ASSUME NEW a, Fits(a)
  PROVE  Tiles(a) <=> \A u \in 0..(CentralOffset(a) - 1) : InOne(a, u)
<1>1. PICK m, b, f : Spots(a, m, b, f)
  BY SpotsExist
<1>2. ASSUME NEW u
      PROVE  InOne(a, u) <=> \E e \in 1..m : Covers(b, f, e, u) /\ \A d \in 1..m : Covers(b, f, d, u) => d = e
  <2>1. PICK A : A = {e \in DOMAIN a.entries : Entry(a, e).at <= u /\ u < EndOf(Entry(a, e))}
    OBVIOUS
  <2>2. A = {e \in 1..m : Covers(b, f, e, u)}
    BY <1>1, <2>1 DEF Spots, Covers
  <2>3. IsFiniteSet(A)
    <3>1. IsFiniteSet(1..m) /\ A \in SUBSET (1..m)
      BY <1>1, <2>2, FS_Interval DEF Spots
    <3> QED
      BY <3>1, FS_Subset
  <2>4. Cardinality(A) = 1 <=> \E e : A = {e}
    BY <2>3, FS_Singleton
  <2>5. ASSUME NEW e, A = {e}
        PROVE  e \in 1..m /\ Covers(b, f, e, u) /\ \A d \in 1..m : Covers(b, f, d, u) => d = e
    BY ONLY <2>2, <2>5
  <2>6. ASSUME NEW e \in 1..m, Covers(b, f, e, u), \A d \in 1..m : Covers(b, f, d, u) => d = e
        PROVE  A = {e}
    BY ONLY <2>2, <2>6
  <2> QED
    BY <2>1, <2>4, <2>5, <2>6 DEF InOne
<1>3. (\A u \in 0..(CentralOffset(a) - 1) : InOne(a, u)) <=> CoveredOnce(a, m, b, f)
  BY <1>2 DEF CoveredOnce
<1>4. Tiles(a) => CoveredOnce(a, m, b, f)
  BY <1>1, TilesCover DEF CoveredOnce
<1>5. CoveredOnce(a, m, b, f) => Tiles(a)
  BY <1>1, CoverTiles
<1> QED
  BY <1>3, <1>4, <1>5

-----------------------------------------------------------------------------
(* What the checks say, before and after inflating. *)

CheckPasses(a) ==
  /\ DirectoryReads(a)
  /\ \A e \in DOMAIN a.entries : Declarable(Entry(a, e))
  /\ DeclaredTotal(a) <= MaxTotal
  /\ \A e \in DOMAIN a.entries : Agrees(a, Entry(a, e))
  /\ Tiles(a)
  /\ a.docx => IsWord(a)

FoundAt(a, e) == a.records[RecordAt(a, Entry(a, e).at)]
LengthAt(a, e) == Yields(FoundAt(a, e), Entry(a, e).method, Entry(a, e).size)

GenuineAt(a, e) ==
  /\ Entry(a, e).method = "deflated" => Entry(a, e).size >= FoundAt(a, e).size
  /\ LengthAt(a, e) = Entry(a, e).declared
  /\ Entry(a, e).checksum = Checksum(FoundAt(a, e), LengthAt(a, e))
  /\ ~(LengthAt(a, e) > 0 /\ Sniffed(FoundAt(a, e).content) = "executable" /\ FoundAt(a, e).content \in NativeFormats)
  /\ ~(a.docx /\ Entry(a, e).name = Types /\ "macro" \in Within(a, Entry(a, e)))

Declares(a) == [e \in DOMAIN a.entries |-> Entry(a, e).declared]

(* A record that agrees is a record. *)
LEMMA FoundIsRecord ==
  ASSUME NEW a, ArchiveShape(a), NEW e \in DOMAIN a.entries, Agrees(a, Entry(a, e))
  PROVE  /\ FoundAt(a, e) \in Records
         /\ FoundAt(a, e).name = Entry(a, e).name /\ FoundAt(a, e).method = Entry(a, e).method
         /\ FoundAt(a, e).encrypted = Entry(a, e).encrypted
         /\ EndOf(Entry(a, e)) <= CentralOffset(a)
<1>1. PICK i : i = RecordAt(a, Entry(a, e).at)
  OBVIOUS
<1>2. i # 0 /\ a.records[i].name = Entry(a, e).name /\ a.records[i].method = Entry(a, e).method
      /\ a.records[i].encrypted = Entry(a, e).encrypted /\ EndOf(Entry(a, e)) <= CentralOffset(a)
  BY SMTT(40), <1>1 DEF Agrees
<1>3. i \in DOMAIN a.records
  BY <1>1, <1>2 DEF RecordAt
<1>4. a.records[i] \in Records
  BY <1>3 DEF ArchiveShape
<1> QED
  BY <1>1, <1>2, <1>4 DEF FoundAt

LEMMA DeclaresFacts ==
  ASSUME NEW a, ArchiveShape(a)
  PROVE  /\ Declares(a) \in Seq(Nat) /\ Len(Declares(a)) = Len(a.entries) /\ Len(a.entries) \in Nat
         /\ DOMAIN a.entries = 1..Len(a.entries) /\ DeclaredTotal(a) = Sums(Declares(a))[Len(a.entries)]
         /\ DeclaredTotal(a) \in Nat
<1>1. PICK m \in Nat : m = Len(a.entries) /\ DOMAIN a.entries = 1..m
  BY DEF ArchiveShape
<1>2. Declares(a) \in [1..m -> Nat]
  BY <1>1, EntryFacts DEF Declares
<1>3. Declares(a) \in Seq(Nat) /\ Len(Declares(a)) = m
  BY <1>2
<1>4. DeclaredTotal(a) = Sums(Declares(a))[m]
  BY <1>1 DEF DeclaredTotal, Declares
<1>5. m \in 0..m
  OBVIOUS
<1>6. Sums(Declares(a))[m] \in Nat
  BY <1>3, <1>5, SumsGrow
<1> QED
  BY <1>1, <1>3, <1>4, <1>6

LEMMA AgreeingFit ==
  ASSUME NEW a, ArchiveShape(a), \A e \in DOMAIN a.entries : Agrees(a, Entry(a, e))
  PROVE  Fits(a)
<1> QED
  BY FoundIsRecord DEF Fits

LEMMA TotalIsDeclared ==
  ASSUME NEW a, \A e \in DOMAIN a.entries : Entry(a, e).declared = LengthAt(a, e)
  PROVE  Total(a) = DeclaredTotal(a)
<1>1. \A e \in DOMAIN a.entries : Taken(a, Entry(a, e)) = LengthAt(a, e)
  BY DEF Taken, LengthAt, FoundAt
<1>2. [e \in DOMAIN a.entries |-> Entry(a, e).declared] = [e \in DOMAIN a.entries |-> Taken(a, Entry(a, e))]
  BY <1>1
<1> QED
  BY <1>2 DEF Total, DeclaredTotal

HonestAt(a, e) ==
  LET r == FoundAt(a, e) IN
  /\ r.method \in {"stored", "deflated"} /\ ~r.encrypted /\ r.name # "unsafe"
  /\ r.method = "deflated" => Entry(a, e).size >= r.size
  /\ Entry(a, e).declared = LengthAt(a, e) /\ LengthAt(a, e) <= MaxEntry
  /\ Entry(a, e).checksum = Checksum(r, LengthAt(a, e))
  /\ LengthAt(a, e) > 0 => r.content \notin NativeFormats
  /\ a.docx => r.name # "vbaProject.bin" /\ (r.name = Types => "macro" \notin Within(a, Entry(a, e)))

LEMMA HonestIs ==
  ASSUME NEW a
  PROVE  Honest(a) <=> \A e \in DOMAIN a.entries : HonestAt(a, e)
<1> QED
  BY DEF Honest, HonestAt, LengthAt, Taken, FoundAt

LEMMA UnambiguousIs ==
  ASSUME NEW a, ArchiveShape(a)
  PROVE  Unambiguous(a) <=> /\ a.end = "fine" /\ Tiles(a)
                            /\ \A e \in DOMAIN a.entries : Agrees(a, Entry(a, e))
<1>1. Unambiguous(a) <=> /\ a.end = "fine"
                         /\ \A e \in DOMAIN a.entries : Agrees(a, Entry(a, e))
                         /\ \A u \in 0..(CentralOffset(a) - 1) : InOne(a, u)
  BY DEF Unambiguous, InOne
<1> QED
  BY <1>1, AgreeingFit, TilesIffCovered

(* An honest entry passes what is asked of each, and the other way round. *)
LEMMA HonestPasses ==
  ASSUME NEW a, ArchiveShape(a), NEW e \in DOMAIN a.entries, Agrees(a, Entry(a, e)), HonestAt(a, e)
  PROVE  Declarable(Entry(a, e)) /\ GenuineAt(a, e)
<1>1. PICK x, r, n : x = Entry(a, e) /\ r = FoundAt(a, e) /\ n = LengthAt(a, e)
  OBVIOUS
<1>2. r.name = x.name /\ r.method = x.method /\ r.encrypted = x.encrypted
  BY <1>1, FoundIsRecord
<1>3. /\ r.method \in {"stored", "deflated"} /\ ~r.encrypted /\ r.name # "unsafe"
      /\ r.method = "deflated" => x.size >= r.size
      /\ x.declared = n /\ n <= MaxEntry /\ x.checksum = Checksum(r, n)
      /\ n > 0 => r.content \notin NativeFormats
      /\ a.docx => (r.name = Types => "macro" \notin Within(a, x))
  BY <1>1 DEF HonestAt
<1>4. Declarable(x)
  BY <1>2, <1>3 DEF Declarable
<1>5. GenuineAt(a, e)
  BY <1>1, <1>2, <1>3 DEF GenuineAt
<1> QED
  BY <1>1, <1>4, <1>5

LEMMA GenuineIsHonest ==
  ASSUME NEW a, ArchiveShape(a), NEW e \in DOMAIN a.entries, Agrees(a, Entry(a, e)),
         Declarable(Entry(a, e)), GenuineAt(a, e), a.docx => "vbaProject.bin" \notin Names(a)
  PROVE  HonestAt(a, e)
<1>1. PICK x, r, n : x = Entry(a, e) /\ r = FoundAt(a, e) /\ n = LengthAt(a, e)
  OBVIOUS
<1>2. r.name = x.name /\ r.method = x.method /\ r.encrypted = x.encrypted
  BY <1>1, FoundIsRecord
<1>3. /\ x.method = "deflated" => x.size >= r.size
      /\ n = x.declared /\ x.checksum = Checksum(r, n)
      /\ ~(n > 0 /\ Sniffed(r.content) = "executable" /\ r.content \in NativeFormats)
      /\ ~(a.docx /\ x.name = Types /\ "macro" \in Within(a, x))
  BY <1>1 DEF GenuineAt
<1>4. n > 0 => r.content \notin NativeFormats
  BY <1>3 DEF NativeFormats, Sniffed
<1>5. ~x.encrypted /\ x.method \in {"stored", "deflated"} /\ x.name # "unsafe" /\ x.declared <= MaxEntry
  BY <1>1 DEF Declarable
<1>6. a.docx => r.name # "vbaProject.bin"
  BY <1>1, <1>2 DEF Names
<1> QED
  BY <1>1, <1>2, <1>3, <1>4, <1>5, <1>6 DEF HonestAt

LEMMA AcceptablePasses ==
  ASSUME NEW a, ArchiveShape(a), Acceptable(a)
  PROVE  /\ CheckPasses(a) /\ Total(a) = DeclaredTotal(a)
         /\ \A e \in DOMAIN a.entries : GenuineAt(a, e)
         /\ DeclaredTotal(a) > RatioFloor => DeclaredTotal(a) <= MaxRatio * FileLength(a)
<1>1. /\ a.end = "fine" /\ Tiles(a) /\ Len(a.entries) <= MaxEntries
      /\ \A e \in DOMAIN a.entries : Agrees(a, Entry(a, e)) /\ HonestAt(a, e)
      /\ Total(a) <= MaxTotal
      /\ a.docx => {Types, "word/document.xml"} \subseteq Names(a)
  BY UnambiguousIs, HonestIs DEF Acceptable
<1>2. \A e \in DOMAIN a.entries : Declarable(Entry(a, e)) /\ GenuineAt(a, e)
  BY <1>1, HonestPasses
<1>3. Total(a) = DeclaredTotal(a)
  <2>1. \A e \in DOMAIN a.entries : Entry(a, e).declared = LengthAt(a, e)
    BY <1>1 DEF HonestAt
  <2> QED
    BY <2>1, TotalIsDeclared
<1>4. a.docx => IsWord(a)
  <2> SUFFICES ASSUME a.docx PROVE IsWord(a)
    OBVIOUS
  <2>1. \A e \in DOMAIN a.entries : Entry(a, e).name # "vbaProject.bin"
    <3> SUFFICES ASSUME NEW e \in DOMAIN a.entries PROVE Entry(a, e).name # "vbaProject.bin"
      OBVIOUS
    <3>1. FoundAt(a, e).name = Entry(a, e).name
      BY <1>1, FoundIsRecord
    <3>2. FoundAt(a, e).name # "vbaProject.bin"
      BY <1>1 DEF HonestAt
    <3> QED
      BY <3>1, <3>2
  <2>2. "vbaProject.bin" \notin Names(a)
    BY <2>1 DEF Names
  <2> QED
    BY <1>1, <2>2 DEF IsWord
<1>5. CheckPasses(a)
  BY <1>1, <1>2, <1>3, <1>4 DEF CheckPasses, DirectoryReads
<1>6. DeclaredTotal(a) > RatioFloor => DeclaredTotal(a) <= MaxRatio * FileLength(a)
  BY <1>3 DEF Acceptable
<1> QED
  BY <1>2, <1>3, <1>5, <1>6

LEMMA PassingIsAcceptable ==
  ASSUME NEW a, ArchiveShape(a), CheckPasses(a), \A e \in DOMAIN a.entries : GenuineAt(a, e),
         DeclaredTotal(a) > RatioFloor => DeclaredTotal(a) <= MaxRatio * FileLength(a)
  PROVE  Acceptable(a)
<1>1. /\ a.end = "fine" /\ Tiles(a) /\ Len(a.entries) <= MaxEntries
      /\ \A e \in DOMAIN a.entries : Agrees(a, Entry(a, e)) /\ Declarable(Entry(a, e))
      /\ DeclaredTotal(a) <= MaxTotal
      /\ a.docx => "vbaProject.bin" \notin Names(a) /\ {Types, "word/document.xml"} \subseteq Names(a)
  BY DEF CheckPasses, DirectoryReads, IsWord
<1>2. \A e \in DOMAIN a.entries : HonestAt(a, e)
  BY <1>1, GenuineIsHonest
<1>3. Total(a) = DeclaredTotal(a)
  <2>1. \A e \in DOMAIN a.entries : Entry(a, e).declared = LengthAt(a, e)
    BY <1>2 DEF HonestAt
  <2> QED
    BY <2>1, TotalIsDeclared
<1>4. Unambiguous(a) /\ Honest(a)
  BY <1>1, <1>2, UnambiguousIs, HonestIs
<1> QED
  BY <1>1, <1>3, <1>4 DEF Acceptable

-----------------------------------------------------------------------------
(* What is behind a record is not before it. *)
LEMMA SumsOrdered ==
  ASSUME NEW w \in Seq(Nat \ {0}), NEW i \in 1..Len(w), NEW k \in 1..Len(w), i < k
  PROVE  Sums(w)[i] <= Sums(w)[k - 1]
<1>1. PICK h : h = Sums(w)
  OBVIOUS
<1>2. /\ Len(w) \in Nat /\ \A n \in 0..Len(w) : h[n] \in Nat
      /\ \A n \in 1..Len(w) : h[n] = h[n - 1] + w[n] /\ w[n] \in Nat
  <2>1. w \in Seq(Nat)
    OBVIOUS
  <2> QED
    BY <1>1, <2>1, SumsGrow
<1> DEFINE Wrong == {n \in Nat : n < Len(w) /\ i <= n /\ ~(h[i] <= h[n])}
<1>3. Wrong = {}
  <2> SUFFICES ASSUME Wrong # {} PROVE FALSE
    OBVIOUS
  <2>1. PICK n \in Wrong : \A j \in Wrong : n <= j
    <3>1. Wrong \in SUBSET Nat
      OBVIOUS
    <3> HIDE DEF Wrong
    <3> QED
      BY <3>1, LeastNumber
  <2>2. n \in Nat /\ n < Len(w) /\ i <= n /\ ~(h[i] <= h[n])
    OBVIOUS
  <2>3. n # i /\ h[i] \in Nat
    BY <1>2, <2>2
  <2>4. n - 1 \in Nat /\ n - 1 \notin Wrong /\ n - 1 < Len(w) /\ i <= n - 1 /\ n \in 1..Len(w)
    BY <1>2, <2>1, <2>2, <2>3
  <2>5. h[i] <= h[n - 1]
    BY <2>4
  <2>6. h[n] = h[n - 1] + w[n] /\ w[n] \in Nat /\ h[n - 1] \in Nat
    BY <1>2, <2>4
  <2> QED
    BY <2>2, <2>3, <2>5, <2>6
<1>4. k - 1 \in Nat /\ k - 1 < Len(w) /\ i <= k - 1
  BY <1>2
<1> QED
  BY <1>1, <1>3, <1>4

LEMMA RecordsApart ==
  ASSUME NEW a, ArchiveShape(a), NEW i \in DOMAIN a.records, NEW k \in DOMAIN a.records,
         Start(a, k) <= Start(a, i), Start(a, i) < Ends(a)[k]
  PROVE  i = k
<1>1. PICK m \in Nat : m = Len(a.records) /\ DOMAIN a.records = 1..m /\ \A j \in 1..m : a.records[j] \in Records
  BY DEF ArchiveShape
<1>2. PICK w : w = [j \in DOMAIN a.records |-> SizeOf(a.records[j])]
  OBVIOUS
<1>3. w \in [1..m -> Nat \ {0}]
  BY <1>1, <1>2, RecordFacts
<1>4. w \in Seq(Nat \ {0}) /\ w \in Seq(Nat) /\ Len(w) = m
  BY <1>3
<1>5. PICK h : h = Sums(w) /\ h = Ends(a)
  BY <1>2 DEF Ends
<1>6. /\ \A n \in 0..m : h[n] \in Nat
      /\ \A n \in 1..m : h[n] = h[n - 1] + w[n] /\ w[n] \in Nat \ {0}
  BY <1>3, <1>4, <1>5, SumsGrow
<1>7. i \in 1..m /\ k \in 1..m /\ h[k - 1] <= h[i - 1] /\ h[i - 1] < h[k]
  BY <1>1, <1>5 DEF Start
<1>8. /\ i - 1 \in 0..m /\ k - 1 \in 0..m /\ h[i - 1] \in Nat /\ h[k - 1] \in Nat /\ h[i] \in Nat /\ h[k] \in Nat
      /\ h[i] > h[i - 1] /\ h[k] > h[k - 1]
  BY <1>6, <1>7
<1>9. ~(i < k)
  <2> SUFFICES ASSUME i < k PROVE FALSE
    OBVIOUS
  <2>1. h[i] <= h[k - 1]
    BY <1>4, <1>5, <1>7, SumsOrdered
  <2> QED
    BY <1>7, <1>8, <2>1
<1>10. ~(k < i)
  <2> SUFFICES ASSUME k < i PROVE FALSE
    OBVIOUS
  <2>1. h[k] <= h[i - 1]
    BY <1>4, <1>5, <1>7, SumsOrdered
  <2> QED
    BY <1>7, <1>8, <2>1
<1> QED
  BY <1>7, <1>9, <1>10

(* Where the data of the entries end as those of their records do, the header of *)
(* every record is in an entry, which can only be its own.                       *)
LEMMA SizedHidesNothing ==
  ASSUME NEW a, ArchiveShape(a), Unambiguous(a), SizesAgree(a)
  PROVE  NothingHidden(a)
<1> SUFFICES ASSUME NEW i \in DOMAIN a.records
             PROVE  a.records[i].content # "gap" /\ \E e \in DOMAIN a.entries : Entry(a, e).at = Start(a, i)
  BY DEF NothingHidden
<1>1. PICK u : u = Start(a, i)
  OBVIOUS
<1>2. u \in 0..(CentralOffset(a) - 1)
  <2>1. PICK m \in Nat : m = Len(a.records) /\ DOMAIN a.records = 1..m /\ \A j \in 1..m : a.records[j] \in Records
    BY DEF ArchiveShape
  <2>2. PICK w : w = [j \in DOMAIN a.records |-> SizeOf(a.records[j])]
    OBVIOUS
  <2>3. w \in [1..m -> Nat \ {0}]
    BY <2>1, <2>2, RecordFacts
  <2>4. w \in Seq(Nat) /\ Len(w) = m
    BY <2>3
  <2>5. PICK h : h = Sums(w) /\ h = Ends(a)
    BY <2>2 DEF Ends
  <2>6. i \in 1..m /\ h[i] = h[i - 1] + w[i] /\ w[i] \in Nat \ {0} /\ h[i] <= h[m] /\ h[m] \in Nat
        /\ h[i - 1] \in Nat
    <3>1. i \in 1..m /\ i \in 0..m /\ i - 1 \in 0..m /\ m \in 0..m
      BY <2>1
    <3> QED
      BY <2>3, <2>4, <2>5, <3>1, SumsGrow
  <2>7. u = h[i - 1] /\ CentralOffset(a) = h[m]
    BY <1>1, <2>1, <2>5 DEF Start, CentralOffset
  <2> QED
    BY <2>6, <2>7
<1>3. PICK e \in DOMAIN a.entries : Entry(a, e).at <= u /\ u < EndOf(Entry(a, e))
  <2>1. PICK A : A = {e \in DOMAIN a.entries : Entry(a, e).at <= u /\ u < EndOf(Entry(a, e))}
    OBVIOUS
  <2>2. Cardinality(A) = 1
    BY <1>2, <2>1 DEF Unambiguous
  <2>3. A # {}
    BY <2>2, FS_EmptySet
  <2> QED
    BY <2>1, <2>3
<1>4. PICK k : k = RecordAt(a, Entry(a, e).at)
  OBVIOUS
<1>5. k # 0
  <2>1. Agrees(a, Entry(a, e))
    BY DEF Unambiguous
  <2> QED
    BY <1>4, <2>1 DEF Agrees
<1>6. k \in DOMAIN a.records /\ Start(a, k) = Entry(a, e).at /\ a.records[k].content # "gap"
  BY <1>4, <1>5 DEF RecordAt
<1>7. EndOf(Entry(a, e)) = Ends(a)[k]
  BY <1>4 DEF SizesAgree
<1>8. i = k
  BY <1>1, <1>3, <1>6, <1>7, RecordsApart
<1> QED
  BY <1>6, <1>8

-----------------------------------------------------------------------------
(* An archive on its way: what was looked at is genuine, and what was inflated *)
(* is what it declared.                                                       *)

OnTheWay ==
  /\ CheckPasses(archive) /\ current \in DOMAIN archive.entries
  /\ \A e \in DOMAIN archive.entries : e < current => GenuineAt(archive, e)
  /\ inflated = Sums(Declares(archive))[current - 1]
  /\ produced <= Entry(archive, current).declared /\ produced <= LengthAt(archive, current)

ArchiveInv ==
  /\ ArchiveShape(archive) /\ verdict \in {"none", "pending", "ok", "rejected"}
  /\ produced \in Nat /\ inflated \in Nat
  /\ verdict = "none" => produced = 0 /\ inflated = 0
  /\ verdict = "pending" => OnTheWay
  /\ ArchivesAreSound

(* The limit of the entry that is inflated is what it declares: the budget of the *)
(* archive never comes first.                                                     *)
LEMMA EntryOnTheWay ==
  ASSUME ArchiveShape(archive), OnTheWay
  PROVE  /\ Limit = Declared.declared /\ Declared.declared \in Nat
         /\ Length = LengthAt(archive, current) /\ Length \in Nat
         /\ inflated + Declared.declared = Sums(Declares(archive))[current]
         /\ inflated + Declared.declared <= DeclaredTotal(archive)
         /\ inflated + Declared.declared <= MaxTotal
         /\ current \in Nat \ {0} /\ inflated \in Nat
         /\ (Genuine <=> GenuineAt(archive, current))
<1>1. PICK m \in Nat : m = Len(archive.entries) /\ DOMAIN archive.entries = 1..m
  BY DeclaresFacts
<1>2. PICK w \in Seq(Nat) : w = Declares(archive) /\ Len(w) = m
  BY <1>1, DeclaresFacts
<1>3. current \in 1..m /\ Declared = Entry(archive, current) /\ w[current] = Declared.declared
  BY <1>1, <1>2 DEF OnTheWay, Declared, Declares
<1>4. Declared.declared \in Nat /\ Declared.size \in Nat
  BY <1>1, <1>3, EntryFacts
<1>5. PICK h : h = Sums(w)
  OBVIOUS
<1>6. /\ \A n \in 0..m : h[n] \in Nat /\ h[n] <= h[m]
      /\ \A n \in 1..m : h[n] = h[n - 1] + w[n]
  BY <1>2, <1>5, SumsGrow
<1>7. current - 1 \in 0..m /\ current \in 0..m /\ m \in 0..m
  BY <1>3
<1>8. inflated = h[current - 1] /\ DeclaredTotal(archive) = h[m]
  BY <1>1, <1>2, <1>5, DeclaresFacts DEF OnTheWay
<1>9. inflated \in Nat /\ inflated + Declared.declared = h[current] /\ h[current] <= h[m] /\ h[m] \in Nat
  BY <1>3, <1>6, <1>7, <1>8
<1>10. h[m] <= MaxTotal
  BY <1>8 DEF OnTheWay, CheckPasses
<1>11. Declared.declared <= MaxEntry
  BY <1>1, <1>3 DEF OnTheWay, CheckPasses, Declarable
<1>12. Limit = Declared.declared
  BY SMTT(40), <1>4, <1>9, <1>10, <1>11, LimitsAreNumbers DEF Limit, Budget
<1>13. Found = FoundAt(archive, current)
  BY <1>3 DEF Found, FoundAt
<1>14. Length = LengthAt(archive, current)
  BY <1>3, <1>13 DEF Length, LengthAt
<1>15. Length \in Nat
  <2>1. Agrees(archive, Entry(archive, current))
    BY <1>1, <1>3 DEF OnTheWay, CheckPasses
  <2>2. FoundAt(archive, current) \in Records
    BY <1>1, <1>3, <2>1, FoundIsRecord
  <2>3. Found.out \in Nat
    BY <1>13, <2>2, RecordFacts
  <2> QED
    BY <1>4, <2>3 DEF Length, Yields
<1>16. Genuine <=> GenuineAt(archive, current)
  BY <1>3, <1>13, <1>14 DEF Genuine, GenuineAt
<1> QED
  BY SMTT(40), <1>2, <1>3, <1>4, <1>5, <1>8, <1>9, <1>10, <1>12, <1>14, <1>15, <1>16, LimitsAreNumbers

LEMMA ArchiveInitial == ArchiveInit => ArchiveInv
<1> SUFFICES ASSUME ArchiveInit PROVE ArchiveInv
  OBVIOUS
<1>1. verdict = "none" /\ produced = 0 /\ inflated = 0
  BY DEF ArchiveInit
<1> QED
  BY <1>1, FilesHaveShape, LimitsAreNumbers DEF ArchiveInv, ArchivesAreSound

LEMMA CheckKeeps == ArchiveInv /\ Check => ArchiveInv'
<1> SUFFICES ASSUME ArchiveInv, Check PROVE ArchiveInv'
  OBVIOUS
<1>1. /\ archive' = archive /\ ArchiveShape(archive) /\ current' = 1
      /\ produced = 0 /\ inflated = 0 /\ produced' = 0 /\ inflated' = 0
  BY DEF ArchiveInv, Check
<1>2. verdict' = IF ~CheckPasses(archive) THEN "rejected" ELSE IF archive.entries = <<>> THEN "ok" ELSE "pending"
  BY DEF Check, CheckPasses
<1>3. PICK m \in Nat : m = Len(archive.entries) /\ DOMAIN archive.entries = 1..m
  BY <1>1, DeclaresFacts
<1>4. Declares(archive) \in Seq(Nat) /\ Sums(Declares(archive))[0] = 0
      /\ DeclaredTotal(archive) = Sums(Declares(archive))[m]
  BY <1>1, <1>3, DeclaresFacts, SumsGrow
<1>5. CASE ~CheckPasses(archive)
  <2>1. verdict' = "rejected" /\ ~Acceptable(archive)
    BY <1>1, <1>2, <1>5, AcceptablePasses
  <2> QED
    BY <1>1, <2>1, LimitsAreNumbers DEF ArchiveInv, ArchivesAreSound
<1>6. CASE CheckPasses(archive) /\ archive.entries = <<>>
  <2>1. m = 0
    BY <1>3, <1>6
  <2>2. DeclaredTotal(archive) = 0
    BY <1>4, <2>1
  <2>3. Acceptable(archive)
    <3>1. ~(DeclaredTotal(archive) > RatioFloor)
      BY <2>2, LimitsAreNumbers
    <3>2. \A e \in DOMAIN archive.entries : GenuineAt(archive, e)
      BY <1>3, <2>1
    <3> QED
      BY <1>1, <1>6, <3>1, <3>2, PassingIsAcceptable
  <2>4. verdict' = "ok"
    BY <1>2, <1>6
  <2>5. SizesAgree(archive) => NothingHidden(archive)
    BY <1>1, <2>3, SizedHidesNothing DEF Acceptable
  <2> QED
    BY <1>1, <2>3, <2>4, <2>5, LimitsAreNumbers DEF ArchiveInv, ArchivesAreSound
<1>7. CASE CheckPasses(archive) /\ archive.entries # <<>>
  <2>1. verdict' = "pending"
    BY <1>2, <1>7
  <2>2. 1 \in DOMAIN archive.entries /\ m # 0
    <3>1. m # 0
      BY <1>1, <1>3, <1>7 DEF ArchiveShape
    <3> QED
      BY <1>3, <3>1
  <2>3. Entry(archive, 1).declared \in Nat /\ Entry(archive, 1).size \in Nat
    BY <1>1, <2>2, EntryFacts
  <2>4. LengthAt(archive, 1) \in Nat
    <3>1. FoundAt(archive, 1) \in Records
      BY <1>1, <1>7, <2>2, FoundIsRecord DEF CheckPasses
    <3> QED
      BY <2>3, <3>1, RecordFacts DEF LengthAt, Yields
  <2>5. \A e \in DOMAIN archive.entries : ~(e < 1)
    BY <1>3
  <2>6. OnTheWay'
    BY <1>1, <1>4, <1>7, <2>2, <2>3, <2>4, <2>5 DEF OnTheWay
  <2> QED
    BY <1>1, <2>1, <2>6, LimitsAreNumbers DEF ArchiveInv, ArchivesAreSound
<1> QED
  BY <1>5, <1>6, <1>7

LEMMA InflateKeeps == ArchiveInv /\ Inflate => ArchiveInv'
<1> SUFFICES ASSUME ArchiveInv, Inflate PROVE ArchiveInv'
  OBVIOUS
<1>1. /\ archive' = archive /\ ArchiveShape(archive) /\ current' = current /\ inflated' = inflated
      /\ verdict = "pending" /\ produced \in Nat /\ inflated \in Nat /\ OnTheWay /\ produced < Length
      /\ produced' = produced + 1 /\ verdict' = IF produced' > Limit THEN "rejected" ELSE "pending"
  BY DEF ArchiveInv, Inflate
<1>2. /\ Limit = Declared.declared /\ Declared.declared \in Nat
      /\ Length = LengthAt(archive, current) /\ Length \in Nat
      /\ inflated + Declared.declared <= MaxTotal
  BY <1>1, EntryOnTheWay
<1>3. Declared = Entry(archive, current) /\ current \in DOMAIN archive.entries
  BY <1>1 DEF Declared, OnTheWay
<1>4. produced <= Declared.declared
  BY <1>1, <1>3 DEF OnTheWay
<1>5. produced' \in Nat /\ produced' <= Length /\ produced' <= Declared.declared + 1
  BY <1>1, <1>2, <1>4
<1>6. inflated' + produced' <= MaxTotal + 1
  BY <1>1, <1>2, <1>5, LimitsAreNumbers
<1>7. CASE produced' > Limit
  <2>1. ~Acceptable(archive)
    <3> SUFFICES ASSUME Acceptable(archive) PROVE FALSE
      OBVIOUS
    <3>1. GenuineAt(archive, current)
      BY <1>1, <1>3, AcceptablePasses
    <3>2. LengthAt(archive, current) = Declared.declared
      BY <1>3, <3>1 DEF GenuineAt
    <3> QED
      BY <1>2, <1>5, <1>7, <3>2
  <2>2. verdict' = "rejected"
    BY <1>1, <1>7
  <2> QED
    BY <1>1, <1>5, <1>6, <2>1, <2>2 DEF ArchiveInv, ArchivesAreSound
<1>8. CASE ~(produced' > Limit)
  <2>1. verdict' = "pending" /\ produced' <= Declared.declared
    BY <1>1, <1>2, <1>5, <1>8
  <2>2. OnTheWay'
    BY <1>1, <1>2, <1>3, <1>5, <2>1 DEF OnTheWay
  <2> QED
    BY <1>1, <1>5, <1>6, <2>1, <2>2 DEF ArchiveInv, ArchivesAreSound
<1> QED
  BY <1>7, <1>8

LEMMA FinishKeeps == ArchiveInv /\ Finish => ArchiveInv'
<1> SUFFICES ASSUME ArchiveInv, Finish PROVE ArchiveInv'
  OBVIOUS
<1>1. /\ archive' = archive /\ ArchiveShape(archive) /\ verdict = "pending" /\ OnTheWay
      /\ produced' = 0 /\ current' = current + 1
      /\ IF Length <= Limit /\ Genuine
           THEN /\ inflated' = inflated + Length
                /\ verdict' = IF Bomb(inflated') THEN "rejected"
                              ELSE IF current < Len(archive.entries) THEN "pending" ELSE "ok"
         ELSE verdict' = "rejected" /\ inflated' = inflated
  BY DEF ArchiveInv, Finish
<1>2. /\ Limit = Declared.declared /\ Declared.declared \in Nat
      /\ Length = LengthAt(archive, current) /\ Length \in Nat
      /\ inflated + Declared.declared = Sums(Declares(archive))[current]
      /\ inflated + Declared.declared <= DeclaredTotal(archive)
      /\ inflated + Declared.declared <= MaxTotal
      /\ current \in Nat \ {0} /\ inflated \in Nat
      /\ (Genuine <=> GenuineAt(archive, current))
  BY <1>1, EntryOnTheWay
<1>3. /\ Declared = Entry(archive, current) /\ current \in DOMAIN archive.entries
      /\ \A e \in DOMAIN archive.entries : e < current => GenuineAt(archive, e)
      /\ CheckPasses(archive)
  BY <1>1 DEF Declared, OnTheWay
<1>4. Genuine => Length = Declared.declared /\ Length <= Limit
  BY <1>2, <1>3 DEF GenuineAt
<1>5. DeclaredTotal(archive) \in Nat /\ MaxTotal \in Nat
  BY <1>1, DeclaresFacts, LimitsAreNumbers
<1>6. CASE ~(Length <= Limit /\ Genuine)
  <2>1. verdict' = "rejected" /\ inflated' = inflated
    BY <1>1, <1>6
  <2>2. ~Acceptable(archive)
    BY <1>1, <1>2, <1>3, <1>4, <1>6, AcceptablePasses
  <2>3. inflated' \in Nat /\ inflated' + produced' <= MaxTotal + 1
    BY <1>1, <1>2, <1>5, <2>1
  <2> QED
    BY <1>1, <2>1, <2>2, <2>3 DEF ArchiveInv, ArchivesAreSound
<1>7. CASE Length <= Limit /\ Genuine
  <2>1. inflated' = Sums(Declares(archive))[current] /\ inflated' \in Nat /\ inflated' <= DeclaredTotal(archive)
        /\ inflated' + produced' <= MaxTotal + 1
    BY <1>1, <1>2, <1>4, <1>5, <1>7
  <2>2. PICK much \in Nat : much = MaxRatio * FileLength(archive)
    BY <1>1, EndsFacts, LimitsAreNumbers
  <2>3. PICK m \in Nat : m = Len(archive.entries) /\ DOMAIN archive.entries = 1..m
    BY <1>1, DeclaresFacts
  <2>4. \A e \in DOMAIN archive.entries : e < current + 1 => GenuineAt(archive, e)
    BY <1>2, <1>3, <1>7, <2>3
  <2>5. CASE Bomb(inflated')
    <3>1. ~Acceptable(archive)
      <4> SUFFICES ASSUME Acceptable(archive) PROVE FALSE
        OBVIOUS
      <4>1. inflated' > RatioFloor /\ inflated' > much
        BY <1>1, <2>2, <2>5 DEF Bomb
      <4>2. DeclaredTotal(archive) > RatioFloor => DeclaredTotal(archive) <= much
        BY <1>1, <2>2, AcceptablePasses
      <4> QED
        BY <1>5, <2>1, <4>1, <4>2, LimitsAreNumbers
    <3>2. verdict' = "rejected"
      BY <1>1, <1>7, <2>5
    <3> QED
      BY <1>1, <2>1, <3>1, <3>2 DEF ArchiveInv, ArchivesAreSound
  <2>6. CASE ~Bomb(inflated') /\ current < m
    <3>1. verdict' = "pending"
      BY <1>1, <1>7, <2>3, <2>6
    <3>2. PICK n \in 1..m : n = current + 1 /\ n - 1 = current
      BY <1>2, <2>3, <2>6
    <3>3. Entry(archive, n).declared \in Nat /\ Entry(archive, n).size \in Nat
      BY <1>1, <2>3, EntryFacts
    <3>4. FoundAt(archive, n) \in Records
      BY <1>1, <1>3, <2>3, FoundIsRecord DEF CheckPasses
    <3>5. LengthAt(archive, n) \in Nat
      BY <3>3, <3>4, RecordFacts DEF LengthAt, Yields
    <3>6. OnTheWay'
      BY <1>1, <1>3, <2>1, <2>3, <2>4, <3>2, <3>3, <3>5 DEF OnTheWay
    <3> QED
      BY <1>1, <2>1, <3>1, <3>6 DEF ArchiveInv, ArchivesAreSound
  <2>7. CASE ~Bomb(inflated') /\ ~(current < m)
    <3>1. current = m
      BY <1>2, <1>3, <2>3, <2>7
    <3>2. \A e \in DOMAIN archive.entries : GenuineAt(archive, e)
      BY <2>3, <2>4, <3>1
    <3>3. inflated' = DeclaredTotal(archive)
      BY <1>1, <2>1, <2>3, <3>1, DeclaresFacts
    <3>4. DeclaredTotal(archive) > RatioFloor => DeclaredTotal(archive) <= much
      BY <1>1, <2>1, <2>2, <2>7, <3>3 DEF Bomb
    <3>5. Acceptable(archive)
      BY <1>1, <1>3, <2>2, <3>2, <3>4, PassingIsAcceptable
    <3>6. SizesAgree(archive) => NothingHidden(archive)
      BY <1>1, <3>5, SizedHidesNothing DEF Acceptable
    <3>7. verdict' = "ok"
      BY <1>1, <1>7, <2>3, <2>7
    <3> QED
      BY <1>1, <2>1, <3>5, <3>6, <3>7 DEF ArchiveInv, ArchivesAreSound
  <2> QED
    BY <2>5, <2>6, <2>7
<1> QED
  BY <1>6, <1>7

(* An archive is accepted exactly if its entries share out the file, every unit to  *)
(* one, and what each gives is as declared and small enough; no record is hidden in *)
(* one whose entries end where their records do; and inflating stops within a chunk *)
(* of the limit, whatever the entries declare (zip-inspection.ts).  Checking and    *)
(* inflating go by the entries in order; what makes an archive acceptable knows no  *)
(* order.                                                                           *)
THEOREM ArchivesAlwaysSound == ArchiveSpec => []ArchivesAreSound
<1>1. ArchiveInit => ArchiveInv
  BY ArchiveInitial
<1>2. ArchiveInv /\ [ArchiveNext]_archiveVars => ArchiveInv'
  <2>1. ArchiveInv /\ UNCHANGED archiveVars => ArchiveInv'
    <3> SUFFICES ASSUME ArchiveInv, UNCHANGED archiveVars PROVE ArchiveInv'
      OBVIOUS
    <3>1. archive' = archive /\ verdict' = verdict /\ current' = current /\ produced' = produced /\ inflated' = inflated
      BY DEF archiveVars
    <3> QED
      BY <3>1 DEF ArchiveInv, ArchivesAreSound, OnTheWay
  <2> QED
    BY <2>1, CheckKeeps, InflateKeeps, FinishKeeps DEF ArchiveNext
<1>3. ArchiveInv => ArchivesAreSound
  BY DEF ArchiveInv
<1> QED
  BY <1>1, <1>2, <1>3, PTL DEF ArchiveSpec
=============================================================================
