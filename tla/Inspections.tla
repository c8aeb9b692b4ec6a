---- MODULE Inspections ----
(* The inspection of uploads in one process: slots that bound how many run at     *)
(* once, the reads of an object that a browser may replace meanwhile, and the     *)
(* conversation with the malware scanner over a socket, which may answer early,   *)
(* late, in parts or not at all.  What comes before and after, the rows and their *)
(* transactions, is Uploads; what an archive has to be is Archives.               *)
EXTENDS Naturals, Sequences, FiniteSets

CONSTANTS
  Verifications, \* calls of verifyUploadedObject
  SlotLimit,     \* UPLOAD_INSPECTION_CONCURRENCY
  MaxVersions,   \* bound: how often the object is put
  Chunks,        \* chunks of an object
  Scanner        \* is a scanner configured?

ASSUME InspectionAssumption ==
  /\ SlotLimit \in Nat \ {0} /\ MaxVersions \in Nat \ {0} /\ Chunks \in Nat \ {0}
  /\ Scanner \in BOOLEAN /\ IsFiniteSet(Verifications)

VARIABLES
  object,    \* the versions that were put: what each is, by its ETag
  running,   \* the slots taken, as the limiter counts them
  queued,    \* the calls that wait for one
  check,     \* the calls
  socket     \* the scanner's connection of each call

inspectionVars == <<object, running, queued, check, socket>>

Natures == {"fine", "mislabelled", "infected"}
NoSocket == [sent |-> 0, ended |-> FALSE, reply |-> "", nul |-> FALSE, failed |-> FALSE, open |-> FALSE]
Idle == [step |-> "idle", etag |-> 0, video |-> FALSE, served |-> 0]

To(v, step) == check' = [check EXCEPT ![v].step = step]

InspectionInit ==
  /\ object = <<>>
  /\ running = 0 /\ queued = <<>>
  /\ check = [v \in Verifications |-> Idle]
  /\ socket = [v \in Verifications |-> NoSocket]

(* The browser puts the object, again and again while its URL lives. *)
PutObject(n) ==
  /\ Len(object) < MaxVersions /\ object' = Append(object, n)
  /\ UNCHANGED <<running, queued, check, socket>>

-----------------------------------------------------------------------------
(* createInspectionLimiter *)

(* A completion saw the object that is there, and asks for a slot. *)
AskForSlot(v, video) ==
  /\ check[v].step = "idle" /\ object # <<>>
  /\ IF running >= SlotLimit
       THEN queued' = Append(queued, v) /\ UNCHANGED running
       ELSE running' = running + 1 /\ UNCHANGED queued
  /\ check' = [check EXCEPT ![v] = [step |-> IF running >= SlotLimit THEN "queued" ELSE "reading",
                                    etag |-> Len(object), video |-> video, served |-> 0]]
  /\ UNCHANGED <<object, socket>>

(* Mutant: the slot is given back before the next one is woken. *)
Release_ThenWake(v, step) ==
  IF queued = <<>> THEN running' = running - 1 /\ To(v, step) /\ UNCHANGED queued
  ELSE /\ queued' = Tail(queued) /\ running' = running - 1
       /\ check' = [check EXCEPT ![v].step = step, ![Head(queued)].step = "reading"]

(* finally: the slot is handed to the one that waits the longest. *)
Release(v, step) ==
  IF queued = <<>> THEN running' = running - 1 /\ To(v, step) /\ UNCHANGED queued
  ELSE /\ queued' = Tail(queued) /\ UNCHANGED running
       /\ check' = [check EXCEPT ![v].step = step, ![Head(queued)].step = "reading"]

-----------------------------------------------------------------------------
(* inspectUpload *)

Current(v) == check[v].etag = Len(object)
Inspected(v) == object[check[v].etag]

(* The object is read if it is still the one that was seen; of a video only its    *)
(* first bytes.  Storage may fail.  Its signature and its archive are judged.      *)
Read(v) ==
  /\ check[v].step = "reading"
  /\ \/ Release(v, "failed")
     \/ /\ Current(v)
        /\ IF Inspected(v) = "mislabelled" THEN Release(v, "refused")
           ELSE IF ~Scanner THEN Release(v, "passed")
           ELSE To(v, "opening") /\ UNCHANGED <<running, queued>>
  /\ UNCHANGED <<object, socket>>

(* A video is read a second time for the scanner; a body in memory is not. *)
OpenScan(v) ==
  /\ check[v].step = "opening"
  /\ \/ /\ check[v].video /\ Release(v, "failed") /\ UNCHANGED socket
     \/ /\ check[v].video => Current(v)
        /\ To(v, "scanning") /\ UNCHANGED <<running, queued>>
        /\ socket' = [socket EXCEPT ![v] = [NoSocket EXCEPT !.open = TRUE]]
  /\ UNCHANGED object

-----------------------------------------------------------------------------
(* createClamdScanner *)

(* A chunk, and then the empty one; nothing is written to a socket that is gone.   *)
Write(v) ==
  /\ check[v].step = "scanning" /\ ~socket[v].ended
  /\ LET gone == socket[v].failed \/ ~socket[v].open IN
     socket' = [socket EXCEPT
       ![v].sent = IF gone \/ @ = Chunks THEN @ ELSE @ + 1,
       ![v].ended = gone \/ socket[v].sent = Chunks]
  /\ UNCHANGED <<object, running, queued, check>>

(* The stream of a video breaks off: the connection is closed with the error.      *)
StreamBreaks(v) ==
  /\ check[v].step = "scanning" /\ check[v].video /\ ~socket[v].ended
  /\ Release(v, "failed") /\ socket' = [socket EXCEPT ![v].open = FALSE]
  /\ UNCHANGED object

(* clamd clears a file only when it has all of it, and may find something or give  *)
(* up before; its answer ends with a NUL, which may come later or never.           *)
ClamdAnswers(v) ==
  /\ check[v].step = "scanning" /\ socket[v].open
  /\ \/ /\ socket[v].reply = ""
        /\ \E said \in {"OK", "FOUND", "ERROR"}, nul \in BOOLEAN :
             /\ said = "OK" => Inspected(v) # "infected" /\ socket[v].ended /\ socket[v].sent = Chunks
             /\ said = "FOUND" => Inspected(v) = "infected" /\ socket[v].sent > 0
             /\ socket' = [socket EXCEPT ![v].reply = said, ![v].nul = nul]
     \/ socket[v].reply # "" /\ ~socket[v].nul /\ socket' = [socket EXCEPT ![v].nul = TRUE]
  /\ UNCHANGED <<object, running, queued, check>>

(* clamd hangs up; the connection breaks, is refused, or is silent for too long.   *)
SocketCloses(v) ==
  /\ check[v].step = "scanning" /\ socket[v].open
  /\ \E failed \in BOOLEAN : socket' = [socket EXCEPT ![v].open = FALSE, ![v].failed = failed]
  /\ UNCHANGED <<object, running, queued, check>>

(* parseClamdReply *)
Parsed(reply) == CASE reply = "OK" -> "passed" [] reply = "FOUND" -> "refused" [] OTHER -> "failed"

(* All is written and clamd has answered, or hung up.  Without a whole answer a    *)
(* failure counts; otherwise what was said does.                                   *)
Scanned(v) ==
  /\ check[v].step = "scanning" /\ socket[v].ended /\ (socket[v].nul \/ ~socket[v].open)
  /\ Release(v, IF ~socket[v].nul /\ socket[v].failed THEN "failed" ELSE Parsed(socket[v].reply))
  /\ socket' = [socket EXCEPT ![v].open = FALSE]
  /\ UNCHANGED object

-----------------------------------------------------------------------------
(* The object that was inspected is copied to the key that is served. *)
CopyInspected(v) ==
  /\ check[v].step = "passed"
  /\ \/ To(v, "failed")
     \/ /\ Current(v)
        /\ check' = [check EXCEPT ![v].step = "accepted", ![v].served = Len(object)]
  /\ UNCHANGED <<object, running, queued, socket>>

(* The owner completes the upload again. *)
CompleteAgain(v) ==
  /\ check[v].step = "failed" /\ Len(object) < MaxVersions
  /\ check' = [check EXCEPT ![v] = Idle] /\ socket' = [socket EXCEPT ![v] = NoSocket]
  /\ UNCHANGED <<object, running, queued>>

InspectionNext ==
  \/ \E n \in Natures : PutObject(n)
  \/ \E v \in Verifications :
       \/ \E video \in BOOLEAN : AskForSlot(v, video)
       \/ Read(v) \/ OpenScan(v) \/ Write(v) \/ StreamBreaks(v) \/ ClamdAnswers(v)
       \/ SocketCloses(v) \/ Scanned(v) \/ CopyInspected(v) \/ CompleteAgain(v)

InspectionSpec == InspectionInit /\ [][InspectionNext]_inspectionVars

-----------------------------------------------------------------------------
Inside == {v \in Verifications : check[v].step \in {"reading", "opening", "scanning"}}

(* No more inspections hold an upload in memory than there are slots, no slot is   *)
(* lost, and nobody waits for one that is free, whatever fails on the way; and     *)
(* what is accepted is the object that was judged, every chunk of which a          *)
(* configured scanner has cleared (upload-verification.ts:53-57 "a newcomer can    *)
(* never slip in ahead of the woken waiter"; malware-scan.ts:10-13 "Fail closed"). *)
InspectionsHold ==
  /\ running = Cardinality(Inside) /\ running <= SlotLimit
  /\ queued # <<>> => running = SlotLimit
  /\ \A v \in Verifications : check[v].step = "queued" <=> \E i \in DOMAIN queued : queued[i] = v
  /\ \A v \in Verifications : check[v].step = "accepted" =>
       /\ check[v].served = check[v].etag /\ Inspected(v) # "mislabelled"
       /\ Scanner => Inspected(v) = "fine" /\ socket[v].sent = Chunks /\ socket[v].reply = "OK"
====
