----------------------------- MODULE MCStorage -----------------------------
(***************************************************************************)
(* What is stored, private files and hosted videos: rows and objects agree *)
(* while handlers, workers and people race.  The two share no state, so a  *)
(* behaviour of this module is one of either, which `part' names.          *)
(***************************************************************************)
EXTENDS MCUploads, Video

VARIABLE part

(* The parts never meet, so they share model values: the exchange of two   *)
(* assets is one of two attempts, and requests are jobs (Symmetry).        *)

(* Either a served video is replaced, or one is transcoded with two jobs;  *)
(* while a behaviour is about files there is an old video that rests.      *)
StorageInit ==
  /\ Init /\ VideoInit
  /\ \/ /\ part \in {"one file", "two files"}
        /\ whole = {} /\ \A v \in Versions : version[v].status # "deleted"
     \/ /\ part = "films"
        /\ ReadyVersions # {} => \A v \in Versions : version[v].status # "deleted"
        /\ ReadyVersions = {} => \A v \in Versions : version[v].status # "none"

StorageNext ==
  /\ UNCHANGED part
  /\ \/ part # "films" /\ Next /\ UNCHANGED videoVars
     \/ part = "films" /\ VideoNext /\ UNCHANGED vars

StorageSpec == StorageInit /\ [][StorageNext]_<<part, vars, videoVars>>

(* One file or two, and two callbacks of the worker at a time. *)
Bounds ==
  CASE part = "one file" -> OneFile
    [] part = "two files" -> TwoFiles
    [] OTHER -> Cardinality({w \in Attempts : handler[w].pc # "idle"}) <= 2
=============================================================================
