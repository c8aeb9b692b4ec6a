------------------------------ MODULE MCMarket ------------------------------
(***************************************************************************)
(* What members and administrators do with the market from their pages:    *)
(* points that are bought, listings and their review, the inspection of    *)
(* the files that are offered, actions that are confirmed with a key or a  *)
(* second factor, and lists that are read page by page.  They share no     *)
(* state here, so a behaviour of this module is a behaviour of one of      *)
(* them, which `part' names, while the others stay in one initial state.   *)
(***************************************************************************)
EXTENDS Lists, Listings, StepUp, Keyed, TopUpDesk, Archives, Inspections, TLC

(* The parts never meet, so dialogs, clicks and files share model values,  *)
(* which may be exchanged together, and payloads among themselves.         *)
MarketSymmetry ==
  {f @@ g : f \in Permutations(Dialogs \cup Clicks \cup ListingFiles \cup Verifications), g \in Permutations(Payloads)}

NoArchive == [records |-> <<>>, entries |-> <<>>, end |-> "fine", docx |-> FALSE]

VARIABLE part

MarketInit ==
  /\ part \in {"list", "listing", "step up", "dialogs", "desk", "archive", "inspection"}
  /\ part # "list" => /\ list = "wallet" /\ api = "new" /\ listed = {} /\ open = {}
                      /\ at = [r \in ListRows |-> CHOOSE t \in Instants : TRUE]
  /\ part # "listing" => kind = "course" /\ terms = CHOOSE t \in Terms : TRUE
  /\ part # "dialogs" => purpose = [d \in Dialogs |-> "report"]
  /\ part # "desk" => account = CHOOSE a \in DeskAccounts : TRUE
  /\ ListInit /\ ListingInit /\ StepUpInit /\ KeyedInit /\ DeskInit
  /\ InspectionInit
  /\ IF part = "archive" THEN ArchiveInit
     ELSE archive = NoArchive /\ verdict = "none" /\ current = 0 /\ produced = 0 /\ inflated = 0

MarketNext ==
  /\ UNCHANGED part
  /\ \/ /\ part = "list" /\ ListNext
        /\ UNCHANGED <<listingVars, stepUpVars, keyedVars, deskVars, archiveVars, inspectionVars>>
     \/ /\ part = "listing" /\ ListingNext
        /\ UNCHANGED <<listVars, stepUpVars, keyedVars, deskVars, archiveVars, inspectionVars>>
     \/ /\ part = "step up" /\ StepUpNext
        /\ UNCHANGED <<listVars, listingVars, keyedVars, deskVars, archiveVars, inspectionVars>>
     \/ /\ part = "dialogs" /\ KeyedNext
        /\ UNCHANGED <<listVars, listingVars, stepUpVars, deskVars, archiveVars, inspectionVars>>
     \/ /\ part = "desk" /\ DeskNext
        /\ UNCHANGED <<listVars, listingVars, stepUpVars, keyedVars, archiveVars, inspectionVars>>
     \/ /\ part = "archive" /\ ArchiveNext
        /\ UNCHANGED <<listVars, listingVars, stepUpVars, keyedVars, deskVars, inspectionVars>>
     \/ /\ part = "inspection" /\ InspectionNext
        /\ UNCHANGED <<listVars, listingVars, stepUpVars, keyedVars, deskVars, archiveVars>>

MarketSpec ==
  MarketInit
    /\ [][MarketNext]_<<part, listVars, listingVars, stepUpVars, keyedVars, deskVars,
                     archiveVars, inspectionVars>>
=============================================================================
