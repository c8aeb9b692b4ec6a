----------------------------- MODULE MCBrowser -----------------------------
(***************************************************************************)
(* What runs outside the API, and calls it over a network on which calls   *)
(* are lost, late and answered out of order: in a browser the account a    *)
(* tab shows, its cart and how it comes to its page, the video that two    *)
(* tabs play, the private files of a draft, the video of a course that is  *)
(* sent in parts and the password that is chosen, and in the workflow the  *)
(* release of the API and the frontend.                                    *)
(* They share no state here, so a behaviour of this module is a behaviour  *)
(* of one of them, which `part' names, while the others stay in an         *)
(* initial state.                                                          *)
(***************************************************************************)
EXTENDS Client, Basket, Watch, Uploader, VideoSender, Passwords, Entrance, Release

(* The parts never meet, so accounts, playback sessions, chosen files and   *)
(* video files share model values.                                         *)
Symmetry == Permutations(PlaySessions \cup Chosen \cup Sources)

(* The words of the lists and the names of the member, for Passwords.      *)
BlockedWords == {<<2, 1, 3, 2>>, <<3, 1>>, <<3, 5, 1>>}
Terms == {<<3, 3>>}
MemberNames == {<<9, 7, 2>>, <<3>>}

VARIABLE part   \* which of them goes on

(* Two acts and a fault, or one act and two: a rotation that comes back with the  *)
(* token of another tab's account needs a refusal and that tab.                   *)
Few == acts + faults <= 3

BrowserInit ==
  /\ part \in {"tab", "cart", "player", "files", "film", "password", "entrance", "release"}
  /\ ClientInit /\ BasketInit /\ WatchInit /\ UploaderInit /\ SenderInit /\ PasswordInit /\ EntranceInit /\ ReleaseInit
  /\ part # "tab" => clCookie = Nobody
  /\ part # "entrance" => place = "login"
  /\ part # "files" => page = "new"
  /\ part # "release" => main = 1 /\ \A c \in DOMAIN touches : touches[c] = "docs"

BrowserNext ==
  /\ UNCHANGED part
  /\ \/ /\ part = "tab" /\ ClientNext /\ Few'
        /\ UNCHANGED <<basketVars, watchVars, uploaderVars, senderVars, passwordVars, entranceVars, releaseVars>>
     \/ /\ part = "cart" /\ BasketNext
        /\ UNCHANGED <<clientVars, watchVars, uploaderVars, senderVars, passwordVars, entranceVars, releaseVars>>
     \/ /\ part = "player" /\ WatchNext
        /\ UNCHANGED <<clientVars, basketVars, uploaderVars, senderVars, passwordVars, entranceVars, releaseVars>>
     \/ /\ part = "files" /\ UploaderNext
        /\ UNCHANGED <<clientVars, basketVars, watchVars, senderVars, passwordVars, entranceVars, releaseVars>>
     \/ /\ part = "film" /\ SenderNext
        /\ UNCHANGED <<clientVars, basketVars, watchVars, uploaderVars, passwordVars, entranceVars, releaseVars>>
     \/ /\ part = "password" /\ PasswordNext
        /\ UNCHANGED <<clientVars, basketVars, watchVars, uploaderVars, senderVars, entranceVars, releaseVars>>
     \/ /\ part = "entrance" /\ EntranceNext
        /\ UNCHANGED <<clientVars, basketVars, watchVars, uploaderVars, senderVars, passwordVars, releaseVars>>
     \/ /\ part = "release" /\ ReleaseNext
        /\ UNCHANGED <<clientVars, basketVars, watchVars, uploaderVars, senderVars, passwordVars, entranceVars>>

BrowserSpec ==
  BrowserInit
    /\ [][BrowserNext]_<<part, clientVars, basketVars, watchVars, uploaderVars, senderVars, passwordVars,
                           entranceVars, releaseVars>>
=============================================================================
