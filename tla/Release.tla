------------------------------ MODULE Release -------------------------------
(***************************************************************************)
(* The staging release (.github/workflows/deploy-staging.yml with          *)
(* scripts/deployment of colearnx-v1.0).  One release runs at a time, as   *)
(* the concurrency group says.  It publishes an API on Render and then a   *)
(* frontend on Pages, two platforms that no transaction spans, while       *)
(* developers push to main and operators deploy, upload and migrate from   *)
(* the consoles.  Any step of a release may fail, and then nothing is      *)
(* rolled back.                                                            *)
(*                                                                         *)
(* A commit is its number on main and touches files of one kind.  The      *)
(* gateway and the video worker are reviewed by hand and not published     *)
(* here, so the model leaves them out.                                     *)
(***************************************************************************)
EXTENDS Integers, Sequences, FiniteSets, FiniteSetsExt, TLC

CONSTANTS
  FileKinds,     \* kinds of files that a commit may change
  MaxCommits,    \* commits that main reaches
  MaxDeploys,    \* deploys that Render ever has
  MaxUploads,    \* deployments that Pages ever has
  MaxReleases    \* releases that are dispatched

ASSUME ReleaseAssumption ==
  MaxCommits \in Nat \ {0} /\ {MaxDeploys, MaxUploads, MaxReleases} \subseteq Nat

VARIABLES
  touches,   \* commit -> the kind of files that it changes
  main,      \* the newest commit of the branch main
  deploys,   \* Render: id -> the commit that is deployed, and its status
  site,      \* Pages: the canonical deployment with the manifest it serves
  ledger,    \* migrations that the cloud database has
  release,   \* the release in progress, or the last one
  coherent   \* history: everything fitted at a moment after publication

releaseVars == <<touches, main, deploys, site, ledger, release, coherent>>

Commits == 1 .. MaxCommits
Ended == {"none", "failed", "succeeded"}
Published == {"smoke", "retained", "recheck", "final", "succeeded"}

(* The components that files of a kind belong to. *)
Affected ==
  [docs |-> {}, web |-> {"frontend"}, api |-> {"api"}, shared |-> {"frontend", "api"},
   database |-> {"frontend", "api", "database"}]

(* The last commit up to c that changed a component names its runtime code. *)
Code(component, c) ==
  Max({1} \cup {d \in 2 .. c : component \in Affected[touches[d]]})

Migrations(c) == Cardinality({d \in 2 .. c : "database" \in Affected[touches[d]]})

Artifact(c) == [commit |-> c, bytes |-> Code("frontend", c)]

(* A component changed between its baseline and the target.  A baseline    *)
(* that is no ancestor of the target has no diff.                          *)
HasDiff(base, target) == base \in 1 .. target
Changed(component, base, target) ==
  \E d \in base + 1 .. target : component \in Affected[touches[d]]

Live == {i \in DOMAIN deploys : deploys[i].status = "live"}
Active == {i \in DOMAIN deploys : deploys[i].status = "building"}

(* No deploy is in progress, and at most one is live. *)
NoConflict == Active = {} /\ Cardinality(Live) <= 1

(* Mutant: whichever deploy is live passes for the planned one. *)
OnlyLive_AnyLive(id, sha) == NoConflict

OnlyLive(id, sha) == NoConflict /\ Live = {id} /\ deploys[id].sha = sha

At(step) == release.step = step
Goto(step) == [release EXCEPT !.step = step]

(* The website, the API and the database are those of the target. *)
Coherent ==
  /\ site.bytes = Code("frontend", release.target)
  /\ \A i \in Live : Code("api", deploys[i].sha) = Code("api", release.target)
  /\ Live # {}
  /\ ledger = Migrations(release.target)

NoJob ==
  [step |-> "none", number |-> 0, target |-> 0, page |-> 0, pageSha |-> 0,
   id |-> 0, sha |-> 0, api |-> "retain", web |-> "retain",
   expected |-> [commit |-> 0, bytes |-> 0]]

Failed == [NoJob EXCEPT !.step = "failed", !.number = release.number]

ReleaseInit ==
  /\ touches \in [2 .. MaxCommits -> FileKinds]
  /\ main \in Commits
  /\ deploys = <<[sha |-> 1, status |-> "live"]>>
  /\ site = [id |-> 1, sha |-> 1, commit |-> 1, bytes |-> 1]
  /\ ledger = 0
  /\ release = NoJob
  /\ coherent = FALSE

-----------------------------------------------------------------------------
(* What happens around a release. *)

Push ==
  /\ main < MaxCommits
  /\ main' = main + 1
  /\ UNCHANGED <<touches, deploys, site, ledger, release>>

Migrate ==
  /\ ledger < Migrations(main)
  /\ ledger' = ledger + 1
  /\ UNCHANGED <<touches, main, deploys, site, release>>

ConsoleDeploy(c) ==
  /\ c <= main /\ Len(deploys) < MaxDeploys
  /\ deploys' = Append(deploys, [sha |-> c, status |-> "building"])
  /\ UNCHANGED <<touches, main, site, ledger, release>>

(* An upload from elsewhere may carry a build of its own. *)
ConsoleUpload(c, bytes) ==
  /\ c <= main /\ site.id < MaxUploads
  /\ site' = [id |-> site.id + 1, sha |-> c, commit |-> c, bytes |-> bytes]
  /\ UNCHANGED <<touches, main, deploys, ledger, release>>

(* A deploy replaces the live one, or fails. *)
GoesLive(i) ==
  /\ i \in Active
  /\ deploys' = [j \in DOMAIN deploys |->
       IF j = i THEN [deploys[j] EXCEPT !.status = "live"]
       ELSE IF j \in Live THEN [deploys[j] EXCEPT !.status = "ended"] ELSE deploys[j]]
  /\ UNCHANGED <<touches, main, site, ledger, release>>

DeployFails(i) ==
  /\ i \in Active
  /\ deploys' = [deploys EXCEPT ![i].status = "ended"]
  /\ UNCHANGED <<touches, main, site, ledger, release>>

-----------------------------------------------------------------------------
(* The steps of a release. *)

Dispatch ==
  /\ release.step \in Ended /\ release.number < MaxReleases
  /\ release' = [NoJob EXCEPT !.step = "guard", !.number = release.number + 1, !.target = main]
  /\ UNCHANGED <<touches, main, deploys, site, ledger>>

(* A request fails, a check rejects what it read, or the runner dies. *)
Fail ==
  /\ release.step \notin Ended
  /\ release' = Failed
  /\ UNCHANGED <<touches, main, deploys, site, ledger>>

VerifySource ==
  /\ At("guard") /\ release.target = main
  /\ release' = Goto("ledger")
  /\ UNCHANGED <<touches, main, deploys, site, ledger>>

(* The ledger equals the inventory of the target; so does its digest later. *)
VerifyLedger ==
  /\ ledger = Migrations(release.target)
  /\ \/ At("ledger") /\ release' = Goto("pages")
     \/ At("recheck") /\ release' = Goto("final")
  /\ UNCHANGED <<touches, main, deploys, site, ledger>>

ReadPages ==
  /\ At("pages")
  /\ release' = [release EXCEPT !.step = "inspect", !.page = site.id, !.pageSha = site.sha]
  /\ UNCHANGED <<touches, main, deploys, site, ledger>>

InspectRender ==
  /\ At("inspect") /\ NoConflict
  /\ \E i \in Live :
       release' = [release EXCEPT !.step = "plan", !.id = i, !.sha = deploys[i].sha]
  /\ UNCHANGED <<touches, main, deploys, site, ledger>>

(* A component is deployed when it changed since its baseline, when the    *)
(* operator forces it, or when the bytes of a retained site would not be   *)
(* the tested ones.                                                        *)
Planned(component, base, forced) ==
  IF forced \/ Changed(component, base, release.target) THEN "deploy" ELSE "retain"

CreateReleasePlan(forced) ==
  LET live == [commit |-> site.commit, bytes |-> site.bytes]
      api == Planned("api", release.sha, forced)
      web == IF live.bytes # Artifact(release.target).bytes THEN "deploy"
             ELSE Planned("frontend", release.pageSha, forced)
  IN /\ At("plan")
     /\ site.commit = release.pageSha
     /\ HasDiff(release.pageSha, release.target) /\ HasDiff(release.sha, release.target)
     /\ release' = [release EXCEPT
          !.step = IF api = "deploy" THEN "deploy" ELSE "confirm",
          !.api = api, !.web = web,
          !.expected = IF web = "deploy" THEN Artifact(release.target) ELSE live]
     /\ UNCHANGED <<touches, main, deploys, site, ledger>>

(* The planned baseline is still live, and is the target already. *)
ReuseDeploy ==
  /\ At("deploy") /\ OnlyLive(release.id, release.sha) /\ release.sha = release.target
  /\ release' = Goto("confirm")
  /\ UNCHANGED <<touches, main, deploys, site, ledger>>

(* One POST: its answer may be lost after Render took it. *)
PostDeploy ==
  /\ At("deploy") /\ OnlyLive(release.id, release.sha) /\ release.sha # release.target
  /\ release' = Goto("post")
  /\ UNCHANGED <<touches, main, deploys, site, ledger>>

RenderAccepts(answered) ==
  /\ At("post") /\ Len(deploys) < MaxDeploys
  /\ deploys' = Append(deploys, [sha |-> release.target, status |-> "building"])
  /\ release' = IF answered
              THEN [release EXCEPT !.step = "wait", !.id = Len(deploys) + 1, !.sha = release.target]
              ELSE Failed
  /\ UNCHANGED <<touches, main, site, ledger>>

AwaitLive ==
  /\ At("wait") /\ release.id \in Live
  /\ release' = Goto("conflict")
  /\ UNCHANGED <<touches, main, deploys, site, ledger>>

(* The deploy that was awaited, or that is retained, is the only live one. *)
VerifyRender ==
  /\ OnlyLive(release.id, release.sha)
  /\ \/ At("conflict") /\ release' = Goto("confirm")
     \/ At("confirm") /\ release' = Goto("unchanged")
     \/ At("final") /\ release' = Goto("succeeded")
  /\ UNCHANGED <<touches, main, deploys, site, ledger>>

VerifyPagesUnchanged ==
  /\ site.id = release.page
  /\ \/ At("unchanged") /\ release' = Goto(IF release.web = "deploy" THEN "publish" ELSE "smoke")
     \/ At("retained") /\ release' = Goto("recheck")
  /\ UNCHANGED <<touches, main, deploys, site, ledger>>

(* The upload replaces whatever is published by then; its end may be unknown. *)
PublishPages(known) ==
  /\ At("publish") /\ site.id < MaxUploads
  /\ site' = [id |-> site.id + 1, sha |-> release.target] @@ Artifact(release.target)
  /\ release' = IF known THEN Goto("smoke") ELSE Failed
  /\ UNCHANGED <<touches, main, deploys, ledger>>

RunSmoke ==
  /\ At("smoke")
  /\ [commit |-> site.commit, bytes |-> site.bytes] = release.expected
  /\ release' = Goto(IF release.web = "deploy" THEN "recheck" ELSE "retained")
  /\ UNCHANGED <<touches, main, deploys, site, ledger>>

-----------------------------------------------------------------------------

(* Bound: what happens after the last release is left out. *)
Matters == release.step \notin Ended \/ release.number < MaxReleases

Surroundings ==
  \/ Push \/ Migrate
  \/ \E c \in Commits : ConsoleDeploy(c)
  \/ \E c \in 1 .. main : \E bytes \in {0, Code("frontend", c)} : ConsoleUpload(c, bytes)
  \/ \E i \in DOMAIN deploys : GoesLive(i) \/ DeployFails(i)

ReleaseStep ==
  \/ Dispatch \/ Fail
  \/ VerifySource \/ VerifyLedger \/ ReadPages \/ InspectRender
  \/ \E forced \in BOOLEAN : CreateReleasePlan(forced)
  \/ ReuseDeploy \/ PostDeploy \/ AwaitLive \/ VerifyRender
  \/ \E answered \in BOOLEAN : RenderAccepts(answered)
  \/ VerifyPagesUnchanged \/ RunSmoke
  \/ \E known \in BOOLEAN : PublishPages(known)

ReleaseNext ==
  /\ (Matters /\ Surroundings) \/ ReleaseStep
  /\ coherent' = (release'.step \in Published /\ (coherent \/ Coherent'))

ReleaseSpec == ReleaseInit /\ [][ReleaseNext]_releaseVars

-----------------------------------------------------------------------------

ReleaseTypeOK ==
  /\ touches \in [2 .. MaxCommits -> FileKinds] /\ main \in Commits
  /\ ledger \in 0 .. Migrations(main) /\ coherent \in BOOLEAN
  /\ deploys \in Seq([sha : Commits, status : {"building", "live", "ended"}])
  /\ site \in [id : 1 .. MaxUploads, sha : Commits, commit : Commits, bytes : 0 .. MaxCommits]
  /\ release.step \in Ended \cup Published \cup
       {"guard", "ledger", "pages", "inspect", "plan", "deploy", "post", "wait",
        "conflict", "confirm", "unchanged", "publish"}
  /\ release.target \in 0 .. main /\ release.id \in 0 .. Len(deploys)

(* A release that ends in success had a moment after its publication when  *)
(* the website, the only live API and the database were all those of its   *)
(* target, however the consoles interfered (release-plan.mjs:57-104,       *)
(* render-deploy.mjs:185-191 and 213-214, release-summary.mjs:44).         *)
SuccessWasWhole == release.step = "succeeded" => coherent
=============================================================================
