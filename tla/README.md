# ColearnX Training Platform: verification project

ColearnX is a marketplace for courses and learning content. Members buy with
points; points come from Stripe top-ups and administrators; trainers and
creators sell; administrators moderate, decide refunds, complete and cancel live
courses. The program is an Express API over PostgreSQL
(`src/colearnx-v1.0/apps/api`), a video worker (`apps/video-worker`), a media
gateway (`apps/media-gateway`), a browser front end (`src/colearnx-v1.0/src`)
and a release workflow for staging. Paths below are relative to
`src/colearnx-v1.0/apps/api/src` unless they say otherwise.

Everything that is hard about it comes from three facts. Many requests run at
once, in several API processes, over one database: a handler is a sequence of
awaited statements, atomic only where a transaction and its row locks make it
so. Much of the work crosses a boundary where no transaction reaches: Stripe,
the object store, the malware scanner, the mail provider, Redis, the queue of
the worker. And a page of the browser goes on while its calls are under way:
accounts sign in and out, dialogs are closed, answers come late or not at all.

## Inventory

| Component | State it keeps | Operations | Hard parts |
| --- | --- | --- | --- |
| Orders and checkout (`orders`) | orders, items, enrolments, grants, allocations, holds | checkout; order reads | seats and duplicate purchases under concurrency, idempotency keys, all lines or none |
| Point ledger (`points`) | balances, append-only entries | `postPointTransaction` | balances never negative, nets to zero, lock order |
| Refunds (`refunds`) | requests, policy snapshots | request, decide | decision against completion, cancellation and downloads |
| Live runs, adjustments (`admin/operations.ts`) | runs, holds | complete, cancel, adjust | races with checkout and refunds |
| Refund notifications (`refunds/notification*.ts`) | notifications, LISTEN connection | record, long poll, dismiss | lost wake-ups, reconnects, late answers |
| Stripe top-ups (`payments`) | top-up orders, payments, events | create session, webhook | crash between transactions, redelivery, late and early events |
| Sessions (`auth/auth.ts`, `auth/sessions.ts`) | session rows linked by rotation | refresh, logout, revoke | concurrent refreshes, reuse detection, revocation races |
| Sign-in protection, MFA (`auth/lockout.ts`, `auth/mfa`) | failure counters, TOTP step, recovery codes | sign in, step up, enrol, disable | check-then-register across an await, one-time use |
| Registration, Google sign-in (`auth/google*.ts`) | accounts, codes, cookies, links | register, resend, verify, link | a stranger who registers the same address, resend races |
| Roles and users (`admin/users.ts`, `governance`) | accounts, role grants, applications | grant, revoke, suspend, decide | administrators who act on each other |
| Uploads (`storage`) | assets, quota | intent, complete, delete, reconcile | inspection outside the transaction, promotion, cleanup |
| Inspection of uploads (`security/upload-inspection.ts`, `malware-scan.ts`, `zip-inspection.ts`) | slots, scanner socket | inspect, scan, copy | objects replaced while they are read, archives whose directory lies |
| Hosted video (`video`, `apps/video-worker`) | versions, multipart uploads, jobs | create, complete, transcode, supersede, delete | retries and fencing, crash, cleanup |
| Worker lifecycle (`apps/video-worker/src/lifecycle.ts`) | tasks, subscription | start, sweep, drain, stop | leaving while jobs are fetched and started |
| Watch progress (`video/progress.ts`) | intervals, playback sessions | start, heartbeat | lost, late and reordered heartbeats, unique seconds |
| Drafts and review (`catalog`, `governance`) | listings, covers | edit, submit, decide | editing against submission, a reviewer's stale page |
| Long lists | none; rows of others | read in pages | rows committed late with an early date, ties, mixed releases |
| Security jobs (`security`) | events, alerts | audit, sweep, backfill | clean only if nothing was lost |
| Step-up, keyed actions | the tab's token, idempotency keys | confirm, retry | accounts change while actions wait, keys reused |
| Tab: session, datasets, cart, wallet, player, uploaders | React state, browser storage | calls and their answers | answers of an earlier account, page or file |
| Entrance (`src/colearnx-v1.0/src/App.jsx`, `AuthPages.jsx`) | path, intended page | guards, forms | redirect loops, landing on the wrong page |
| Password policy (`auth/password-policy.ts` and the form) | none | judge | the two sides disagree |
| Staging release (`.github/workflows/deploy-staging.yml`) | deployments, ledger of migrations | plan, publish, verify | main and consoles move while a release runs |
| Configuration, mail, HTTP plumbing, media gateway, analytics | none of their own, or none that others rely on | reads and pure I/O | none a model reaches |

The hazards found while reading are listed, each at its line, in `PROJECT.json`,
which also maps every definition to the lines it models.

## The modules

`MC*` modules instantiate components for TLC, `*Proofs` modules prove about
them. Comments in a module name the code each definition stands for.

```
PointSums <- Commerce --- implements --> PointEscrow      TopUp --- implements --> TopUpPromise
Uploads   Video   WorkerLife        Sessions   SignIn   Registration   Roles   SecurityJobs
Listings  Lists   StepUp  Keyed  TopUpDesk  Archives  Inspections        Notices
Client    Basket  Watch  Uploader  VideoSender  Passwords  Entrance      Release

MCCommerce  Commerce, PointEscrow              MCUploads, MCVideo   Uploads; Video
MCStorage   Uploads, Video                     MCEnds      TopUp, Notices, Uploads, Video, WorkerLife
MCAccounts  Sessions, Registration, SignIn, Roles, SecurityJobs
MCMarket    Lists, Listings, StepUp, Keyed, TopUpDesk, Archives, Inspections
MCBrowser   Client, Basket, Watch, Uploader, VideoSender, Passwords, Entrance, Release

CommerceProofs  Commerce, PointSums, PointEscrow      AccountsProofs  Registration, Roles, SignIn, SecurityJobs
TopUpProofs     TopUp, TopUpPromise, Notices          MarketProofs    StepUp, Keyed, Listings, Inspections, TopUpDesk,
SessionsProofs  Sessions                                              Lists
UploadsProofs   Uploads, Archives                     BrowserProofs   Basket, Client, VideoSender, Uploader, Release,
WorkerProofs    WorkerLife, Video, Watch                              Entrance, Passwords
```

An MC module of several components has a variable `part`: the initial state
chooses one component, the others rest in their initial state. They share no
state in the code either (where they do, one of them models both sides), so
nothing is lost, and the components share a run, its model values and its
symmetry.

### Commerce: orders, refunds, live runs, adjustments, downloads

`withTransaction` (`db/database.ts`) commits all of a handler or nothing, and
every handler here locks what it decides on (runs, then orders and items, then
point accounts). So a handler is one action, its early errors are the guard, and
one that throws is no step. The exception are downloads: they check access
without a lock and write evidence later, so they are `BeginDownload` and
`FinishDownload`.

| State | Code |
| --- | --- |
| `buyer`, `orderStatus` | `orders` |
| `fulfilment`, `access`, `hold`, `allocation`, `evidence` ... by item | `order_items`, enrolments and grants, `point_holds`, `earnings_allocations`, download events and viewing |
| `request` | `refund_requests` |
| `available`, `frozen` | `point_accounts` |
| `runStatus`, `phase` | `course_runs.run_status`, and the clock against `starts_at` |
| `adjusted` | history: what the administrators gave and took |

`Checkout` (all lines or none; a price of 0 posts nothing and makes no hold),
`CreateRefundRequest`, `RejectRefund`, `ApproveRefund`, `CompleteLiveCourseRun`
(one transaction for each hold), `CancelLiveCourseRun`, `AdjustPoints`, `Watch`
and `PassTime`. An adjustment also stands for a credited top-up, which posts the
same two entries. An order stands for its idempotency key. Left out: snapshots
of refund policies that are no longer written, the downloads of self-arranged
runs, which decide no refund, and freezing a wallet. Transactions that lock rows
in opposite orders may deadlock; PostgreSQL aborts one of them, which is a
handler that throws.

`PointEscrow` says what this must amount to: every price is in exactly one place
(held, on the platform, settled, returned) and moves only forward, and nobody
buys what they cannot pay for. Balances are not part of its state: they are what
was granted less the prices that are kept. `ImplementsEscrow` is the refinement.

### TopUp: Stripe payments

Creating a checkout is a transaction (`Prepare`), the call to Stripe
(`StripeCreates`, `StripeFails`) and another transaction (`Save` and `Answer`,
or `Fail`); `Abandon` stops the request between any two. `Replay` is a key that
was answered. The session is then paid or expires at Stripe, which puts events
into `due`; `Accept` is the webhook for an event it has not seen, which credits
at most once; the event stays due until it is answered, so it may come again, to
`Acknowledge`. The kind `repeated` is a second event for the same fact with an
id of its own. `TopUpPromise`: what was paid is credited once, not earlier, and
not never.

### Sessions: refresh sessions of one account

A handler reads, waits for the lock of the `users` row, and decides again under
it. So a request has a stage in `request`, one action for the unlocked read
(`Prove`, `Admit`, `RefreshRead`, `RefreshAdmit`, `Authenticate`, `ResetRead`)
and one for the locked transaction (`Open`, `Rotate` or `RotateRefused` or
`Replay`, `RevokeOne`, `RevokeOthers`, `Redeem`). `Logout`, `SetStatus`,
`ChangeRole`, `Forgot` are one transaction each; `Expire` and `LinkLapses` are
time. `rows[s]` is a row of `refresh_sessions` with why it was revoked and its
successor; revocations that the code does not tell apart share a reason.
`Resolve` is the recursive query that follows successors, with its limit
(`ChainLimit`, 64 in the code). Sessions expire in the order in which they were
opened, because all have one lifetime. `login` and `signedOut` are history.
A rotation whose answer is lost and that is tried again counts as a replay and
ends the chain: `auth.ts:884` does so deliberately. The expiry that `refresh`
writes before it fails is rolled back with the error, so it is no step.

### SignIn, Registration, Roles: the account

`SignIn` is one account with its password, authenticator and recovery codes,
and the counter of failures they share. Every request reads the lock, checks
what it was given and registers a failure in transactions of their own
(`StartRequest`, `CheckPassword`, `AcceptTotp`, `AcceptRecoveryCode`,
`CheckFactor`, `RegisterFailure`, `ClearFailures`), so guesses in parallel
interleave. TOTP time is counted in steps; the ladder of lock durations is one
rung, for a lock may end at any time (`SignTime`). `DeleteRecoveryCodes` and
`InsertRecoveryCodes` are the two halves of new recovery codes, which two
requests at once may leave as two sets (`auth/mfa/service.ts:185`).

`Registration` is the mailbox of one address that its owner and a stranger
register, verify, resume (the continuation cookie) and sign in to, with a
password or with Google. A handler is its transactions; what was read before is
compared under the lock where the code compares it, and not where it does not.
Signatures, hashes and random tokens are values that their holder has.

`Roles` is administrators who act on members and on each other. A request is
authenticated before its transaction begins; the transaction locks its target
(`ReadTarget`, `LockTarget`), decides, and writes the log, whose foreign key
waits for a transaction that has locked the administrator's own row
(`CommitAdminRequest`, `Deadlocked`, `AbortDeadlocked`). A sign-in that is in
flight while the account is suspended (`auth/auth.ts:159`) is in `Sessions`.

### Uploads: files of listings

A completion is `Examine` (the first transaction and the look at the object),
`Inspect`, `Promote` (the store copies the object to a key the browser cannot
write), and the second transaction with its outcomes: `Accept`, `Reject`
(quarantine), `Overtaken` (another completion was first) or `Fail`, the last two
followed by `Withdraw` of its own copy; `Tidy` removes the upload, and `Abandon`
is a crash, which may leave a promoted copy that no row names. `Put` comes at
any time while the signed URL lives, and late. Removal is a transaction that
marks the row, then deletions at the store that may be lost, then an update once
the URL can no longer recreate the object (`Age`, `Settle`, `Collect`).
Submission, moderation and deletion of drafts come between any two steps.
Content and courses have the same handlers twice in the code and share an action
here. Files have one size, so the quota is a number of files; it is modelled and
no property is about it. The store compares entity tags, so bytes stand for
tags. Two constants are assumptions about the environment: `LostAcks` (may a
COMMIT take effect and be reported as failed?) and `SlowStore` (may a deletion
or a request outlast the waits of the erasure?).

### Inspections and Archives: what an upload has to be

`Inspections` is one process: `SlotLimit` slots with their queue, reads of an
object that a browser may replace between them (each read names its version),
and clamd, which is assumed truthful, over a socket that answers early, late, in
parts or not at all. `Archives` is a zip file as a row of local records, and a
central directory whose entries may be wrong about them in several ways at once
(`LieSets`, any sets of `Lies`); `Check` is the structure, `Inflate` the entries
one unit at a time under the limits, and the verdict is compared with a reference
(`Acceptable`) that knows no order of checks. The entries are not sorted into a
list: `Before` is the order by offset, and `Reached` where the last of some
entries ends, which is the cursor of the loop. A verdict has no reason.

The code takes the end of an entry's data from the directory alone and compares
no local size or checksum (`zip-inspection.ts:277-307`). So an accepted archive is
one whose entries share out the file, and it need not be one whose local records
are those entries: an entry may reach over the next record when size,
declaration and checksum agree, and what follows the end of a deflated stream is
not looked at. `ArchivesAreSound` says what does hold, among it that nothing is
hidden where the entries end with their records (`SizesAgree`). The comments of
the file promise more: "the local entries must tile the file exactly from offset
0 to the central directory with no gaps, duplicates or hidden extra entries"
(`:27-29`), and that the tiling "rejects hidden local entries (seen by streaming
extractors only)" (`:310-311`). This is `NoHiddenRecords`, stated and checked by
no run, because it does not hold: with `LieSets = {{"swallow", "sized",
"matching"}}` TLC finds in three states an archive of two records and one entry
that is accepted.

### Video: hosted video of one run

`version` is `course_video_versions`, `source`/`object`/`open` the asset row,
its object and its multipart upload, `job` the pg-boss queue, `handler` the
callbacks of workers with their position, and `whole` the output prefixes that
are complete. The API's half is `Create`, `Complete`, `Verify`, `Retry`,
`AbortBegin`/`AbortEnd` (the store is called between its two transactions),
`Delete`, `Order`, `Publish`. The worker's is `Fetch`, `Check`, `Takeover`,
`Claim`, `Produce`, `MarkReady`, `Record`, `Discard`, `Settle`, `Sweep`, each
with the way it can fail, and `Crash` at any of them. `Lapse` is the queue's
belief that a callback is dead, right or wrong: then a second one works on the
same version, and what keeps them apart is the attempt id that every later
statement compares. `LateCalls` and `LastRetryMayDie` are assumptions: FALSE
means that a callback does not stall past the retry delay between two queries,
and that the callback of a last retry reaches an answer of the database. The
safety theorem needs neither. A legacy upload (016_hosted_video.sql backfills at
most one for a run) has a version but no output of its own to begin with. An
abort is over before a transcode that began after it ends: the code has no fence
there, and the model takes this from the lengths of the two (see the hazard at
`video/service.ts:377`). A failure to send a job is not assumed to be retried.

### WorkerLife: the worker process

`lifecycle.ts` and the end of `worker.ts`: the first sweep, the subscription,
fetched jobs and their callbacks, the count of tasks, the idle check (two
queries, between which work may arrive) and the shutdown, which waits for
start-up, for callbacks and acknowledgements, for tasks, and only then
disconnects. pg-boss between a fetch and a callback is external.

### Notices: a decision reaches the member

The transaction that decides stores the notification and signals; each process
keeps one LISTEN connection (`Listen`, `Disconnect`) that wakes the polls that
subscribed (`ReceiveSignal`, `WakeAll`); a poll reads, subscribes, reads again
and waits; the page polls, shows one notice at a time and confirms it
(`Dismiss`, `ConfirmDismissal`) while older polls may still be answered.

### SecurityJobs: audits, sweeps and the backfill

One job at a time reads its queries while rows and files change, judges each
row, writes an event on a connection of its own, with `--apply` takes a file out
of service, raises alerts that it waits for at the end, and exits with a code.
Every call may fail, also after its effect, and the process may be killed. Rules
and inspections are a verdict; `MaxAlerts` bounds the alerts under way at once.
A file may be quarantined without an event only by a run that says that it
failed. Which alerts are suppressed, the retention of events and rate limits are
left out; the Redis client may repeat a SET NX when it reconnects, which loses
one alert.

### Lists: reading a long list in pages

Five kinds of lists are told apart by how they are continued: after the last row
by its exact time and id, before its time to the millisecond, at an offset, or
not at all. A page is defined by counting the rows that stand before one
(`RowsAhead`). `CommitRow` commits a row with a date from before its commit,
`RowLeaves` takes one off, `FetchFromOld` is an instance of the previous
release (it serves first pages only; its cursors are refused). `ListsAreWhole`
holds every kind to what its way of continuing can give: no row twice, no row
missed that was there all along, for the exact cursors; lists that are coarse or
not paged are weaker, and the property says how. A queue read at an offset needs
that fewer rows than a page are written while it is read: a full page of rows
that moved back looks like its end. The race of two "load more" in
`AdminSecurityDashboardPage.jsx:153-172` is in the loop of the browser.

### Listings: from the draft to the decision

The owner edits, changes the cover (normalised before its transaction), attaches
files, submits or deletes from several tabs; a submission reads what is ready
before it locks the listing; reviewers load the queue, open the cover and the
files, and decide. The owner keeps the role and certificate that every handler
asks for; previews that load and pop-ups that are blocked are abstracted to
"opened". `createCourse` and `createContent` ignore the Idempotency-Key.
Publishing with its storage is in `Uploads`.

### StepUp, Keyed: confirmed actions

`StepUp` is the one token of a tab, its dialog and all actions that wait for it,
the single retry, sessions that end and change meanwhile, and the server's check
of the session a token was given for. `Keyed` is the dialogs that send an
idempotency key (an adjustment, a report, its decision, a refund request):
answers get lost while the call goes on, a dialog is confirmed again with other
text or reopened, and calls with one key overlap. The fields stay enabled while a
call is out (`ReportButton.jsx:20`, `WorkflowPages.jsx:138`,
`LearningPlatformPages.jsx:192`), so a dialog may hold another text than it sent
when its answer comes; the property is about `keyed`, what was confirmed in it
last. An adjustment that is
uncertain and opened anew has a new key: the administrator, not the key, then
prevents a second one. `createRefundRequest` ignores the key, although
`PlatformContext.jsx:769` says "Retry to check its status"; what protects it is
that an item has one open request.

### TopUpDesk: buying points in a tab

The packages, the modal, Stripe's form with its timers, and the wallet that asks
what became of a payment; packages change, sessions expire, accounts switch,
answers are lost or late and pages are left. Creating and crediting are one step
each; `TopUp` has their inside. Not in the model: the language that is part of
the key, and failed payments, which no page learns of. After the notice
"refreshed" the wallet may still be the one of before
(`PlatformContext.jsx:357-371`, `WalletAdminPages.jsx:69`).

### Client, Basket: the account of a tab

`Client` is `client.js` and the account state of `PlatformContext.jsx`. The code
numbers sessions and requests and compares the number a call started with; here
a call carries the set `moved` of the numbers that have changed since, which
keeps the state finite. It has the shared rotation of an expired token,
restoration at start-up, sign-in, verification, sign-out, the saved profile,
checkout and the datasets, and other tabs of the browser that sign in and out
with the same cookie (`OtherTab`).

Two awaits are not covered by these numbers. An identity that was asked for by a
sign-in, a verification or a saved profile (`IdentityReads`) is applied whatever
has happened since (`PlatformContext.jsx:583, 636, 840`), and a rotation installs
the token it gets whoever owns the cookie by then (`client.js:54`). So that a tab
shows one account and sends the token of the same is false without a condition:
`TokenOfAccount` as an invariant of its own fails with two accounts and two acts
without a fault (a profile is saved, another mailbox verified in the tab, and the
identity of the first answers last), against "a late recovery cannot overwrite a
newly signed-in identity" (`PlatformContext.jsx:567-568`) and "explicit
sign-in/out invalidates queued work" (`client.js:53`). `RotationKeepsAccount`
fails with two faults (a request is refused, and another tab signs in before its
rotation is posted), against "Rotation keeps the same account generation"
(`client.js:53`). Both are stated and checked by no run, because they do not hold.
`OneAccountShown` says it of the rest: `crossed` is history that is set in three
cases (these two, and a sign-in that ends in a page which an earlier one has come
to show) and cleared by a sign-out, so what the property shows is that nothing
else mixes two accounts and that a sign-out ends it. `OneRotation` needs no
condition.

A rotation that was posted before a sign-in or sign-out is assumed to
be handled before it. A checkout that is sent while signing out may be answered
on the signed-out page, or between a new token and its identity, which is
harmless and the reason for the way `ConfirmedStays` is stated.

`Basket` is the cart of each account in the browser's storage, CartPage's
choice, and the key of a checkout that is repeated. A cart is a set with an
order; balances and prices are in `Commerce`; several tabs over one cart are
left out, and `cart/cart.ts` is called by no page. `RepetitionIsAnswered` is
stated and checked by no run, because it does not hold: the page compares the
choice sorted (`PlatformContext.jsx:726`), the API in order
(`orders/commerce.ts:64, 206`), so a repetition in another order is refused. An
answer of an earlier session also clears the new account's `pendingCheckout`
(`PlatformContext.jsx:730`), before the session is compared.

### Watch, Uploader, VideoSender: what a page sends

`Watch` is the media element, the reporter that sends observations in order
(`Report`, `SendHeartbeat`, `GiveUpHeartbeat`), and the API that turns two of
them into an interval (`IntervalFromHeartbeat`) and merges intervals
(`MergeIntervals`, proved to count the ticks that the intervals stand for).
Heartbeats are lost, delayed and out of date. Reports of a seek that are lost may
credit up to a quarter over what was seen, which the property allows because the
code's own tolerance does.

`Uploader` is the list of private files of a draft: one upload at a time,
retries under the key of the reservation, removals under way, and the API's list
merged into the rows. Bytes whose PUT has failed for the page are assumed to have
reached the store by the time the page asks for them again, or never to do: a PUT
that lands between that answer and the next PUT is left out. `VideoSender` is a file in parts: a key in the browser's
storage, pause, reload, resume and cancel, R2 that assembles. Both model the API
as far as the page sees it. An upload that is removed while the page calls it
interrupted (`PrivateAssetUploader.jsx:54`) ends as removed.

### Passwords, Entrance: forms and routes

`Passwords` types a password character by character and compares the checklist
of the form with the policy of the API: normalisation, runs, sequences, tokens
and the readings of a word under digits and symbols. One character of each kind
stands for all; the breach service may be off. Listed words of letters are found
under a disguise of digits, symbols and characters that stand for a letter; a
listed word that holds digits (`hello123`) is found only as it is or with
symbols, for the digits around it are stripped together with its own, so the
property asks no more of these. `Entrance` is the path of a tab
under the guards of the routes, the forms, and what happens to the page a
visitor intended. Notes: one sign-in at a time is under way; the intended page
does not survive a verification or leaving the form; the late `navigate` of
`VerifyEmailPage` and of the password form happens even if the visitor has gone
elsewhere, Google's does not; signing out from the layout goes to `/login`
before the session has ended, so the tab passes the main page. The second-factor
gate of the workspace and waits for datasets are left out.

### Release: the staging workflow

The deploy job step by step (`VerifySource`, `VerifyLedger`, `ReadPages`,
`InspectRender`, `CreateReleasePlan`, `PostDeploy`, `AwaitLive`, `VerifyRender`,
`PublishPages`, `RunSmoke`) between pushes to main and deploys, uploads and
migrations from the consoles. Any step may fail and nothing is rolled back.
Render has one deploy live at a time and the migration ledger only grows.
Console actions are counted only where they matter (`Matters`); `coherent` is
history: everything fitted together at some moment after the pages had been
published. The gateway and the worker are reviewed by hand and are left out.

## The runs

| Run | Instance | Shows |
| --- | --- | --- |
| `live` | 2 members, 3 orders, a priced run with one seat, a free run without a limit, grants and deductions | every balance is explained by what was granted and kept, holds back exactly the reserved items, seats are never oversold, and earnings, access and settlement agree |
| `mixed` | 1 member, 2 orders, one product of every kind, downloads | statuses, requests and download evidence agree; refinement of `PointEscrow` |
| `accounts` | sessions with 2 requests and 3 rows; 2 browsers and 2 Google identities at one mailbox; 2 sign-ins that guess; 2 administrators; the batch jobs, run twice | chains of sessions do not fork, ended stays ended, logout and replay hit whom they should; nobody has a session before the mailbox is proved; guesses are bounded and factors accepted once; roles fit accounts; a clean job missed nothing |
| `stored` | a content item and a course with one file and 2 completions, or with two files; 2 versions of a video, 2 jobs, 3 attempts of which 2 at a time | a ready file serves what was inspected, published is servable, closed is gone, submitted is frozen; a served video is whole, one at a time and never replaced |
| `ends` | 2 payments, 2 decisions, a file, a video, 2 jobs of a worker | what is paid is credited, a decision is shown, a removed file collected, a transcode settled, an idle or signalled worker stops, and nothing is cut off |
| `browser` | 2 accounts of a tab, a cart for each, a player with 2 sessions, 2 private files, 2 video files of 2 parts, passwords of up to 5 characters, the routes, and a release of up to 2 commits | the properties of the eight browser modules and of the release |
| `market` | lists of 4 rows in pages of 2, a listing with 2 files and a reviewer, 2 sessions and 2 actions that wait, 2 dialogs with 3 calls, a payment in a tab of two accounts, archives of up to 2 entries, 2 inspections in one slot | the properties of the seven market modules |

Five runs show a disagreement of the code with its own words; the findings in
`PROJECT.json` quote them.

- `refund_after_download`: a decision trusts the eligibility recorded with the
  request, so a buyer who downloads between request and approval is refunded
  after a download.
- `upload_lost_ack`: a COMMIT whose answer is lost is taken for a failure, and
  the handler deletes the copy the row now serves.
- `video_last_retry`: a last retry that dies leaves its version in `transcoding`
  with nobody to free it.
- `assembled_upload`: R2 assembled the parts and the answer or the transaction
  was lost: the retry that was to recognise this asks for the list of parts
  first and is refused.
- `last_admin`: two administrators who revoke each other count each other, and
  none is left.

Four more are stated as properties that no run checks, because they do not hold:
`TokenOfAccount` by itself and `RotationKeepsAccount` (`Client`),
`NoHiddenRecords` (`Archives`) and `RepetitionIsAnswered` (`Basket`). Their
sections above say how they fail, against which words of the code, and what of
them holds and is checked.

Some properties are the conjunction of several that fail for different reasons:
`OrdersAgree` (`OrderStatusSummarises`, `RequestsMatchItems`,
`DownloadsLeaveEvidence`), `SettlementsAgree` (`EarningsFollowItems`,
`AccessFollowsPayment`), `FactorsHold` (`GuessesBounded`, `FactorAcceptedOnce`),
`LogoutsAreExact` (`LoggedOutStaysOut`, `ReplaySparesRetained`, `CallerKept`),
`ServedStaysWhole` (`WholeNow`, `NoStepBack`), `NoticesArrive`
(`NoticesKeepUp`, `DecisionReachesMember`), `StorageSettles`
(`RemovedIsCollected`, `TranscodingEnds`), `StopsInTime` (`IdleExitIsIdle`,
`DrainEnds`), `OneAccountAtATime` (`OwnDataShown`, `TokenOfAccount`,
`OneRotation`, `ConfirmedStays`), `BasketHolds` (`CartsAreKeptApart`,
`KeysStandForChoices`).

Every property of a passing run has a mutant in `PROJECT.json`: a plausible
mistake in one definition under which that run finds the property violated. The
mutated definitions stand in the modules before the originals, marked "Mutant".

### Bounds

Two actors at once show every race of two handlers, and every hazard listed is
one of two. A third order, row, job or attempt lets a second race happen after
the first has left its traces: repurchase after a refund, a rotation of a
rotated session, a takeover of a takeover. Further:

- `stored`: `Bounds` admits one file with bytes of every kind and two
  completions, or two files of one listing with clean bytes and one completion,
  and two callbacks of the worker. Two copies (`MaxCopies`) let each of two
  completions promote one. `RetryLimit` is 1 (5 in the code), so that a job
  exhausts it. Videos start from a served one with a new one to come, or from an
  old upload to transcode. The invariant of the proof was checked by hand with
  `LateCalls` and `LastRetryMayDie` TRUE as well.
- `accounts`: `Few` bounds what happens at once; `ChainLimit` exceeds the number
  of rows, so a chain longer than 64 rotations is a case this run does not have;
  the threshold of failures is 2 (5 in the code), pages of the backfill are of 2
  files, so that a page is full, short or empty.
- `browser`: two acts and one fault for each behaviour of a tab (a call lost or
  refused, or another tab), or one act and two faults (`MaxActs`, `MaxFaults`,
  `Few`), with which every way of `crossed` occurs; one act with three faults was
  checked by hand; six clicks on a cart, three reports of a player (four were
  checked by hand), a video of 2 ticks. A password is long at 4 characters, and
  its limits for runs are scaled alike; one of the listed words is too short to
  count and one holds a digit. A release with 3 commits was checked by
  hand.
- `market`: rows are dated at two instants of the same or of different
  milliseconds, so that ties of both kinds occur and a page ends within one. An
  archive has up to two entries, limits that two entries reach, and in each entry
  nothing wrong, one thing, or the combinations that agree with each other
  (`LieSets`: a longer or swallowing extent with a fitting declaration, with or
  without a fitting checksum); the proof is for any sets.
  Three calls under two keys were explored for `Inspections` to depth 24 by hand.

Symmetry is used only in runs without liveness properties. Deadlock is not
checked where the system may really stop: all orders used, payments settled, the
account deleted, listings archived, a tab that is left.

### Fairness

Only `ends` has liveness properties.

- Payments: `Accept` of every event that is due. Stripe delivers an event again
  until it is answered. Nothing is assumed of customers or requests.
- Notices: the LISTEN connection is tried again (`notification-events.ts:40-51`),
  the page polls again after an answer or a failure, the timer of a poll ends,
  and a poll that is read over and over by the page is answered in the end (the
  network does not fail for ever: strong fairness).
- Files: `Age`, `Settle` and `Collect`. Time passes, and the maintenance task is
  scheduled every 15 minutes (`src/colearnx-v1.0/docs/R2_BACKEND_HANDOFF.md:481`).
  This part takes `SlowStore` TRUE: otherwise `Age` would wait for deletions
  that are begun again for ever.
- Videos: the steps of a callback, `Fetch`, `Sweep`, and `Lapse` of a job that
  nobody works on. A running worker polls every 5 seconds and sweeps every 5
  minutes, and pg-boss notices a missing heartbeat after 60. A crash is never
  required to happen or not to happen, but retries are finite.
- Worker: the steps of the shutdown, the end of a sweep, start-up, and a job's
  run, end and acknowledgement. Nothing is assumed of signals, timers or of new
  jobs: the stop must end whatever else happens.

## The proofs

Eight modules hold theorems, for every value of the constants: any members,
orders, keys, files, versions, requests and browsers, any prices, capacities and
limits. The assumptions are those in the ASSUME of the modules (distinct kinds
of names, bounds that are natural numbers, finite sets of items). Each theorem
rests on an inductive invariant, checked by TLC before it was proved, with a
lemma for each operation or group of operations, and under it a step for each
conjunct that the operation can disturb.

- `CommerceProofs`: `TypeOK`, `BalancesExplained`, `HoldsBackReservations`,
  `SettlementsAgree`, `OrdersAgree`, `SeatsRespected`. None is inductive alone:
  that a completion leaves no negative frozen balance needs that the frozen
  points are the sum of the active holds; this needs that a hold is active
  exactly for a reserved item of a published run, and that every price is some
  member's needs that bought items have buyers. `Inv` is their conjunction;
  `FullInv` adds `ItemsFit` (what an item's status says of its earnings, access,
  request and evidence), `OrderStatusSummarises` and `SeatsRespected`. Totals are
  cardinalities of sets of pairs (`PointSums`), which makes "one more item" and
  "other prices" provable without induction. `EscrowImplemented` is the
  refinement: `OwnerMap`, `PlaceMap` and `GrantMap` take a state to the escrow,
  every handler to a step of it or to a stutter, and what the escrow calls
  spendable is the balance, by `Inv`.
- `TopUpProofs`: `CreditedOnce`, `PayableIsKnown`, `OneCheckoutPerKey`, from
  `Inv` = these with `KeysAnswerOnce` (a claimed key has at most one request
  that can still answer) and `EventsAreTrue` (an event that is due says what
  became of the session); `PromiseKept`, the safety half of the refinement of
  `TopUpPromise`; `NoticesAlwaysKeepUp` for `Notices`, whose invariant says
  which polls listen to whom (`SubscribersListen`) and that no answer under way
  holds a dismissed notice (`NothingStale`).
- `SessionsProofs`: `OneLivePerLogin`, `EndedStaysEnded`, `LinkRedeemedOnce`,
  from `Inv` with `ChainsDoNotFork` (a row is the successor of one row, and only
  rotated rows have one) and `LoginsAreRows`. `RetainedAreSpared` is the part of
  `LogoutsAreExact` that is true of any row `Resolve` may find;
  `LogoutsAlwaysExact` is the whole of it while no account has more rows than
  `Resolve` follows (`MaxSessions <= ChainLimit`): a chain that is longer is cut
  off by the code, too. `Walk` is recursive; what it yields is proved by the least
  step at which it would not.
- `UploadsProofs`: `TypeOK`, `PublishedIsServable` and `SubmittedFilesFrozen`
  under both values of `LostAcks`; `ReadyServesInspected` while no COMMIT is
  lost, by an invariant in which every completion under way has a promoted copy
  of its own (`CopiesDiffer`), what a completion knows about its copy is true
  (`CompletionFacts`), and whatever is erased has been given up
  (`ErasureIsDue`); `ClosedIsGone` while the waits of the erasure suffice
  (`~SlowStore`). `ArchivesAreSound`, by two facts: records tile the file in the
  order of their offsets if and only if every unit before the directory is in
  exactly one (`TilesIffCovered`), and an entry that passes all checks is honest,
  and back (`GenuineIsHonest`, `HonestPasses`), for entries wrong in any set of
  ways. Where the entries end with their records, these cover the file
  (`SizedHidesNothing`, from `RecordsApart`). The invariant (`OnTheWay`) says
  that what was inflated is what the entries so far declared, so that the limit of
  an entry is always its own declaration.
- `WorkerProofs`: `NothingCutOff`, by an invariant that counts tasks and orders
  the stages of the shutdown; `ServedStaysWhole`, by `VideoInv`: whose an output
  is (`OutputsOfRows`, `OutputsOfWork`), that a claim which still holds stands
  on a whole output (`ClaimedIsWhole`), and that an abort under way concerns
  nothing that is served (`AbortsServeNothing`). It holds whatever `LateCalls`
  and `LastRetryMayDie` say. `CreditedWasSeen`, by `WatchInv`: between two
  observations that an interval joins, all of it was played; and that progress
  counts ticks, by the smallest set of intervals whose merge would not.
- `AccountsProofs`: `MailboxProvedFirst` (what a request saw of the account
  before its session is still true of it), `RolesFitAccounts` (what was checked
  of the target under its lock holds at the commit), `FactorsHold` (guesses that
  are checked and not yet registered are counted with those that are, under a
  lock those that may still come), `JobsReportAll` (where each finding of
  a run still is: recorded, in hand, on the page, or ahead of it).
- `MarketProofs`: `ConfirmedByWhoActs` (the answer on its way to the dialog is
  tied to the session of the tab), `RecordedAsConfirmed` (what a call under way
  sent is what its dialog was last confirmed with, whatever it holds now), `PublishedAsReviewed`
  (what the page of a reviewer knows of a submission, and that submitted content
  is frozen), `InspectionsHold` (slots are counted, every open call holds one,
  versions read are one), `PaymentsToldTruly` (what the answer to each call may
  still change: a session is loaded for the address and account of now, a status
  is asked of what is complete, a wallet to be announced was asked for after its
  payment was credited), `ListsAreWhole` while fewer rows than a page are written
  (`WalkInv`: how far each kind of list has been read, down to its cursor or as
  many rows as its pages hold).
- `BrowserProofs`: `BasketHolds`, `OneAccountAtATime` (who asked for an answer,
  with which token, and what has been confirmed since, while nothing has
  `crossed`), `QueuedIsOneFile` (of
  which file the parts, the saved upload and the loop under way are),
  `ResentOnlyIfAbsent` (the row, its transfer and the answers on their way),
  `SuccessWasWhole` (the ledger only grows, a deploy that has ended is never live
  again, and the smoke test saw the API and the pages between two looks at them),
  `EntranceLeads` (at most one redirection is still due, and where on its way to
  the intended page a tab is), `PasswordsAreJudgedAlike` (each candidate is a
  reading of the password, made of its characters in their order; a disguised
  word is what is left when edges, symbols, padding and digits are read in turn;
  the scan at each character is as long as any run that ends there).

What a recursive function computes (sums, merged intervals, runs, normalised
texts, chains of sessions) is proved by the least number at which it would be
wrong, which needs no induction theorem (`LeastNumber`, `CountUp`).

Only model-checked is everything temporal beyond `[]`, for liveness and ENABLED
are out of this prover's reach: the liveness half of `ImplementsPromise`,
`NoticesArrive`, `StorageSettles` and `StopsInTime`. Where such a property has a
safety half, that one is proved (`PromiseKept`, `NoticesAlwaysKeepUp`).

## What is not modelled

`PROJECT.json` gives each part with its reason. Left out: reads, analytics and
dashboards (no state of their own; how long lists continue is in `Lists`),
single-row updates of the catalogue, the API's cart (no page calls it), the
media gateway (a stateless check of a token), configuration, mail and HTTP
plumbing, operational scripts that are run by hand, and how pages look. Code
that nothing reaches is left out too: `recordCourseProgress` in
`storage/course-delivery.ts:573-625` (`app.ts:213` uses `recordVideoProgress`)
and the pages `CreatorPages.jsx`, `MarketplacePages.jsx`, `LearningPages.jsx`
and `AccountPages.jsx`, which no route shows. In the browser,
`refreshMyListings` applies answers in the order they come, and the pending
count of `mutateApi` only disables buttons. Cryptography, SQL as a language and
the isolation of PostgreSQL are taken as given: a transaction that locks its rows
is one step.

## Plan

Done: the components above, and the proofs of every safety and action property
that a run checks. What is left: liveness, which stays with TLC; the components
that are modelled in part, in the order of `PROJECT.json`; and words of the list
that hold digits, for which a stronger promise than the code's could be stated.
