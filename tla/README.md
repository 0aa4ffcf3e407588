# Minutes: specifications, model checking and proofs

Minutes (`julcap/notes-app`) keeps meeting notes, action items and file
attachments. A FastAPI back end serves an Angular front end; it keeps rows in
PostgreSQL and file bytes on a local disk or in an S3 bucket. Four CronJobs
(`python -m app.jobs`) run beside the API. Every request handler is a thread
with one database session (`Depends(db)`), so almost everything that can go
wrong is a race between transactions, a failure between two stores, or state
that was read before it was used.

This directory holds TLA+ models of that code, TLC runs and TLAPS proofs.
`PROJECT.json` names, for each definition, the lines it models; for each
property, the run that checks it and a mutated definition that violates it.

## 1. Inventory

| component | state | operations | what is hard | what makes it correct |
|---|---|---|---|---|
| attachment storage (`storage.py`, `notes/routes.py`, `jobs.py`) | `attachments` rows, objects, `.trash/` objects, the `FILE_CLEANUP` advisory lock | upload, delete, account deletion, purge, reconcile | two stores, no common commit; lost COMMIT answers; crashes | a committed attachment keeps its bytes; a failed deletion gives it back; quarantine drains |
| sessions (`auth/routes.py`, `auth/tokens.py`) | `users.token_version`, `refresh_tokens`, `email_tokens` | login (one or two factors), refresh, logout, revoke, logout-all, change-password, forgot/reset, delete account | reads without lock before bcrypt; overlapping sign-outs; row locks in different orders | nothing survives a sign-out everywhere; tokens are redeemed once; a deleted account leaves nothing |
| notes, permissions, sharing (`notes/permissions.py`, `routes.py`, `sharing.py`) | `notes`, `action_items`, `meeting_shares`, `sharing_contacts` | note and item edits, soft delete and undelete, share, re-share, unshare, share with previous, create | permission checked, then re-checked under the row lock; account deletion gathers the notes | revocation is immediate; no share outlives what it names; deletion knows all notes |
| rate limits (`rate_limits.py`, `auth/security.py`) | `auth_rate_limits` | consume, clean up | two statements per hit; the cleanup job in between; the clock after a lock wait | never over the maximum; never a 429 while there is room |
| notifications (`notifications/`) | `notification_deliveries`, two session-level advisory locks | reminders, weekly digest | the mail leaves before its row commits; overlapping runs; lost lock sessions | what is due arrives, twice only after a failure |
| registration, verification, address change, social sign-in (`auth/routes.py`, `auth/oauth.py`, `auth/email.py`) | `users`, `pending_email`, `email_tokens`, `social_identities`, one advisory lock per address | register, resend, verify, change of address, OAuth callback, merge, account deletion | what a link is good for is read before the lock is waited for; two accounts become one | one local account per address; a verified address was proven; a provider account is merged, never doubled |
| two-factor enrolment, backup codes (`auth/routes.py`, `totp.py`) | `totp_secret`, `totp_enabled`, `backup_codes` | enable, confirm, disable, redeem a code | account and codes are read without a lock | the codes are those of the enrolment that holds; a code is accepted once |
| storage migration (`storage_migrate.py`) | `attachments.object_key`, objects in both stores | copy, verify, update key | run by hand in maintenance mode | every row's key resolves |
| connection pool (`database.py`, `security.py`) | SQLAlchemy's pool | check out, return | a handler holding one connection asks for a second | no request waits for its own kind |
| front-end session client (`auth.service.ts`, `auth.interceptor.ts`, `auth.guard.ts`) | an access token per tab, one cookie jar, a refresh that calls share | refresh on 401, retry, sign-in, sign-out, other tabs | answers late, lost or out of order; two tabs rotating one cookie | tabs do not end one another's session; signed out means over; every call settles |
| front-end workspace (`notes-workspace.ts`) | the loaded list, the note on show, a draft, one pending change, an undo toast, sharing panel, previews | search, load more, select, create, edit, save, delete with undo, files, action items, sharing | answers that arrive late, in any order, after the user moved on | no answer lands in the wrong note or drops a draft; deleted notes stay away; the list settles on what the server has |
| front-end account page (`account.ts`) | forms, `busy` | one request each; password change, revocation, sign-out everywhere | they end sessions other tabs use | as for the session client |
| export, observability, migrations, deployment | none of their own | | | |

Interactions: the notes and the auth routers both call the attachment store
(`delete_account` locks notes, quarantines files, deletes the user and then
discards). The CronJobs share tables with requests and coordinate through
advisory locks and `FOR UPDATE`. Every request passes the rate limiter first,
in a transaction of its own.

## 2. Modules

| module | models | extends / instantiates |
|---|---|---|
| `AttachmentStore` | the attachment store, one step per database call or storage call | |
| `AttachmentContract` | what the store promises: an abstract specification | |
| `AttachmentInvariant` | the inductive invariants of `AttachmentStore` | `AttachmentStore` |
| `AttachmentStore_proof` | proofs: types; `BytesSafe`, the refinement, `NoLeak` on a local disk; `LockIsEnough` on both backends | `AttachmentInvariant` |
| `AuthSessions` | the sessions of one account | |
| `NoteSharing` | notes, permissions and shares of several users | |
| `RateLimits` | buckets, requests, cleanup | |
| `Notifications` | reminder and digest jobs | |
| `Workspace` | one tab of the notes workspace and its server | |
| `Accounts` | who owns which address: registration, links, social sign-in, merge | |
| `TwoFactor` | the second factor of one account and its backup codes | |
| `BrowserSession` | the tabs of one browser and the server's side of the session | |
| `RateLimits_proof`, `NoteSharing_proof`, `Notifications_proof`, `AuthSessions_proof` | proofs about the module named, whose `IInv` is their inductive invariant | the module named |
| `TwoFactor_proof`, `Accounts_proof` | inductive invariant and proofs | the module named |
| `Frontend_proof` | the same for the two modules of the front end | `BrowserSession`, `Workspace` |
| `MC...` | constants for TLC | the module named |

### How the models correspond to the code

A request handler, job or run is a *process*: a record in a function (`proc`,
`request`, `run`) whose field `pc` says which call comes next and whose other
fields are the handler's local variables. **A step is one database statement or
one storage call**, or several that no other transaction can tell apart from
one. Writes of a transaction show when it commits; its row locks and advisory
locks show at once, in `lock`. An early return, an HTTP error and an exception
are all an end of the transaction that changes nothing (`Finish`, `Abort`,
`Fail`). Text, hashes, file contents, ids and mails are abstracted to model
values. History variables (`epoch`, `spent`, `ledger`, `mails`) record what
happened for a property to speak of; no guard reads them, except that a
session's `epoch` travels with the credential it was issued for.

*AttachmentStore.* `rows` is the `attachments` table, `live` and `trash` the
objects at `key` and at `.trash/key`. `Upload`, `DeleteAttachment`,
`DeleteAccount`, `PurgeDeleted` take the advisory lock; `Write`,
`QuarantineLocal`, `QuarantineCopy`/`QuarantineDelete`, `Restore...`, `Discard`
and `PutBack...` are the calls of `LocalStorage` (renames, one step) and of
`S3Storage` (copy, then delete: two steps). `CommitOK`, `CommitFails` and
`CommitInDoubt` are the outcomes of COMMIT; in the last one the connection is
gone and the database decides later (`ResolveDoubt`). The failures that may
happen are the constant `Faults`, their number `MaxFaults`.

*AuthSessions.* `session` is `refresh_tokens` and `link` the reset rows of
`email_tokens`. `Login`, `Refresh`, `Authenticate`, `Reset` read without
keeping a lock, what they read is in the request's record; `Issue`, `Rotate`,
`SignOut` and `EraseUser` commit. A password or TOTP sign-in uses the
`token_version` it read with the credential. Where the credential itself is
committed first (`Redeem`: a backup code, `auth/routes.py:35`; a verification link, a
registration, a provider sign-in), the commit expires the user and `issue` reads
the version again (`Reload`, `auth/tokens.py:69`). `lock` holds the row locks, which several
statements take in different orders: `BreakDeadlock` is PostgreSQL's detector.

`lost` remembers that a version was written over another request's.

*NoteSharing.* `LockNote` is `get_note`'s first look and its `FOR UPDATE`,
`Check` the evaluation of owner, share, deletion and level under the lock, and
the rest is what each endpoint commits. An attachment's handler takes the
cleanup's advisory lock before the note's row (`LockFiles`). `Leave` to `Erase` is
`delete_account`, which takes that lock and then one note after another
(`Gather`). The attachments of a note are part of its revision; their files are the
subject of `AttachmentStore`. `Calls` is the set of calls users may make.

*RateLimits.* `Insert` and `Count` are the two statements of `consume`;
`Cleanup` is the job that deletes expired rows; a bucket's row is locked only
while its inserter or updater has not committed. `clock` is the database's, which
`consume` goes by (`clock_timestamp()`); the job compares with the clock of its own
host (`jobs.py:136`), which may be ahead by up to `MaxSkew`.

*Notifications.* `Begin` tries the advisory lock, `List` and `Look` are the two
queries, `Send` the mail, `Record` the insertion and commit. One account stands
for all, as accounts share nothing but the job's lock. Users reschedule,
delete, restore and change their preferences at any time.

*Workspace.* A step is a user's act, the search timer, the server at work on a
request, or an answer together with all the code that runs up to the next
`await`. `lists` holds the list request whose answer still counts: where the
code bumps `requestVersion` and compares it afterwards, the model forgets the
request (`Outdate`, `CancelListWork`, `LoadList`). The same goes for `sharing`
(`sharingRequestVersion`) and `previewing` (`previewVersion`). `mutation` is the
one change under way, which `busy` stands for. A button's `[disabled]` is a guard
like one in the method behind it. A note is its id and a revision, a form is
clean or dirty, and error messages are left out: any of them offers Retry, so
Retry is always possible. `selected` and an entry of the list may be the same
object or two, so `ChildChanged` may change either or both. Other users and tabs
change nothing here: every property would be about their delay only. The server
lists notes in a fixed order, while the real one moves an edited note to the
front of its day.

*Accounts.* `user`, `identity` and `link` are the tables `users`,
`social_identities` and the `verify` and `change_email` rows of `email_tokens`;
`lock` holds advisory locks of addresses and the rows that `consume` locks.
`Register`, `Social`, `OpenLink`, `TakeAddress`, `AskChange` and `Resend` read;
`update_profile` has three steps: `AskChange` reads the account, `BeginChange` writes
its row, unless nothing changes, and starts the UPDATE of the links it can see
(`seen`), `StoreChange` completes it, inserts the new link and commits. A users row that
is written and not committed is `Writing`, for which other writers of it wait; who
asks again for the address it read as pending writes none (`IsAsRead`) and waits for
nobody. `StoreRegistration`, `Attach`, `MarkVerified`, `ConfirmChange`, `Merge`,
`StoreChange` and `MailLink` commit; `Issue` is the session stored afterwards,
in a second transaction. A link knows the mailbox it went to (`to`): who opens it
has answered from there (`proven`, of the account's present address). A link that expires is one nobody opens. The
unique index on local addresses is left out, since `OneLocal` shows that no
request relies on it.

*TwoFactor.* `AskEnable`, `AskConfirm` and `Begin` are what a request reads of
the account, `Enable`, `Confirm` and `Disable` what it commits, `Look` and
`UseCode` the two steps of `verify_totp_or_backup_code`. A secret and a set of
codes is a number; `proven`, `raced`, `tied` and `uses` are history.

*BrowserSession.* `jar` is the cookie jar all tabs share, `token` the access
token in each tab's memory. `Send` is what `call()` takes along at that moment;
`Serve` is the handler; `EndRefresh`, `EndLogout`, `EndAct` are the answer with
its `Set-Cookie` and the code up to the next `await`. `Lose` loses a request or
an answer. A cookie stands for a refresh token: `current` says whether its row
still accepts it, and a rotation makes every older copy, in the jar or under
way, not current. `Retry` is the interceptor after a 401, `EndCall` any other
answer. An access token stands for its session, and the server may refuse it at
any time (fifteen minutes pass). `AuthSessions` models the server's locks and
transactions that here are one step.

### The abstract specification

`AttachmentContract` knows for each key a phase (new, pending, attached, gone)
and whether its bytes exist anywhere. It allows bytes to be erased only once the
key is gone for good, and an attachment only to appear with its bytes. The
refinement mapping in `AttachmentStore` computes the phase from rows and from
the processes that may still commit, and the bytes from `live` and `trash`:
`KeepsContract` says that every step of the code is a step of the contract or
none. It is proved for a local disk and the failures named below (section 4), and
implies `BytesSafe`: what is attached has bytes. On S3 the contract is kept only while the
lock is (section 6); what holds there is `LockIsEnough`, of the form
`[]MovesUnderLock => []BytesSafe`.

## 3. Runs

| run | instance | shows |
|---|---|---|
| `AttachmentStore_local` | local disk, 2 keys on 2 notes of 1 user, 2 handlers and the purge, 2 failures of any kind but a lost connection | `BytesSafe`, `NeverConflicts`, `TrackedInv` (with `IInv` and `TypeOK`), `KeepsContract`, `NoLeak` (1.05 million states) |
| `AttachmentStore_s3` | S3, 1 key, 2 handlers, 2 failures of any kind | `LockIsEnough`, `QuarantineDrains`, `AttachmentReturns` (178 thousand) |
| `AttachmentStore_s3_refresh_fails` | S3, an upload whose refresh fails after its commit | *violates* `BytesSafe`, section 6 |
| `AuthSessions_races` | 3 requests, 2 sessions, 1 reset link, 2 sign-outs everywhere that may overlap | `IInv` (with `TypeOK`), `SignedOut`, `NothingLeft`, `RevokedStays`, `SpentOnce` (1.4 million up to symmetry) |
| `AuthSessions_overlap` | the same | *violates* `AllSignedOut`, section 6 |
| `Accounts_links` | 3 addresses, a trusted and an untrusted provider, 2 requests, 2 accounts, 3 links | `OneLocal`, `VerifiedIsProven`, `NoTwins` (4.1 million up to symmetry) |
| `TwoFactor_enrolment` | 3 requests, 2 secrets, 2 sets of 2 codes | `CodesMatch`, `SecretIsProven`, `SingleUse` (1.4 million up to symmetry) |
| `BrowserSession_tabs` | 2 tabs, 2 calls in one of them, 2 sessions, 2 lost messages | `SessionKept`, `LogoutRevokes`, `CallsSettle` (267 thousand) |
| `NoteSharing_races` | owner and recipient, 2 notes, 2 requests | `IInv` (with `TypeOK`), `SharesAreKnown`, `AllGathered`, `WritesAreAllowed`, `Answered` (569 thousand) |
| `RateLimits_windows` | 3 requests, 2 buckets, maxima 2 and 1, windows of 2 and 3 ticks, 4 ticks, a job clock up to 1 tick ahead | `IInv` (with `TypeOK`), `NeverOver`, `RejectedWhenFull`, `FailsOnlyBetweenWindows` (3.0 million up to symmetry) |
| `Notifications_jobs` | 1 note, 2 runs, 2 jobs, 2 weeks, 1 failure | `IInv` (with `TypeOK`), `NoFreeDuplicate`, `RecordedWasSent`, `Delivered` (232 thousand) |
| `Workspace_races` | 2 notes, pages of 1, 2 search texts, 1 revision, 1 failure | `ShownBelongs`, `DeletedIsGone`, `UndoIsOffered`, `ListSettles`, `DraftIsKept` (4.7 million) |

`TypeOK` of `Accounts`, `TwoFactor` and `BrowserSession` and `WorkspaceTypeOK` are
part of the invariants proved in the proof modules. The runs of these four spend
their time on the other properties.

### Bounds and why they are enough

* Attachments are independent but for the lock and the note or account they
  hang on; two keys on two notes let a deletion fail after the first file, and
  let one account deletion and the purge handle several. Two handlers and the
  purge are an upload or deletion, another one, and a reconcile between their
  steps. Two failures are one that starts an undo and one inside it. On S3 and
  for liveness one key is enough for the copies of one object.
* `MaxChanges = 2` gives two sign-outs everywhere: one to escape from and one
  to be confused with. `MaxRotations = 1` gives an old and a new token. Requests,
  sessions and links are interchangeable, and no liveness is checked, so TLC
  takes them up to symmetry.
* Two accounts are the one that has an address and the one that wants it, by
  registration, a change or a provider; a third address is where the first moves
  to. Three links are a first verification, a change and the change that
  replaces it. Requests, addresses and links of a user in any order: up to
  symmetry of requests and addresses.
* Two secrets and two sets of codes are an enrolment and the one that follows
  or overtakes it; three requests are two enrolments, confirmations or sign-ins
  and one that switches the factor off.
* Two tabs share the jar; two calls of one tab share a refresh. A user starts an
  authentication request when none is under way (`MaxInFlight = 1`), beside which
  the refreshes of that tab's calls start at will; the other tab refreshes when its page
  asks for a token (`Ensure`). The safety properties were also checked
  once with two (4.1 million states). Two lost messages are an answer and the
  retry that was to make up for it.
* A note's text is a counter modulo `Revisions = 2`: a property only asks
  whether a step changed it. Two requests are a check and what overtakes it.
  Two notes are what a deletion locks one after the other while an editor, a new
  share or an attachment's handler has one of them or the cleanup's lock; every call
  happens to the first, an edit and a share to the second. That no number of
  requests and notes deadlocks is proved.
* The limiter's hits are counted up to `Maximum + 2`, beyond which nothing
  depends on them; `MaxClock = 4` covers two windows of the shorter bucket and one
  of the other with the start of its next; a skew of one tick deletes a row that still
  counts. The proof holds for any skew.
* The reminder's clock has two instants: before the lead time and inside it, and
  these are also two weeks of the digest. A single failure separates
  `1 + faults` from more.
* In the workspace two notes are the one on show and another that an answer is
  about; pages of one note make the second arrive by `LoadMore`; the second search
  text matches one note only. `MaxRev = 1` tells a note from its old copy, and a
  revision that reached the bound stays there, so that no act is cut off.

`CHECK_DEADLOCK FALSE` is set for `AuthSessions`, `NoteSharing` and `Accounts`
alone, where an account that is deleted, or a note that is purged, or the bounds on
rows are the end: no request can then start. Processes that wait on one another forever would be missed by the
deadlock check in either case (other actions remain possible); `Answered` is
what excludes them for notes.

### Fairness

* `AttachmentStore`: each process in the middle of its work goes on (weak
  fairness: a thread or a pod runs), waiters of the advisory lock get it in
  turn, a transaction in doubt is resolved by the database, and the purge starts
  again and again (`deploy/app.yaml`, CronJob with `concurrencyPolicy:
  Forbid`). Nothing makes a user send a request and no failure is fair.
* `NoteSharing`: strong fairness for the steps of a request, since PostgreSQL
  queues the waiters of a row lock in order: one that finds it free again and
  again gets it.
* `Notifications`: a run goes on to its end, and the reminders start again and again
  when their lock is free, by whichever run (a CronJob of every minute, against leads
  of a minute at least). The digest's CronJob runs once a week and its keys
  are per week (`service.py:161`), so nothing starts it again for the same week:
  `DigestDelivered` is about a digest that has begun, and what a failure loses is
  lost. Time need not pass: `RemindersDelivered` is about what remains due.
* `BrowserSession`: the server answers a refresh, or the browser gives it up
  (`Lose`); the tab deals with an answer; a call is answered. Sign-ins, sign-outs
  and lost messages are never fair.

## 4. Proofs

Eight modules hold theorems; each is proved for every value of the constants that
satisfies the named assumptions of its model, and thus without the bounds of the
runs: any number of requests, rows, links, windows and failures. None of the
properties below is inductive as it stands. Each component has an invariant that is
(`IInv`, `TrackedInv`, `LockInvariant`, `WorkspaceInv`), proved with one lemma (or
one step) per action, and the properties follow. It is an invariant of the
module's run, or was model-checked on the instance of that run before it was
proved (`TwoFactor`, `Accounts`, `BrowserSession`, `Workspace`; `LockInvariant` also
on two keys of one note and of two, in all states that files moving under the lock
lead to).

Every safety property that a passing run checks is the subject of a theorem. The
assumptions say which sets are finite where something is counted (`Runs`,
`Requests`, `Notes`), that model values such as `None` are none of the ids, that
bounds are numbers, and that a browser has a session to begin with; only the
theorems about a local disk exclude behaviours.

**`AttachmentStore_proof`.** `TypeCorrect` and `LockSuffices` hold for both backends
and all failures. Under `Backend = "local"` and `"connection" \notin Faults`:

* `LocalInvariant`: `Spec => []IInv`; the next three follow from it.
* `LocalBytesSafe`: a committed attachment has its bytes.
* `LocalNeverConflicts`: reconcile never finds two copies.
* `LocalKeepsContract`: `Spec => KeepsContract`. The code implements
  `AttachmentContract`.
* `LocalTracked`, and from it `LocalNoLeak`: no object escapes the bookkeeping.

`BytesSafe` (the object of every row is at its key or in quarantine) needs what
keeps the two stores together: whoever works on files inside a transaction holds
the advisory lock (`LockHeld`), a rename never leaves two copies (`OneCopy`), the
key of a running upload is known to that upload only (`UploadIsPrivate`,
`OnlyUsed`), a transaction in doubt holds the lock until it is resolved, and what
it may attach is one key, neither discarded nor lost (`DoubtIsSafe`), and each loop
works only on keys it is entitled to: a handler moves keys its own transaction
deletes, discard only sees keys without rows, reconcile's findings stay true until
it acts on them (`LoopsAreSafe`). The lost connection breaks `LockHeld`, and the
proof with it: see section 6.

The refinement maps each step with the same invariant: a request for an upload is
`Reserve`, `storage.write` is `Store`, the commit is `Attach` or, for all keys of a
deletion at once, `Detach`; a doubtful commit is a stutter and its resolution one
of the two or `Abandon`; a failed or crashed upload is `Abandon`; `discard` and
reconcile's `droptrash` are `Erase` or, where nothing is left to erase, a stutter;
everything else changes neither phase nor bytes (`Quiet`). What makes it work is that
a key is pending by one process alone (`PendingByUpload`) and that what a process
holds in its hands is not pending (`NotPending`).

`NoLeak` needs more than `IInv`: `TrackedInv` adds, per process, that a deletion has
moved what it found when it commits or is in doubt (`DoubtTracked`), so that a row
never goes before its object; that it and reconcile give back only what has a row;
and that an undo has yet to move every object of its upload that has no row
(`Tracked`). Every step is then shown to leave the others' objects alone and its
own answered for (`StepTracks`).

`LockSuffices` (`LockIsEnough`) is what is left of `BytesSafe` on S3, where a move may
stop between its copy and its delete, and with connections lost under a running
request: a behaviour that moves files under the lock throughout loses nothing. It
needs an invariant of its own, as `OneCopy` and `LockHeld` fail here.
`LockInvariant` says that the bytes of every key that has a row, or will have one if
the commit in doubt took place (`Wanted`), are kept; that uploads have no key in
common with one another or with the upload in doubt (`UploadsApart`); and,
per process (`LoopFits`), that between copy and delete the copy is there, that
reconcile has the rows of what it has left and drops no only copy, and that what is
discarded is not wanted. The step that the argument turns on is `OneMover`: if two
processes may move files of a wanted key, they are one. With `MovesUnderLock` before
a step, what the step takes away is therefore in no other hand (`TakesItsOwn`,
`BystanderFits`); `LockInvariant` holds after it although `MovesUnderLock` need not.
Keys become wanted in three ways only: a commit and a lost answer attach a key that
is its upload's alone (`LockAttach`), and the resolution of a doubt what was
wanted before (`LockResolve`), while nobody can reconcile.

**`RateLimits_proof`.** `LimitHolds` (`NeverOver`), `RefusalIsRight`
(`RejectedWhenFull`) and `FailureIsHarmless` (`FailsOnlyBetweenWindows`), for any skew
between the job's clock and the database's: a job that is ahead may cut a window
short, by no more than the skew, and never admits more than the maximum in one. The code
keeps a counter per row and the cleanup job deletes rows, so `NeverOver` needs that a
row counts exactly the admissions of its window (`RowMatchesLedger`), that a
window which lasts for more than `MaxSkew` has a row (`RunningHasRow`: the cleanup took
none that counts for longer), and that a row not yet committed belongs to a request about to count in
it (`LockIsCounting`).

**`TwoFactor_proof`.** `CodesAreCurrent` (`CodesMatch`), `SecretWasShown`
(`SecretIsProven`), `CodesAreUsedOnce` (`SingleUse`). Added are what enabling and
confirming read of the account (`EnrolmentReads`), that an unused code, or one of a
set not given out yet, was never accepted and is in nobody's hand
(`UnusedIsFresh`), and that who is about to mark a code is alone with it and the
first, unless the code is `tied` (`UseIsFirst`).

**`NoteSharing_proof`.** `SharesStayKnown` (`SharesAreKnown`), `DeletionIsComplete`
(`AllGathered`), `RevocationIsImmediate` (`WritesAreAllowed`), `NoCircularWait`. A permission is
checked in one step and used in another: `LocksAreHeld` (who has looked at a note
holds its row, and the note stays) and `ChecksHold` (what the check found is true
until the commit) close that gap, `GatherIsComplete` the one between the list of
notes `delete_account` makes and the locks it takes one by one. `NoCircularWait` is
what liveness rests on: of every set of requests one waits for no other of
the set, since the cleanup's lock is taken before any note (`LockOrder`), only its
holder waits for a note while it holds another, and each note is asked for once.

**`Notifications_proof`.** `DuplicatesArePaid` (`NoFreeDuplicate`) and
`FailedStaysEligible` (`RecordedWasSent`). A mail is sent before it is recorded, and
a run whose lock's connection was lost goes on. `MailsArePaid` counts: the mails of a
key, the runs without the lock that may still send it (`Strays`), and one more
unless it is `Settled` (recorded, and not about to be sent by the run with the
lock), never exceed `1 + faults`. It needs runs that keep to their job and look
at each candidate once (`RunsKeepToTheirJob`), locks that belong to runs at work
(`LocksAreOfRuns`), and that what is to be recorded was sent (`RecordFollowsSend`).

**`AuthSessions_proof`.** `SignOutIsComplete` (`SignedOut`), `DeletionLeavesNothing`
(`NothingLeft`), `SignedOutForGood` (`RevokedStays`), `RedeemedOnce` (`SpentOnce`).
Added are what each request may hold (`OpsFit`, `RowsAreHeld`), that a row being
inserted is nobody else's (`InsertsAreNew`), that versions count sign-outs as long
as no increment was lost (`VersionsAreEpochs`, of the version that a sign-in read
last), that what was redeemed is behind its
row (`SpentIsOver`), and that sign-outs never outnumber the requests that started
one (`ChangesAreCounted`).

**`Accounts_proof`.** `AddressHasOneAccount` (`OneLocal`), `VerificationProves`
(`VerifiedIsProven`), `TwinsAreMerged` (`NoTwins`). Per account, the address of who is
verified was answered from (`UserFits`); per link, its account exists and it went to
the address it is good for, unless that has moved or was confirmed (`LinkFits`); per
request, what it read of a link's account (`OpenedFits`) and of an
address under that address's lock (`LookedFits`) is so until it commits, and what
the others hold exists (`InHand`). A change of address uses up the links it saw when it
began: those that came later are for the same address (`RelinkFits`), since at
most one request is writing the users row (`OneWriter`) and a request that overlaps
with one for another address marks the account as `mixed`, which the property
excepts.

**`Frontend_proof`, of `BrowserSession`.** `TabsKeepTheSession` (`SessionKept`) and
`SignedOutMeansOver` (`LogoutRevokes`). Call a session spoiled if it is over or raced.
What a tab or a request relies on is in the jar or spoiled (`KnownIsKept`), so that
a refresh without a cookie comes late (`BareRefreshIsLate`). A cookie that was
rotated away is presented or brought for a spoiled session only (`StaleIsSpoiled`),
and while the jar has one of a session that is not spoiled, the answer with the next
one is under way (`StaleIsReplaced`): who sends the old one meanwhile overlaps with
that refresh (`OverlapsAreRaces`). A rotation spoils no sign-in whose answer is
still to come, for nobody relies on its session yet (`LoginIsFresh`). The invariant was
checked with more requests under way than the run allows, too (`MaxInFlight = 2`).

**`Frontend_proof`, of `Workspace`.** `AnswersShowTheirNote` (`ShownBelongs`),
`DeletedStaysAway` (`DeletedIsGone`), `ToastIsTrue` (`UndoIsOffered`),
`ListIsTheServers` (`ListSettles`) and `DraftsAreKept` (`DraftIsKept`), for any number
of notes and search texts, pages of any size and answers in any order.
`ListSettles` speaks of the moment when nothing is under way; what has to hold before
is that a list answer which counts is about the query in the box and, as long as
no change of a note is under way, what the server has, and so is the list it
extends (`ListsFit`): `load` and `requestVersion` see to that, since every change
starts by outdating the lists on their way. A page on its way never has a note whose
deletion was acknowledged (`DeletedStays`), which keeps late answers from reviving
it. The user cannot leave the note that a deletion or a change of a file or an item
is about, and no list answer takes the selection from it (`ChangeIsHere`): its answer
may apply to what is on show. A change carried out is what the server has until its
answer comes (`ChangeIsDone`), so that undo and its toast agree with the server.
An answer that counts leaves the list as the server has it, whether it replaces the
list or adds a page (`ListIsCurrent`). One module holds the proofs of both front-end
components, which share no name and no state.

**Model-checked only.** Liveness under fairness (`QuarantineDrains`,
`AttachmentReturns`, `Answered`, `Delivered`, `CallsSettle`),
which the prover cannot reach. `KeepsContract` and `NoLeak` are checked and proved
for a local disk. On S3 both are false: after a failed refresh or a lost connection
files move without the lock, and a quarantine that fails half-way puts back the
object of an upload nobody answers for any more. Neither is claimed there.

## 5. Not modelled, and the plan

Written, in order of what losing would hurt most: `AttachmentStore`, `AuthSessions`,
`NoteSharing`, `RateLimits`, `Notifications`, `Workspace`, `Accounts`, `TwoFactor`,
`BrowserSession`, and proofs of all of them. What remains of the plan are the
connection pool and the rest of the account page, below.

Not modelled, though it keeps state: the storage migration, a tool run by hand
while attachment writes are in maintenance mode (the repository's README.md:99)
which keeps every source file; the connection pool, of which the code sets the
size only (`limit()` asks for a second connection while `current_user` holds one:
as many such requests as the pool has connections wait for its timeout and then
fail); the forms of the account page that neither end nor open a session.

Left out for good: export (a pure rendering of one note), search and listing
(reads), logging, metrics and error tracking (output only), Alembic migrations
(run before the application starts), TOTP, password hashing and JWT arithmetic
(libraries), content sniffing, and the schemas' validation of single fields.

## 6. Where the code and its promises differ

Two runs show a behaviour of the code that contradicts a test or a document:

* `AttachmentStore_s3_refresh_fails`: the undo of an upload runs without the lock
  (`notes/routes.py:179`). When the upload has committed and the refresh after
  the commit fails (line 174), a reconcile that sees the object and the copy in
  `.trash/` discards the copy, and the undo then deletes the original.
  `backend/tests/test_api.py:362-372` expects the attachment to survive.
* `AuthSessions_overlap`: `token_version` is written back as the value read plus
  one (`auth/routes.py:161`); two overlapping sign-outs count once, and a
  session opened between them survives the second. `AUTH.md:58` says that all
  sessions are revoked. `SignedOut` is the same property for as long as no
  increment was lost.

Others have no run of their own; a property that passes says exactly where they
begin.

* The cleanup job may delete a bucket between the two statements of `consume`, and
  the request fails with a 500 (`rate_limits.py:163`), though
  `docs/PRD/04 Production Readiness/13 - done - App-wide rate limiting.md:12`
  speaks of atomic transactions that lock the bucket. It happens between windows
  only (`FailsOnlyBetweenWindows`).
* Two requests that look up the same backup code before either marks it both
  accept it (`auth/routes.py:32`); `AUTH.md:14` calls the codes single-use. `SingleUse`
  excepts codes looked up by two requests at a time.
* A confirmation writes `totp_enabled` alone: when a new secret is stored, or the
  factor switched off, between its look at the account and its commit, the factor
  is on with a secret nobody has shown a code of, or with none
  (`auth/routes.py:361`, `:371`, `:379`), against "requires one valid code before it
  turns on" (`AUTH.md:14`). `SecretIsProven` excepts the secrets stored or enabled
  this way.
* `update_profile` sets `pending_email` on the account as it was read, and
  SQLAlchemy writes a column only if it differs from that. A request for an address
  that was already pending when it began writes no users row and waits for none. If
  another change was stored in between, it mails a link to the first address that
  confirms the second. If another change is between its UPDATE of the links
  (`auth/routes.py:274`), whose snapshot lacks the new link, and its commit, two links
  are left, and the one to the first address confirms the second.
  `docs/PRD/02 Auth and Registration/06 - done - Account management.md:16`
  requires the new address to be verified, and `AUTH.md:13` says the old one works
  until the new one is confirmed. `VerifiedIsProven` excepts accounts
  where this happened (`mixed`).
* The delivery rules of `docs/PRD/03 Feature Roadmap/08 - done - Notifications and
  reminders.md:17` say that "a failed `send_email` call remains eligible for retry".
  For a reminder the next minute's run is that retry. A digest's key names its week
  (`service.py:161`), and the schedule runs it once a week (`:13` of the same
  document): nobody retries it. `DigestDelivered` excepts failures.
* A tab's sign-out that a refresh in the same browser overtakes gets a 401, which
  `logout()` takes for success (`auth.service.ts:70`): the tab shows signed out
  while the session goes on, and an answer to the refresh that comes later signs
  the tab in again (`auth.service.ts:46`). `LogoutRevokes` and `SessionKept`
  except sessions on which requests overlapped, or an answer was lost; two tabs
  that refresh at the same time are documented (`AUTH.md:58`).
* `docs/PRD/03 Feature Roadmap/04 - done - Pagination.md:14` says that changes
  "reload the first page so list contents and totals remain authoritative".
  `select()` and `create()` give up a list that is under way
  (`notes-workspace.ts:354`, `:364`), the one that follows a change included, and
  nothing asks for it again: a new note is then missing, and an edited one is
  listed with its old text. To choose that entry, edit and save it overwrites the
  newer text. `ListSettles` excludes lists given up this way by the history
  variable `dropped`; without it TLC shows the behaviour.

Known limits of what the passing runs assert, each a behaviour of the code too:

* A second `verify` link of an account empties it of its identities once another
  verified account has the address, even if it is verified itself
  (`auth/routes.py:253`); a sign-in that had read an account before it was merged may
  open a session of it afterwards.
* A sign-out in a tab where another tab's sign-out deleted the cookie first is
  answered with a 403 and fails, and a refresh that fails because the network
  does signs the tab out (`auth.service.ts:50`). A sign-in whose tab also has a
  refresh under way without a cookie is dropped when that refresh fails.
* On S3, a deletion that loses its connection, and so its lock, between the copy
  and the delete of quarantine loses the bytes if a reconcile runs in between
  and the transaction rolls back. `LockIsEnough` and `AttachmentReturns` speak of the
  behaviours in which this does not happen (`MovesUnderLock`), `QuarantineDrains`
  of all. On a local disk three failures with a lost
  connection among them do the same; the proof excludes them.
* A two-factor challenge carries no token version: for its five minutes it opens
  a session after a password change. `AuthSessions` leaves the challenge out:
  its `Login` reads the account when the credential is checked.
* A sign-in with a backup code, a verification link or a provider reads the account's
  version again after its credential was committed (`auth/routes.py:35`,
  `auth/tokens.py:69`): a sign-out everywhere in between does not reach the session
  it is about to open. `SignedOut` counts a sign-in from the read of its version.
* The cleanup of rate limits goes by the clock of the job's host (`jobs.py:136`), the
  limiter by the database's. If the job is ahead, it deletes rows that
  still count: a window ends early by up to the skew, and a request between the two
  statements of `consume` fails with a 500 in a window that lasts. `NeverOver`,
  `FailsOnlyBetweenWindows` and their proofs allow for `MaxSkew`.
* `NoteSharing` has the locks that handlers take by `SELECT ... FOR UPDATE` and the
  advisory lock. Waits that foreign keys cause (the contact that `add_share` inserts
  against the cascade of `delete_account`) are left out: where those close a circle,
  PostgreSQL's deadlock detector ends one request with an error.
* In `Workspace` a request that the tab saw fail is one the server never carries
  out, or had carried out before the answer was lost (`ServeMutation`, then
  `MutationFails`). A request still on its way to the server when the tab
  gave it up may in fact be carried out later; the list the tab
  then asks for may not show it.
* `delete_account` locks the notes it finds at one moment. A note shared with
  the user afterwards is not among them, and an edit of it by the leaving user
  that already passed its checks commits after the deletion.
  `WritesAreAllowed` therefore speaks of users who exist.
* A crash between the write of an object and the COMMIT of its row leaves an
  object nobody will find: reconcile scans the quarantine only. `NoLeak` is
  about uploads that get to undo themselves.
* A notification run reads the clock once. A run that takes long mails a
  reminder after its meeting has begun.
* `Restored` and `Saved` end a draft: an undo discards an unsaved new note without
  a question, and what is typed while a save is under way is lost when it
  succeeds. `DraftIsKept` allows both.
* `cancel()` leaves a list under way to count, and `load()` looked at the
  selection before it waited: its answer may show the first note in place of the
  one `cancel()` chose.
* `openSharing()` and `addShare()` may overlap: the list of collaborators that
  was asked for first may replace the one with the new collaborator.
  `ShownBelongs` is about whose collaborators are shown, not about how recent.
