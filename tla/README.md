# Forkluck in TLA+

Forkluck is a Next.js application (`src/apps/web`) over a Django API
(`src/apps/api/forkluck`) with a PostgreSQL database, a worker process that
pulls point-of-sale data (`run_pos_sync_worker`), and a separate connector
service (`src/services/connectors`) that collects supplier invoices. This
directory holds TLA+ models of the parts where several actors change the same
state (workers, windows, controls, pollers, and the failures between them), the
TLC configurations that check them on small instances, and TLAPS proofs of the
properties that matter most. In the sections on the API, paths are relative to
`src/apps/api/forkluck/`; in those on the web application, to `src/apps/web/`.

## 1. The system's parts

| Part | State it keeps | Operations | What is hard | What makes it correct |
|---|---|---|---|---|
| POS sync queue (`domains/sales/pos_sync.py`, worker command) | `SyncRun` rows: status, claim token, heartbeat, attempts, progress, checkpoint, result | request, retry, recover, claim, one bounded pass, finalize, decorate | worker death and stalls, two workers on one run, state read before a provider call and used after it, attempt cap | every requested run closes; a closed run stays closed; the receipt is exact |
| POS connection (`integrations/pos_oauth.py`, `domains/sales/connections.py`) | `SalesChannelConnection`: status, generation, tokens, sync lease, watermark, cursor, locations | OAuth callback, disconnect, undo, token refresh | provider calls between transactions, rotating refresh tokens, merchant-wide revocation | nothing of an old credential reaches a new one |
| Sales sessions (`integrations/pos_sync.py`) | watermark, session cursor, known locations | plan a session, read pages, advance | late orders, sessions of many passes, interruption by reconnect or undo | every order is read sooner or later, and stored once |
| Import and undo (`domains/sales/core.py`) | `SalesImport`, `SalesLine`, variants, ignores | CSV, manual and API import, undo | undo against a running sync | undo takes back the newest import and its lines are readable again |
| Matching (`auto_match.py`, ignore rules) | variants, ignores, rules | mirror pending items, sweep rules | many priorities | no item both tracked and ignored |
| Billing (`domains/accounts/billing*.py`, `integrations/stripe.py`) | customers, checkout attempts, webhook events, reconcile generation | checkout, webhook, reconcile, delete account | late and repeated webhooks, reads of Stripe superseded by later ones, a crash between a Stripe call and storing its id, deletion against a Checkout under way | an event is answered only when it was read; what is stored never goes back; a deleted user leaves nothing running; nobody is subscribed twice |
| Connector sync (`domains/invoices/connector_sync.py`, `src/services/connectors`) | `ConnectorSyncRun`, page cursor, pending acknowledgement | claim, poll remote run, import page, acknowledge | two durable queues that replay to each other | each document is imported once and acknowledged after that |
| Document save system (`hooks/use-document-save.ts`, `use-save-queue.ts`, `use-form-save.ts`, `use-edit-chrome.ts`, `lib/draft-store.ts`, `components/navigation-blocker.tsx`, the editors, `domains/shared/versioning.py`) | the form, its baseline, version and pill, one request and one queued save, a recovery copy per slot, the row and its `edit_version` | type, save, autosave, leave, reload, restore, discard, conflict | typing while a save is in flight, several windows, saves whose page is gone, lost answers | what reads Saved is stored; nothing unknown is overwritten; nothing typed is lost without a decision |
| Commit controls (`hooks/use-commit.ts`) | a queue per conflict domain, one pill, the values on screen | pick a value, send, answer, fail | a failure with newer values behind it, one pill over many queues | a quiet control shows what the server acknowledged |
| Primo (`components/primo/primo-provider.tsx`, `app/api/primo/chat/route.ts`, `domains/primo/actions.py`) | the page of each window, requests on the route, transcripts | ask, ask again, edit, regenerate, stop, load, delete | answers of superseded turns, failures after the question was kept, loads that come late | an answer follows the question it was made for |
| Drive watcher (`lib/drive-watch.ts`, `lib/google-drive-service.ts`, `domains/invoices/drive_system.py`) | one Changes cursor, one folder a workspace, a registry row per file | poll, list, register in chunks, start over, connect, import, skip, unskip | a poll that fails half way, an expired cursor, a folder replaced under a poll, a skip against an import | the cursor never passes a file that was not registered; an imported file stays imported |
| Invoice import (`components/invoices/import-invoices-dialog.tsx`, `domains/invoices/actions.py`) | the dialog's inbox of files and parts, invoices, registry rows | read, retry, import, replace, skip, remove | jobs that end after their row is gone | each document is imported once |
| Verification and throttling (`verification.py`, `throttling.py`) | codes, counters | issue, verify, hit | concurrent attempts at a cap | a code is used once |
| Settings (`domains/workspace`) | one row per workspace | save | lost updates | a save on a stale version is refused |
| HTTP dispatch, rendering, provider clients | none | | | |

Interactions. The web application calls actions of the API. Actions and the
worker meet only in the database; windows of one browser also meet in its
storage, and the save system, the commit controls and Primo each keep a queue or
a request whose answer may come when the page has moved on. Every multi-row
transaction of the POS part first takes the workspace's `User` row (`lock_workspace`), then the connection,
then the run; single guarded `UPDATE`s take no other lock. Provider calls are
never made inside a transaction. So a transaction is one atomic step and
everything between two of them is a place where any other actor may run: this
is the granularity of all models here.

## 2. Modules

| Module | What it is |
|---|---|
| `SyncIntent` | abstract: what one press of "Sync" promises |
| `PosSync` | the durable queue, its workers, the connection around it |
| `PosSyncProofs` | its proofs: safety, the refinement of `SyncIntent`, queued runs |
| `SquareGrant` | one Square merchant's tokens against callbacks, disconnects, workers |
| `SquareGrantProofs` | its proofs |
| `PosSession` | which orders the next Square pass reads |
| `PosSessionProofs` | its proofs |
| `CommitQueue` | controls that save themselves, one queue per conflict domain |
| `CommitQueueProofs` | its proofs |
| `DocumentSave` | editor windows, save queue, recovery copies, versioned rows |
| `DocumentSaveProofs` | its proofs, and those of `RecordEditing` |
| `RecordEditing` | composes `DocumentSave` with `CommitQueue` on one record |
| `PrimoTurns` | windows asking Primo, the chat route, the transcripts |
| `PrimoTurnsProofs` | its proofs |
| `DriveWatch` | the poll of Drive against workspaces, files and failures |
| `DriveWatchProofs` | its proofs |
| `Billing` | one account's Checkouts, Stripe's events, reconciliation, deletion |
| `BillingProofs` | its proofs |
| `MC...` | the instance of each for TLC (symmetry) |

### PosSync

One workspace, one provider. `conn` is the `SalesChannelConnection` row, `run`
the `SyncRun` rows, `imports` the active `SalesImport` batches, `worker` each
worker's place in `process_next_sync_run` together with the memory that
survives between its transactions. `landed` is history.

* A claim or lease token is a fresh UUID; here it is the worker that drew it.
  A run is claimed only when its claim is NULL, and a worker draws a lease
  before it depends on one, so no worker can mistake an old token of its own
  for a new one.
* `worker[w].checkpoint` and `.progress` are the Python object's fields. They
  are separate from the row on purpose: `RollBackPass` changes the object and
  not the row, as the code does when a pass's transaction raises after
  `run.checkpoint = locked_run.checkpoint`.
* `fresh`, `due` and `leaseFresh` abstract the three clocks (heartbeat,
  `available_at`, lease start) to whether they have passed their limit. The
  order of unrelated deadlines is therefore free, and more behaviours are
  allowed than real delays would allow.
* A provider record is its immutable id. What a pass does to a record already
  in the ledger (update in place) leaves `imports` alone. The number of lines
  moved by ignore rules while finalizing changes counters of the receipt, not
  which records it accounts for.
* Undo refuses anything but the newest active import over all provider
  channels; with one provider that is the last of `imports`. Another
  provider's newer import only makes an undo impossible for a while.

| Code | Action |
|---|---|
| `save_connection` | `Connect`, `Reconnect` |
| `action_disconnect_pos` | `Disconnect`, `FinishDisconnect` |
| `action_undo_sales_import` | `UndoImport` |
| `action_enqueue_pos_sync`, `action_retry_pos_sync` | `Enqueue`, `RetryFailed` |
| `recover_stale_sync_runs` | `Poll`, then `Recover` for each candidate |
| `claim_next_sync_run` | `Claim`, `Sleep` |
| `_execute_claimed_sync_run` | `Start`, `Judge` |
| `_claim_sync_lease`, `_release_sync_lease` | `ClaimLease`, `ClaimDecoration`, `Release` |
| adapter, provider | `FetchFails`, `GrantDies` |
| `_commit_sync_pass` | `CommitPass`, `CommitRefused`, `RollBackPass` |
| `_retry_or_fail_run`, `_finish_run` | `Settle` |
| `_finalize_sync_checkpoint` | `Finalize`, `FinalizeLost`, `SweepFails` |
| `_decorate_completed_sync` | `ClaimDecoration`, `Decorate` |
| process death, clocks | `Crash`, `HeartbeatExpires`, `LeaseExpires`, `RetryDue` |

### SquareGrant

`PosSync` has one abstract credential; here the queue is only "some worker
serves the connection" and every call to Square is a step of its own. A pair
of access and refresh tokens is one number, Square (`square`) accepts a refresh
token once and answers with a new pair of the same grant, and a revocation is by
merchant. A worker keeps the copy of the row it read before leasing, as the code
does, and decorates with that copy after its run. The environment of Square is
external: `square.py` says it rotates on use, and that a lost answer can strand a
connection. `LeaseExpires` only ends the lease of a worker that is gone: 15
minutes outlive any pass, which the code's comment on `SYNC_LEASE_TIMEOUT`
argues.

### PosSession

What a session is (`_session_cursor`), what a pass reads of it
(`SquareSalesAdapter._acquire`), how the watermark moves (`_commit_sync_pass`)
and what undo and reconnect do to it. `PosSync` shows that a pass whose
connection was replaced, undone or taken over while it read the provider does
not commit, so here a pass is one action. Time is in days; `Show` lets an order
appear up to `Overlap` days after its stamp, which is the lateness `OVERLAP`
promises to cover. A page may miss an order that showed up after the session
began, and must contain those that were there before: that is `Due`. `cut` is
history: the locations whose first full read was interrupted.

### CommitQueue

One screen of controls under `useCommit`. A value is the number of the commit
that picked it, so order and identity are one thing. `queue[d]` is the `Queue`
object of a domain (`desired`, `desiredRevert`, `confirmed`, `waiting`), and
`write[d]` the iteration of `drain()` that awaits. A caller's revert closure is
the value it puts back. `Land` is the server action's commit and `AnswerSaved`,
`AnswerFailed` are everything `drain` does from an answer to its next `await`:
resolve the callers, move `confirmed`, revert, set the pill, send what waits.
`late` holds writes that timed out at the client and may still run at the
server. After `Unmount` no continuation runs, as `mounted.current` has it: the
value queued is dropped with its callers.

### DocumentSave

Any number of windows of one browser on documents of one kind: a recipe
(autosaves), an invoice or a menu (save when asked, keep recovery copies), or an
explicit form (`useFormSave`). What was typed is an edit number; a form also has
a shape, because a half-typed pair saves a part of itself and an invalid form
saves nothing. A row is the sequence of everything it has held, so that
`edit_version` is its length less one and "what this window knows" is an index.

| Code | Action |
|---|---|
| typing, undo | `Type` |
| `saveNow`, Cmd+S | `Save` |
| quiet timer, minute timer | `Autosave` |
| `NavigationBlocker`, `beforeLeaveRef`, the dialog | `Leave`, `Stay`, `LeaveWithout` |
| restore banner, conflict banner | `Restore`, `Discard`, `DiscardMine` |
| mount, reload, redirect after a create, RSC refresh | `Open`, `Reload`, `Arrive`, `Refresh` |
| save actions with `check_and_bump` | `Serve`, `ServeOrphan` |
| the rest of `run()` and of the queue's loop | `Answer`, `Fail` |

React renders after every step, so each step ends with the render's effects
(`Becomes`: the copy is written, moved or cleared, the address swapped). Only
the queue's second save runs before a render, with the closures of the render
before it: that is where the editors that close over an id (`ClosesOverId`)
differ from those that read it from a ref. A window that goes away leaves its
loop behind as an orphan, which may still write. `DiscardMine` drops the copy and
asks for a reload, which is `Reload` and which the cook may refuse at the
browser's prompt; hiding an offered copy renders the form again, and a dirty form
writes its copy. The timers wait until a new recipe has a name, a line or a step
and for a cook who may edit: an edit here is one that makes the recipe worth a
row, by such a cook.

### RecordEditing

`DocumentSave` and an instance of `CommitQueue` on the same recipe row: the
Nutrition tab's yield control rewrites the line that an editor's save restates,
of a saved recipe, and bumps the version without checking one; its serving control
owns its field. The tab is a route without the editor. Its
`stored` is not a variable but what the row holds, so the two modules meet in the
data and not only in time.

### PrimoTurns

Each window's provider, the requests the chat route is working on, and the
stored transcripts. A question is its id and text, an answer is the question as
it read when the answer was made, and each save of a question is a generation.
`Posted` is `send` up to the request; `Save`, `SaveRefused`, `SaveUnheard`,
`Unavailable` and `Reply` are the route with the API behind it, which go on
whether or not the page still listens; `Failed` is what the provider makes of a
refusal (text given back), of an acceptance and of silence (turn left in place).
The AI SDK is external and modelled by what the provider relies on: a message
sent again replaces its row and drops those after it, `regenerate` drops the
last answer, `stop` ends the page's part at once. A text is asked as a new
question only when nothing shows it and nothing may still give it back
(`Unasked` looks at stored rows, pages, drafts, requests and what each attempt
would put back), so that two questions with one text are one question twice.
`AskedTwiceOnlyAfterRefusedRetry` therefore assumes that nobody types by hand, for
example after a reload, a question whose earlier request may still be stored.
`fresh` is `newConversationIds`: choosing a conversation in it leaves the page as
it is (`Kept`), choosing any other clears and loads it (`Loading`), and a title
from the route takes the conversation out (`Titled`).

### DriveWatch

Drive keeps one change per file, its latest, so the feed is the position at
which each file last changed and a cursor is a position. A poll is a sequence of
awaited calls (`List`, `RegisterListing`, `TakeFirstToken`, `ReadChanges`,
`RegisterChanges`, `Save`, or `StartOver` when Google has forgotten the cursor),
and files move, merchants connect, disconnect, import and skip between any two
of them. `Fail` is a failed call or a restart: the cursor is put back to what
the poll started from, and what took effect did so before. A registration
given up on at its timeout and served only after a later poll is not modelled: it
could bring a withdrawn row back. `began`, `listed` and `deaf` are history: where the
cursor began, what was listed when, and what was read while a workspace had no
folder. An import writes its rows in one transaction. `action_skip_drive_files`
has none: it reads the rows (`SkipReads`) and saves them later (`SkipWrites`),
and `skips` are those on their way between the two.

### Billing

One account, and the threads that serve its requests, its customer's return page
and Stripe's webhooks. A thread reads Stripe outside any transaction and writes
in short ones, each of which is one action. An attempt's id is the idempotency
key of its Checkout session and names the subscription a paid session starts.
A generation is claimed to see whether somebody claimed after: `newest` is the
last to claim, so that no number is needed; an event's lease is likewise the
thread that took it. `clock` counts what happened at Stripe, an event is the
moment it tells of, and `seen` is when Stripe was as the mirror shows it.

| Code | Action |
|---|---|
| `_claim_reconciliation`, `_customer_snapshots` | `Claim`, `Read` |
| the transaction of `reconcile_billing_account` | `Commit`, `Superseded` |
| `create-stripe-checkout`, `_reserve_checkout` | `StartCheckout`, `Check`, `Reserve` |
| `create_checkout_session`, storing its answer | `Create`, `Store` |
| `sync-stripe-subscription`, portal, command | `StartSync`, `Mark` |
| `_record_webhook_event`, `_claim_webhook_event` | `Deliver`, `LeaseRunsOut` |
| the webhook's dispatch, `_finish_webhook_event` | `Lookup`, `Mark`, `Finish` |
| `delete_user_with_billing`: the Checkout under way | `StartDelete`, `Collect`, `Retrieve`, `Expire`, `Settle` |
| its pass, the wait, cancellation, tombstone | `Fence`, `Cancel`, `DeleteUser` |
| rows gone with the user; a dead thread, a failed call | `Orphaned`, `Fail` |
| Stripe and the customer (external) | `Pay`, `Appear`, `Lapse`, `Close` |

Stripe is modelled by what the code relies on: a repeated idempotency key is
answered with the session as it is now (what `test_billing.py:584`
assumes), a paid session cannot be expired, an ended subscription cannot be
cancelled, and the list of subscriptions shows a new one some time later.

## 3. Runs

| Run | Instance | Properties | Result |
|---|---|---|---|
| `pos_sync_faults` | 2 workers, 2 runs, 1 record, 2 accounts, 1 attempt, 2 passes, 1 fault, 1 reconnect or disconnect | `OneCurrentIntent`, `ReceiptsExact`, `NothingStoredTwice`, `TerminalIsFinal`, `ImplementsIntent` | holds, 1,393,570 states |
| `pos_sync_progress` | 2 workers, 1 run, 2 attempts, 2 faults, fair, no raise at COMMIT | `AttemptsBounded`, `QueuedRunsAreRunnable`, `EveryRunCloses` | holds, 158,665 states |
| `pos_sync_wedge` | 1 worker, a pass's transaction may raise | `QueuedRunsAreRunnable` | violated |
| `square_grant_races` | 2 workers, 1 callback, 2 disconnects, 3 pairs, 2 rows, 3 generations | `DeadTokensExplained`, `ReplacementSticks`, `VerdictOnOwnGrant`, `MarkedRowStays` | holds, 2,926,527 states |
| `pos_session_reach` | 1 order, 2 locations, 4 days, 3 upsets, fair | `OutOfReachOnlyWhereCut`, `WatermarkHolds`, `EverythingArrives` | holds, 199,416 states |
| `commit_queue` | 2 domains, 4 values, 2 failures | `QuietShowsAcknowledged`, `SavedMeansAllQuiet`, `CallersToldTheTruth`, `EveryCallerAnswered` | holds, 31,658 states |
| `save_system` | 2 windows, 2 rows, every kind, new and existing, 2 edits, 1 fault, load or repeat | `SavedIsStored`, `OneRowPerPage`, `ReplacesOnlyWhatItKnew`, `LeavesOnlySaved`, `CopyKept` | holds, 554,008 states |
| `save_lost_update` | 2 windows on one form, 2 edits | `NoLostUpdate` | violated |
| `record_editing` | 1 window, 2 controls, 2 commits, 1 edit, 1 failure in all | `CommitsSurviveSaves`, `RecipesSettle` | holds, 106,280 states |
| `primo_turns` | 2 windows, 3 chats, 2 texts, 3 requests, 3 failures or moves, 5 of both | `AnswersFollowTheirQuestion`, `GivenBackOnlyIfNotKept`, `AskedTwiceOnlyAfterRefusedRetry`, `RowsStrayOnlyIntoFresh`, `AnswersNeverGoBack` | holds, 871,246 states |
| `drive_watch` | 2 workspaces, 2 files, 2 folders, 2 pollers, chunks of 1, 1 change, 2 other events, fair | `NothingPassedOver`, `GoneIsWithdrawn`, `ImportedForGood`, `WatcherCatchesUp` | holds, 945,876 states |
| `billing` | 2 threads, 2 attempts, 3 requests, 1 mishap, fair | `LeftRunningOnlyIfOverwritten`, `ProcessedMeansRead`, `SubscribedTwiceOnlyIfLate`, `MirrorNeverGoesBack`, `AccountCatchesUp` | holds, 698,966 states |

Each is run with `tlc -config <Cfg>.cfg <MCModule>.tla`; PROJECT.json pairs the
names. Type invariants are not among the properties of the runs: where the
section on proofs has a type theorem it holds for every instance, and elsewhere
adding `INVARIANT TypeOK` to the same configuration checks it.

Why the bounds are enough to be worth checking:

* Two workers make a stale owner and its successor; two runs make a closed run
  and the one after it. Attempts differ from the code's three because what
  matters is "below the cap", "at the cap" and, by mutation, "past it". One
  fault is one crash, stall past a deadline while alive, or failed sweep; two
  of them let a successor fail as well. One record may be read in either of two
  passes and under either of two accounts, which is what a second landing
  needs; records do not influence each other, and the proofs cover any number.
* In `SquareGrant` three generations are a credential, the one that replaces it
  and a disconnect's mark or a further reconnect; two disconnects may overlap.
* `MaxRows`, `MaxGeneration`, `MaxTokens`, `MaxPasses`, `MaxTime` and
  `MaxUpsets` cap counters; each is a guard of the action that counts.
* In `PosSession` orders influence each other only through the start of an
  undone import's period, which another order can only move to an earlier day;
  one order is the hardest case for being reached. Two locations make a known
  and a new one. Overlap of one day over four days leaves room for a session,
  a late order outside the overlap, an undo, and a further session.
* In `CommitQueue` four values over two domains put one in flight, one waiting
  and one replaced in a domain while the other writes; two failures fail the
  first of them and the one behind it.
* In `DocumentSave` two windows and two edits make a save that meets another's
  and typing during a save; two rows make a record created twice. `MaxExtra`
  is one failure, page load, or repeat of what the row already holds: the
  proofs below cover any number for all five properties.
* In `PrimoTurns` three requests are a question, its successor and a late third
  (the retry or edit of either window); three failures or moves let a turn
  fail, its retry be refused and the window move, or a page reload, begin a chat
  and come back; `MaxTogether` caps the two together, and three chats are the one
  taken for new, the one shown before it and one more. The proofs cover any
  number of each. Texts are asked once unless given back or left in place, so
  that "kept twice" means something.
* In `DriveWatch` a chunk of one makes every registration of two files fail in
  the middle; two events are, for example, a connection and a failed call, or an
  import and a removal; two pollers are enough for one to be handed the other's
  run. The three safety properties are proved for any number.
* In `Billing` two attempts are a Checkout and the one that follows it, two
  threads a request and whatever overtakes it. `MaxRequests` counts users'
  requests and event deliveries that overlap another thread; deliveries that
  overlap nothing are free, or no event would ever be answered. `MaxMishaps`
  counts failed calls, crashes, leases that run out under a slow thread, pages
  that expire and subscriptions that end. The by-hand runs need none.
* `CHECK_DEADLOCK FALSE` is set where the bounded system may really stop: once
  its budget of runs, generations, requests or days is used. `DriveWatch` polls
  for ever and is checked for deadlock.

`pos_sync_progress` sets `MatchCanFail = FALSE`: a pass's transaction does not
raise after the run object got its checkpoint. With `TRUE` the property is false,
which is the run `pos_sync_wedge`.

### Fairness

`PosSync!Fairness` asks weak fairness of each worker's next step, of the expiry
of heartbeats and leases, and of the end of a retry delay. The worker command
loops for ever, sleeping at most its poll interval, and
`src/deploy/systemd/forkluck-pos-worker.service` restarts it on failure;
provider calls have timeouts; clocks advance. Nothing is asked of the owner, and
nothing of the provider: a fair worker may meet a failing provider each time.
`PosSession!FairSpec` asks that, as long as a session could be completed, some
pass completes one. This is an assumption about the owner, who presses Sync
(no scheduler in the code does), and about the provider, which answers.

`CommitQueue!Fairness` asks that a request ends, by landing or by failing, and
that the promise's continuation then runs: `lib/backend/client.ts` gives every
request an `AbortSignal.timeout`. `DocumentSave!Fairness` and `RecordFairness`
ask the same of a save, and that a recipe's minute timer fires; a form, an
invoice or a menu is saved only when somebody asks. `DriveWatch!Fairness` asks
that the interval timer started in `instrumentation.ts` begins polls and that a
poll goes on; a poll may fail each time it is allowed to. `PrimoTurns` has no
liveness: nothing obliges a model to answer. `Billing!Fairness` asks that a
request goes on, that `WEBHOOK_PROCESSING_LEASE` runs out, and that Stripe
delivers what was not answered 200; nobody has to pay, sync or delete.

## 4. What was found

Two statements of the repository's own comments and docs that its behaviour
contradicts, each with a run whose trace shows it:

1. `pos_sync_wedge`: a queued run that no filter admits. A pass raises after
   its checkpoint was copied to the run object; the last attempt is requeued for
   a checkpoint the database does not have, and every later request is answered
   with this run.
2. `save_lost_update`: an ingredient form takes over the version of a refreshed
   payload and keeps its old values; its next save overwrites what another
   window stored in between.

More, seen in the same models, are kept as configurations that end in a
counterexample, to be run by hand:

| Configuration | Module | Property | What its trace shows |
|---|---|---|---|
| `PosSessionCut.cfg` | `MCPosSession` | `NothingOutOfReach` | a location that opened just before a reconnect, or whose first read was cut short, counts as known and its history is never read |
| `PosSessionUnlapped.cfg` | `MCPosSession` | `NothingOutOfReach` | a rolled back pass leaves a positive pass count, and the retry starts a new session without the overlap |
| `SquareGrantTwoDisconnects.cfg` | `MCSquareGrant` | `NoReplacementDuringRevoke` | of two overlapping disconnects the slower one can revoke the merchant's access after the owner has reconnected |
| `SquareGrantTwoWorkers.cfg` | `MCSquareGrant` | `RefreshesSerialized` | an undo clears the sync lease without advancing the generation, so two workers can refresh one token at once |
| `SaveFalseSaved.cfg` | `MCDocumentSave` | `SavedMeansPersisted` | a half-typed recipe is saved in part and keeps its old baseline (`use-document-save.ts:149`); typed back to that baseline it reads Saved over a row that holds the part |
| `DriveReconnect.cfg` | `MCDriveWatch` | `RegisteredMeansListed` | a poll that listed the folder connected before marks the one connected since as listed in full (`CONTRACT.md:1970-1973`), and its older files are never found |
| `DriveDemoted.cfg` | `MCDriveWatch` | `ImportedNeverDemoted` | a skip that read a row before its import saves it after (`actions.py:2305-2352`): "An `imported` row is never demoted" (`CONTRACT.md:2029`) does not hold |
| `PrimoStray.cfg` | `MCPrimoTurns` | `PageShowsItsChat` | a page reloaded before its first question was kept takes the conversation for new again (`primo-provider.tsx:303`); once the question is stored, choosing that conversation neither clears nor loads (264-270), and the rows of the one shown before stay under it |
| `BillingLeak.cfg` | `MCBilling` | `NothingLeftRunning` | an answer of `create_checkout_session` stored late (`billing.py:194`) sets a completed attempt back to open; a deletion no longer waits for its subscription (`CONTRACT.md:2601-2604`), and the user is gone while it runs on |
| `BillingTwice.cfg` | `MCBilling` | `SubscribedOnce` | a Checkout passes the paid check (`billing.py:216`), the account becomes paid, and the attempt is reserved all the same: the customer can pay a second subscription |
| `BillingCompleted.cfg` | `MCBilling` | `CompletedStaysCompleted` | the same late answer, by itself: a completed attempt is open again |

The passing runs show what survives these: `VerdictOnOwnGrant` and
`ReplacementSticks` hold even when refreshes overlap, `OutOfReachOnlyWhereCut`
says that the first two are the only ways an order gets out of reach,
`SavedIsStored` and `ReplacesOnlyWhatItKnew` name half-typed saves and explicit
forms as the only exceptions, `ImportedForGood` the crossing skip,
`RowsStrayOnlyIntoFresh` the conversation wrongly taken for new, and
`LeftRunningOnlyIfOverwritten` and `SubscribedTwiceOnlyIfLate` the late answer
and the late reservation.

What the models show of the code's limits, without a promise it breaks:

* Save system. A menu or a comparison saved again while its create is in flight
  makes a second row (`NeverCreatesTwice` is false for them, `OneRowPerPage`
  excludes them). A create whose answer is lost makes a second row at the next
  save, whatever the editor. Two windows on one record share the slot of its
  recovery copy and may clear each other's, and the store evicts the oldest
  copies past `MAX_DRAFTS`. A validation failure in the queued save behind a
  failed request sets the pill back to saved (`use-document-save.ts:142`);
  the form is still dirty then.
* Commit controls. A write that timed out may land after the next one, and the
  server then holds the older value; an unmount drops what is queued.
* Primo. An edit is checked against the id of the last row and the edited text,
  so another window's regeneration, which keeps that id, can be dropped by it. A
  stop before the first chunk leaves the page without the answer row the API
  stores later, and its next edit is refused until the conversation is loaded
  again. An answer that cannot be saved is only logged. A retry that is refused
  loses its id and its text can then be kept twice.
* Drive. A file that changed between the first listings and the first cursor is
  in neither. Starting over after an expired cursor lists folders again and
  removes nothing, so files gone meanwhile stay on offer. A file moved to
  another workspace's folder keeps its row in the first. Listings stop at
  `MAX_FILES`.

## 5. Proofs

TLAPS checks these for every size of the sets and every bound, from the named
assumptions on constants alone: `ConstantsAssumption`, `GrantAssumption`,
`SessionAssumption` (`OVERLAP` is at least a day; in the code it is two),
`CommitAssumption`, `DocumentAssumption`, `NoneAssumption` (null is neither a row
id, a request nor a form), `RecordAssumption`, `DriveAssumption`, `BillingAssumption` and `PrimoAssumption`
(null is not a conversation, bounds are numbers).

`PosSync`. `TypeCorrect` is type correctness. It is not only about shapes: a
run has a claim exactly while it is running, which `Finalize`, recovery and
cancellation keep in different places. `InvariantHolds` proves `IInv`. The
invariants alone are not inductive:

* `ReceiptsExact` needs `LandedIsStored` (an active run's lines are in the
  ledger, so a new batch cannot contain them), which needs `OneCurrentIntent`
  (undo cancels the run whose lines it deletes) and that a commit finds the
  connection of its own run;
* failing a run discards the checkpoint, so `ReceiptsExact` needs that a worker
  which believes there is none and holds the claim is right:
  `MemoryCoversCheckpoint`. `RollBackPass` shows that the converse is false,
  which is finding 1 and costs liveness, not exactness;
* a new run must not inherit lines: `AbsentIsBlank`.

From `IInv` follow `AttemptsStayBounded`, `ReceiptsStayExact`,
`IntentStaysCurrent` and the action property `ClosedStaysClosed`.
`RecordsStoredOnce` has an inductive argument of its own.
`QueueImplementsIntent` maps each step of `PosSync` to a step of `SyncIntent` or
to a stutter, with `Phase` and `Reported` as the refinement mapping: a commit
is `Land`, a finalized or failed run is `Close`, and reconnect, disconnect, undo
and recovery are `Cancel`.

`QueuedRunsStayRunnable` is about the filter of `claim_next_sync_run`: whoever
queues a run again, recovery or `_retry_or_fail_run`, must leave it an attempt,
a stored checkpoint or progress. Both decide by what they see, and a worker sees
its own copy of the run, so the invariant `QueueInv` needs `MemoryIsStored`: a
worker that holds a run and remembers a checkpoint is right that the row has
one. `RollBackPass` breaks exactly that, so the theorem has the hypothesis
`~MatchCanFail`, under which that action never runs and everything else does.
Without it the statement is false, which is finding 1.

`SquareGrant`. `GrantInvariant` proves `GrantInv`. Besides the properties it has
`PairsInOrder` (pairs are numbered as issued; revoked ones are not live),
`CopiesFollow` (a worker's copy is never newer than the row, and while it is of
the row's generation it speaks of the grant last saved, which is why a guarded
write is safe) and `PairsAreUnshared` (a pair received from Square and not yet
stored is known to that process only, so nobody else can have used it up when it
is stored). From it follow `GrantTypeCorrect`, `ReplacementsStick`,
`VerdictsAreOwn` and `DeadTokensAreExplained`. `MarkedRowsStay` has an argument of
its own: a disconnect marks the row and takes a new generation in one
transaction (`DisconnectMoves`); every later step keeps a marked row as it is or
deletes it, because no callback gets past `SaveAllowed` and a second disconnect
takes the row as it finds it (`MarkLasts`); and what is saved after a delete is a
row with an id of its own (`NextRowIsNew`).

`PosSession`. `SessionInvariant` proves `SessionInv`. `OutOfReachOnlyWhereCut` is
not inductive: what a session leaves behind when it ends, is cut short or is
rolled back has to be in reach of the next. `SessionFits` says why it is. An
order that was not shown when the open session began, and may have slipped
behind the provider's page cursor, lies in the overlap of that session's end; a
chunk that does not start at the beginning starts in the overlap of the
watermark; what the session has read is stored; and its locations are the known
ones. `ImportFits` bounds where an undo may take the watermark: the local period
of a batch starts at most a day after its earliest line, so the lines stay in the
overlap of the watermark they leave as long as the overlap is a day or more,
which is the only thing asked of `OVERLAP`. `SessionIs` restates it all for the session
a pass works on, open or new, and from there a pass either reads it to its end
(`LastPassKeeps`) or leaves some (`PartialPassKeeps`). `InOverlap` is the lemma
about steps that drop the cursor, reconnect and undo: what the dropped session
still had to read is in the overlap, unless it was reading the location from the
beginning, which is exactly what `cut` records. From `SessionInvariant` follow
`TypeCorrect`, `OnlyCutLocationsAreMissed` and `WatermarkIsHeld`.

`CommitQueue`. What a quiet control shows depends on what a failure would put
back, so the invariant has to follow each value through the queue. `Remembers`
(`QueueOK`) says that a running domain's `confirmed` is what the server last
acknowledged, and that with a value waiting the screen shows it and its revert
leads to the value in flight; `Ordered` numbers them: acknowledged, in flight,
waiting, with every caller between the value before and the one it will be
answered with. From `InductiveInvariant` follow `QueueCorrect`, `QuietShows`,
`SavedIsQuiet` and `CallersHearTheTruth`.

`DocumentSave`. `Knows` says what a window's baseline stands for (the row's
content at the version it holds), `Pending` what its request carries (the
window's own id and version, and, once landed, where in the row its form is) and
`OneRow` counts creates. `Knows` alone is not inductive: when an answer comes the
baseline becomes what was sent, and that this is what the row holds at the
version answered is `Pending`, for which a request must have been sent with the
id it will be answered for. Menus break that (`ClosesOverId`), which is why
their second create is the exception in each property. From `InductiveInvariant`
follow `TypeCorrect`, `SavedStored`, `OneRowEach` and `ReplacesKnown`.

Leaving needs `OwedInv`, since a link pressed now is answered by a save that may
have started before. `Written` says that nothing on a page, on its way, set
adrift, copied or stored was typed after the last edit; `Owing` that a page which
is leaving owes no more than it shows; `Owes` that, unless a save is queued
behind, it owes no more than is on its way. A link may wait on a save that is
already running because that save has the form of the page or queues another
(`SaveAsked`), and the page closes only with the last answer of the loop
(`OnlyAnswerLeaves`). `LeavesSaved` follows. `CopiesStay` (`CopyKept`) is read off
the effects of the render: each step of a window's editor ends in `Copies` of the
editor it leaves, in the slot that editor has then, or touches neither. A cook who
discards the copy in the conflict banner and then stays on the page has none until
the editor changes: that is the one step that takes a copy and changes no editor.

`RecordEditing`. `RecordInv` adds to the editors' invariant, which every commit of
the tab keeps because the row only grows, that editors and tab agree on the line
they share. `Follows`: a form that no copy was put back into says the line of its
baseline, and that is the line of the row at the version it holds. `Restates`: so
does a request at the version it expects, and one that landed at the version it
was given. Hence a save that passes the version check restates the line that is
there, and one that would undo a commit is stale: `CommitsSurvive`. `OrphanInLine`
says the same of a loop without its page. The attempt to prove this corrected
the model twice, in places that the run's bounds do not reach: a loop set adrift
forgot that the save it has queued may carry a recovered copy, and the restore
banner could be used under the navigation dialog, which is modal. Cmd+S on the
other hand reaches the page through the dialog, so `Save` no longer waits for it.

`Billing`. `Inductive` proves `IInv`: besides the types, `Knows` (what a thread
may rely on at its step: which attempt it holds, that its session was made, that
what it read is no later than now), `Made` (a session that a row names exists at
Stripe) and `ProcessedMeansRead`. What makes the mirror monotone is an order
between threads: only the last to claim may commit, it claimed before it read,
so nothing that was stored since can be later than its reading. `ProcessedMeansRead` follows from
the same fact at the step before `finish`: the pass that committed read Stripe
after the event. `OneActive`, the database's own constraint, is proved to be met
by every step but `Store`, which has to run into it: a settled attempt is
completed or expired because a session that was made is never `none` again. From
`Inductive` follow `TypeCorrect`, `OneActiveAlways`, `AnsweredMeansRead` and
`NeverGoesBack`.

The two properties about money have an invariant of their own on top of it,
`SureInv`. `RowsTell` and `MirrorTells` say what a settled row and the mirror
promise about Stripe's sessions and subscriptions. `Fenced` follows a deletion:
once the user is marked as being deleted no attempt is reserved, after `collect`
every attempt but the one in hand is settled (its session expired, or completed
and awaited), and after `settle` all are; at `cancel` whatever still runs is on
the list to cancel. So nothing can run when the user goes, unless `overwritten`:
the one step that takes a completed attempt back to open. `OnePayable` counts
what is or may still become a running subscription (reserved and not yet made,
open, running) and says there is at most one; a second needs `late`, an attempt
reserved after the account had become paid. `NothingLeftRunningAlways` and
`SubscribedOnceAlways` follow.

`PrimoTurns`. `TurnsFit` proves `TurnsInv`. That an answer follows its question
is decided when the answer is stored, by id and generation, long after the
request was made: `GenerationTells` says that a question which still has a
request's generation still has its words, and `TranscriptFits` that a row's key
occurs once, that an answer is right behind its question and no younger than it.
`RequestFits` ties a request to the last row of the page that listens to it. From
it follow `TypeCorrect`, `AnswersStayWithTheirQuestion` and, about steps,
`AnswersNeverReturn`. That a page shows its own conversation is not part of the
invariant, because it does not hold: `RowsStrayOnlyThere` proves instead that a
step which leaves a page, and the page a rejection would put back, with a row of
another conversation either found it so (`Clean`) or is `Chosen` taking a stored
conversation for new (`IntoFresh`).

Where the words of a question may be at one time needs the second invariant,
`OnceInv`, since they travel through four places and several windows: the
composer or inline editor, a page, a request, a transcript. `Seen` says an id
with its words is somewhere. `TryUnkept`: while a request that would give its
question back is not kept, the question is nowhere else, not in another window
either. `DraftsUnkept`: what was given back stays nowhere else; an edit's old
words may be everywhere, its new words only in that window. `AskedOnce`: unless a
retry of it was refused, a text has one id, or none and one draft. Every step is
one of three kinds (`CalmActions`): most are `Calm`, showing nothing anew; four
post a question (`Posting`), which is seen already, has an id nobody had, or is
an edit in words its id never had; and a refusal gives one back
(`GivingBack`), after which only the draft has it. From `AskedAndGivenBackOnce`
follow `OnlyUnkeptIsGivenBack` and `OnlyRefusedRetriesAskTwice`. The attempt to
prove them corrected the model: `Unasked` did not look at what an attempt puts
back, and in larger instances than the run's a user could then ask anew what a
page was about to show again.

`DriveWatch`. `NothingPassedOver` speaks of the stored cursor, but a poll moves it
in two steps that fail on their own, so `IInv` says what the poll under way knows
at each await (`PollOK`). `ListingOK`: a listing contains every file that is in
the folder and has not changed since it was read, so what of it is still to be
registered is no more than `todo`. `PlanOK`: of the files that have not changed
since the page was read, the plan places the present ones where they are and
withdraws the others, and a workspace that counted as listed before the page is
in it. A file that did change since is beyond the next cursor and is nobody's
duty yet, which is what lets the proof ignore every race with Drive. `Clocked`
bounds all positions by Drive's. From `WatcherInvariant` follow `TypeCorrect`,
`NothingIsPassedOver` and `GoneAreWithdrawn`; `ImportsStand` is about steps and
needs of the invariant only the types.

Only model-checked: liveness (`EveryRunCloses`, `EverythingArrives`,
`EveryCallerAnswered`, `RecipesSettle`, `WatcherCatchesUp`, `AccountCatchesUp`),
which the prover does not reach.

## 6. Not modelled

* Lines' contents, matching, modifiers, currencies, time zones: data the
  properties do not tell apart. A pass that raises for one of them is
  `FetchFails` or `RollBackPass`.
* Shopify's sessions (a timestamp watermark without a cursor) and its
  token refresh.
* Several workspaces connected to one merchant. A disconnect of one is to the
  other what `MerchantRevokes` is here.
* The order between the retry delays (5 s, 30 s) and the lease timeout (15 min):
  a worker that dies while decorating can make a later run fail with "already
  running" three times. `EveryRunCloses` counts that run as closed.
* The database itself: transactions are taken as atomic and serialized by the
  workspace lock.
* Of the save system: field validation beyond "invalid", the merging of partial
  payloads, the look of the chrome. Of the commit controls: which control
  belongs to which domain. Of Primo: attachments, tool calls, usage limits, the
  text typed in the composer. Of Drive: nested connected folders, read-ahead
  extraction, more than one web process (`inFlight` is per process), files that
  hold several receipts, and the `READY` and `FAILED` rows that only the retired
  unattended reader made.
* Of billing: a customer adopted or in conflict (`identity_conflict`, the
  adoption command), the attested configuration, subscription states other than
  running and ended (an unpaid or paused one counts as not paid and is still
  cancelled), more than one customer of an account, and idempotency keys older
  than Stripe keeps them, whose repetition makes a second session.
* The invoice import dialog, the connector service, verification and settings.
* The rest of the web application: rendering, parsing of recipe and invoice
  text, prices and units. It computes on data already loaded and has no
  protocol of its own.

## 7. Plan

Done: `PosSync` with `SyncIntent`, `SquareGrant`, `PosSession`; the web side,
`CommitQueue`, `DocumentSave`, `RecordEditing`, `PrimoTurns`, `DriveWatch`;
`Billing`.

Next, most important behaviour first:

1. `InvoiceImport`: the dialog's jobs, parts and registry rows against the
   import action.
2. `ConnectorSync` composed with `ConnectorService`: pages committed, then
   acknowledged, with replay on both sides. Abstract specification: each
   document imported once.
3. `VerificationCodes`: single use and caps under concurrent submissions.
4. `ShopifySession`: progress of a timestamp watermark under truncation.
5. Pure algorithms as functions against reference definitions: recipe costing,
   fingerprints with occurrence suffixes, entitlement derivation.
