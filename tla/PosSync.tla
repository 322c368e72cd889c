------------------------------ MODULE PosSync ------------------------------
(***************************************************************************)
(* The durable POS sync queue: domains/sales/pos_sync.py, the connection   *)
(* lifecycle around it (domains/sales/connections.py,                      *)
(* integrations/pos_oauth.py) and the sales undo (domains/sales/core.py),  *)
(* for one workspace and one provider.                                     *)
(*                                                                         *)
(* Every transaction takes the workspace row first (lock_workspace), or is *)
(* a single UPDATE, so one transaction is one action; everything between   *)
(* two transactions of a worker (provider calls above all) is a point      *)
(* where any other actor may run, and has a pc of its own.                 *)
(*                                                                         *)
(* Tokens.  A claim_token or sync_lease_token is a fresh UUID; here it is  *)
(* the worker that drew it.  A worker holds at most one of each, and a     *)
(* restarted worker can meet neither under its own name without drawing it *)
(* again: a run is only claimed when queued (its claim is NULL), and a     *)
(* lease only matters to a worker after it won it.                         *)
(*                                                                         *)
(* Identity.  provider_account_id only changes in save_connection, which   *)
(* also advances the generation, so (row, gen) determines it and a run     *)
(* needs no copy.  Row ids are never reused: the SET_NULL of a deleted     *)
(* connection is the run's row no longer being conn.row of a live row.     *)
(***************************************************************************)
EXTENDS Naturals, Sequences, FiniteSets

CONSTANTS
    Workers,        \* POS worker processes
    Runs,           \* SyncRun rows that can be created
    Records,        \* provider records (immutable ledger ids)
    Accounts,       \* merchants / shops
    NoWorker,       \* NULL of claim_token and sync_lease_token
    NoRun,          \* a worker without a run
    MaxAttempts,    \* SyncRun.max_attempts
    MaxPasses,      \* bound: bounded passes a provider session needs
    MaxRows,        \* bound: connection rows ever created
    MaxGeneration,  \* bound: credential generations of one row
    MaxFaults,      \* bound: crashes, stalls and failed sweeps
    MatchCanFail    \* whether mirror_pending or COMMIT may raise in a pass

ASSUME ConstantsAssumption ==
    /\ NoWorker \notin Workers
    /\ NoRun \notin Runs
    /\ MaxAttempts \in Nat \ {0}
    /\ {MaxPasses, MaxRows, MaxGeneration, MaxFaults} \subseteq Nat
    /\ MatchCanFail \in BOOLEAN

VARIABLES
    conn,      \* the workspace's SalesChannelConnection row for the provider
    run,       \* SyncRun rows
    imports,   \* active SalesImport batches, oldest first, with their lines
    landed,    \* history: records of the SalesImports each run created
    worker,    \* each worker's place in process_next_sync_run and its memory
    faults     \* faults spent so far

vars == <<conn, run, imports, landed, worker, faults>>

-----------------------------------------------------------------------------
ConnStatus == {"none", "active", "needs_reconnect", "disconnecting"}
RunStatus == {"absent", "queued", "running", "succeeded", "failed", "cancelled"}
Pc == {"idle", "recovering", "claimed", "leasing", "fetching", "releasing",
       "judging", "settling", "finalizing", "undecorated", "decorating"}

\* A checkpoint is {} or {one pass's receipt}, as the JSON column is {} or set.
Receipt == [lines : SUBSET Records, partial : BOOLEAN]
Progress == [partial : BOOLEAN, passes : Nat]
FirstProgress == [partial |-> FALSE, passes |-> 0]
AtMostOne(checkpoint) == \A a, b \in checkpoint : a = b
Lines(checkpoint) == UNION {receipt.lines : receipt \in checkpoint}

AbsentRun ==
    [status |-> "absent", row |-> 0, gen |-> 0, claim |-> NoWorker,
     fresh |-> FALSE, due |-> FALSE, attempts |-> 0, error |-> FALSE,
     progress |-> FirstProgress, checkpoint |-> {}, result |-> {}]

Idle ==
    [pc |-> "idle", run |-> NoRun, todo |-> {}, checkpoint |-> {},
     progress |-> FirstProgress, permanent |-> FALSE, then |-> "idle"]

Connection ==
    [row : Nat, status : ConnStatus, gen : Nat, account : Accounts,
     lease : Workers \cup {NoWorker}, leaseFresh : BOOLEAN]

\* A run has a claim exactly while it is running, a heartbeat only then, and
\* waits for its time only while queued.
RunRow ==
    {x \in [status : RunStatus, row : Nat, gen : Nat,
            claim : Workers \cup {NoWorker}, fresh : BOOLEAN, due : BOOLEAN,
            attempts : Nat, error : BOOLEAN, progress : Progress,
            checkpoint : SUBSET Receipt, result : SUBSET Records] :
        /\ x.status = "running" <=> x.claim # NoWorker
        /\ x.fresh => x.status = "running"
        /\ x.due => x.status = "queued"
        /\ AtMostOne(x.checkpoint)}

\* A worker has a run from its claim until it rests.
Memory ==
    {m \in [pc : Pc, run : Runs \cup {NoRun}, todo : SUBSET Runs,
            checkpoint : SUBSET Receipt, progress : Progress,
            permanent : BOOLEAN, then : {"idle", "judging", "settling"}] :
        /\ m.run = NoRun <=> m.pc \in {"idle", "recovering"}
        /\ AtMostOne(m.checkpoint)}

Import == [account : Accounts, lines : SUBSET Records]

TypeOK ==
    /\ conn \in Connection
    /\ run \in [Runs -> RunRow]
    /\ imports \in Seq(Import)
    /\ landed \in [Runs -> SUBSET Records]
    /\ worker \in [Workers -> Memory]
    /\ faults \in Nat

-----------------------------------------------------------------------------
(* Reading the rows.                                                        *)

Active(r) == run[r].status \in {"queued", "running"}
Terminal(r) == run[r].status \in {"succeeded", "failed", "cancelled"}

\* The filter every guarded write uses: same row, same generation.
OnCurrent(r) ==
    /\ conn.status # "none"
    /\ run[r].row = conn.row
    /\ run[r].gen = conn.gen

Live(r) == OnCurrent(r) /\ conn.status = "active"

\* Mutant of Holds: the guarded UPDATE forgets status and claim_token.
HoldsById(w) == worker[w].run # NoRun

\* The worker's run row still carries its claim_token.
Holds(w) ==
    /\ worker[w].run # NoRun
    /\ run[worker[w].run].status = "running"
    /\ run[worker[w].run].claim = w

LeaseFree(r) == Live(r) /\ (conn.lease = NoWorker \/ ~conn.leaseFresh)

\* Mutant of Stored: the newest import is not matched against.
StoredBeforeLast(account) ==
    UNION {imports[i].lines :
             i \in {j \in 1..Len(imports) - 1 : imports[j].account = account}}

\* Provider records already in the ledger under this account's namespace.
Stored(account) ==
    UNION {imports[i].lines :
             i \in {j \in DOMAIN imports : imports[j].account = account}}

Continuation(x) ==
    /\ x.checkpoint = {}
    /\ x.progress.partial
    /\ ~x.error

\* Mutant of Runnable: a checkpoint no longer exempts.
RunnableByAttempts(r) ==
    \/ run[r].attempts < MaxAttempts
    \/ run[r].progress.partial /\ ~run[r].error

Runnable(r) ==
    \/ run[r].attempts < MaxAttempts
    \/ run[r].checkpoint # {}
    \/ run[r].progress.partial /\ ~run[r].error

Claimable(r) ==
    /\ run[r].status = "queued"
    /\ run[r].due
    /\ Live(r)
    /\ Runnable(r)

-----------------------------------------------------------------------------
(* Row updates shared by several transactions.                              *)

Cancelled(x) ==
    [x EXCEPT !.status = "cancelled", !.claim = NoWorker, !.fresh = FALSE,
              !.due = FALSE, !.error = FALSE, !.checkpoint = {}]

Failed(x) ==
    [x EXCEPT !.status = "failed", !.claim = NoWorker, !.fresh = FALSE,
              !.error = TRUE, !.checkpoint = {}]

Requeued(x, due) ==
    [x EXCEPT !.status = "queued", !.claim = NoWorker, !.fresh = FALSE,
              !.error = TRUE, !.due = due]

\* Mutant of Claimed: the next pass of a partial session costs an attempt.
ClaimedCounting(x, w) ==
    [x EXCEPT !.status = "running", !.claim = w, !.fresh = TRUE,
              !.due = FALSE, !.error = FALSE,
              !.attempts = IF x.checkpoint # {} THEN @ ELSE @ + 1]

\* A pass that continues a session, or only finalizes one, costs no attempt.
Claimed(x, w) ==
    [x EXCEPT !.status = "running", !.claim = w, !.fresh = TRUE,
              !.due = FALSE, !.error = FALSE,
              !.attempts = IF x.checkpoint # {} \/ Continuation(x)
                           THEN @ ELSE @ + 1]

\* The pass's receipt joins the result; the run continues or is complete.
Finalized(x, receipt) ==
    [x EXCEPT !.status = IF receipt.partial THEN "queued" ELSE "succeeded",
              !.claim = NoWorker, !.fresh = FALSE,
              !.due = receipt.partial, !.error = FALSE,
              !.progress.partial = receipt.partial,
              !.result = @ \cup receipt.lines, !.checkpoint = {}]

\* Mutant of CancelActive: a running run is left to its worker.
CancelQueued ==
    [r \in Runs |->
        IF run[r].status = "queued" /\ OnCurrent(r) THEN Cancelled(run[r])
                                                    ELSE run[r]]

CancelActive ==
    [r \in Runs |->
        IF Active(r) /\ OnCurrent(r) THEN Cancelled(run[r]) ELSE run[r]]

NoLease(c) == [c EXCEPT !.lease = NoWorker, !.leaseFresh = FALSE]

Goto(w, pc) == worker' = [worker EXCEPT ![w] = [@ EXCEPT !.pc = pc]]
Rest(w) == worker' = [worker EXCEPT ![w] = Idle]

\* Leave sync_connection by an exception: release the lease, then go on.
Unwind(w, then) ==
    worker' = [worker EXCEPT ![w] =
                 [@ EXCEPT !.pc = "releasing", !.then = then]]

\* The same with nothing left to do afterwards.
Leave(w) ==
    worker' = [worker EXCEPT ![w] =
                 [Idle EXCEPT !.pc = "releasing", !.run = worker[w].run]]

-----------------------------------------------------------------------------
(* The connection: OAuth callbacks, token connects, disconnect, undo.       *)

Init ==
    /\ \E a \in Accounts :
         conn = [row |-> 0, status |-> "none", gen |-> 0, account |-> a,
                 lease |-> NoWorker, leaseFresh |-> FALSE]
    /\ run = [r \in Runs |-> AbsentRun]
    /\ imports = <<>>
    /\ landed = [r \in Runs |-> {}]
    /\ worker = [w \in Workers |-> Idle]
    /\ faults = 0

Connect(a) ==
    /\ conn.status = "none"
    /\ conn.row < MaxRows
    /\ conn' = [row |-> conn.row + 1, status |-> "active", gen |-> 1,
                account |-> a, lease |-> NoWorker, leaseFresh |-> FALSE]
    /\ UNCHANGED <<run, imports, landed, worker, faults>>

Reconnect(a) ==
    /\ conn.status \in {"active", "needs_reconnect"}
    /\ conn.gen < MaxGeneration
    /\ run' = CancelActive
    /\ conn' = NoLease([conn EXCEPT !.gen = @ + 1, !.status = "active",
                                    !.account = a])
    /\ UNCHANGED <<imports, landed, worker, faults>>

\* First transaction of disconnect-pos.
Disconnect ==
    /\ conn.status \in {"active", "needs_reconnect"}
    /\ conn.gen < MaxGeneration
    /\ run' = CancelActive
    /\ conn' = NoLease([conn EXCEPT !.gen = @ + 1, !.status = "disconnecting"])
    /\ UNCHANGED <<imports, landed, worker, faults>>

\* Its second transaction, after the provider revocation: the row is deleted.
FinishDisconnect ==
    /\ conn.status = "disconnecting"
    /\ conn' = [conn EXCEPT !.status = "none"]
    /\ UNCHANGED <<run, imports, landed, worker, faults>>

\* Mutant of UndoImport: the sync intent survives the undo.
UndoKeepsRuns ==
    /\ imports # <<>>
    /\ imports' = SubSeq(imports, 1, Len(imports) - 1)
    /\ UNCHANGED <<conn, run, landed, worker, faults>>

\* undo-sales-import takes back the newest active import and stops the runs
\* of the connection whose account it came from.
UndoImport ==
    /\ imports # <<>>
    /\ imports' = SubSeq(imports, 1, Len(imports) - 1)
    /\ IF conn.status # "none" /\ imports[Len(imports)].account = conn.account
       THEN run' = CancelActive /\ conn' = NoLease(conn)
       ELSE UNCHANGED <<run, conn>>
    /\ UNCHANGED <<landed, worker, faults>>

-----------------------------------------------------------------------------
(* Requests: enqueue-pos-sync and retry-pos-sync.                           *)

Enqueue(r) ==
    /\ run[r].status = "absent"
    /\ conn.status = "active"
    /\ \A q \in Runs : Active(q) => ~OnCurrent(q)
    /\ run' = [run EXCEPT ![r] =
         [AbsentRun EXCEPT !.status = "queued", !.row = conn.row,
                           !.gen = conn.gen, !.due = TRUE]]
    /\ UNCHANGED <<conn, imports, landed, worker, faults>>

RetryFailed(p, r) ==
    /\ run[p].status = "failed"
    /\ Live(p)
    /\ Enqueue(r)

-----------------------------------------------------------------------------
(* The worker: recover stale runs one by one, then claim, then execute.     *)

Poll(w) ==
    /\ worker[w].pc = "idle"
    /\ worker' = [worker EXCEPT ![w] =
         [@ EXCEPT !.pc = "recovering", !.todo = {r \in Runs : Active(r)}]]
    /\ UNCHANGED <<conn, run, imports, landed, faults>>

\* One iteration of recover_stale_sync_runs, in its own transaction.
Recover(w, r) ==
    /\ worker[w].pc = "recovering"
    /\ r \in worker[w].todo
    /\ worker' = [worker EXCEPT ![w].todo = @ \ {r}]
    /\ \/ /\ Active(r) /\ ~Live(r)
          /\ run' = [run EXCEPT ![r] = Cancelled(@)]
       \/ /\ Live(r) /\ run[r].status = "running" /\ ~run[r].fresh
          /\ run' = [run EXCEPT ![r] =
               IF @.attempts >= MaxAttempts /\ @.checkpoint = {}
               THEN Failed(@) ELSE Requeued(@, TRUE)]
       \/ /\ ~Active(r) \/ (Live(r) /\ (run[r].status = "queued" \/ run[r].fresh))
          /\ UNCHANGED run
    /\ UNCHANGED <<conn, imports, landed, faults>>

Claim(w, r) ==
    /\ worker[w].pc = "recovering"
    /\ worker[w].todo = {}
    /\ Claimable(r)
    /\ run' = [run EXCEPT ![r] = Claimed(@, w)]
    /\ worker' = [worker EXCEPT ![w] =
         [Idle EXCEPT !.pc = "claimed", !.run = r,
                      !.checkpoint = run[r].checkpoint,
                      !.progress = run[r].progress]]
    /\ UNCHANGED <<conn, imports, landed, faults>>

Sleep(w) ==
    /\ worker[w].pc = "recovering"
    /\ worker[w].todo = {}
    /\ \A r \in Runs : ~Claimable(r)
    /\ Rest(w)
    /\ UNCHANGED <<conn, run, imports, landed, faults>>

\* _execute_claimed_sync_run reads the connection and picks its path.
Start(w) ==
    /\ worker[w].pc = "claimed"
    /\ \/ /\ ~Live(worker[w].run)
          /\ worker' = [worker EXCEPT ![w] =
               [@ EXCEPT !.pc = "settling", !.permanent = TRUE]]
       \/ /\ Live(worker[w].run)
          /\ Goto(w, IF worker[w].checkpoint # {} THEN "finalizing"
                                                  ELSE "leasing")
    /\ UNCHANGED <<conn, run, imports, landed, faults>>

\* _claim_sync_lease, before the provider is called.
ClaimLease(w) ==
    /\ worker[w].pc = "leasing"
    /\ \/ /\ LeaseFree(worker[w].run)
          /\ conn' = [conn EXCEPT !.lease = w, !.leaseFresh = TRUE]
          /\ Goto(w, "fetching")
       \/ /\ ~LeaseFree(worker[w].run)
          /\ UNCHANGED conn
          /\ Goto(w, "judging")
    /\ UNCHANGED <<run, imports, landed, faults>>

\* The adapter raises SyncFailed, or anything else.
FetchFails(w) ==
    /\ worker[w].pc = "fetching"
    /\ \E then \in {"judging", "settling"} : Unwind(w, then)
    /\ UNCHANGED <<conn, run, imports, landed, faults>>

\* The provider refuses the credential: guarded_connection_update, then fail.
GrantDies(w) ==
    /\ worker[w].pc = "fetching"
    /\ conn' = IF Live(worker[w].run)
               THEN [conn EXCEPT !.status = "needs_reconnect"] ELSE conn
    /\ Unwind(w, "judging")
    /\ UNCHANGED <<run, imports, landed, faults>>

\* _commit_sync_pass finds the connection or the claim gone.
CommitRefused(w) ==
    /\ worker[w].pc = "fetching"
    /\ \/ /\ ~(Live(worker[w].run) /\ conn.lease = w)
          /\ Unwind(w, "judging")
       \/ /\ Live(worker[w].run) /\ conn.lease = w /\ ~Holds(w)
          /\ Leave(w)
    /\ UNCHANGED <<conn, run, imports, landed, faults>>

\* _commit_sync_pass stores what the ledger does not have yet, checkpoints
\* the run and gives the lease back, all in one transaction.
CommitPass(w, batch, partial) ==
    LET r == worker[w].run
        new == batch \ Stored(conn.account)
        receipt == [lines |-> new, partial |-> partial]
        progress == [partial |-> partial,
                     passes |-> worker[w].progress.passes + 1]
    IN  /\ worker[w].pc = "fetching"
        /\ Live(r) /\ conn.lease = w /\ Holds(w)
        /\ partial => progress.passes < MaxPasses
        /\ imports' = IF new = {} THEN imports
                      ELSE Append(imports, [account |-> conn.account,
                                            lines |-> new])
        /\ landed' = [landed EXCEPT ![r] = @ \cup new]
        /\ conn' = NoLease(conn)
        /\ run' = [run EXCEPT ![r] =
             [@ EXCEPT !.fresh = TRUE, !.progress = progress,
                       !.checkpoint = {receipt}]]
        /\ worker' = [worker EXCEPT ![w] =
             [@ EXCEPT !.pc = "finalizing", !.checkpoint = {receipt},
                       !.progress = progress]]
        /\ UNCHANGED faults

\* The same transaction raising in mirror_pending or at COMMIT: the database
\* rolls back, the worker's run object has already been given the checkpoint
\* and progress.  IntegrityError arrives as SyncFailed, the rest unexpected.
RollBackPass(w, batch, partial) ==
    LET new == batch \ Stored(conn.account)
        passes == worker[w].progress.passes + 1
    IN  /\ MatchCanFail
        /\ worker[w].pc = "fetching"
        /\ Live(worker[w].run) /\ conn.lease = w /\ Holds(w)
        /\ partial => passes < MaxPasses
        /\ \E then \in {"judging", "settling"} :
             worker' = [worker EXCEPT ![w] =
               [@ EXCEPT !.pc = "releasing", !.then = then,
                         !.checkpoint = {[lines |-> new, partial |-> partial]},
                         !.progress = [partial |-> partial,
                                       passes |-> passes]]]
        /\ UNCHANGED <<conn, run, imports, landed, faults>>

Release(w) ==
    /\ worker[w].pc = "releasing"
    /\ conn' = IF OnCurrent(worker[w].run) /\ conn.lease = w
               THEN NoLease(conn) ELSE conn
    /\ IF worker[w].then = "idle" THEN Rest(w) ELSE Goto(w, worker[w].then)
    /\ UNCHANGED <<run, imports, landed, faults>>

\* SyncFailed is permanent when the connection is no longer the run's own.
Judge(w) ==
    /\ worker[w].pc = "judging"
    /\ worker' = [worker EXCEPT ![w] =
         [@ EXCEPT !.pc = "settling", !.permanent = ~Live(worker[w].run)]]
    /\ UNCHANGED <<conn, run, imports, landed, faults>>

\* Mutants of GivesUp: a durable checkpoint is no reason to go on, and the
\* attempt cap is noticed one attempt late.
GivesUpOnCheckpoint(w) ==
    worker[w].permanent \/ run[worker[w].run].attempts >= MaxAttempts
GivesUpLate(w) ==
    /\ worker[w].checkpoint = {}
    /\ worker[w].permanent \/ run[worker[w].run].attempts > MaxAttempts

\* _retry_or_fail_run decides from the worker's copy of the run; its guarded
\* UPDATE matches no row when the claim is lost.
GivesUp(w) ==
    /\ worker[w].checkpoint = {}
    /\ \/ worker[w].permanent
       \/ run[worker[w].run].attempts >= MaxAttempts

Settle(w) ==
    /\ worker[w].pc = "settling"
    /\ Rest(w)
    /\ run' = IF ~Holds(w) THEN run ELSE
         [run EXCEPT ![worker[w].run] =
            LET seen == [@ EXCEPT !.progress = worker[w].progress]
            IN  IF GivesUp(w) THEN Failed(seen) ELSE Requeued(seen, FALSE)]
    /\ UNCHANGED <<conn, imports, landed, faults>>

CanFinalize(w) ==
    /\ Live(worker[w].run)
    /\ Holds(w)
    /\ run[worker[w].run].checkpoint = worker[w].checkpoint

\* _finalize_sync_checkpoint folds the pass's receipt into the result, then
\* requeues the run for its next pass or completes it.
Finalize(w) ==
    \E receipt \in worker[w].checkpoint :
        /\ worker[w].pc = "finalizing"
        /\ CanFinalize(w)
        /\ run' = [run EXCEPT ![worker[w].run] = Finalized(@, receipt)]
        /\ worker' = [worker EXCEPT ![w] =
             IF receipt.partial THEN Idle
             ELSE [Idle EXCEPT !.pc = "undecorated", !.run = worker[w].run]]
        /\ UNCHANGED <<conn, imports, landed, faults>>

FinalizeLost(w) ==
    /\ worker[w].pc = "finalizing"
    /\ ~CanFinalize(w)
    /\ Rest(w)
    /\ UNCHANGED <<conn, run, imports, landed, faults>>

\* sweep_ignore_rules raises before the transaction.
SweepFails(w) ==
    /\ worker[w].pc = "finalizing"
    /\ faults < MaxFaults
    /\ faults' = faults + 1
    /\ Goto(w, "settling")
    /\ UNCHANGED <<conn, run, imports, landed>>

\* _decorate_completed_sync takes a lease of its own, or leaves it.
ClaimDecoration(w) ==
    /\ worker[w].pc = "undecorated"
    /\ \/ /\ LeaseFree(worker[w].run)
          /\ conn' = [conn EXCEPT !.lease = w, !.leaseFresh = TRUE]
          /\ Goto(w, "decorating")
       \/ /\ ~LeaseFree(worker[w].run)
          /\ UNCHANGED conn
          /\ Rest(w)
    /\ UNCHANGED <<run, imports, landed, faults>>

Decorate(w) ==
    /\ worker[w].pc = "decorating"
    /\ \E status \in {conn.status, "needs_reconnect"} :
         conn' = IF Live(worker[w].run)
                 THEN [conn EXCEPT !.status = status] ELSE conn
    /\ Leave(w)
    /\ UNCHANGED <<run, imports, landed, faults>>

-----------------------------------------------------------------------------
(* Time and faults.                                                         *)

\* The process dies; whatever it claimed stays claimed in the database.
Crash(w) ==
    /\ worker[w].pc # "idle"
    /\ faults < MaxFaults
    /\ faults' = faults + 1
    /\ Rest(w)
    /\ UNCHANGED <<conn, run, imports, landed>>

Abandoned(r) == \A w \in Workers : ~(worker[w].run = r /\ Holds(w))

LeaseAbandoned ==
    conn.lease \in Workers =>
        worker[conn.lease].pc \notin {"fetching", "releasing", "decorating"}

\* JOB_STALE_AFTER passes without a heartbeat.
HeartbeatExpires(r) ==
    /\ run[r].status = "running" /\ run[r].fresh
    /\ run' = [run EXCEPT ![r].fresh = FALSE]
    /\ \/ Abandoned(r) /\ UNCHANGED faults
       \/ ~Abandoned(r) /\ faults < MaxFaults /\ faults' = faults + 1
    /\ UNCHANGED <<conn, imports, landed, worker>>

\* SYNC_LEASE_TIMEOUT passes.
LeaseExpires ==
    /\ conn.lease # NoWorker /\ conn.leaseFresh
    /\ conn' = [conn EXCEPT !.leaseFresh = FALSE]
    /\ \/ LeaseAbandoned /\ UNCHANGED faults
       \/ ~LeaseAbandoned /\ faults < MaxFaults /\ faults' = faults + 1
    /\ UNCHANGED <<run, imports, landed, worker>>

\* A JOB_RETRY_DELAYS delay passes.
RetryDue(r) ==
    /\ run[r].status = "queued" /\ ~run[r].due
    /\ run' = [run EXCEPT ![r].due = TRUE]
    /\ UNCHANGED <<conn, imports, landed, worker, faults>>

-----------------------------------------------------------------------------
Commit(w) == \E batch \in SUBSET Records, partial \in BOOLEAN :
    CommitPass(w, batch, partial) \/ RollBackPass(w, batch, partial)

WorkerStep(w) ==
    \/ Poll(w) \/ Sleep(w) \/ Start(w) \/ ClaimLease(w)
    \/ \E r \in Runs : Recover(w, r) \/ Claim(w, r)
    \/ FetchFails(w) \/ GrantDies(w) \/ CommitRefused(w) \/ Commit(w)
    \/ Release(w) \/ Judge(w) \/ Settle(w)
    \/ Finalize(w) \/ FinalizeLost(w) \/ SweepFails(w)
    \/ ClaimDecoration(w) \/ Decorate(w)

Owner ==
    \/ \E a \in Accounts : Connect(a) \/ Reconnect(a)
    \/ Disconnect \/ FinishDisconnect \/ UndoImport
    \/ \E r \in Runs : Enqueue(r)
    \/ \E p, r \in Runs : RetryFailed(p, r)

Clock == LeaseExpires \/ \E r \in Runs : HeartbeatExpires(r) \/ RetryDue(r)

Next ==
    \/ Owner
    \/ \E w \in Workers : WorkerStep(w) \/ Crash(w)
    \/ Clock

Spec == Init /\ [][Next]_vars

\* systemd restarts the worker and its loop never stops polling; a provider
\* call returns or times out; clocks advance.
Fairness ==
    /\ \A w \in Workers : WF_vars(WorkerStep(w))
    /\ \A r \in Runs : WF_vars(HeartbeatExpires(r)) /\ WF_vars(RetryDue(r))
    /\ WF_vars(LeaseExpires)

FairSpec == Spec /\ Fairness

-----------------------------------------------------------------------------
(* Correctness.                                                             *)

\* No claim is ever drawn past the attempt budget: the filter of
\* claim_next_sync_run and its choice whether to count an attempt are written
\* separately, and the row carries the CHECK pos_sync_run_attempts_bounded.
AttemptsBounded == \A r \in Runs : run[r].attempts <= MaxAttempts

\* Until a run is cancelled, what its passes landed is exactly what its
\* finalized receipt and its pending checkpoint report, each record once;
\* a closed run has no checkpoint left, so its receipt is complete.
ReceiptsExact ==
    \A r \in Runs : run[r].status # "cancelled" =>
        /\ landed[r] = run[r].result \cup Lines(run[r].checkpoint)
        /\ run[r].result \cap Lines(run[r].checkpoint) = {}
        /\ ~Active(r) => run[r].checkpoint = {}

\* Reconnect, disconnect and undo leave no work of an older credential behind:
\* there is at most one active run, it belongs to the current row and
\* generation, and never to a connection being disconnected.
OneCurrentIntent ==
    /\ \A r \in Runs : Active(r) => OnCurrent(r) /\ conn.status # "disconnecting"
    /\ \A q, r \in Runs : Active(q) /\ Active(r) => q = r

\* The matching of a batch against stored provider_record_ids under the
\* workspace lock keeps every record in at most one active import, whatever
\* overlap, retry or second worker fetched it again.
NothingStoredTwice ==
    \A i, j \in DOMAIN imports :
        i # j /\ imports[i].account = imports[j].account =>
            imports[i].lines \cap imports[j].lines = {}

\* A run that succeeded, failed or was cancelled is never written again and
\* no late worker adds lines on its behalf: not after a crash, a stall past
\* the heartbeat, or a reconnect while the provider was being read.
TerminalIsFinal ==
    [][\A r \in Runs : Terminal(r) =>
          run'[r] = run[r] /\ landed'[r] = landed[r]]_vars

\* The strengthening that makes the invariants above inductive.  An active run's
\* lines are still in the ledger (an undo would have cancelled it), and a worker
\* that holds its claim never believes in an empty checkpoint when the database
\* has one.
LandedIsStored == \A r \in Runs : Active(r) => landed[r] \subseteq Stored(conn.account)

AbsentIsBlank ==
    \A r \in Runs : run[r].status = "absent" => run[r] = AbsentRun /\ landed[r] = {}

MemoryCoversCheckpoint ==
    \A w \in Workers :
        /\ worker[w].pc \in {"leasing", "fetching", "undecorated", "decorating"}
             => worker[w].checkpoint = {}
        /\ Holds(w) /\ worker[w].checkpoint = {}
             => run[worker[w].run].checkpoint = {}

IInv ==
    /\ TypeOK /\ AttemptsBounded /\ ReceiptsExact /\ OneCurrentIntent
    /\ LandedIsStored /\ AbsentIsBlank /\ MemoryCoversCheckpoint

\* A queued run of an active connection will be taken by some worker once it
\* is due: the promise of recover_stale_sync_runs and _retry_or_fail_run.
QueuedRunsAreRunnable ==
    \A r \in Runs : run[r].status = "queued" /\ Live(r) => Runnable(r)

\* Every requested run closes: it succeeds, fails or is cancelled.
EveryRunCloses == \A r \in Runs : Active(r) ~> Terminal(r)

\* What the promise SyncIntent sees of the runs.
Phase == [r \in Runs |-> IF Active(r) THEN "open" ELSE run[r].status]
Reported == [r \in Runs |-> IF Active(r) THEN {} ELSE run[r].result]

Intent == INSTANCE SyncIntent WITH phase <- Phase, receipt <- Reported

\* The queue implements the promise of one press of Sync: whatever workers
\* crash, stall or race, a run closes once and a receipt is exact.
ImplementsIntent == Intent!Spec
=============================================================================
