--------------------------- MODULE PosSyncProofs ---------------------------
(***************************************************************************)
(* PosSync, for any number of workers, runs, records and accounts and for  *)
(* any bounds: types; the inductive invariant IInv and the safety theorems *)
(* that follow from it; that no run waits in vain; and that the queue      *)
(* implements SyncIntent.                                                  *)
(***************************************************************************)
EXTENDS PosSync, TLAPS

-----------------------------------------------------------------------------
(* Types: what the shared row updates return.                               *)

\* An empty checkpoint column holds no receipt and no lines.
LEMMA NoCheckpoint == AtMostOne({}) /\ Lines({}) = {}
  BY DEF AtMostOne, Lines

\* A checkpoint holding one receipt reports that receipt's lines.
LEMMA OneCheckpoint ==
  ASSUME NEW receipt PROVE AtMostOne({receipt}) /\ Lines({receipt}) = receipt.lines
  BY DEF AtMostOne, Lines

\* The row a run starts from, before enqueue-pos-sync creates it, is well typed.
LEMMA AbsentRunType == AbsentRun \in RunRow
  BY ConstantsAssumption, NoCheckpoint
  DEF AbsentRun, RunRow, RunStatus, FirstProgress, Progress, ConstantsAssumption

\* The memory of a worker between two polls is well typed.
LEMMA IdleType == Idle \in Memory
  BY NoCheckpoint DEF Idle, Memory, Pc, FirstProgress, Progress

\* cancel_active writes a well typed row, and a cancelled one.
LEMMA CancelledType ==
  ASSUME NEW x \in RunRow
  PROVE  /\ Cancelled(x) \in RunRow
         /\ Cancelled(x).status = "cancelled"
  BY NoCheckpoint, ConstantsAssumption DEF Cancelled, RunRow, RunStatus, ConstantsAssumption

\* Cancelling every active run of the current credential keeps the table well typed.
LEMMA CancelActiveType ==
  ASSUME TypeOK
  PROVE  CancelActive \in [Runs -> RunRow]
  BY CancelledType DEF TypeOK, CancelActive

\* Giving the sync lease back keeps the connection well typed.
LEMMA NoLeaseType ==
  ASSUME NEW c \in Connection
  PROVE  NoLease(c) \in Connection
  BY DEF NoLease, Connection

\* The credential generation is a number, and so is its successor.
LEMMA GenerationType == ASSUME TypeOK PROVE conn.gen \in Nat /\ conn.gen + 1 \in Nat
  BY DEF TypeOK, Connection

\* The initial state is well typed.
LEMMA InitTypeOK == Init => TypeOK
<1> SUFFICES ASSUME Init PROVE TypeOK
  OBVIOUS
<1>1. conn \in Connection
  <2>1. PICK a \in Accounts :
          conn = [row |-> 0, status |-> "none", gen |-> 0, account |-> a,
                  lease |-> NoWorker, leaseFresh |-> FALSE]
    BY DEF Init
  <2> QED
    BY <2>1 DEF Connection, ConnStatus
<1>2. imports \in Seq(Import)
  BY DEF Init
<1> QED
  BY <1>1, <1>2, AbsentRunType, IdleType DEF Init, TypeOK

\* The owner's requests keep the types: connect, reconnect, disconnect, undo, sync.
LEMMA OwnerTypeOK == ASSUME TypeOK, Owner PROVE TypeOK'
<1>1. ASSUME NEW a \in Accounts, Connect(a) PROVE TypeOK'
  BY <1>1 DEF Connect, TypeOK, Connection, ConnStatus
<1>2. ASSUME NEW a \in Accounts, Reconnect(a) PROVE TypeOK'
  <2>1. [conn EXCEPT !.gen = @ + 1, !.status = "active", !.account = a]
          \in Connection
    BY GenerationType DEF TypeOK, Connection, ConnStatus
  <2> QED
    BY <1>2, <2>1, CancelActiveType, NoLeaseType DEF Reconnect, TypeOK
<1>3. CASE Disconnect
  <2>1. [conn EXCEPT !.gen = @ + 1, !.status = "disconnecting"] \in Connection
    BY GenerationType DEF TypeOK, Connection, ConnStatus
  <2> QED
    BY <1>3, <2>1, CancelActiveType, NoLeaseType DEF Disconnect, TypeOK
<1>4. CASE FinishDisconnect
  BY <1>4 DEF FinishDisconnect, TypeOK, Connection, ConnStatus
<1>5. CASE UndoImport
  <2>1. imports' \in Seq(Import)
    BY <1>5 DEF UndoImport, TypeOK
  <2> QED
    BY <1>5, <2>1, CancelActiveType, NoLeaseType DEF UndoImport, TypeOK
<1>6. ASSUME NEW r \in Runs, Enqueue(r) PROVE TypeOK'
  <2>1. [AbsentRun EXCEPT !.status = "queued", !.row = conn.row,
                          !.gen = conn.gen, !.due = TRUE] \in RunRow
    BY <1>6, ConstantsAssumption, NoCheckpoint
    DEF TypeOK, Connection, AbsentRun, RunRow, RunStatus, FirstProgress, Progress, ConstantsAssumption
  <2> QED
    BY <1>6, <2>1 DEF Enqueue, TypeOK
<1> QED
  BY <1>1, <1>2, <1>3, <1>4, <1>5, <1>6 DEF Owner, RetryFailed

\* The rows a worker writes: a failed row is well typed.
LEMMA FailedType ==
  ASSUME NEW x \in RunRow, x.status = "running" PROVE Failed(x) \in RunRow
  BY NoCheckpoint, ConstantsAssumption DEF Failed, RunRow, RunStatus, ConstantsAssumption

\* A requeued row is well typed.
LEMMA RequeuedType ==
  ASSUME NEW x \in RunRow, NEW due \in BOOLEAN PROVE Requeued(x, due) \in RunRow
  BY ConstantsAssumption DEF Requeued, RunRow, RunStatus, ConstantsAssumption

\* A claimed row is well typed, whether or not the claim counts an attempt.
LEMMA ClaimedType ==
  ASSUME NEW x \in RunRow, NEW w \in Workers PROVE Claimed(x, w) \in RunRow
<1>1. x.attempts \in Nat /\ x.attempts + 1 \in Nat
  BY DEF RunRow
<1> DEFINE n == IF x.checkpoint # {} \/ Continuation(x)
                THEN x.attempts ELSE x.attempts + 1
<1>2. n \in Nat
  BY <1>1
<1> HIDE DEF n
<1>3. [x EXCEPT !.status = "running", !.claim = w, !.fresh = TRUE,
                !.due = FALSE, !.error = FALSE, !.attempts = n] \in RunRow
  BY <1>2, ConstantsAssumption DEF RunRow, RunStatus, ConstantsAssumption
<1> QED
  BY <1>3 DEF Claimed, n

\* A finalized row is well typed, requeued for its next pass or succeeded.
LEMMA FinalizedType ==
  ASSUME NEW x \in RunRow, NEW receipt \in Receipt
  PROVE  Finalized(x, receipt) \in RunRow
<1>1. receipt.partial \in BOOLEAN /\ receipt.lines \in SUBSET Records
  BY DEF Receipt
<1>2. [x.progress EXCEPT !.partial = receipt.partial] \in Progress
  BY <1>1 DEF Progress, RunRow
<1>3. x.result \cup receipt.lines \in SUBSET Records
  BY <1>1 DEF RunRow
<1> QED
  BY <1>1, <1>2, <1>3, ConstantsAssumption, NoCheckpoint
  DEF Finalized, RunRow, RunStatus, ConstantsAssumption

\* Recovering one abandoned run keeps the types.
LEMMA RecoverTypeOK ==
  ASSUME TypeOK, NEW w \in Workers, NEW r \in Runs, Recover(w, r)
  PROVE  TypeOK'
<1>1. [worker[w] EXCEPT !.todo = @ \ {r}] \in Memory
  BY DEF TypeOK, Memory
<1>2. worker' \in [Workers -> Memory]
  BY <1>1 DEF Recover, TypeOK
<1>3. run[r] \in RunRow
  BY DEF TypeOK
<1>4. /\ Cancelled(run[r]) \in RunRow
      /\ run[r].status = "running" => Failed(run[r]) \in RunRow
      /\ Requeued(run[r], TRUE) \in RunRow
  BY <1>3, FailedType, RequeuedType, CancelledType
<1>5. run' \in [Runs -> RunRow]
  BY <1>4 DEF Recover, TypeOK
<1> QED
  BY <1>2, <1>5 DEF Recover, TypeOK

\* Steps that move only the worker's program counter and small flags.
BusyPc == Pc \ {"idle", "recovering"}

\* The places a worker can be at while it has a run.
LEMMA BusyPcs ==
  /\ {"claimed", "leasing", "fetching", "releasing", "judging", "settling",
      "finalizing", "undecorated", "decorating"} = BusyPc
  /\ BusyPc \subseteq Pc
  BY DEF BusyPc, Pc

\* Moving a busy worker to another busy place keeps its memory well typed.
LEMMA GotoType ==
  ASSUME TypeOK, NEW w \in Workers, worker[w].pc \in BusyPc, NEW pc \in BusyPc
  PROVE  /\ [worker[w] EXCEPT !.pc = pc] \in Memory
         /\ \A p \in BOOLEAN :
              [worker[w] EXCEPT !.pc = pc, !.permanent = p] \in Memory
         /\ \A t \in {"idle", "judging", "settling"} :
              [worker[w] EXCEPT !.pc = pc, !.then = t] \in Memory
         /\ [Idle EXCEPT !.pc = pc, !.run = worker[w].run] \in Memory
<1> DEFINE m == worker[w]
<1>1. m \in Memory
  BY DEF TypeOK
<1> HIDE DEF m
<1>2. ASSUME m.pc \in BusyPc
      PROVE  /\ [m EXCEPT !.pc = pc] \in Memory
             /\ \A p \in BOOLEAN : [m EXCEPT !.pc = pc, !.permanent = p] \in Memory
             /\ \A t \in {"idle", "judging", "settling"} :
                  [m EXCEPT !.pc = pc, !.then = t] \in Memory
             /\ [Idle EXCEPT !.pc = pc, !.run = m.run] \in Memory
  BY <1>1, <1>2, IdleType DEF Memory, Idle, BusyPc
<1> QED
  BY <1>2 DEF m

\* A poll only lists the runs to recover.
LEMMA PollTypeOK ==
  ASSUME TypeOK, NEW w \in Workers, Poll(w) PROVE TypeOK'
<1>1. ASSUME NEW m \in Memory, m.pc = "idle", NEW todo \in SUBSET Runs
      PROVE  [m EXCEPT !.pc = "recovering", !.todo = todo] \in Memory
  BY <1>1 DEF Memory, Pc
<1> QED
  BY <1>1 DEF Poll, TypeOK

\* Everything a worker does between its claim and its last step that leaves
\* the runs alone.
LEMMA WaitingTypeOK ==
  ASSUME TypeOK, NEW w \in Workers,
         \/ Start(w) \/ ClaimLease(w) \/ FetchFails(w) \/ GrantDies(w)
         \/ CommitRefused(w) \/ Release(w) \/ Judge(w) \/ FinalizeLost(w)
         \/ SweepFails(w) \/ ClaimDecoration(w) \/ Decorate(w)
  PROVE  TypeOK'
<1>1. /\ [conn EXCEPT !.lease = w, !.leaseFresh = TRUE] \in Connection
      /\ [conn EXCEPT !.status = "needs_reconnect"] \in Connection
      /\ [conn EXCEPT !.status = conn.status] \in Connection
      /\ NoLease(conn) \in Connection
  BY NoLeaseType DEF TypeOK, Connection, ConnStatus
<1>2. conn' \in Connection
  BY <1>1
  DEF TypeOK, Start, ClaimLease, FetchFails, GrantDies, CommitRefused, Release,
      Judge, FinalizeLost, SweepFails, ClaimDecoration, Decorate
<1>3. worker[w].pc \in BusyPc
  BY BusyPcs
  DEF Start, ClaimLease, FetchFails, GrantDies, CommitRefused, Release,
      Judge, FinalizeLost, SweepFails, ClaimDecoration, Decorate
<1>4. worker[w].then \in {"idle", "judging", "settling"}
  BY DEF TypeOK, Memory
<1>5. \E m \in Memory : worker' = [worker EXCEPT ![w] = m]
  <2>1. CASE Start(w)
    BY <2>1, <1>3, GotoType, BusyPcs DEF Start, Goto
  <2>2. CASE ClaimLease(w)
    BY <2>2, <1>3, GotoType, BusyPcs DEF ClaimLease, Goto
  <2>3. CASE FetchFails(w)
    <3>1. PICK then \in {"judging", "settling"} : Unwind(w, then)
      BY <2>3 DEF FetchFails
    <3> QED
      BY <3>1, <1>3, GotoType, BusyPcs DEF Unwind
  <2>4. CASE GrantDies(w)
    BY <2>4, <1>3, GotoType, BusyPcs DEF GrantDies, Unwind
  <2>5. CASE CommitRefused(w)
    BY <2>5, <1>3, GotoType, BusyPcs DEF CommitRefused, Unwind, Leave
  <2>6. CASE Release(w)
    BY <2>6, <1>3, <1>4, GotoType, BusyPcs, IdleType DEF Release, Goto, Rest
  <2>7. CASE Judge(w)
    BY <2>7, <1>3, GotoType, BusyPcs DEF Judge, Live, OnCurrent
  <2>8. CASE FinalizeLost(w)
    BY <2>8, IdleType DEF FinalizeLost, Rest
  <2>9. CASE SweepFails(w)
    BY <2>9, <1>3, GotoType, BusyPcs DEF SweepFails, Goto
  <2>10. CASE ClaimDecoration(w)
    BY <2>10, <1>3, GotoType, BusyPcs, IdleType DEF ClaimDecoration, Goto, Rest
  <2>11. CASE Decorate(w)
    BY <2>11, <1>3, GotoType, BusyPcs DEF Decorate, Leave
  <2> QED
    BY <2>1, <2>2, <2>3, <2>4, <2>5, <2>6, <2>7, <2>8, <2>9, <2>10, <2>11
<1>6. faults' \in Nat /\ UNCHANGED <<run, imports, landed>>
  BY DEF TypeOK, Start, ClaimLease, FetchFails, GrantDies, CommitRefused,
         Release, Judge, FinalizeLost, SweepFails, ClaimDecoration, Decorate
<1> QED
  BY <1>2, <1>5, <1>6 DEF TypeOK

\* Finding nothing to claim only sends the worker back to sleep.
LEMMA SleepTypeOK ==
  ASSUME TypeOK, NEW w \in Workers, Sleep(w) PROVE TypeOK'
  BY IdleType DEF Sleep, Rest, TypeOK

\* Claiming a run copies its checkpoint and progress into the worker's memory.
LEMMA ClaimTypeOK ==
  ASSUME TypeOK, NEW w \in Workers, NEW r \in Runs, Claim(w, r)
  PROVE  TypeOK'
<1>1. run' \in [Runs -> RunRow]
  BY ClaimedType DEF Claim, TypeOK
<1>2. /\ run[r].checkpoint \in SUBSET Receipt
      /\ AtMostOne(run[r].checkpoint)
      /\ run[r].progress \in Progress
  BY DEF TypeOK, RunRow
<1>3. [Idle EXCEPT !.pc = "claimed", !.run = r,
                   !.checkpoint = run[r].checkpoint,
                   !.progress = run[r].progress] \in Memory
  BY <1>2, ConstantsAssumption
  DEF Idle, Memory, Pc, FirstProgress, Progress, ConstantsAssumption
<1> QED
  BY <1>1, <1>3 DEF Claim, TypeOK

\* The transaction that stores a pass keeps the types of all it writes.
LEMMA CommitPassTypeOK ==
  ASSUME TypeOK, NEW w \in Workers, NEW batch \in SUBSET Records,
         NEW partial \in BOOLEAN, CommitPass(w, batch, partial)
  PROVE  TypeOK'
<1> DEFINE r == worker[w].run
           new == batch \ Stored(conn.account)
           receipt == [lines |-> new, partial |-> partial]
           progress == [partial |-> partial,
                        passes |-> worker[w].progress.passes + 1]
<1>1. r \in Runs /\ run[r].status = "running"
  BY DEF CommitPass, Holds, TypeOK, Memory
<1>2. new \in SUBSET Records /\ receipt \in Receipt
  BY DEF Receipt
<1>3. progress \in Progress
  <2>1. worker[w].progress.passes \in Nat
    BY DEF TypeOK, Memory, Progress
  <2> QED
    BY <2>1 DEF Progress
<1>4. AtMostOne({receipt}) /\ {receipt} \in SUBSET Receipt
  BY <1>2, OneCheckpoint
<1> HIDE DEF r, new, receipt, progress
<1>5. [run[r] EXCEPT !.fresh = TRUE, !.progress = progress,
                     !.checkpoint = {receipt}] \in RunRow
  BY ZenonT(60), <1>1, <1>3, <1>4 DEF TypeOK, RunRow
<1>6. [worker[w] EXCEPT !.pc = "finalizing", !.checkpoint = {receipt},
                        !.progress = progress] \in Memory
  <2>1. worker[w].pc = "fetching" /\ worker[w] \in Memory
    BY DEF CommitPass, TypeOK
  <2> QED
    BY <2>1, <1>3, <1>4 DEF Memory, Pc
<1>7. imports' \in Seq(Import)
  <2>1. conn.account \in Accounts
    BY DEF TypeOK, Connection
  <2>2. [account |-> conn.account, lines |-> new] \in Import
    BY <2>1, <1>2 DEF Import
  <2> QED
    BY <2>2 DEF CommitPass, TypeOK, new
<1>8. landed' \in [Runs -> SUBSET Records]
  BY <1>1, <1>2 DEF CommitPass, TypeOK, new, r
<1>9. run' \in [Runs -> RunRow] /\ worker' \in [Workers -> Memory]
  BY <1>1, <1>5, <1>6 DEF CommitPass, TypeOK, r, new, receipt, progress
<1> QED
  BY <1>7, <1>8, <1>9, NoLeaseType DEF CommitPass, TypeOK

\* A rolled back pass changes the worker's memory only.
LEMMA RollBackTypeOK ==
  ASSUME TypeOK, NEW w \in Workers, NEW batch \in SUBSET Records,
         NEW partial \in BOOLEAN, RollBackPass(w, batch, partial)
  PROVE  TypeOK'
<1> DEFINE new == batch \ Stored(conn.account)
           receipt == [lines |-> new, partial |-> partial]
           progress == [partial |-> partial,
                        passes |-> worker[w].progress.passes + 1]
<1>1. AtMostOne({receipt}) /\ {receipt} \in SUBSET Receipt
  <2>1. receipt \in Receipt
    BY DEF Receipt
  <2> QED
    BY <2>1, OneCheckpoint
<1>2. progress \in Progress
  <2>1. worker[w].progress.passes \in Nat
    BY DEF TypeOK, Memory, Progress
  <2> QED
    BY <2>1 DEF Progress
<1>3. worker[w].pc = "fetching" /\ worker[w] \in Memory
  BY DEF RollBackPass, TypeOK
<1>4. \E then \in {"judging", "settling"} :
        worker' = [worker EXCEPT ![w] =
          [@ EXCEPT !.pc = "releasing", !.then = then,
                    !.checkpoint = {receipt}, !.progress = progress]]
  BY DEF RollBackPass
<1> HIDE DEF new, receipt, progress
<1>5. ASSUME NEW then \in {"judging", "settling"}
      PROVE  [worker[w] EXCEPT !.pc = "releasing", !.then = then,
                !.checkpoint = {receipt}, !.progress = progress] \in Memory
  BY <1>1, <1>2, <1>3 DEF Memory, Pc
<1>6. worker' \in [Workers -> Memory]
  BY <1>4, <1>5 DEF TypeOK
<1> QED
  BY <1>6 DEF RollBackPass, TypeOK

\* _retry_or_fail_run writes a failed or a requeued row.
LEMMA SettleTypeOK ==
  ASSUME TypeOK, NEW w \in Workers, Settle(w) PROVE TypeOK'
<1>1. worker' \in [Workers -> Memory]
  BY IdleType DEF Settle, Rest, TypeOK
<1>2. CASE ~Holds(w)
  BY <1>1, <1>2 DEF Settle, TypeOK
<1>3. CASE Holds(w)
  <2> DEFINE r == worker[w].run
             seen == [run[r] EXCEPT !.progress = worker[w].progress]
  <2>1. r \in Runs /\ run[r].status = "running" /\ run[r] \in RunRow
    BY <1>3 DEF Holds, TypeOK, Memory
  <2>2. worker[w].progress \in Progress
    BY DEF TypeOK, Memory
  <2> HIDE DEF r
  <2>3. seen \in RunRow /\ seen.status = "running"
    BY <2>1, <2>2 DEF RunRow
  <2>4. \E y \in RunRow : run' = [run EXCEPT ![r] = y]
    <3>1. run' = [run EXCEPT ![r] =
                    IF GivesUp(w) THEN Failed(seen) ELSE Requeued(seen, FALSE)]
      BY <1>3 DEF Settle, r
    <3>2. Failed(seen) \in RunRow /\ Requeued(seen, FALSE) \in RunRow
      BY <2>3, FailedType, RequeuedType
    <3> QED
      BY <3>1, <3>2
  <2> QED
    BY <1>1, <2>1, <2>4 DEF Settle, TypeOK
<1> QED
  BY <1>2, <1>3

\* _finalize_sync_checkpoint writes a requeued or a succeeded row.
LEMMA FinalizeTypeOK ==
  ASSUME TypeOK, NEW w \in Workers, Finalize(w) PROVE TypeOK'
<1> DEFINE r == worker[w].run
<1>1. PICK receipt \in worker[w].checkpoint :
        /\ run' = [run EXCEPT ![r] = Finalized(@, receipt)]
        /\ worker' = [worker EXCEPT ![w] =
             IF receipt.partial THEN Idle
             ELSE [Idle EXCEPT !.pc = "undecorated", !.run = r]]
  BY DEF Finalize
<1>2. receipt \in Receipt
  BY DEF TypeOK, Memory
<1>3. worker[w].pc \in BusyPc
  BY BusyPcs DEF Finalize
<1>4. r \in Runs /\ run[r] \in RunRow
  BY DEF Finalize, CanFinalize, Holds, TypeOK, Memory
<1>5. [Idle EXCEPT !.pc = "undecorated", !.run = r] \in Memory
  BY <1>3, GotoType, BusyPcs
<1> HIDE DEF r
<1>6. run' \in [Runs -> RunRow] /\ worker' \in [Workers -> Memory]
  BY <1>1, <1>2, <1>4, <1>5, FinalizedType, IdleType DEF TypeOK
<1> QED
  BY <1>6 DEF Finalize, TypeOK

\* A dying worker forgets everything and writes nothing.
LEMMA CrashTypeOK ==
  ASSUME TypeOK, NEW w \in Workers, Crash(w) PROVE TypeOK'
  BY IdleType DEF Crash, Rest, TypeOK

\* Time passing ages a heartbeat or the lease, or makes a retry due.
LEMMA ClockTypeOK == ASSUME TypeOK, Clock PROVE TypeOK'
<1>1. CASE LeaseExpires
  <2>1. [conn EXCEPT !.leaseFresh = FALSE] \in Connection
    BY DEF TypeOK, Connection
  <2> QED
    BY <1>1, <2>1 DEF LeaseExpires, TypeOK
<1>2. ASSUME NEW r \in Runs, HeartbeatExpires(r) PROVE TypeOK'
  <2>1. ASSUME NEW x \in RunRow PROVE [x EXCEPT !.fresh = FALSE] \in RunRow
    BY DEF RunRow
  <2> QED
    BY <1>2, <2>1 DEF HeartbeatExpires, TypeOK
<1>3. ASSUME NEW r \in Runs, RetryDue(r) PROVE TypeOK'
  <2>1. ASSUME NEW x \in RunRow, x.status = "queued"
        PROVE  [x EXCEPT !.due = TRUE] \in RunRow
    BY <2>1 DEF RunRow
  <2> QED
    BY <1>3, <2>1 DEF RetryDue, TypeOK
<1> QED
  BY <1>1, <1>2, <1>3 DEF Clock

\* Every step keeps the types.
LEMMA NextTypeOK == ASSUME TypeOK, [Next]_vars PROVE TypeOK'
<1>1. CASE Owner
  BY <1>1, OwnerTypeOK
<1>2. ASSUME NEW w \in Workers, WorkerStep(w) PROVE TypeOK'
  BY <1>2, PollTypeOK, SleepTypeOK, RecoverTypeOK, ClaimTypeOK, WaitingTypeOK,
     CommitPassTypeOK, RollBackTypeOK, SettleTypeOK, FinalizeTypeOK
  DEF WorkerStep, Commit
<1>3. ASSUME NEW w \in Workers, Crash(w) PROVE TypeOK'
  BY <1>3, CrashTypeOK
<1>4. CASE Clock
  BY <1>4, ClockTypeOK
<1>5. CASE UNCHANGED vars
  BY <1>5 DEF vars, TypeOK
<1> QED
  BY <1>1, <1>2, <1>3, <1>4, <1>5 DEF Next

\* Every reachable state is well typed: in particular a run carries a claim
\* exactly while it is running, as every guarded write of the queue assumes.
THEOREM TypeCorrect == Spec => []TypeOK
<1>1. Init => TypeOK
  BY InitTypeOK
<1>2. TypeOK /\ [Next]_vars => TypeOK'
  BY NextTypeOK
<1> QED
  BY <1>1, <1>2, PTL DEF Spec

-----------------------------------------------------------------------------
(* The safety invariant.  A step of the queue is one of four shapes: it    *)
(* leaves the runs alone (QuietStep), stops every active run (StopStep),   *)
(* rewrites one run (OneRunStep), or is the commit of a provider pass; a   *)
(* worker's memory is followed by MemoryStep.                              *)

\* The conjuncts of IInv about stored rows alone.
RowInv == AttemptsBounded /\ ReceiptsExact /\ OneCurrentIntent
            /\ LandedIsStored /\ AbsentIsBlank

-----------------------------------------------------------------------------
\* A step that leaves runs, ledger and the connection's identity alone, and
\* moves the connection's status at most from active to needs_reconnect,
\* keeps everything the invariant says of the rows.
LEMMA QuietStep ==
  ASSUME TypeOK, RowInv, UNCHANGED <<run, imports, landed>>,
         conn'.row = conn.row, conn'.gen = conn.gen,
         conn'.account = conn.account,
         \/ conn'.status = conn.status
         \/ conn.status = "active" /\ conn'.status = "needs_reconnect"
  PROVE  RowInv'
<1>1. AttemptsBounded' /\ ReceiptsExact' /\ AbsentIsBlank'
  BY DEF RowInv, AttemptsBounded, ReceiptsExact, AbsentIsBlank, Active
<1>2. OneCurrentIntent'
  BY DEF RowInv, OneCurrentIntent, Active, OnCurrent
<1>3. LandedIsStored'
  BY DEF RowInv, LandedIsStored, Active, Stored
<1> QED
  BY <1>1, <1>2, <1>3 DEF RowInv

\* CancelActive leaves no run active: under OneCurrentIntent every active run
\* is one it selects.
LEMMA StoppedRuns ==
  ASSUME TypeOK, OneCurrentIntent, NEW r \in Runs
  PROVE  /\ CancelActive[r].status \notin {"queued", "running"}
         /\ \/ Active(r) /\ CancelActive[r] = Cancelled(run[r])
            \/ ~Active(r) /\ CancelActive[r] = run[r]
<1>1. run[r] \in RunRow
  BY DEF TypeOK
<1>2. Cancelled(run[r]).status = "cancelled"
  BY <1>1, CancelledType
<1> QED
  BY <1>2 DEF CancelActive, OneCurrentIntent, Active

\* A step that stops every active run keeps the row invariant, whatever it
\* does to the connection and the ledger.
LEMMA StopStep ==
  ASSUME TypeOK, RowInv, run' = CancelActive, UNCHANGED landed
  PROVE  RowInv'
<1>1. ASSUME NEW r \in Runs
      PROVE  /\ ~Active(r)'
             /\ run'[r].attempts = run[r].attempts
             /\ run'[r].status # "cancelled" => run'[r] = run[r]
             /\ run'[r].status = "absent" => run'[r] = run[r]
  <2>1. run[r] \in RunRow
    BY DEF TypeOK
  <2>2. /\ Cancelled(run[r]).status = "cancelled"
        /\ Cancelled(run[r]).attempts = run[r].attempts
    BY <2>1 DEF Cancelled, RunRow
  <2> QED
    BY <2>2, StoppedRuns DEF RowInv, Active
<1>2. AttemptsBounded'
  BY <1>1 DEF RowInv, AttemptsBounded
<1>3. ReceiptsExact'
  BY <1>1 DEF RowInv, ReceiptsExact, Active
<1>4. OneCurrentIntent' /\ LandedIsStored'
  BY <1>1 DEF OneCurrentIntent, LandedIsStored
<1>5. AbsentIsBlank'
  BY <1>1 DEF RowInv, AbsentIsBlank
<1> QED
  BY <1>2, <1>3, <1>4, <1>5 DEF RowInv

\* A step that rewrites one run keeps the row invariant when the new row keeps
\* its connection, opens nothing, respects the attempt budget and accounts for
\* what the run landed.
LEMMA OneRunStep ==
  ASSUME TypeOK, RowInv, NEW r \in Runs, NEW y \in RunRow,
         run' = [run EXCEPT ![r] = y], UNCHANGED <<conn, imports, landed>>,
         y.row = run[r].row, y.gen = run[r].gen,
         y.status \in {"queued", "running"} => Active(r),
         run[r].status # "absent", y.status # "absent",
         y.attempts <= MaxAttempts,
         y.status # "cancelled" =>
           /\ landed[r] = y.result \cup Lines(y.checkpoint)
           /\ y.result \cap Lines(y.checkpoint) = {}
           /\ y.status \in {"queued", "running"} \/ y.checkpoint = {}
  PROVE  RowInv'
<1>1. run'[r] = y /\ \A q \in Runs \ {r} : run'[q] = run[q]
  BY DEF TypeOK
<1>2. AttemptsBounded'
  BY <1>1 DEF RowInv, AttemptsBounded
<1>3. ReceiptsExact'
  BY <1>1 DEF RowInv, ReceiptsExact, Active
<1>4. OneCurrentIntent'
  BY <1>1 DEF RowInv, OneCurrentIntent, Active, OnCurrent
<1>5. LandedIsStored'
  BY <1>1 DEF RowInv, LandedIsStored, Active, Stored
<1>6. AbsentIsBlank'
  BY <1>1 DEF RowInv, AbsentIsBlank
<1> QED
  BY <1>2, <1>3, <1>4, <1>5, <1>6 DEF RowInv

\* A step of worker w keeps MemoryCoversCheckpoint when its own new memory
\* does and it leaves every run another worker may hold as it was, or claims,
\* stops or closes it.
LEMMA MemoryStep ==
  ASSUME TypeOK, TypeOK', MemoryCoversCheckpoint, NEW w \in Workers,
         \A v \in Workers \ {w} : worker'[v] = worker[v],
         \A r \in Runs : \/ run'[r] = run[r]
                         \/ run'[r].claim = w
                         \/ run'[r].status # "running",
         worker'[w].pc \in {"leasing", "fetching", "undecorated", "decorating"}
           => worker'[w].checkpoint = {},
         Holds(w)' /\ worker'[w].checkpoint = {}
           => run'[worker'[w].run].checkpoint = {}
  PROVE  MemoryCoversCheckpoint'
<1>1. ASSUME NEW v \in Workers
      PROVE  /\ worker'[v].pc \in {"leasing", "fetching", "undecorated", "decorating"}
                  => worker'[v].checkpoint = {}
             /\ Holds(v)' /\ worker'[v].checkpoint = {}
                  => run'[worker'[v].run].checkpoint = {}
  <2>1. CASE v = w
    BY <2>1
  <2>2. CASE v # w
    <3>1. worker'[v] = worker[v] /\ worker[v] \in Memory
      BY <2>2 DEF TypeOK
    <3>2. Holds(v)' => worker[v].run \in Runs /\ run'[worker[v].run] = run[worker[v].run]
      BY <2>2, <3>1 DEF Holds, Memory
    <3> QED
      BY <3>1, <3>2 DEF MemoryCoversCheckpoint, Holds
  <2> QED
    BY <2>1, <2>2
<1> QED
  BY <1>1 DEF MemoryCoversCheckpoint

-----------------------------------------------------------------------------
\* The initial state satisfies the invariant.
LEMMA InitIInv == Init => IInv
<1> SUFFICES ASSUME Init PROVE IInv
  OBVIOUS
<1>1. TypeOK
  BY InitTypeOK
<1>2. \A r \in Runs : run[r] = AbsentRun /\ landed[r] = {}
  BY DEF Init
<1>3. \A r \in Runs : ~Active(r)
  BY <1>2 DEF Active, AbsentRun
<1>4. AttemptsBounded
  BY <1>2, ConstantsAssumption DEF AttemptsBounded, AbsentRun, ConstantsAssumption
<1>5. ReceiptsExact
  BY <1>2, <1>3, NoCheckpoint DEF ReceiptsExact, AbsentRun
<1>6. OneCurrentIntent /\ LandedIsStored
  BY <1>3 DEF OneCurrentIntent, LandedIsStored
<1>7. AbsentIsBlank
  BY <1>2 DEF AbsentIsBlank
<1>8. MemoryCoversCheckpoint
  BY DEF Init, MemoryCoversCheckpoint, Holds, Idle
<1> QED
  BY <1>1, <1>4, <1>5, <1>6, <1>7, <1>8 DEF IInv

\* The owner's requests: connecting and reconnecting, disconnecting, undoing an
\* import, asking for a sync.
LEMMA OwnerIInv == ASSUME IInv, Owner PROVE RowInv' /\ MemoryCoversCheckpoint'
<1> USE DEF IInv
<1>0. TypeOK /\ RowInv
  BY DEF RowInv
<1>1. ASSUME UNCHANGED worker, UNCHANGED run \/ run' = CancelActive
      PROVE  MemoryCoversCheckpoint'
  <2>1. \A r \in Runs : run'[r] = run[r] \/ run'[r].status # "running"
    BY <1>1, StoppedRuns
  <2>2. \A w \in Workers : worker[w].run # NoRun => worker[w].run \in Runs
    BY DEF TypeOK, Memory
  <2> QED
    BY <1>1, <2>1, <2>2 DEF MemoryCoversCheckpoint, Holds
<1>2. ASSUME NEW a \in Accounts, Connect(a) PROVE RowInv' /\ MemoryCoversCheckpoint'
  <2>1. \A r \in Runs : ~Active(r)
    BY <1>2 DEF Connect, OneCurrentIntent, OnCurrent
  <2>2. UNCHANGED <<run, imports, landed, worker>>
    BY <1>2 DEF Connect
  <2>3. \A r \in Runs : ~Active(r)'
    BY <2>1, <2>2 DEF Active
  <2>4. AttemptsBounded' /\ ReceiptsExact' /\ AbsentIsBlank'
    BY <2>2 DEF AttemptsBounded, ReceiptsExact, AbsentIsBlank, Active
  <2>5. OneCurrentIntent' /\ LandedIsStored'
    BY <2>3 DEF OneCurrentIntent, LandedIsStored
  <2> QED
    BY <1>1, <2>2, <2>4, <2>5 DEF RowInv
<1>3. ASSUME NEW a \in Accounts, Reconnect(a) PROVE RowInv' /\ MemoryCoversCheckpoint'
  BY <1>0, <1>1, <1>3, StopStep DEF Reconnect
<1>4. CASE Disconnect
  BY <1>0, <1>1, <1>4, StopStep DEF Disconnect
<1>5. CASE FinishDisconnect
  <2>1. \A r \in Runs : ~Active(r)
    BY <1>5 DEF FinishDisconnect, OneCurrentIntent
  <2>2. UNCHANGED <<run, imports, landed, worker>>
    BY <1>5 DEF FinishDisconnect
  <2>3. \A r \in Runs : ~Active(r)'
    BY <2>1, <2>2 DEF Active
  <2>4. AttemptsBounded' /\ ReceiptsExact' /\ AbsentIsBlank'
    BY <2>2 DEF AttemptsBounded, ReceiptsExact, AbsentIsBlank, Active
  <2>5. OneCurrentIntent' /\ LandedIsStored'
    BY <2>3 DEF OneCurrentIntent, LandedIsStored
  <2> QED
    BY <1>1, <2>2, <2>4, <2>5 DEF RowInv
<1>6. CASE UndoImport
  <2>1. CASE run' = CancelActive
    BY <1>0, <1>1, <1>6, <2>1, StopStep DEF UndoImport
  <2>2. CASE /\ UNCHANGED <<run, conn>>
             /\ conn.status = "none" \/ imports[Len(imports)].account # conn.account
    <3>1. UNCHANGED <<landed, worker>>
      BY <1>6 DEF UndoImport
    <3>2. AttemptsBounded' /\ ReceiptsExact' /\ AbsentIsBlank' /\ OneCurrentIntent'
      BY <2>2, <3>1
      DEF AttemptsBounded, ReceiptsExact, AbsentIsBlank, OneCurrentIntent, Active, OnCurrent
    <3>3. LandedIsStored'
      <4>1. CASE conn.status = "none"
        BY <2>2, <4>1 DEF LandedIsStored, OneCurrentIntent, OnCurrent, Active
      <4>2. CASE imports[Len(imports)].account # conn.account
        <5>1. imports' = SubSeq(imports, 1, Len(imports) - 1) /\ imports \in Seq(Import)
                /\ imports # <<>>
          BY <1>6 DEF UndoImport, TypeOK
        <5>2. \A i \in DOMAIN imports : i # Len(imports) =>
                 i \in DOMAIN imports' /\ imports'[i] = imports[i]
          BY <5>1
        <5>3. Stored(conn.account) \subseteq Stored(conn.account)'
          BY <2>2, <4>2, <5>2 DEF Stored
        <5> QED
          BY <2>2, <3>1, <5>3 DEF LandedIsStored, Active
      <4> QED
        BY <2>2, <4>1, <4>2
    <3> QED
      BY <1>1, <2>2, <3>1, <3>2, <3>3 DEF RowInv
  <2> QED
    BY <1>6, <2>1, <2>2 DEF UndoImport
<1>7. ASSUME NEW r \in Runs, Enqueue(r) PROVE RowInv' /\ MemoryCoversCheckpoint'
  <2> DEFINE y == [AbsentRun EXCEPT !.status = "queued", !.row = conn.row,
                                    !.gen = conn.gen, !.due = TRUE]
  <2>1. run' = [run EXCEPT ![r] = y] /\ run[r].status = "absent"
          /\ UNCHANGED <<conn, imports, landed, worker>> /\ conn.status = "active"
    BY <1>7 DEF Enqueue
  <2>2. /\ y.status = "queued" /\ y.row = conn.row /\ y.gen = conn.gen
        /\ y.attempts = 0 /\ y.checkpoint = {} /\ y.result = {}
    BY DEF AbsentRun
  <2> HIDE DEF y
  <2>3. run'[r] = y /\ \A q \in Runs \ {r} : run'[q] = run[q]
    BY <2>1 DEF TypeOK
  <2>4. \A q \in Runs : ~Active(q)
    BY <1>7 DEF Enqueue, OneCurrentIntent
  <2>5. \A q \in Runs \ {r} : ~Active(q)'
    BY <2>3, <2>4 DEF Active
  <2>6. landed[r] = {}
    BY <2>1 DEF AbsentIsBlank
  <2>7. AttemptsBounded'
    BY <2>2, <2>3, ConstantsAssumption DEF AttemptsBounded, ConstantsAssumption
  <2>8. ReceiptsExact'
    BY <2>1, <2>2, <2>3, <2>6, NoCheckpoint DEF ReceiptsExact, Active
  <2>9. OneCurrentIntent'
    BY <2>1, <2>2, <2>3, <2>5 DEF OneCurrentIntent, OnCurrent
  <2>10. LandedIsStored'
    BY <2>1, <2>5, <2>6 DEF LandedIsStored
  <2>11. AbsentIsBlank'
    BY <2>1, <2>2, <2>3 DEF AbsentIsBlank
  <2>12. MemoryCoversCheckpoint'
    <3>1. \A w \in Workers : worker[w].run # NoRun => worker[w].run \in Runs
      BY DEF TypeOK, Memory
    <3> QED
      BY <2>1, <2>2, <2>3, <3>1 DEF MemoryCoversCheckpoint, Holds
  <2> QED
    BY <2>7, <2>8, <2>9, <2>10, <2>11, <2>12 DEF RowInv
<1> QED
  BY <1>2, <1>3, <1>4, <1>5, <1>6, <1>7 DEF Owner, RetryFailed

-----------------------------------------------------------------------------
\* A worker's recovery of one run and its claim of one.
LEMMA RecoverIInv ==
  ASSUME IInv, TypeOK', NEW w \in Workers, NEW r \in Runs, Recover(w, r)
  PROVE  RowInv' /\ MemoryCoversCheckpoint'
<1>1. TypeOK /\ RowInv /\ MemoryCoversCheckpoint
  BY DEF IInv, RowInv
<1>2. run[r] \in RunRow /\ worker[w] \in Memory
  BY <1>1 DEF TypeOK
<1>3. UNCHANGED <<conn, imports, landed>>
  BY DEF Recover
<1>4. \/ UNCHANGED run
      \/ \E y \in RunRow :
           /\ run' = [run EXCEPT ![r] = y]
           /\ Active(r)
           /\ y.row = run[r].row /\ y.gen = run[r].gen
           /\ y.attempts = run[r].attempts
           /\ y.result = run[r].result
           /\ \/ y.status = "cancelled"
              \/ y.status = "failed" /\ y.checkpoint = {} /\ run[r].checkpoint = {}
              \/ y.status = "queued" /\ y.checkpoint = run[r].checkpoint
  <2>1. CASE Active(r) /\ run' = [run EXCEPT ![r] = Cancelled(@)]
    <3>1. run' = [run EXCEPT ![r] = Cancelled(run[r])]
      BY <2>1
    <3>2. /\ Cancelled(run[r]) \in RunRow
          /\ Cancelled(run[r]).status = "cancelled"
          /\ Cancelled(run[r]).row = run[r].row
          /\ Cancelled(run[r]).gen = run[r].gen
          /\ Cancelled(run[r]).attempts = run[r].attempts
          /\ Cancelled(run[r]).result = run[r].result
      BY <1>2, CancelledType DEF Cancelled, RunRow
    <3> QED
      BY <2>1, <3>1, <3>2
  <2>2. CASE /\ run[r].status = "running"
             /\ run' = [run EXCEPT ![r] =
                  IF @.attempts >= MaxAttempts /\ @.checkpoint = {}
                  THEN Failed(@) ELSE Requeued(@, TRUE)]
    <3>1. CASE run[r].attempts >= MaxAttempts /\ run[r].checkpoint = {}
      <4>1. run' = [run EXCEPT ![r] = Failed(run[r])]
        BY <2>2, <3>1
      <4>2. /\ Failed(run[r]) \in RunRow
            /\ Failed(run[r]).status = "failed"
            /\ Failed(run[r]).checkpoint = {}
            /\ Failed(run[r]).row = run[r].row
            /\ Failed(run[r]).gen = run[r].gen
            /\ Failed(run[r]).attempts = run[r].attempts
            /\ Failed(run[r]).result = run[r].result
        BY <1>2, <2>2, FailedType DEF Failed, RunRow
      <4> QED
        BY <2>2, <3>1, <4>1, <4>2 DEF Active
    <3>2. CASE ~(run[r].attempts >= MaxAttempts /\ run[r].checkpoint = {})
      <4>1. run' = [run EXCEPT ![r] = Requeued(run[r], TRUE)]
        BY <2>2, <3>2
      <4>2. /\ Requeued(run[r], TRUE) \in RunRow
            /\ Requeued(run[r], TRUE).status = "queued"
            /\ Requeued(run[r], TRUE).checkpoint = run[r].checkpoint
            /\ Requeued(run[r], TRUE).row = run[r].row
            /\ Requeued(run[r], TRUE).gen = run[r].gen
            /\ Requeued(run[r], TRUE).attempts = run[r].attempts
            /\ Requeued(run[r], TRUE).result = run[r].result
        BY <1>2, RequeuedType DEF Requeued, RunRow
      <4> QED
        BY <2>2, <4>1, <4>2 DEF Active
    <3> QED
      BY <3>1, <3>2
  <2> QED
    BY <2>1, <2>2 DEF Recover
<1>5. RowInv'
  <2>1. CASE UNCHANGED run
    BY <1>1, <1>3, <2>1, QuietStep
  <2>2. CASE ~UNCHANGED run
    <3>0. PICK y \in RunRow :
           /\ run' = [run EXCEPT ![r] = y]
           /\ Active(r)
           /\ y.row = run[r].row /\ y.gen = run[r].gen
           /\ y.attempts = run[r].attempts
           /\ y.result = run[r].result
           /\ \/ y.status = "cancelled"
              \/ y.status = "failed" /\ y.checkpoint = {} /\ run[r].checkpoint = {}
              \/ y.status = "queued" /\ y.checkpoint = run[r].checkpoint
      BY <1>4, <2>2
    <3>1. y.attempts <= MaxAttempts
      BY <1>1, <3>0 DEF RowInv, AttemptsBounded
    <3>2. /\ landed[r] = run[r].result \cup Lines(run[r].checkpoint)
          /\ run[r].result \cap Lines(run[r].checkpoint) = {}
          /\ run[r].status # "absent"
      BY <1>1, <3>0 DEF RowInv, ReceiptsExact, Active
    <3>3. y.status # "cancelled" =>
            /\ landed[r] = y.result \cup Lines(y.checkpoint)
            /\ y.result \cap Lines(y.checkpoint) = {}
            /\ y.status \in {"queued", "running"} \/ y.checkpoint = {}
      BY <3>0, <3>2, NoCheckpoint
    <3> QED
      BY <1>1, <1>3, <3>0, <3>1, <3>2, <3>3, OneRunStep
  <2> QED
    BY <2>1, <2>2
<1>6. MemoryCoversCheckpoint'
  <2> DEFINE m == [worker[w] EXCEPT !.todo = @ \ {r}]
  <2>1. /\ worker' = [worker EXCEPT ![w] = m]
        /\ m.pc = "recovering" /\ m.run = NoRun
    BY <1>2 DEF Recover, Memory
  <2> HIDE DEF m
  <2>2. worker'[w] = m /\ \A v \in Workers \ {w} : worker'[v] = worker[v]
    BY <1>1, <2>1 DEF TypeOK
  <2>3. \A q \in Runs : run'[q] = run[q] \/ run'[q].status # "running"
    BY <1>1, <1>4 DEF TypeOK
  <2>4. ~Holds(w)'
    BY <2>1, <2>2 DEF Holds
  <2> QED
    BY <1>1, <2>1, <2>2, <2>3, <2>4, MemoryStep
<1> QED
  BY <1>5, <1>6

\* The claim's own choice whether to count an attempt agrees with the filter
\* that let the run through.
LEMMA ClaimIInv ==
  ASSUME IInv, TypeOK', NEW w \in Workers, NEW r \in Runs, Claim(w, r)
  PROVE  RowInv' /\ MemoryCoversCheckpoint'
<1>1. TypeOK /\ RowInv /\ MemoryCoversCheckpoint
  BY DEF IInv, RowInv
<1>2. run[r] \in RunRow /\ run[r].status = "queued" /\ Runnable(r)
  BY <1>1 DEF TypeOK, Claim, Claimable
<1> DEFINE y == Claimed(run[r], w)
           m == [Idle EXCEPT !.pc = "claimed", !.run = r,
                             !.checkpoint = run[r].checkpoint,
                             !.progress = run[r].progress]
<1>3. run' = [run EXCEPT ![r] = y] /\ worker' = [worker EXCEPT ![w] = m]
        /\ UNCHANGED <<conn, imports, landed>>
  BY DEF Claim
<1>4. /\ y \in RunRow /\ y.status = "running" /\ y.claim = w
      /\ y.row = run[r].row /\ y.gen = run[r].gen
      /\ y.result = run[r].result /\ y.checkpoint = run[r].checkpoint
  BY <1>2, ClaimedType DEF Claimed, RunRow
<1>5. y.attempts <= MaxAttempts
  <2>1. run[r].attempts <= MaxAttempts /\ run[r].attempts \in Nat /\ MaxAttempts \in Nat
    BY <1>1, <1>2, ConstantsAssumption DEF RowInv, AttemptsBounded, RunRow, ConstantsAssumption
  <2>2. CASE run[r].checkpoint # {} \/ Continuation(run[r])
    BY <1>2, <2>1, <2>2 DEF Claimed, RunRow
  <2>3. CASE ~(run[r].checkpoint # {} \/ Continuation(run[r]))
    <3>1. run[r].attempts < MaxAttempts
      BY <1>2, <2>3 DEF Runnable, Continuation
    <3>2. y.attempts = run[r].attempts + 1
      BY <1>2, <2>3 DEF Claimed, RunRow
    <3> QED
      BY <2>1, <3>1, <3>2
  <2> QED
    BY <2>2, <2>3
<1>6. m \in Memory /\ m.pc = "claimed" /\ m.run = r /\ m.checkpoint = run[r].checkpoint
  <2>1. worker'[w] = m
    BY <1>1, <1>3 DEF TypeOK
  <2>2. worker'[w] \in Memory
    BY DEF TypeOK
  <2> QED
    BY <2>1, <2>2 DEF Idle
<1> HIDE DEF y, m
<1>7. RowInv'
  <2>1. /\ landed[r] = run[r].result \cup Lines(run[r].checkpoint)
        /\ run[r].result \cap Lines(run[r].checkpoint) = {}
    BY <1>1, <1>2 DEF RowInv, ReceiptsExact
  <2> QED
    BY <1>1, <1>2, <1>3, <1>4, <1>5, <2>1, OneRunStep DEF Active
<1>8. MemoryCoversCheckpoint'
  <2>1. run'[r] = y /\ \A q \in Runs \ {r} : run'[q] = run[q]
    BY <1>1, <1>3 DEF TypeOK
  <2>2. worker'[w] = m /\ \A v \in Workers \ {w} : worker'[v] = worker[v]
    BY <1>1, <1>3 DEF TypeOK
  <2> QED
    BY <1>1, <1>4, <1>6, <2>1, <2>2, MemoryStep
<1> QED
  BY <1>7, <1>8

-----------------------------------------------------------------------------
RollBack(w) == \E batch \in SUBSET Records, partial \in BOOLEAN :
    RollBackPass(w, batch, partial)

\* Steps of a worker that leave the runs alone: polling, reading, the lease, the
\* provider call and its failures, losing the claim, decorating, dying.
LEMMA WaitingIInv ==
  ASSUME IInv, TypeOK', NEW w \in Workers,
         \/ Poll(w) \/ Sleep(w) \/ Crash(w)
         \/ Start(w) \/ ClaimLease(w) \/ FetchFails(w) \/ GrantDies(w)
         \/ CommitRefused(w) \/ RollBack(w) \/ Release(w) \/ Judge(w)
         \/ FinalizeLost(w) \/ SweepFails(w) \/ ClaimDecoration(w) \/ Decorate(w)
  PROVE  RowInv' /\ MemoryCoversCheckpoint'
<1>1. TypeOK /\ RowInv /\ MemoryCoversCheckpoint
  BY DEF IInv, RowInv
<1>2. worker[w] \in Memory /\ conn \in Connection
  BY <1>1 DEF TypeOK
<1>3. UNCHANGED <<run, imports, landed>>
  BY DEF Poll, Sleep, Crash, Start, ClaimLease, FetchFails, GrantDies,
         CommitRefused, RollBack, RollBackPass, Release, Judge, FinalizeLost,
         SweepFails, ClaimDecoration, Decorate
<1>4. /\ conn'.row = conn.row /\ conn'.gen = conn.gen
      /\ conn'.account = conn.account
      /\ \/ conn'.status = conn.status
         \/ conn.status = "active" /\ conn'.status = "needs_reconnect"
  <2>1. \/ conn' = conn
        \/ conn' = NoLease(conn)
        \/ conn' = [conn EXCEPT !.lease = w, !.leaseFresh = TRUE]
        \/ conn' = [conn EXCEPT !.status = conn.status]
        \/ conn.status = "active" /\ conn' = [conn EXCEPT !.status = "needs_reconnect"]
    BY DEF Poll, Sleep, Crash, Start, ClaimLease, FetchFails, GrantDies,
           CommitRefused, RollBack, RollBackPass, Release, Judge, FinalizeLost,
           SweepFails, ClaimDecoration, Decorate, Live
  <2> QED
    BY <1>2, <2>1 DEF NoLease, Connection
<1>5. RowInv'
  BY <1>1, <1>3, <1>4, QuietStep
<1>6. /\ \A v \in Workers \ {w} : worker'[v] = worker[v]
      /\ worker'[w].pc \in {"leasing", "fetching", "undecorated", "decorating"}
           => worker'[w].checkpoint = {}
      /\ worker'[w].run # NoRun /\ worker'[w].checkpoint = {} =>
           /\ worker'[w].run = worker[w].run
           /\ worker[w].checkpoint = {} \/ ~Holds(w)
  <2>0. /\ worker \in [Workers -> Memory]
        /\ worker[w].pc \in {"leasing", "fetching", "undecorated", "decorating"}
             => worker[w].checkpoint = {}
    BY <1>1 DEF TypeOK, MemoryCoversCheckpoint
  <2> USE <2>0 DEF Memory
  <2>1. CASE Poll(w)
    BY <2>1 DEF Poll
  <2>2. CASE Sleep(w) \/ Crash(w) \/ FinalizeLost(w)
    BY <2>2 DEF Sleep, Crash, FinalizeLost, Rest, Idle
  <2>3. CASE Start(w)
    <3>1. CASE worker' = [worker EXCEPT ![w] =
                 [@ EXCEPT !.pc = "settling", !.permanent = TRUE]]
      BY <3>1
    <3>2. CASE worker' = [worker EXCEPT ![w] = [@ EXCEPT !.pc = "finalizing"]]
      BY <3>2
    <3>3. CASE /\ worker[w].checkpoint = {}
               /\ worker' = [worker EXCEPT ![w] = [@ EXCEPT !.pc = "leasing"]]
      BY <3>3
    <3> QED
      BY <2>3, <3>1, <3>2, <3>3 DEF Start, Goto
  <2>4. CASE ClaimLease(w)
    BY <2>4 DEF ClaimLease, Goto
  <2>5. CASE \E then \in {"judging", "settling"} : Unwind(w, then)
    BY <2>5 DEF Unwind
  <2>6. CASE Leave(w) /\ (worker[w].checkpoint = {} \/ ~Holds(w))
    BY <2>6 DEF Leave, Idle
  <2>7. CASE RollBack(w)
    <3>1. PICK batch \in SUBSET Records, partial \in BOOLEAN : RollBackPass(w, batch, partial)
      BY <2>7 DEF RollBack
    <3> QED
      BY <3>1 DEF RollBackPass
  <2>8. CASE Release(w)
    BY <2>8 DEF Release, Goto, Rest, Idle
  <2>9. CASE SweepFails(w)
    BY <2>9 DEF SweepFails, Goto
  <2>10. CASE ClaimDecoration(w)
    BY <2>10 DEF ClaimDecoration, Goto, Rest, Idle
  <2>11. CASE Judge(w)
    <3>1. \E p : worker' = [worker EXCEPT ![w] =
             [@ EXCEPT !.pc = "settling", !.permanent = p]]
      BY <2>11 DEF Judge
    <3> QED
      BY <3>1
  <2>12. FetchFails(w) \/ GrantDies(w) \/ CommitRefused(w) \/ Decorate(w) =>
           \/ \E then \in {"judging", "settling"} : Unwind(w, then)
           \/ Leave(w) /\ (worker[w].checkpoint = {} \/ ~Holds(w))
    BY DEF FetchFails, GrantDies, CommitRefused, Decorate
  <2> QED
    BY <2>1, <2>2, <2>3, <2>4, <2>5, <2>6, <2>7, <2>8, <2>9, <2>10, <2>11, <2>12
<1>7. MemoryCoversCheckpoint'
  <2>1. Holds(w)' /\ worker'[w].checkpoint = {}
           => run'[worker'[w].run].checkpoint = {}
    BY <1>1, <1>3, <1>6 DEF Holds, MemoryCoversCheckpoint
  <2> QED
    BY <1>1, <1>3, <1>6, <2>1, MemoryStep
<1> QED
  BY <1>5, <1>7

\* What the appended import adds to the ledger.
LEMMA AppendStored ==
  ASSUME TypeOK, NEW new \in SUBSET Records,
         imports' = IF new = {} THEN imports
                    ELSE Append(imports, [account |-> conn.account, lines |-> new]),
         conn'.account = conn.account
  PROVE  Stored(conn.account)' = Stored(conn.account) \cup new
<1>1. CASE new = {}
  BY <1>1 DEF Stored
<1>2. CASE new # {}
  <2> DEFINE batch == [account |-> conn.account, lines |-> new]
             n == Len(imports)
  <2>1. imports \in Seq(Import) /\ n \in Nat /\ DOMAIN imports = 1 .. n
    BY DEF TypeOK
  <2>2. imports' = Append(imports, batch)
    BY <1>2
  <2>3. /\ DOMAIN imports' = 1 .. n + 1
        /\ \A i \in 1 .. n : imports'[i] = imports[i]
        /\ imports'[n + 1] = batch
    BY <2>1, <2>2
  <2>4. batch.account = conn.account /\ batch.lines = new
    OBVIOUS
  <2>5. (DOMAIN imports') = DOMAIN imports \cup {n + 1}
    BY <2>1, <2>3
  <2> HIDE DEF batch, n
  <2>6. {j \in DOMAIN imports' : imports'[j].account = conn.account}
          = {j \in DOMAIN imports : imports[j].account = conn.account} \cup {n + 1}
    BY <2>1, <2>3, <2>4, <2>5
  <2> QED
    BY <2>1, <2>3, <2>4, <2>6 DEF Stored
<1> QED
  BY <1>1, <1>2

\* The commit of a provider pass: the run it writes is active, so an undo has
\* not removed its earlier lines, and it has no checkpoint yet.
LEMMA CommitIInv ==
  ASSUME IInv, TypeOK', NEW w \in Workers, NEW batch \in SUBSET Records,
         NEW partial \in BOOLEAN, CommitPass(w, batch, partial)
  PROVE  RowInv' /\ MemoryCoversCheckpoint'
<1> DEFINE r == worker[w].run
           new == batch \ Stored(conn.account)
           receipt == [lines |-> new, partial |-> partial]
<1>1. TypeOK /\ RowInv /\ MemoryCoversCheckpoint
  BY DEF IInv, RowInv
<1>2. /\ worker[w].pc = "fetching" /\ Live(r) /\ conn.lease = w /\ Holds(w)
      /\ imports' = IF new = {} THEN imports
                    ELSE Append(imports, [account |-> conn.account, lines |-> new])
      /\ landed' = [landed EXCEPT ![r] = @ \cup new]
      /\ conn' = NoLease(conn)
  BY DEF CommitPass
<1>3. r \in Runs /\ run[r] \in RunRow /\ run[r].status = "running" /\ run[r].claim = w
  BY <1>1, <1>2 DEF Holds, TypeOK, Memory
<1>4. /\ run'[r].status = "running" /\ run'[r].claim = w
      /\ run'[r].row = run[r].row /\ run'[r].gen = run[r].gen
      /\ run'[r].attempts = run[r].attempts /\ run'[r].result = run[r].result
      /\ run'[r].checkpoint = {receipt}
      /\ \A q \in Runs \ {r} : run'[q] = run[q]
  <2> DEFINE progress == [partial |-> partial,
                          passes |-> worker[w].progress.passes + 1]
  <2>1. run' = [run EXCEPT ![r] = [@ EXCEPT !.fresh = TRUE, !.progress = progress,
                                            !.checkpoint = {receipt}]]
    BY DEF CommitPass
  <2>2. run \in [Runs -> RunRow]
    BY <1>1 DEF TypeOK
  <2> HIDE DEF r, receipt, progress
  <2> QED
    BY <1>3, <2>1, <2>2 DEF RunRow
<1>5. /\ worker'[w].pc = "finalizing" /\ worker'[w].run = r
      /\ worker'[w].checkpoint = {receipt}
      /\ \A v \in Workers \ {w} : worker'[v] = worker[v]
  <2> DEFINE progress == [partial |-> partial,
                          passes |-> worker[w].progress.passes + 1]
  <2>1. worker' = [worker EXCEPT ![w] =
             [@ EXCEPT !.pc = "finalizing", !.checkpoint = {receipt},
                       !.progress = progress]]
    BY DEF CommitPass
  <2>2. worker \in [Workers -> Memory]
    BY <1>1 DEF TypeOK
  <2> HIDE DEF receipt, progress
  <2> QED
    BY <2>1, <2>2 DEF Memory
<1>6. run[r].checkpoint = {}
  BY <1>1, <1>2 DEF MemoryCoversCheckpoint
<1>7. /\ conn'.row = conn.row /\ conn'.gen = conn.gen
      /\ conn'.status = conn.status /\ conn'.account = conn.account
  BY <1>1, <1>2 DEF TypeOK, Connection, NoLease
<1>8. landed'[r] = landed[r] \cup new /\ \A q \in Runs \ {r} : landed'[q] = landed[q]
  BY <1>1, <1>2, <1>3 DEF TypeOK
<1>9. landed[r] \subseteq Stored(conn.account)
  BY <1>1, <1>3 DEF RowInv, LandedIsStored, Active
<1>10. Stored(conn.account)' = Stored(conn.account) \cup new
  <2>1. new \in SUBSET Records
    OBVIOUS
  <2> QED
    BY <1>1, <1>2, <1>7, <2>1, AppendStored
<1>11. Lines({receipt}) = new
  BY OneCheckpoint
<1>12. new \cap landed[r] = {}
  BY <1>9
<1> HIDE DEF r, new, receipt
<1>13. AttemptsBounded'
  BY <1>1, <1>4 DEF RowInv, AttemptsBounded
<1>14. ReceiptsExact'
  <2>1. landed[r] = run[r].result
    BY <1>1, <1>3, <1>6, NoCheckpoint DEF RowInv, ReceiptsExact
  <2> DEFINE y == run'[r]
  <2>2. y.checkpoint = {receipt} /\ y.status = "running" /\ y.result = run[r].result
    BY <1>4
  <2>3. landed'[r] = y.result \cup new /\ y.result \cap new = {}
    BY <1>4, <1>8, <1>12, <2>1
  <2> HIDE DEF y
  <2>4. /\ landed'[r] = y.result \cup Lines(y.checkpoint)
        /\ y.result \cap Lines(y.checkpoint) = {}
    BY <1>11, <2>2, <2>3
  <2>5. ASSUME NEW q \in Runs, q # r, run'[q].status # "cancelled"
        PROVE  /\ landed'[q] = run'[q].result \cup Lines(run'[q].checkpoint)
               /\ run'[q].result \cap Lines(run'[q].checkpoint) = {}
               /\ ~Active(q)' => run'[q].checkpoint = {}
    <3>1. run'[q] = run[q] /\ landed'[q] = landed[q]
      BY <1>4, <1>8, <2>5
    <3> QED
      BY <1>1, <2>5, <3>1 DEF RowInv, ReceiptsExact, Active
  <2> QED
    BY <2>2, <2>4, <2>5 DEF ReceiptsExact, Active, y
<1>15. OneCurrentIntent'
  <2>1. \A q \in Runs : Active(q)' => Active(q)
    BY <1>3, <1>4 DEF Active
  <2>2. \A q \in Runs : run'[q].row = run[q].row /\ run'[q].gen = run[q].gen
    BY <1>4
  <2> QED
    BY <1>1, <1>7, <2>1, <2>2 DEF RowInv, OneCurrentIntent, OnCurrent
<1>16. LandedIsStored'
  <2>1. ASSUME NEW q \in Runs, Active(q)' PROVE landed'[q] \subseteq Stored(conn.account)'
    <3>1. CASE q = r
      BY <1>8, <1>9, <1>10, <3>1
    <3>2. CASE q # r
      <4>1. Active(q)
        BY <1>4, <2>1, <3>2 DEF Active
      <4> QED
        BY <1>1, <1>8, <1>10, <3>2, <4>1 DEF RowInv, LandedIsStored
    <3> QED
      BY <3>1, <3>2
  <2> QED
    BY <1>7, <2>1 DEF LandedIsStored
<1>17. AbsentIsBlank'
  BY <1>1, <1>4, <1>8 DEF RowInv, AbsentIsBlank
<1>18. MemoryCoversCheckpoint'
  <2>1. \A q \in Runs : \/ run'[q] = run[q]
                         \/ run'[q].claim = w
                         \/ run'[q].status # "running"
    BY <1>4
  <2>2. worker'[w].pc \notin {"leasing", "fetching", "undecorated", "decorating"}
          /\ worker'[w].checkpoint # {}
    BY <1>5
  <2> QED
    BY <1>1, <1>5, <2>1, <2>2, MemoryStep
<1> QED
  BY <1>13, <1>14, <1>15, <1>16, <1>17, <1>18 DEF RowInv

\* _retry_or_fail_run: a run is only failed when the worker that holds it has
\* seen no checkpoint, and then the database has none.
LEMMA SettleIInv ==
  ASSUME IInv, TypeOK', NEW w \in Workers, Settle(w)
  PROVE  RowInv' /\ MemoryCoversCheckpoint'
<1> DEFINE r == worker[w].run
           seen == [run[r] EXCEPT !.progress = worker[w].progress]
<1>1. TypeOK /\ RowInv /\ MemoryCoversCheckpoint
  BY DEF IInv, RowInv
<1>2. UNCHANGED <<conn, imports, landed>>
  BY DEF Settle
<1>3. /\ \A v \in Workers \ {w} : worker'[v] = worker[v]
      /\ ~Holds(w)'
      /\ worker'[w].pc = "idle"
  BY <1>1 DEF Settle, Rest, Idle, Holds, TypeOK
<1>4. CASE ~Holds(w)
  <2>1. UNCHANGED run
    BY <1>4 DEF Settle
  <2>2. RowInv'
    BY <1>1, <1>2, <2>1, QuietStep
  <2> QED
    BY <1>1, <1>3, <2>1, <2>2, MemoryStep
<1>5. CASE Holds(w)
  <2>1. r \in Runs /\ run[r] \in RunRow /\ run[r].status = "running"
    BY <1>1, <1>5 DEF Holds, TypeOK, Memory
  <2>2. worker[w].progress \in Progress
    BY <1>1 DEF TypeOK, Memory
  <2>3. GivesUp(w) => run[r].checkpoint = {}
    BY <1>1, <1>5 DEF GivesUp, MemoryCoversCheckpoint
  <2>4. run' = [run EXCEPT ![r] =
                  IF GivesUp(w) THEN Failed(seen) ELSE Requeued(seen, FALSE)]
    BY <1>5 DEF Settle
  <2> HIDE DEF r
  <2>5. /\ seen \in RunRow /\ seen.status = "running"
        /\ seen.row = run[r].row /\ seen.gen = run[r].gen
        /\ seen.attempts = run[r].attempts /\ seen.result = run[r].result
        /\ seen.checkpoint = run[r].checkpoint
    BY <2>1, <2>2 DEF RunRow
  <2> HIDE DEF seen
  <2>6. /\ landed[r] = run[r].result \cup Lines(run[r].checkpoint)
        /\ run[r].result \cap Lines(run[r].checkpoint) = {}
        /\ run[r].attempts <= MaxAttempts
        /\ Active(r)
    BY <1>1, <2>1 DEF RowInv, ReceiptsExact, AttemptsBounded, Active
  <2>7. CASE GivesUp(w)
    <3> DEFINE y == Failed(seen)
    <3>1. y \in RunRow
      BY <2>5, FailedType
    <3>2. /\ y.status = "failed" /\ y.checkpoint = {}
          /\ y.row = seen.row /\ y.gen = seen.gen
          /\ y.attempts = seen.attempts /\ y.result = seen.result
      BY <2>5 DEF Failed, RunRow
    <3>3. run' = [run EXCEPT ![r] = y]
      BY <2>4, <2>7
    <3> HIDE DEF y
    <3>4. landed[r] = y.result \cup Lines(y.checkpoint)
            /\ y.result \cap Lines(y.checkpoint) = {}
      BY <2>3, <2>5, <2>6, <2>7, <3>2, NoCheckpoint
    <3>5. RowInv'
      BY ZenonT(60), <1>1, <1>2, <2>1, <2>5, <2>6, <3>1, <3>2, <3>3, <3>4, OneRunStep
    <3>6. \A q \in Runs : run'[q] = run[q] \/ run'[q].status # "running"
      BY <1>1, <3>2, <3>3 DEF TypeOK
    <3> QED
      BY <1>1, <1>3, <3>5, <3>6, MemoryStep
  <2>8. CASE ~GivesUp(w)
    <3> DEFINE y == Requeued(seen, FALSE)
    <3>1. y \in RunRow
      BY <2>5, RequeuedType
    <3>2. /\ y.status = "queued" /\ y.checkpoint = seen.checkpoint
          /\ y.row = seen.row /\ y.gen = seen.gen
          /\ y.attempts = seen.attempts /\ y.result = seen.result
      BY <2>5 DEF Requeued, RunRow
    <3>3. run' = [run EXCEPT ![r] = y]
      BY <2>4, <2>8
    <3> HIDE DEF y
    <3>4. y.checkpoint = run[r].checkpoint /\ y.result = run[r].result
      BY <2>5, <3>2
    <3>5. landed[r] = y.result \cup Lines(y.checkpoint)
            /\ y.result \cap Lines(y.checkpoint) = {}
      BY <2>6, <3>4
    <3>6. RowInv'
      BY <1>1, <1>2, <2>1, <2>5, <2>6, <3>1, <3>2, <3>3, <3>5, OneRunStep
    <3>7. \A q \in Runs : run'[q] = run[q] \/ run'[q].status # "running"
      BY <1>1, <3>2, <3>3 DEF TypeOK
    <3> QED
      BY <1>1, <1>3, <3>6, <3>7, MemoryStep
  <2> QED
    BY <2>7, <2>8
<1> QED
  BY <1>4, <1>5

\* _finalize_sync_checkpoint moves the pending receipt into the result.
LEMMA FinalizeIInv ==
  ASSUME IInv, TypeOK', NEW w \in Workers, Finalize(w)
  PROVE  RowInv' /\ MemoryCoversCheckpoint'
<1> DEFINE r == worker[w].run
<1>1. TypeOK /\ RowInv /\ MemoryCoversCheckpoint
  BY DEF IInv, RowInv
<1>2. PICK receipt \in worker[w].checkpoint :
        /\ run' = [run EXCEPT ![r] = Finalized(@, receipt)]
        /\ worker' = [worker EXCEPT ![w] =
             IF receipt.partial THEN Idle
             ELSE [Idle EXCEPT !.pc = "undecorated", !.run = r]]
  BY DEF Finalize
<1>3. /\ CanFinalize(w) /\ run[r].checkpoint = worker[w].checkpoint
      /\ UNCHANGED <<conn, imports, landed>>
  BY DEF Finalize, CanFinalize
<1>4. r \in Runs /\ run[r] \in RunRow /\ run[r].status = "running"
  BY <1>1, <1>3 DEF CanFinalize, Holds, TypeOK, Memory
<1>5. receipt \in Receipt /\ AtMostOne(run[r].checkpoint)
  BY <1>3, <1>4 DEF RunRow
<1>6. Lines(run[r].checkpoint) = receipt.lines
  <2>1. \A c \in run[r].checkpoint : c = receipt
    BY <1>2, <1>3, <1>5 DEF AtMostOne
  <2> QED
    BY <1>2, <1>3, <2>1 DEF Lines
<1>7. /\ \A v \in Workers \ {w} : worker'[v] = worker[v]
      /\ worker'[w].checkpoint = {}
  BY <1>1, <1>2 DEF TypeOK, Idle
<1> DEFINE y == Finalized(run[r], receipt)
<1>8. y \in RunRow /\ run' = [run EXCEPT ![r] = y]
  BY <1>2, <1>4, <1>5, FinalizedType
<1>9. /\ y.status \in {"queued", "succeeded"} /\ y.checkpoint = {}
      /\ y.row = run[r].row /\ y.gen = run[r].gen
      /\ y.attempts = run[r].attempts
      /\ y.result = run[r].result \cup receipt.lines
  BY <1>4 DEF Finalized, RunRow
<1> HIDE DEF r, y
<1>10. RowInv'
  <2>1. /\ landed[r] = run[r].result \cup Lines(run[r].checkpoint)
        /\ run[r].attempts <= MaxAttempts
        /\ Active(r)
    BY <1>1, <1>4 DEF RowInv, ReceiptsExact, AttemptsBounded, Active
  <2>2. landed[r] = run[r].result \cup receipt.lines
    BY <2>1, <1>6
  <2>3. landed[r] = y.result \cup Lines(y.checkpoint)
            /\ y.result \cap Lines(y.checkpoint) = {}
    BY <1>9, <2>2, NoCheckpoint
  <2> QED
    BY <1>1, <1>3, <1>4, <1>8, <1>9, <2>1, <2>3, OneRunStep
<1>11. MemoryCoversCheckpoint'
  <2>1. \A q \in Runs : run'[q] = run[q] \/ run'[q].status # "running"
    BY <1>1, <1>8, <1>9 DEF TypeOK
  <2>2. ~Holds(w)'
    <3>1. worker'[w].run \in {NoRun, r}
      BY <1>1, <1>2 DEF TypeOK, Idle
    <3>2. run'[r].status # "running"
      BY <1>1, <1>4, <1>8, <1>9 DEF TypeOK
    <3> QED
      BY <3>1, <3>2 DEF Holds
  <2> QED
    BY <1>1, <1>7, <2>1, <2>2, MemoryStep
<1> QED
  BY <1>10, <1>11

\* Time passing touches a heartbeat, a due time or the lease's age.
LEMMA ClockIInv ==
  ASSUME IInv, TypeOK', Clock
  PROVE  RowInv' /\ MemoryCoversCheckpoint'
<1>1. TypeOK /\ RowInv /\ MemoryCoversCheckpoint
  BY DEF IInv, RowInv
<1>2. CASE LeaseExpires
  <2>1. /\ conn'.row = conn.row /\ conn'.gen = conn.gen
        /\ conn'.status = conn.status /\ conn'.account = conn.account
        /\ UNCHANGED <<run, imports, landed, worker>>
    BY <1>1, <1>2 DEF LeaseExpires, TypeOK, Connection
  <2>2. RowInv'
    BY <1>1, <2>1, QuietStep
  <2>3. MemoryCoversCheckpoint'
    BY <1>1, <2>1 DEF MemoryCoversCheckpoint, Holds
  <2> QED
    BY <2>2, <2>3
<1>3. ASSUME NEW r \in Runs, HeartbeatExpires(r) \/ RetryDue(r)
      PROVE  RowInv' /\ MemoryCoversCheckpoint'
  <2> DEFINE y == run'[r]
  <2>1. /\ run[r] \in RunRow /\ Active(r) /\ UNCHANGED <<conn, imports, landed, worker>>
        /\ run' = [run EXCEPT ![r] = y]
        /\ y \in RunRow
        /\ y.status = run[r].status /\ y.row = run[r].row /\ y.gen = run[r].gen
        /\ y.claim = run[r].claim
        /\ y.attempts = run[r].attempts /\ y.result = run[r].result
        /\ y.checkpoint = run[r].checkpoint
    <3>1. run[r] \in RunRow /\ y \in RunRow /\ run \in [Runs -> RunRow]
      BY <1>1 DEF TypeOK
    <3>2. CASE HeartbeatExpires(r)
      BY <3>1, <3>2 DEF HeartbeatExpires, Active, RunRow
    <3>3. CASE RetryDue(r)
      BY <3>1, <3>3 DEF RetryDue, Active, RunRow
    <3> QED
      BY <1>3, <3>2, <3>3
  <2>2. /\ landed[r] = run[r].result \cup Lines(run[r].checkpoint)
        /\ run[r].result \cap Lines(run[r].checkpoint) = {}
        /\ run[r].attempts <= MaxAttempts
    BY <1>1, <2>1 DEF RowInv, ReceiptsExact, AttemptsBounded, Active
  <2> HIDE DEF y
  <2>3. /\ landed[r] = y.result \cup Lines(y.checkpoint)
        /\ y.result \cap Lines(y.checkpoint) = {}
    BY <2>1, <2>2
  <2>4. RowInv'
    BY <1>1, <2>1, <2>2, <2>3, OneRunStep DEF Active
  <2>5. \A q \in Runs : run'[q].status = run[q].status /\ run'[q].claim = run[q].claim
                          /\ run'[q].checkpoint = run[q].checkpoint
    BY <1>1, <2>1 DEF TypeOK
  <2>6. MemoryCoversCheckpoint'
    <3>1. \A w \in Workers : worker[w].run # NoRun => worker[w].run \in Runs
      BY <1>1 DEF TypeOK, Memory
    <3> QED
      BY <1>1, <2>1, <2>5, <3>1 DEF MemoryCoversCheckpoint, Holds
  <2> QED
    BY <2>4, <2>6
<1> QED
  BY <1>2, <1>3 DEF Clock

\* Every step preserves the invariant.
LEMMA NextIInv == ASSUME IInv, [Next]_vars PROVE IInv'
<1>1. TypeOK'
  BY NextTypeOK DEF IInv
<1>2. RowInv' /\ MemoryCoversCheckpoint'
  <2>1. CASE Owner
    BY <2>1, OwnerIInv
  <2>2. ASSUME NEW w \in Workers, WorkerStep(w) \/ Crash(w)
        PROVE  RowInv' /\ MemoryCoversCheckpoint'
    <3>1. ASSUME NEW r \in Runs, Recover(w, r) \/ Claim(w, r)
          PROVE  RowInv' /\ MemoryCoversCheckpoint'
      BY <1>1, <3>1, RecoverIInv, ClaimIInv
    <3>2. ASSUME Commit(w) PROVE RowInv' /\ MemoryCoversCheckpoint'
      <4>1. PICK batch \in SUBSET Records, partial \in BOOLEAN :
              CommitPass(w, batch, partial) \/ RollBackPass(w, batch, partial)
        BY <3>2 DEF Commit
      <4>2. RollBackPass(w, batch, partial) => RollBack(w)
        BY DEF RollBack
      <4> QED
        BY <1>1, <4>1, <4>2, CommitIInv, WaitingIInv
    <3> QED
      BY <1>1, <2>2, <3>1, <3>2, WaitingIInv, SettleIInv, FinalizeIInv DEF WorkerStep
  <2>3. CASE Clock
    BY <1>1, <2>3, ClockIInv
  <2>4. CASE UNCHANGED vars
    BY <2>4 DEF vars, IInv, RowInv, AttemptsBounded, ReceiptsExact, OneCurrentIntent,
                LandedIsStored, AbsentIsBlank, MemoryCoversCheckpoint, Active,
                OnCurrent, Stored, Holds
  <2> QED
    BY <2>1, <2>2, <2>3, <2>4 DEF Next
<1> QED
  BY <1>1, <1>2 DEF IInv, RowInv

-----------------------------------------------------------------------------
\* IInv is an invariant of the queue, whatever the number of workers, runs,
\* records and accounts.
THEOREM InvariantHolds == Spec => []IInv
<1>1. Init => IInv
  BY InitIInv
<1>2. IInv /\ [Next]_vars => IInv'
  BY NextIInv
<1> QED
  BY <1>1, <1>2, PTL DEF Spec

\* No run is ever claimed past max_attempts, although the claim filter and the
\* decision to count an attempt are written separately.
THEOREM AttemptsStayBounded == Spec => []AttemptsBounded
<1>1. IInv => AttemptsBounded
  BY DEF IInv
<1> QED
  BY <1>1, InvariantHolds, PTL

\* Receipts and checkpoints account for exactly the records a run landed.
THEOREM ReceiptsStayExact == Spec => []ReceiptsExact
<1>1. IInv => ReceiptsExact
  BY DEF IInv
<1> QED
  BY <1>1, InvariantHolds, PTL

\* At most one run is active, and only for the current credential.
THEOREM IntentStaysCurrent == Spec => []OneCurrentIntent
<1>1. IInv => OneCurrentIntent
  BY DEF IInv
<1> QED
  BY <1>1, InvariantHolds, PTL

-----------------------------------------------------------------------------
\* Only an undo shortens the ledger and only a commit appends to it, a batch
\* disjoint from what its account has stored.
LEMMA NextStoresOnce ==
  ASSUME TypeOK, NothingStoredTwice, [Next]_vars PROVE NothingStoredTwice'
<1>1. CASE UNCHANGED imports
  BY <1>1 DEF NothingStoredTwice
<1>2. CASE UndoImport
  <2>1. imports \in Seq(Import) /\ imports # <<>>
          /\ imports' = SubSeq(imports, 1, Len(imports) - 1)
    BY <1>2 DEF UndoImport, TypeOK
  <2>2. \A i \in DOMAIN imports' : i \in DOMAIN imports /\ imports'[i] = imports[i]
    BY <2>1
  <2> QED
    BY <2>2 DEF NothingStoredTwice
<1>3. ASSUME NEW w \in Workers, NEW batch \in SUBSET Records,
             NEW partial \in BOOLEAN, CommitPass(w, batch, partial)
      PROVE  NothingStoredTwice'
  <2> DEFINE new == batch \ Stored(conn.account)
             b == [account |-> conn.account, lines |-> new]
             n == Len(imports)
  <2>1. CASE new = {}
    BY <1>1, <1>3, <2>1 DEF CommitPass
  <2>2. CASE new # {}
    <3>1. imports \in Seq(Import) /\ n \in Nat /\ DOMAIN imports = 1 .. n
      BY DEF TypeOK
    <3>2. imports' = Append(imports, b)
      BY <1>3, <2>2 DEF CommitPass
    <3>3. /\ DOMAIN imports' = 1 .. n + 1
          /\ \A i \in 1 .. n : imports'[i] = imports[i]
          /\ imports'[n + 1] = b
      BY <3>1, <3>2
    <3>4. b.account = conn.account /\ b.lines = new
      OBVIOUS
    <3>5. \A i \in 1 .. n : imports[i].account = conn.account => imports[i].lines \cap new = {}
      BY <3>1 DEF Stored
    <3>6. \A i, j \in 1 .. n : i # j /\ imports[i].account = imports[j].account =>
             imports[i].lines \cap imports[j].lines = {}
      BY <3>1 DEF NothingStoredTwice
    <3> HIDE DEF b, new, n
    <3>7. ASSUME NEW i \in 1 .. n + 1, NEW j \in 1 .. n + 1, i # j,
                 imports'[i].account = imports'[j].account
          PROVE  imports'[i].lines \cap imports'[j].lines = {}
      <4>1. CASE i \in 1 .. n /\ j \in 1 .. n
        BY <3>3, <3>6, <3>7, <4>1
      <4>2. CASE i = n + 1 /\ j \in 1 .. n
        BY <3>3, <3>4, <3>5, <3>7, <4>2
      <4>3. CASE j = n + 1 /\ i \in 1 .. n
        BY <3>3, <3>4, <3>5, <3>7, <4>3
      <4> QED
        BY <3>1, <3>7, <4>1, <4>2, <4>3
    <3> QED
      BY <3>3, <3>7 DEF NothingStoredTwice
  <2> QED
    BY <2>1, <2>2
<1>4. \/ UNCHANGED imports
      \/ UndoImport
      \/ \E w \in Workers, batch \in SUBSET Records, partial \in BOOLEAN :
           CommitPass(w, batch, partial)
  BY ZenonT(60) DEF vars, Next, Owner, Connect, Reconnect, Disconnect, FinishDisconnect,
         Enqueue, RetryFailed, WorkerStep, Commit, RollBackPass, Poll, Sleep,
         Start, ClaimLease, Recover, Claim, FetchFails, GrantDies, CommitRefused,
         Release, Judge, Settle, Finalize, FinalizeLost, SweepFails,
         ClaimDecoration, Decorate, Crash, Clock, LeaseExpires,
         HeartbeatExpires, RetryDue
<1> QED
  BY <1>1, <1>2, <1>3, <1>4

\* No provider record is ever in two active imports of one account.
THEOREM RecordsStoredOnce == Spec => []NothingStoredTwice
<1>1. Init => NothingStoredTwice
  BY DEF Init, NothingStoredTwice
<1>2. TypeOK /\ TypeOK' /\ NothingStoredTwice /\ [Next]_vars => NothingStoredTwice'
  BY NextStoresOnce
<1> QED
  BY <1>1, <1>2, TypeCorrect, PTL DEF Spec

\* A step writes a run, or its landed records, only while the run is not
\* terminal.
LEMMA NextSparesTerminal ==
  ASSUME TypeOK, [Next]_vars, NEW r \in Runs, Terminal(r)
  PROVE  run'[r] = run[r] /\ landed'[r] = landed[r]
<1>1. ~Active(r) /\ run[r].status \notin {"absent", "queued", "running"}
  BY DEF Terminal, Active
<1>2. ASSUME run' = CancelActive PROVE run'[r] = run[r]
  BY <1>1, <1>2 DEF CancelActive
<1>3. CASE Owner
  BY <1>1, <1>2, <1>3
  DEF Owner, Connect, Reconnect, Disconnect, FinishDisconnect, UndoImport,
      Enqueue, RetryFailed, TypeOK
<1>4. ASSUME NEW w \in Workers, NEW q \in Runs, Recover(w, q) \/ Claim(w, q)
      PROVE  run'[r] = run[r] /\ landed'[r] = landed[r]
  BY <1>1, <1>4 DEF Recover, Claim, Claimable, Active, TypeOK
<1>5. ASSUME NEW w \in Workers, NEW batch \in SUBSET Records,
             NEW partial \in BOOLEAN, CommitPass(w, batch, partial)
      PROVE  run'[r] = run[r] /\ landed'[r] = landed[r]
  BY <1>1, <1>5 DEF CommitPass, Holds, TypeOK
<1>6. ASSUME NEW w \in Workers, Settle(w) \/ Finalize(w)
      PROVE  run'[r] = run[r] /\ landed'[r] = landed[r]
  BY <1>1, <1>6 DEF Settle, Finalize, CanFinalize, Holds, TypeOK
<1>7. CASE Clock
  BY <1>1, <1>7 DEF Clock, LeaseExpires, HeartbeatExpires, RetryDue, TypeOK
<1>8. ASSUME NEW w \in Workers, WorkerStep(w) \/ Crash(w),
             \A q \in Runs : ~Recover(w, q) /\ ~Claim(w, q),
             \A batch \in SUBSET Records, partial \in BOOLEAN :
               ~CommitPass(w, batch, partial),
             ~Settle(w), ~Finalize(w)
      PROVE  UNCHANGED <<run, landed>>
  BY <1>8
  DEF WorkerStep, Commit, RollBackPass, Poll, Sleep, Start, ClaimLease,
      FetchFails, GrantDies, CommitRefused, Release, Judge, FinalizeLost,
      SweepFails, ClaimDecoration, Decorate, Crash
<1>9. CASE UNCHANGED vars
  BY <1>9 DEF vars
<1>10. ASSUME NEW w \in Workers, WorkerStep(w) \/ Crash(w)
       PROVE  run'[r] = run[r] /\ landed'[r] = landed[r]
  BY <1>4, <1>5, <1>6, <1>8, <1>10
<1> QED
  BY <1>3, <1>7, <1>9, <1>10 DEF Next

\* A closed run is never written again and no late worker lands records on
\* its behalf.
THEOREM ClosedStaysClosed == Spec => TerminalIsFinal
<1>1. TypeOK /\ [Next]_vars =>
        [\A r \in Runs : Terminal(r) => run'[r] = run[r] /\ landed'[r] = landed[r]]_vars
  BY NextSparesTerminal
<1> QED
  BY <1>1, TypeCorrect, PTL DEF Spec, TerminalIsFinal

-----------------------------------------------------------------------------
(* Runs that wait are taken.                                                *)

\* While a commit either happens or is refused before the worker's run object
\* is touched, a worker that holds a run and remembers a checkpoint finds one
\* stored.
MemoryIsStored ==
    \A w \in Workers :
        Holds(w) /\ worker[w].checkpoint # {}
        => run[worker[w].run].checkpoint # {}

QueuedIsRunnable == \A r \in Runs : run[r].status = "queued" => Runnable(r)

QueueInv == MemoryIsStored /\ QueuedIsRunnable

\* Runs stay as they are, stop, or are the ones a worker claims or holds; and
\* the workers remember no more than they did.
LEMMA QueueKept ==
  ASSUME TypeOK, QueueInv,
         \A r \in Runs : \/ run'[r] = run[r]
                         \/ run'[r].status \notin {"queued", "running"}
                         \/ run'[r].status = "queued" /\ Runnable(r)',
         \A w \in Workers : \/ worker'[w] = worker[w]
                            \/ worker'[w].checkpoint = {}
                            \/ /\ worker'[w].run = worker[w].run
                               /\ worker'[w].checkpoint = worker[w].checkpoint
  PROVE  QueueInv'
<1>1. QueuedIsRunnable'
  BY DEF QueueInv, QueuedIsRunnable, Runnable
<1>2. MemoryIsStored'
  <2> SUFFICES ASSUME NEW w \in Workers, Holds(w)', worker'[w].checkpoint # {}
               PROVE  run'[worker'[w].run].checkpoint # {}
    BY DEF MemoryIsStored
  <2>1. worker'[w].run = worker[w].run /\ worker'[w].checkpoint = worker[w].checkpoint
    OBVIOUS
  <2>2. worker[w].run \in Runs
    BY <2>1 DEF Holds, TypeOK, Memory
  <2>3. run'[worker[w].run] = run[worker[w].run]
    BY <2>1, <2>2 DEF Holds
  <2> QED
    BY <2>1, <2>3 DEF QueueInv, MemoryIsStored, Holds
<1> QED
  BY <1>1, <1>2 DEF QueueInv

\* The owner's requests stop runs, or queue one that has all its attempts left.
LEMMA OwnerQueue == ASSUME IInv, QueueInv, Owner PROVE QueueInv'
<1>0. TypeOK /\ OneCurrentIntent
  BY DEF IInv
<1>1. ASSUME NEW a \in Accounts, Connect(a) \/ Reconnect(a) PROVE QueueInv'
  BY <1>0, <1>1, StoppedRuns, QueueKept DEF Connect, Reconnect
<1>2. CASE Disconnect \/ FinishDisconnect \/ UndoImport
  BY <1>0, <1>2, StoppedRuns, QueueKept DEF Disconnect, FinishDisconnect, UndoImport
<1>3. ASSUME NEW r \in Runs, Enqueue(r) PROVE QueueInv'
  <2>1. UNCHANGED worker /\ \A q \in Runs \ {r} : run'[q] = run[q]
    BY <1>0, <1>3 DEF TypeOK, Enqueue
  <2>2. run'[r].status = "queued" /\ run'[r].attempts = 0
    BY <1>0, <1>3 DEF TypeOK, Enqueue, AbsentRun
  <2>3. Runnable(r)'
    BY <2>2, ConstantsAssumption DEF Runnable, ConstantsAssumption
  <2> QED
    BY <1>0, <2>1, <2>2, <2>3, QueueKept
<1> QED
  BY <1>1, <1>2, <1>3 DEF Owner, RetryFailed

\* Recovery gives up exactly the runs that could not be claimed again.
LEMMA RecoverQueue ==
  ASSUME IInv, QueueInv, NEW w \in Workers, NEW r \in Runs, Recover(w, r)
  PROVE  QueueInv'
<1>0. TypeOK /\ run[r] \in RunRow /\ worker[w] \in Memory
  BY DEF IInv, TypeOK
<1>1. \A v \in Workers : /\ worker'[v].run = worker[v].run
                         /\ worker'[v].checkpoint = worker[v].checkpoint
  BY <1>0 DEF TypeOK, Recover, Memory
<1>2. \A q \in Runs \ {r} : run'[q] = run[q]
  BY <1>0 DEF TypeOK, Recover
<1>3. \/ run'[r] = run[r]
      \/ run'[r].status \notin {"queued", "running"}
      \/ run'[r].status = "queued" /\ Runnable(r)'
  <2>1. CASE run' = run
    BY <2>1
  <2>2. CASE run' = [run EXCEPT ![r] = Cancelled(@)]
    <3>1. run'[r] = Cancelled(run[r])
      BY <1>0, <2>2 DEF TypeOK
    <3> QED
      BY <1>0, <3>1, CancelledType
  <2>3. CASE run' = [run EXCEPT ![r] =
               IF @.attempts >= MaxAttempts /\ @.checkpoint = {}
               THEN Failed(@) ELSE Requeued(@, TRUE)]
    <3>1. CASE run[r].attempts >= MaxAttempts /\ run[r].checkpoint = {}
      <4>1. run'[r].status = "failed"
        BY <1>0, <2>3, <3>1 DEF TypeOK, Failed, RunRow
      <4> QED
        BY <4>1
    <3>2. CASE ~(run[r].attempts >= MaxAttempts /\ run[r].checkpoint = {})
      <4>1. /\ run'[r].status = "queued" /\ run'[r].attempts = run[r].attempts
            /\ run'[r].checkpoint = run[r].checkpoint
        BY <1>0, <2>3, <3>2 DEF TypeOK, Requeued, RunRow
      <4>2. run[r].attempts \in Nat /\ MaxAttempts \in Nat
        BY <1>0, ConstantsAssumption DEF RunRow, ConstantsAssumption
      <4> QED
        BY <3>2, <4>1, <4>2 DEF Runnable
    <3> QED
      BY <3>1, <3>2
  <2> QED
    BY <2>1, <2>2, <2>3 DEF Recover
<1> QED
  BY <1>0, <1>1, <1>2, <1>3, QueueKept

\* A worker that claims a run remembers the checkpoint it found.
LEMMA ClaimQueue ==
  ASSUME IInv, QueueInv, NEW w \in Workers, NEW r \in Runs, Claim(w, r)
  PROVE  QueueInv'
<1>0. TypeOK /\ run[r] \in RunRow /\ worker[w] \in Memory
  BY DEF IInv, TypeOK
<1>1. /\ run'[r].status = "running" /\ run'[r].claim = w
      /\ run'[r].checkpoint = run[r].checkpoint
      /\ \A q \in Runs \ {r} : run'[q] = run[q]
  BY <1>0 DEF TypeOK, Claim, Claimed, RunRow
<1>2. /\ worker'[w].run = r /\ worker'[w].checkpoint = run[r].checkpoint
      /\ \A v \in Workers \ {w} : worker'[v] = worker[v]
  BY <1>0 DEF TypeOK, Claim, Idle
<1>3. QueuedIsRunnable'
  BY <1>1 DEF QueueInv, QueuedIsRunnable, Runnable
<1>4. ASSUME NEW v \in Workers, Holds(v)', worker'[v].checkpoint # {}
      PROVE  run'[worker'[v].run].checkpoint # {}
  <2>1. CASE v = w
    BY <1>1, <1>2, <1>4, <2>1
  <2>2. CASE v # w
    <3>1. worker'[v] = worker[v] /\ worker[v].run # r
      BY <1>1, <1>2, <1>4, <2>2 DEF Holds
    <3>2. worker[v].run \in Runs
      BY <1>0, <1>4, <3>1 DEF TypeOK, Memory, Holds
    <3>3. run'[worker[v].run] = run[worker[v].run]
      BY <1>1, <3>1, <3>2
    <3> QED
      BY <1>4, <3>1, <3>3 DEF QueueInv, MemoryIsStored, Holds
  <2> QED
    BY <2>1, <2>2
<1> QED
  BY <1>3, <1>4 DEF QueueInv, MemoryIsStored

\* A commit stores what the worker remembers of it.
LEMMA CommitQueue ==
  ASSUME ~MatchCanFail, IInv, QueueInv, NEW w \in Workers, Commit(w)
  PROVE  QueueInv'
<1>0. TypeOK /\ worker[w] \in Memory
  BY DEF IInv, TypeOK
<1>1. PICK batch \in SUBSET Records, partial \in BOOLEAN : CommitPass(w, batch, partial)
  BY DEF Commit, RollBackPass
<1>2. PICK r \in Runs : r = worker[w].run
  BY <1>0, <1>1 DEF CommitPass, Holds, Memory
<1>3. /\ run'[r].status = run[r].status /\ run'[r].claim = run[r].claim
      /\ run'[r].checkpoint # {}
      /\ run[r].status = "running" /\ run[r].claim = w
      /\ \A q \in Runs \ {r} : run'[q] = run[q]
  <2>1. PICK receipt, progress :
          run' = [run EXCEPT ![r] = [@ EXCEPT !.fresh = TRUE, !.progress = progress,
                                              !.checkpoint = {receipt}]]
    BY <1>1, <1>2 DEF CommitPass
  <2>2. run[r] \in RunRow /\ run[r].status = "running" /\ run[r].claim = w
    BY <1>0, <1>1, <1>2 DEF TypeOK, CommitPass, Holds
  <2> QED
    BY <1>0, <2>1, <2>2 DEF TypeOK, RunRow
<1>4. /\ worker'[w].run = r
      /\ \A v \in Workers \ {w} : worker'[v] = worker[v]
  BY <1>0, <1>1, <1>2 DEF TypeOK, CommitPass, Memory
<1>5. QueuedIsRunnable'
  BY <1>3 DEF QueueInv, QueuedIsRunnable, Runnable
<1>6. ASSUME NEW v \in Workers, Holds(v)', worker'[v].checkpoint # {}
      PROVE  run'[worker'[v].run].checkpoint # {}
  <2>1. CASE worker'[v].run = r
    BY <1>3, <2>1
  <2>2. CASE worker'[v].run # r
    <3>1. worker'[v] = worker[v]
      BY <1>4, <2>2
    <3>2. worker[v].run \in Runs
      BY <1>0, <1>6, <3>1 DEF TypeOK, Memory, Holds
    <3>3. run'[worker[v].run] = run[worker[v].run]
      BY <1>3, <2>2, <3>1, <3>2
    <3> QED
      BY <1>6, <3>1, <3>3 DEF QueueInv, MemoryIsStored, Holds
  <2> QED
    BY <2>1, <2>2
<1> QED
  BY <1>5, <1>6 DEF QueueInv, MemoryIsStored

\* A worker that does not give up leaves a run it could claim again: with
\* attempts left, or with the checkpoint it remembers.
LEMMA SettleQueue ==
  ASSUME IInv, QueueInv, NEW w \in Workers, Settle(w) PROVE QueueInv'
<1>0. TypeOK /\ worker[w] \in Memory
  BY DEF IInv, TypeOK
<1>1. \A v \in Workers : worker'[v] = worker[v] \/ worker'[v].checkpoint = {}
  BY <1>0 DEF TypeOK, Settle, Rest, Idle
<1>2. CASE ~Holds(w)
  BY <1>0, <1>1, <1>2, QueueKept DEF Settle
<1>3. CASE Holds(w)
  <2>1. PICK r \in Runs : r = worker[w].run
    BY <1>0, <1>3 DEF Holds, Memory
  <2>2. run[r] \in RunRow /\ run[r].attempts \in Nat /\ MaxAttempts \in Nat
    BY <1>0, ConstantsAssumption DEF TypeOK, RunRow, ConstantsAssumption
  <2>3. \A q \in Runs \ {r} : run'[q] = run[q]
    BY <1>0, <1>3, <2>1 DEF TypeOK, Settle
  <2>4. CASE GivesUp(w)
    <3>1. run'[r].status = "failed"
      BY <1>0, <1>3, <2>1, <2>2, <2>4 DEF TypeOK, Settle, Failed, RunRow
    <3> QED
      BY <1>0, <1>1, <2>3, <3>1, QueueKept
  <2>5. CASE ~GivesUp(w)
    <3>1. /\ run'[r].status = "queued" /\ run'[r].attempts = run[r].attempts
          /\ run'[r].checkpoint = run[r].checkpoint
      BY <1>0, <1>3, <2>1, <2>2, <2>5 DEF TypeOK, Settle, Requeued, RunRow
    <3>2. run[r].attempts < MaxAttempts \/ run[r].checkpoint # {}
      BY <1>3, <2>1, <2>2, <2>5 DEF GivesUp, QueueInv, MemoryIsStored
    <3>3. Runnable(r)'
      BY <3>1, <3>2 DEF Runnable
    <3> QED
      BY <1>0, <1>1, <2>3, <3>1, <3>3, QueueKept
  <2> QED
    BY <2>4, <2>5
<1> QED
  BY <1>2, <1>3

\* The next pass of a session needs no attempt.
LEMMA FinalizeQueue ==
  ASSUME IInv, QueueInv, NEW w \in Workers, Finalize(w) PROVE QueueInv'
<1>0. TypeOK /\ worker[w] \in Memory
  BY DEF IInv, TypeOK
<1>1. PICK receipt \in worker[w].checkpoint :
        /\ CanFinalize(w)
        /\ run' = [run EXCEPT ![worker[w].run] = Finalized(@, receipt)]
        /\ worker' = [worker EXCEPT ![w] =
             IF receipt.partial THEN Idle
             ELSE [Idle EXCEPT !.pc = "undecorated", !.run = worker[w].run]]
  BY DEF Finalize
<1>2. PICK r \in Runs : r = worker[w].run
  BY <1>0, <1>1 DEF CanFinalize, Holds, Memory
<1>3. run[r] \in RunRow /\ receipt \in Receipt
  BY <1>0, <1>1 DEF TypeOK, Memory
<1>4. \A v \in Workers : worker'[v] = worker[v] \/ worker'[v].checkpoint = {}
  BY <1>0, <1>1 DEF TypeOK, Idle
<1>5. run'[r] = Finalized(run[r], receipt) /\ \A q \in Runs \ {r} : run'[q] = run[q]
  BY <1>0, <1>1, <1>2 DEF TypeOK
<1>6. /\ run'[r].status = IF receipt.partial THEN "queued" ELSE "succeeded"
      /\ run'[r].progress.partial = receipt.partial
      /\ run'[r].error = FALSE
  BY <1>3, <1>5 DEF Finalized, RunRow, Progress
<1>7. \/ run'[r].status \notin {"queued", "running"}
      \/ run'[r].status = "queued" /\ Runnable(r)'
  <2>1. CASE receipt.partial = TRUE
    BY <1>6, <2>1 DEF Runnable
  <2>2. CASE ~receipt.partial
    BY <1>6, <2>2
  <2>3. receipt.partial \in BOOLEAN
    BY <1>3 DEF Receipt
  <2> QED
    BY <2>1, <2>2, <2>3
<1> QED
  BY <1>0, <1>4, <1>5, <1>7, QueueKept

\* Moving on keeps the run and what is remembered of it; resting forgets it.
LEMMA Remembering ==
  ASSUME TypeOK, NEW w \in Workers, NEW y,
         worker' = [worker EXCEPT ![w] = y],
         \/ y.checkpoint = {}
         \/ y.run = worker[w].run /\ y.checkpoint = worker[w].checkpoint
  PROVE  \A v \in Workers : \/ worker'[v] = worker[v]
                            \/ worker'[v].checkpoint = {}
                            \/ /\ worker'[v].run = worker[v].run
                               /\ worker'[v].checkpoint = worker[v].checkpoint
  BY DEF TypeOK

\* So does every way a worker has of moving on.
LEMMA MovingOn ==
  ASSUME TypeOK, NEW w \in Workers, NEW pc, NEW then, NEW permanent, NEW todo,
         \/ Goto(w, pc) \/ Rest(w) \/ Unwind(w, then) \/ Leave(w)
         \/ worker' = [worker EXCEPT ![w] = [@ EXCEPT !.pc = pc, !.permanent = permanent]]
         \/ worker' = [worker EXCEPT ![w] = [@ EXCEPT !.pc = pc, !.todo = todo]]
  PROVE  \A v \in Workers : \/ worker'[v] = worker[v]
                            \/ worker'[v].checkpoint = {}
                            \/ /\ worker'[v].run = worker[v].run
                               /\ worker'[v].checkpoint = worker[v].checkpoint
<1>0. worker[w] \in Memory
  BY DEF TypeOK
<1> DEFINE m == worker[w]
<1>1. CASE Rest(w) \/ Leave(w)
  <2>1. /\ Idle.checkpoint = {}
        /\ [Idle EXCEPT !.pc = "releasing", !.run = m.run].checkpoint = {}
    BY DEF Idle
  <2> QED
    BY <1>1, <2>1, Remembering DEF Rest, Leave
<1>2. CASE Goto(w, pc)
  <2>1. /\ [m EXCEPT !.pc = pc].checkpoint = m.checkpoint
        /\ [m EXCEPT !.pc = pc].run = m.run
    BY <1>0 DEF Memory
  <2> QED
    BY <1>2, <2>1, Remembering DEF Goto
<1>3. CASE Unwind(w, then)
  <2>1. /\ [m EXCEPT !.pc = "releasing", !.then = then].checkpoint = m.checkpoint
        /\ [m EXCEPT !.pc = "releasing", !.then = then].run = m.run
    BY <1>0 DEF Memory
  <2> QED
    BY <1>3, <2>1, Remembering DEF Unwind
<1>4. CASE worker' = [worker EXCEPT ![w] = [@ EXCEPT !.pc = pc, !.permanent = permanent]]
  <2>1. /\ [m EXCEPT !.pc = pc, !.permanent = permanent].checkpoint = m.checkpoint
        /\ [m EXCEPT !.pc = pc, !.permanent = permanent].run = m.run
    BY <1>0 DEF Memory
  <2> QED
    BY <1>4, <2>1, Remembering
<1>5. CASE worker' = [worker EXCEPT ![w] = [@ EXCEPT !.pc = pc, !.todo = todo]]
  <2>1. /\ [m EXCEPT !.pc = pc, !.todo = todo].checkpoint = m.checkpoint
        /\ [m EXCEPT !.pc = pc, !.todo = todo].run = m.run
    BY <1>0 DEF Memory
  <2> QED
    BY <1>5, <2>1, Remembering
<1> QED
  BY <1>1, <1>2, <1>3, <1>4, <1>5

\* Every other step leaves the runs as they are, or stops waiting.
LEMMA OtherQueue ==
  ASSUME IInv, QueueInv, NEW w \in Workers,
         \/ Poll(w) \/ Sleep(w) \/ Start(w) \/ ClaimLease(w)
         \/ FetchFails(w) \/ GrantDies(w) \/ CommitRefused(w)
         \/ Release(w) \/ Judge(w) \/ FinalizeLost(w) \/ SweepFails(w)
         \/ ClaimDecoration(w) \/ Decorate(w) \/ Crash(w)
  PROVE  QueueInv'
<1>0. TypeOK /\ worker[w] \in Memory
  BY DEF IInv, TypeOK
<1>1. /\ run' = run
      /\ \A v \in Workers : \/ worker'[v] = worker[v]
                            \/ worker'[v].checkpoint = {}
                            \/ /\ worker'[v].run = worker[v].run
                               /\ worker'[v].checkpoint = worker[v].checkpoint
  <2>1. CASE Sleep(w) \/ ClaimLease(w) \/ FinalizeLost(w) \/ SweepFails(w)
    BY <1>0, <2>1, MovingOn DEF Sleep, ClaimLease, FinalizeLost, SweepFails
  <2>2. CASE FetchFails(w) \/ GrantDies(w) \/ CommitRefused(w)
    BY <1>0, <2>2, MovingOn DEF FetchFails, GrantDies, CommitRefused
  <2>3. CASE ClaimDecoration(w) \/ Decorate(w) \/ Crash(w)
    BY <1>0, <2>3, MovingOn DEF ClaimDecoration, Decorate, Crash
  <2>4. CASE Poll(w)
    <3>1. worker' = [worker EXCEPT ![w] = [@ EXCEPT !.pc = "recovering",
                                                    !.todo = {r \in Runs : Active(r)}]]
      BY <2>4 DEF Poll
    <3>2. run' = run
      BY <2>4 DEF Poll
    <3> QED
      BY <1>0, <3>1, <3>2, MovingOn
  <2>5. ASSUME NEW permanent,
               worker' = [worker EXCEPT ![w] = [@ EXCEPT !.pc = "settling",
                                                         !.permanent = permanent]],
               run' = run
        PROVE  <1>1!1 /\ <1>1!2
    BY <1>0, <2>5, MovingOn
  <2>6. CASE Start(w)
    BY <1>0, <2>5, <2>6, MovingOn DEF Start
  <2>7. CASE Judge(w)
    <3>1. worker' = [worker EXCEPT ![w] = [@ EXCEPT !.pc = "settling",
                                                    !.permanent = ~Live(worker[w].run)]]
      BY <2>7 DEF Judge
    <3> QED
      BY <2>5, <2>7, <3>1 DEF Judge
  <2>8. CASE Release(w)
    <3>1. Rest(w) \/ Goto(w, worker[w].then)
      BY <2>8 DEF Release
    <3> QED
      BY <1>0, <2>8, <3>1, MovingOn DEF Release
  <2> QED
    BY <2>1, <2>2, <2>3, <2>4, <2>6, <2>7, <2>8
<1> QED
  BY <1>0, <1>1, QueueKept

\* Time only makes a run due, or a worker late.
LEMMA ClockQueue == ASSUME IInv, QueueInv, Clock PROVE QueueInv'
<1>0. TypeOK
  BY DEF IInv
<1>1. /\ worker' = worker
      /\ \A r \in Runs : /\ run'[r].status = run[r].status
                         /\ run'[r].claim = run[r].claim
                         /\ run'[r].checkpoint = run[r].checkpoint
                         /\ run'[r].attempts = run[r].attempts
                         /\ run'[r].progress = run[r].progress
                         /\ run'[r].error = run[r].error
  <2>1. CASE LeaseExpires
    BY <2>1 DEF LeaseExpires
  <2>2. ASSUME NEW r \in Runs, NEW y,
               y = [run[r] EXCEPT !.fresh = FALSE] \/ y = [run[r] EXCEPT !.due = TRUE]
        PROVE  /\ y.status = run[r].status /\ y.claim = run[r].claim
               /\ y.checkpoint = run[r].checkpoint /\ y.attempts = run[r].attempts
               /\ y.progress = run[r].progress /\ y.error = run[r].error
    <3>1. run[r] \in RunRow
      BY <1>0 DEF TypeOK
    <3> QED
      BY <2>2, <3>1 DEF RunRow
  <2>3. ASSUME NEW r \in Runs, HeartbeatExpires(r) \/ RetryDue(r)
        PROVE  /\ worker' = worker
               /\ \A q \in Runs \ {r} : run'[q] = run[q]
               /\ \/ run'[r] = [run[r] EXCEPT !.fresh = FALSE]
                  \/ run'[r] = [run[r] EXCEPT !.due = TRUE]
    BY <1>0, <2>3 DEF TypeOK, HeartbeatExpires, RetryDue
  <2>4. ASSUME NEW r \in Runs, HeartbeatExpires(r) \/ RetryDue(r)
        PROVE  /\ run'[r].status = run[r].status /\ run'[r].claim = run[r].claim
               /\ run'[r].checkpoint = run[r].checkpoint
               /\ run'[r].attempts = run[r].attempts
               /\ run'[r].progress = run[r].progress /\ run'[r].error = run[r].error
    BY <2>2, <2>3, <2>4
  <2> QED
    BY <2>1, <2>3, <2>4 DEF Clock
<1>2. QueuedIsRunnable'
  BY <1>1 DEF QueueInv, QueuedIsRunnable, Runnable
<1>3. \A w \in Workers : worker[w].run # NoRun => worker[w].run \in Runs
  BY <1>0 DEF TypeOK, Memory
<1>4. MemoryIsStored'
  BY <1>1, <1>3 DEF QueueInv, MemoryIsStored, Holds
<1> QED
  BY <1>2, <1>4 DEF QueueInv

\* Every step keeps the queue's second invariant where no commit fails halfway.
LEMMA NextQueue == ~MatchCanFail /\ IInv /\ QueueInv /\ [Next]_vars => QueueInv'
<1> SUFFICES ASSUME ~MatchCanFail, IInv, QueueInv, [Next]_vars PROVE QueueInv'
  OBVIOUS
<1>1. ASSUME NEW w \in Workers, WorkerStep(w) \/ Crash(w) PROVE QueueInv'
  BY <1>1, OtherQueue, RecoverQueue, ClaimQueue, CommitQueue, SettleQueue,
     FinalizeQueue DEF WorkerStep
<1>2. CASE UNCHANGED vars
  BY <1>2 DEF vars, QueueInv, MemoryIsStored, QueuedIsRunnable, Holds, Runnable
<1> QED
  BY <1>1, <1>2, OwnerQueue, ClockQueue DEF Next

\* At first nothing waits.
LEMMA InitQueue == Init => QueueInv
  BY DEF Init, QueueInv, MemoryIsStored, QueuedIsRunnable, Holds, Idle, AbsentRun

\* Unless the matching or the COMMIT of a pass can raise after the worker's run
\* object was given the checkpoint (PosSyncWedge.cfg shows what happens then), a
\* run is never queued where no worker will claim it, for any number of workers,
\* passes, crashes and stalls: recovery and _retry_or_fail_run give up exactly the
\* runs the filter of claim_next_sync_run leaves out.
THEOREM QueuedRunsStayRunnable == ~MatchCanFail => (Spec => []QueuedRunsAreRunnable)
<1> SUFFICES ASSUME ~MatchCanFail PROVE Spec => []QueuedRunsAreRunnable
  OBVIOUS
<1>1. IInv /\ QueueInv /\ [Next]_vars => QueueInv'
  BY NextQueue
<1>2. QueueInv => QueuedRunsAreRunnable
  BY DEF QueueInv, QueuedIsRunnable, QueuedRunsAreRunnable
<1> QED
  BY <1>1, <1>2, InitQueue, InvariantHolds, PTL DEF Spec

-----------------------------------------------------------------------------
(* The durable queue implements SyncIntent: seen through the refinement    *)
(* mapping of PosSync, every step of a worker, an owner or the clock is    *)
(* one step of the promise, or none.  IInv supplies what the mapping       *)
(* needs: one active run at a time, and receipts equal to what landed.     *)

\* What the mapping shows of one run.
LEMMA Mapped ==
  /\ DOMAIN Phase = Runs /\ DOMAIN Reported = Runs
  /\ Phase = [r \in Runs |-> Phase[r]] /\ Reported = [r \in Runs |-> Reported[r]]
  /\ \A r \in Runs :
       /\ Phase[r] = IF Active(r) THEN "open" ELSE run[r].status
       /\ Reported[r] = IF Active(r) THEN {} ELSE run[r].result
  BY DEF Phase, Reported

\* The same after a step.
LEMMA MappedNext ==
  /\ DOMAIN Phase' = Runs /\ DOMAIN Reported' = Runs
  /\ Phase' = [r \in Runs |-> Phase'[r]] /\ Reported' = [r \in Runs |-> Reported'[r]]
  /\ \A r \in Runs :
       /\ Phase'[r] = IF Active(r)' THEN "open" ELSE run'[r].status
       /\ Reported'[r] = IF Active(r)' THEN {} ELSE run'[r].result
  BY DEF Phase, Reported

\* Equal views of every run are equal views.
LEMMA SameView ==
  /\ (\A r \in Runs : Phase'[r] = Phase[r]) => Phase' = Phase
  /\ (\A r \in Runs : Reported'[r] = Reported[r]) => Reported' = Reported
<1>1. ASSUME \A r \in Runs : Phase'[r] = Phase[r] PROVE Phase' = Phase
  BY <1>1 DEF Phase
<1>2. ASSUME \A r \in Runs : Reported'[r] = Reported[r] PROVE Reported' = Reported
  BY <1>2 DEF Reported
<1> QED
  BY <1>1, <1>2

\* A step that changes no run's phase or reported receipt is a stutter.
LEMMA Stutters ==
  ASSUME UNCHANGED landed,
         \A r \in Runs : Phase'[r] = Phase[r] /\ Reported'[r] = Reported[r]
  PROVE  UNCHANGED Intent!vars
  BY Mapped, MappedNext DEF Intent!vars

\* An open run that closes or stays open, every other run as it was.
LEMMA OneRunCloses ==
  ASSUME IInv, IInv', NEW r \in Runs, Active(r), UNCHANGED landed,
         \A q \in Runs \ {r} : run'[q] = run[q],
         \/ Active(r)'
         \/ run'[r].status \in {"succeeded", "failed"}
         \/ run'[r].status = "cancelled" /\ run'[r].result = run[r].result
  PROVE  [Intent!Next]_(Intent!vars)
<1>1. \A q \in Runs \ {r} : Phase'[q] = Phase[q] /\ Reported'[q] = Reported[q]
  BY DEF Phase, Reported, Active
<1>2. Phase[r] = "open" /\ Reported[r] = {}
  BY Mapped
<1>3. CASE Active(r)'
  <2>1. Phase'[r] = "open" /\ Reported'[r] = {}
    BY <1>3, MappedNext
  <2> QED
    BY <1>1, <1>2, <2>1, Stutters
<1>4. CASE run'[r].status \in {"succeeded", "failed"}
  <2>1. PICK how \in {"succeeded", "failed"} : run'[r].status = how
    BY <1>4
  <2>2. ~Active(r)' /\ run'[r].result = landed[r]
    BY ZenonT(60), <2>1, NoCheckpoint DEF IInv, ReceiptsExact, Active
  <2>3. /\ Phase' = [Phase EXCEPT ![r] = how]
        /\ Reported' = [Reported EXCEPT ![r] = landed[r]]
    BY <1>1, <2>1, <2>2, Mapped, MappedNext
  <2>4. Intent!Close(r, how)
    BY <1>2, <2>3 DEF Intent!Close, Intent!Open
  <2> QED
    BY <2>4 DEF Intent!Next
<1>5. CASE run'[r].status = "cancelled" /\ run'[r].result = run[r].result
  <2>1. ~Active(r)'
    BY <1>5 DEF Active
  <2>2. run[r].result \subseteq landed[r] /\ run[r].result \in SUBSET Records
    BY DEF IInv, ReceiptsExact, TypeOK, RunRow, Active
  <2>3. PICK reported \in SUBSET Records : reported = run[r].result
    BY <2>2
  <2>4. /\ Phase' = [Phase EXCEPT ![r] = "cancelled"]
        /\ Reported' = [Reported EXCEPT ![r] = reported]
    BY <1>1, <1>5, <2>1, <2>3, Mapped, MappedNext
  <2>5. Intent!Cancel(r, reported)
    BY <1>2, <2>2, <2>3, <2>4 DEF Intent!Cancel, Intent!Open
  <2> QED
    BY <2>5 DEF Intent!Next
<1> QED
  BY <1>3, <1>4, <1>5

\* CancelActive closes the one open run, if there is one, with what its
\* finalized passes reported.
LEMMA StoppingCloses ==
  ASSUME IInv, IInv', run' = CancelActive, UNCHANGED landed
  PROVE  [Intent!Next]_(Intent!vars)
<1>1. \A r \in Runs : /\ ~Active(r)'
                      /\ ~Active(r) => run'[r] = run[r]
                      /\ Active(r) => run'[r].status = "cancelled"
                                      /\ run'[r].result = run[r].result
  <2>1. ASSUME NEW r \in Runs
        PROVE  Cancelled(run[r]).status = "cancelled" /\ Cancelled(run[r]).result = run[r].result
    BY DEF IInv, TypeOK, RunRow, Cancelled
  <2> QED
    BY <2>1, StoppedRuns DEF IInv, Active
<1>2. CASE \E r \in Runs : Active(r)
  <2>1. PICK r \in Runs : Active(r)
    BY <1>2
  <2>2. \A q \in Runs \ {r} : run'[q] = run[q]
    BY <1>1, <2>1 DEF IInv, OneCurrentIntent
  <2> QED
    BY <1>1, <2>1, <2>2, OneRunCloses
<1>3. CASE \A r \in Runs : ~Active(r)
  <2>1. \A r \in Runs : Phase'[r] = Phase[r] /\ Reported'[r] = Reported[r]
    BY <1>1, <1>3, Mapped, MappedNext
  <2> QED
    BY <2>1, Stutters
<1> QED
  BY <1>2, <1>3

\* A step that leaves the runs and their records alone is a stutter.
LEMMA QuietStutters ==
  ASSUME UNCHANGED <<run, landed>> PROVE [Intent!Next]_(Intent!vars)
<1>1. \A r \in Runs : Phase'[r] = Phase[r] /\ Reported'[r] = Reported[r]
  BY DEF Phase, Reported, Active
<1> QED
  BY <1>1, Stutters

\* enqueue-pos-sync requests a run when none is open.
LEMMA EnqueueRequests ==
  ASSUME IInv, IInv', NEW r \in Runs, Enqueue(r)
  PROVE  [Intent!Next]_(Intent!vars)
<1>1. /\ run[r] = AbsentRun /\ \A q \in Runs : ~Active(q)
      /\ UNCHANGED landed
      /\ \A q \in Runs \ {r} : run'[q] = run[q]
      /\ run'[r].status = "queued"
  <2> DEFINE y == [AbsentRun EXCEPT !.status = "queued", !.row = conn.row,
                                    !.gen = conn.gen, !.due = TRUE]
  <2>1. run[r].status = "absent" /\ UNCHANGED landed /\ run' = [run EXCEPT ![r] = y]
    BY DEF Enqueue
  <2>2. y.status = "queued"
    BY DEF AbsentRun
  <2>3. \A q \in Runs : ~Active(q)
    BY DEF Enqueue, IInv, OneCurrentIntent
  <2>4. run[r] = AbsentRun
    BY <2>1 DEF IInv, AbsentIsBlank
  <2> HIDE DEF y
  <2>5. run \in [Runs -> RunRow]
    BY DEF IInv, TypeOK
  <2> QED
    BY <2>1, <2>2, <2>3, <2>4, <2>5
<1>2. /\ \A q \in Runs \ {r} : Phase'[q] = Phase[q] /\ Reported'[q] = Reported[q]
  BY <1>1 DEF Phase, Reported, Active
<1>3. Active(r)' /\ run[r].status = "absent" /\ run[r].result = {}
  BY <1>1 DEF Active, AbsentRun
<1>4. Phase[r] = "absent" /\ Reported[r] = {} /\ Phase'[r] = "open" /\ Reported'[r] = {}
  BY <1>1, <1>3, Mapped, MappedNext
<1>5. Phase' = [Phase EXCEPT ![r] = "open"] /\ Reported' = Reported
  <2>1. Phase' = [Phase EXCEPT ![r] = "open"]
    BY <1>2, <1>4, Mapped, MappedNext
  <2>2. \A q \in Runs : Reported'[q] = Reported[q]
    BY <1>2, <1>4
  <2> QED
    BY <2>1, <2>2, SameView
<1>6. \A q \in Runs : Phase[q] # "open"
  <2>1. \A q \in Runs : run[q].status # "open"
    BY DEF IInv, TypeOK, RunRow, RunStatus
  <2> QED
    BY <1>1, <2>1, Mapped
<1>7. Intent!Request(r)
  BY <1>1, <1>4, <1>5, <1>6 DEF Intent!Request, Intent!Open
<1> QED
  BY <1>7 DEF Intent!Next

\* The commit of a pass lands records the run has not landed before.
LEMMA CommitLands ==
  ASSUME IInv, IInv', NEW w \in Workers, NEW batch \in SUBSET Records,
         NEW partial \in BOOLEAN, CommitPass(w, batch, partial)
  PROVE  [Intent!Next]_(Intent!vars)
<1>1. PICK r \in Runs : r = worker[w].run /\ run[r].status = "running" /\ Active(r)
  BY DEF CommitPass, Holds, IInv, TypeOK, Memory, Active
<1>2. PICK new \in SUBSET Records : new = batch \ Stored(conn.account)
  OBVIOUS
<1>3. landed' = [landed EXCEPT ![r] = landed[r] \cup new]
  BY <1>1, <1>2 DEF CommitPass
<1>4. new \cap landed[r] = {}
  BY <1>1, <1>2 DEF IInv, LandedIsStored
<1>5. /\ \A q \in Runs \ {r} : run'[q] = run[q]
      /\ run'[r].status = "running"
  <2> DEFINE receipt == [lines |-> batch \ Stored(conn.account), partial |-> partial]
             progress == [partial |-> partial,
                          passes |-> worker[w].progress.passes + 1]
  <2>1. run' = [run EXCEPT ![r] = [@ EXCEPT !.fresh = TRUE, !.progress = progress,
                                            !.checkpoint = {receipt}]]
    BY <1>1 DEF CommitPass
  <2>2. run \in [Runs -> RunRow]
    BY DEF IInv, TypeOK
  <2> HIDE DEF receipt, progress
  <2> QED
    BY <1>1, <2>1, <2>2 DEF RunRow
<1>6. Active(r)'
  BY <1>5 DEF Active
<1>7. Phase' = Phase /\ Reported' = Reported
  <2>1. ASSUME NEW q \in Runs PROVE Phase'[q] = Phase[q] /\ Reported'[q] = Reported[q]
    <3>1. CASE q = r
      BY <1>1, <1>6, <3>1, Mapped, MappedNext
    <3>2. CASE q # r
      BY <1>5, <3>2 DEF Phase, Reported, Active
    <3> QED
      BY <3>1, <3>2
  <2> QED
    BY <2>1, SameView
<1>8. Phase[r] = "open"
  BY <1>1, Mapped
<1>9. Intent!Land(r, new)
  BY <1>3, <1>4, <1>7, <1>8 DEF Intent!Land, Intent!Open
<1> QED
  BY <1>1, <1>9 DEF Intent!Next

-----------------------------------------------------------------------------
\* A worker's rewriting of one active run closes it or leaves it open.
LEMMA WorkerCloses ==
  ASSUME IInv, IInv', NEW w \in Workers,
         \/ \E r \in Runs : Recover(w, r) \/ Claim(w, r)
         \/ Settle(w) \/ Finalize(w)
  PROVE  [Intent!Next]_(Intent!vars)
<1>1. TypeOK /\ UNCHANGED landed
  BY DEF IInv, Recover, Claim, Settle, Finalize
<1>2. ASSUME NEW r \in Runs, NEW y \in RunRow, Active(r), run' = [run EXCEPT ![r] = y],
             \/ y.status \in {"queued", "running", "succeeded", "failed"}
             \/ y.status = "cancelled" /\ y.result = run[r].result
      PROVE  [Intent!Next]_(Intent!vars)
  <2>1. run'[r] = y /\ \A q \in Runs \ {r} : run'[q] = run[q]
    BY <1>1, <1>2 DEF TypeOK
  <2> QED
    BY <1>1, <1>2, <2>1, OneRunCloses DEF Active
<1>3. ASSUME NEW r \in Runs, Recover(w, r) PROVE [Intent!Next]_(Intent!vars)
  <2>1. run[r] \in RunRow
    BY <1>1 DEF TypeOK
  <2>2. /\ Cancelled(run[r]) \in RunRow /\ Cancelled(run[r]).status = "cancelled"
        /\ Cancelled(run[r]).result = run[r].result
    BY <2>1, CancelledType DEF Cancelled, RunRow
  <2>3. run[r].status = "running" =>
          Failed(run[r]) \in RunRow /\ Failed(run[r]).status = "failed"
    BY <2>1, FailedType DEF Failed, RunRow
  <2>4. Requeued(run[r], TRUE) \in RunRow /\ Requeued(run[r], TRUE).status = "queued"
    BY <2>1, RequeuedType DEF Requeued, RunRow
  <2>5. \/ UNCHANGED run
        \/ Active(r) /\ run' = [run EXCEPT ![r] = Cancelled(run[r])]
        \/ /\ run[r].status = "running"
           /\ \/ run' = [run EXCEPT ![r] = Failed(run[r])]
              \/ run' = [run EXCEPT ![r] = Requeued(run[r], TRUE)]
    BY <1>3 DEF Recover
  <2> QED
    BY <1>1, <1>2, <2>2, <2>3, <2>4, <2>5, QuietStutters DEF Active
<1>4. ASSUME NEW r \in Runs, Claim(w, r) PROVE [Intent!Next]_(Intent!vars)
  <2>1. run[r] \in RunRow /\ Active(r) /\ run' = [run EXCEPT ![r] = Claimed(run[r], w)]
    BY <1>1, <1>4 DEF Claim, Claimable, Active, TypeOK
  <2>2. Claimed(run[r], w) \in RunRow /\ Claimed(run[r], w).status = "running"
    BY <2>1, ClaimedType DEF Claimed, RunRow
  <2> QED
    BY <1>2, <2>1, <2>2
<1>5. CASE Settle(w)
  <2> DEFINE r == worker[w].run
             seen == [run[r] EXCEPT !.progress = worker[w].progress]
  <2>1. CASE ~Holds(w)
    BY <1>1, <1>5, <2>1, QuietStutters DEF Settle
  <2>2. CASE Holds(w)
    <3>1. r \in Runs /\ run[r] \in RunRow /\ run[r].status = "running"
            /\ worker[w].progress \in Progress
      BY <1>1, <2>2 DEF Holds, TypeOK, Memory
    <3>2. run' = [run EXCEPT ![r] =
                    IF GivesUp(w) THEN Failed(seen) ELSE Requeued(seen, FALSE)]
      BY <1>5, <2>2 DEF Settle
    <3> HIDE DEF r
    <3>3. seen \in RunRow /\ seen.status = "running"
      BY <3>1 DEF RunRow
    <3> HIDE DEF seen
    <3>4. /\ Failed(seen) \in RunRow /\ Failed(seen).status = "failed"
          /\ Requeued(seen, FALSE) \in RunRow /\ Requeued(seen, FALSE).status = "queued"
      BY <3>3, FailedType, RequeuedType DEF Failed, Requeued, RunRow
    <3>5. PICK y \in RunRow : y.status \in {"queued", "failed"} /\ run' = [run EXCEPT ![r] = y]
      BY <3>2, <3>4
    <3> QED
      BY <1>2, <3>1, <3>5 DEF Active
  <2> QED
    BY <2>1, <2>2
<1>6. CASE Finalize(w)
  <2> DEFINE r == worker[w].run
  <2>1. PICK receipt \in worker[w].checkpoint : run' = [run EXCEPT ![r] = Finalized(@, receipt)]
    BY <1>6 DEF Finalize
  <2>2. r \in Runs /\ run[r] \in RunRow /\ run[r].status = "running"
    BY <1>1, <1>6 DEF Finalize, CanFinalize, Holds, TypeOK, Memory
  <2>3. receipt \in Receipt
    BY <1>1 DEF TypeOK, Memory
  <2> HIDE DEF r
  <2>4. /\ Finalized(run[r], receipt) \in RunRow
        /\ Finalized(run[r], receipt).status \in {"queued", "succeeded"}
    <3>1. Finalized(run[r], receipt).status \in {"queued", "succeeded"}
      BY <2>2 DEF Finalized, RunRow
    <3> QED
      BY <2>2, <2>3, <3>1, FinalizedType
  <2> QED
    BY <1>2, <2>1, <2>2, <2>4 DEF Active
<1> QED
  BY <1>3, <1>4, <1>5, <1>6

\* Every step of the queue is a step of the promise, or none.
LEMMA NextRefines ==
  ASSUME IInv, IInv', [Next]_vars PROVE [Intent!Next]_(Intent!vars)
<1>1. CASE Owner
  <2>1. \/ UNCHANGED <<run, landed>>
        \/ run' = CancelActive /\ UNCHANGED landed
        \/ \E r \in Runs : Enqueue(r)
    BY <1>1 DEF Owner, Connect, Reconnect, Disconnect, FinishDisconnect,
                UndoImport, RetryFailed
  <2> QED
    BY <2>1, QuietStutters, StoppingCloses, EnqueueRequests
<1>2. ASSUME NEW w \in Workers, WorkerStep(w) \/ Crash(w)
      PROVE  [Intent!Next]_(Intent!vars)
  <2>1. \/ UNCHANGED <<run, landed>>
        \/ \E r \in Runs : Recover(w, r) \/ Claim(w, r)
        \/ Settle(w) \/ Finalize(w)
        \/ \E batch \in SUBSET Records, partial \in BOOLEAN : CommitPass(w, batch, partial)
    BY <1>2
    DEF WorkerStep, Commit, RollBackPass, Poll, Sleep, Start, ClaimLease,
        FetchFails, GrantDies, CommitRefused, Release, Judge, FinalizeLost,
        SweepFails, ClaimDecoration, Decorate, Crash
  <2> QED
    BY <2>1, QuietStutters, WorkerCloses, CommitLands
<1>3. CASE LeaseExpires
  BY <1>3, QuietStutters DEF LeaseExpires
<1>4. ASSUME NEW r \in Runs, HeartbeatExpires(r) \/ RetryDue(r)
      PROVE  [Intent!Next]_(Intent!vars)
  <2>1. Active(r) /\ Active(r)' /\ UNCHANGED landed
          /\ \A q \in Runs \ {r} : run'[q] = run[q]
    <3>1. run[r] \in RunRow /\ run \in [Runs -> RunRow]
      BY DEF IInv, TypeOK
    <3> QED
      BY <1>4, <3>1 DEF HeartbeatExpires, RetryDue, Active, RunRow
  <2> QED
    BY <2>1, OneRunCloses
<1>5. CASE UNCHANGED vars
  BY <1>5, QuietStutters DEF vars
<1> QED
  BY <1>1, <1>2, <1>3, <1>4, <1>5 DEF Next, Clock

\* The initial state maps to the initial state of the promise.
LEMMA InitRefines == Init => Intent!Init
  BY DEF Init, Intent!Init, Phase, Reported, Active, AbsentRun

\* The durable queue implements the promise of one press of Sync.
THEOREM QueueImplementsIntent == Spec => ImplementsIntent
<1>1. IInv /\ IInv' /\ [Next]_vars => [Intent!Next]_(Intent!vars)
  BY NextRefines
<1> QED
  BY <1>1, InitRefines, InvariantHolds, PTL DEF Spec, ImplementsIntent, Intent!Spec
=============================================================================
