------------------------- MODULE SquareGrantProofs -------------------------
(***************************************************************************)
(* What holds of SquareGrant for any number of workers, callbacks and      *)
(* disconnects and any bounds: the parts of GrantInv one after the other,  *)
(* each proved inductive given the parts before it.                        *)
(***************************************************************************)
EXTENDS SquareGrant, TLAPS

-----------------------------------------------------------------------------
(* Types.                                                                   *)

\* The numbers a row and a copy start from.
LEMMA StartTypes ==
    /\ NoCopy \in Copy
    /\ 0 \in Token /\ Token \subseteq Nat
    /\ NoWorker \notin Workers
  BY GrantAssumption DEF NoCopy, Copy, Token, GrantAssumption

\* A worker that only moves on keeps its memory well typed.
LEMMA WorkerMovesType ==
    ASSUME WellTyped, NEW w \in Workers,
           NEW pc \in {"idle", "loaded", "leased", "refreshing", "rotated",
                       "refused", "reading", "releasing"}
    PROVE  [worker EXCEPT ![w].pc = pc] \in [Workers -> Copy]
<1>1. worker[w] \in Copy
  BY DEF WellTyped
<1>2. [worker[w] EXCEPT !.pc = pc] \in Copy
  BY <1>1 DEF Copy
<1>3. QED
  BY <1>2 DEF WellTyped

\* The same for a worker that replaces its whole copy.
LEMMA WorkerReplacedType ==
    ASSUME WellTyped, NEW w \in Workers, NEW copy \in Copy
    PROVE  [worker EXCEPT ![w] = copy] \in [Workers -> Copy]
  BY DEF WellTyped

\* The row with another lease or status is well typed and holds the same pair.
LEMMA RowType ==
    ASSUME WellTyped, NEW lease \in Workers \cup {NoWorker}, NEW status \in Status
    PROVE  /\ [conn EXCEPT !.lease = lease] \in Connection
           /\ [conn EXCEPT !.lease = lease].token = conn.token
           /\ [conn EXCEPT !.lease = lease].status = conn.status
           /\ [conn EXCEPT !.status = status] \in Connection
           /\ [conn EXCEPT !.status = status].token = conn.token
           /\ [conn EXCEPT !.status = status].status = status
  BY DEF WellTyped, Connection

\* Square's answers: a rotation, a new grant and a revocation are well typed,
\* and never take back a pair that was issued.
LEMMA SquareTypes ==
    ASSUME WellTyped
    PROVE  /\ Revoked \in Provider /\ Revoked.issued = square.issued
           /\ square.issued < MaxTokens =>
                /\ Fresh \in Token
                /\ Issued \in Provider /\ Issued.issued = Fresh
                /\ \A t \in Token :
                     Rotated(t) \in Provider /\ Rotated(t).issued = Fresh
<1>1. /\ square.issued \in Token /\ square.live \in SUBSET Token
      /\ square.grant \in [Token -> Token]
  BY DEF WellTyped, Provider
<1>2. Revoked \in Provider /\ Revoked.issued = square.issued
  <2>1. {} \in SUBSET Token /\ 1 .. square.issued \in SUBSET Token
    BY <1>1, GrantAssumption DEF Token, GrantAssumption
  <2>2. QED
    BY <2>1 DEF WellTyped, Revoked, Provider
<1>3. ASSUME square.issued < MaxTokens
      PROVE  Fresh \in Token
  BY <1>1, <1>3, GrantAssumption DEF Fresh, Token, GrantAssumption
<1>4. ASSUME square.issued < MaxTokens
      PROVE  Issued \in Provider /\ Issued.issued = Fresh
  BY <1>1, <1>3, <1>4 DEF WellTyped, Issued, Provider
<1>5. ASSUME square.issued < MaxTokens, NEW t \in Token
      PROVE  Rotated(t) \in Provider /\ Rotated(t).issued = Fresh
  <2>1. square.grant[t] \in Token
    BY <1>1
  <2>2. QED
    BY <1>1, <1>3, <1>5, <2>1 DEF WellTyped, Rotated, Provider
<1>6. QED
  BY <1>2, <1>3, <1>4, <1>5

\* Types survive a worker's step.
LEMMA WorkerKeepsTypes ==
    ASSUME WellTyped, NEW w \in Workers, WorkerStep(w)
    PROVE  WellTyped'
<1>0. worker[w] \in Copy /\ conn \in Connection
  BY DEF WellTyped
<1>1. CASE Load(w)
  <2>1. conn.row \in Nat /\ conn.gen \in Nat /\ conn.token \in Token
    BY <1>0 DEF Connection
  <2>2. [pc |-> "loaded", row |-> conn.row, gen |-> conn.gen,
         token |-> conn.token, next |-> 0, run |-> TRUE] \in Copy
    BY <2>1, StartTypes DEF Copy
  <2>3. QED
    BY <1>1, <2>2, WorkerReplacedType DEF Load, WellTyped
<1>2. CASE Lease(w)
  <2>1. conn' \in Connection
    BY <1>0, <1>2 DEF Lease, Connection
  <2>2. [worker EXCEPT ![w].pc = "leased"] \in [Workers -> Copy]
    BY WorkerMovesType
  <2>3. [worker EXCEPT ![w] = NoCopy] \in [Workers -> Copy]
    BY StartTypes, WorkerReplacedType
  <2>4. worker' \in [Workers -> Copy]
    BY <1>2, <2>2, <2>3 DEF Lease
  <2>5. QED
    BY <1>2, <2>1, <2>4 DEF Lease, WellTyped
<1>3. CASE CheckExpiry(w)
  <2>1. PICK pc \in {"refreshing", "reading"} :
          worker' = [worker EXCEPT ![w].pc = pc]
    BY <1>3 DEF CheckExpiry
  <2>2. worker' \in [Workers -> Copy]
    BY <2>1, WorkerMovesType
  <2>3. QED
    BY <1>3, <2>2 DEF CheckExpiry, WellTyped
<1>4. CASE Refresh(w)
  <2>1. worker[w].token \in Token /\ conn.token \in Token
    BY <1>0 DEF Copy, Connection
  <2>2. ASSUME square.issued < MaxTokens
        PROVE  [worker[w] EXCEPT !.pc = "rotated", !.next = Fresh] \in Copy
    BY <1>0, <2>2, SquareTypes DEF Copy
  <2>3. \/ square' = square
        \/ square.issued < MaxTokens /\ square' = Rotated(worker[w].token)
    BY <1>4 DEF Refresh
  <2>4. square' \in Provider /\ (square'.issued = square.issued \/ square'.issued = Fresh)
    BY <2>1, <2>3, SquareTypes DEF WellTyped
  <2>5. worker' \in [Workers -> Copy]
    <3>1. /\ [worker EXCEPT ![w].pc = "releasing"] \in [Workers -> Copy]
          /\ [worker EXCEPT ![w].pc = "refused"] \in [Workers -> Copy]
      BY WorkerMovesType
    <3>2. ASSUME square.issued < MaxTokens
          PROVE  [worker EXCEPT ![w] = [@ EXCEPT !.pc = "rotated", !.next = Fresh]]
                   \in [Workers -> Copy]
      BY <2>2, <3>2, WorkerReplacedType
    <3>3. QED
      BY <1>4, <3>1, <3>2 DEF Refresh
  <2>6. lost' \in SUBSET Token /\ UNCHANGED <<conn, callback, disc, saved>>
    BY <1>4, <2>1 DEF Refresh, WellTyped
  <2>7. QED
    BY <2>4, <2>5, <2>6 DEF WellTyped
<1>5. CASE Store(w)
  <2>1. [conn EXCEPT !.token = worker[w].next] \in Connection
    BY <1>0 DEF Copy, Connection
  <2>2. [worker[w] EXCEPT !.pc = "reading", !.token = worker[w].next] \in Copy
    BY <1>0 DEF Copy
  <2>3. worker' \in [Workers -> Copy]
    <3>1. [worker EXCEPT ![w] =
             [@ EXCEPT !.pc = "reading", !.token = worker[w].next]]
               \in [Workers -> Copy]
      BY <2>2, WorkerReplacedType
    <3>2. [worker EXCEPT ![w].pc = "releasing"] \in [Workers -> Copy]
      BY WorkerMovesType
    <3>3. QED
      BY <1>5, <3>1, <3>2 DEF Store, NextPair
  <2>4. lost' \in SUBSET Token
    BY <1>0, <1>5 DEF Store, WellTyped, Copy
  <2>5. QED
    BY <1>5, <2>1, <2>3, <2>4 DEF Store, NextPair, WellTyped
<1>6. CASE Read(w)
  BY <1>6, WorkerMovesType DEF Read, WellTyped
<1>7. CASE Blame(w)
  BY <1>7, WorkerMovesType, RowType DEF Blame, MayBlame, Own, Unchanged, WellTyped, Status
<1>8. CASE Release(w)
  <2>1. [worker[w] EXCEPT !.pc = "loaded", !.run = FALSE] \in Copy
    BY <1>0 DEF Copy
  <2>2. /\ [worker EXCEPT ![w] = [@ EXCEPT !.pc = "loaded", !.run = FALSE]]
               \in [Workers -> Copy]
        /\ [worker EXCEPT ![w] = NoCopy] \in [Workers -> Copy]
    BY <2>1, StartTypes, WorkerReplacedType
  <2>3. worker' \in [Workers -> Copy]
    BY <1>8, <2>2 DEF Release
  <2>4. conn' \in Connection
    BY <1>0, <1>8 DEF Release, Connection
  <2>5. QED
    BY <1>8, <2>3, <2>4 DEF Release, WellTyped
<1>9. CASE Crash(w)
  <2>1. worker[w].token \in Token
    BY <1>0 DEF Copy
  <2>2. QED
    BY <1>9, <2>1, StartTypes, WorkerReplacedType DEF Crash, WellTyped
<1>10. QED
  BY <1>1, <1>2, <1>3, <1>4, <1>5, <1>6, <1>7, <1>8, <1>9 DEF WorkerStep

\* Types survive the steps of callbacks, disconnects and the environment.
LEMMA OthersKeepTypes ==
    ASSUME WellTyped,
           \/ \E c \in Callbacks : CallbackStep(c)
           \/ \E d \in Disconnects : DisconnectStep(d)
           \/ UndoImport \/ LeaseExpires \/ MerchantRevokes
    PROVE  WellTyped'
<1>0. /\ conn \in Connection /\ NoWorker \in Workers \cup {NoWorker}
      /\ conn.row + 1 \in Nat /\ conn.gen + 1 \in Nat
  BY DEF WellTyped, Connection
<1>1. ASSUME NEW c \in Callbacks, Exchange(c) PROVE WellTyped'
  <2>1. Issued \in Provider /\ Fresh \in Token
    BY <1>1, SquareTypes DEF Exchange
  <2>2. [pc |-> "exchanged", token |-> Fresh] \in Callback
    BY <2>1 DEF Callback
  <2>3. callback' \in [Callbacks -> Callback]
    BY <1>1, <2>2 DEF Exchange, WellTyped
  <2>4. QED
    BY <1>1, <2>1, <2>3 DEF Exchange, WellTyped
<1>2. ASSUME NEW c \in Callbacks, Save(c) PROVE WellTyped'
  <2>1. callback[c].token \in Token
    BY DEF WellTyped, Callback
  <2>2. conn' \in Connection
    <3>1. CASE conn.status = "none"
      BY <1>0, <1>2, <2>1, <3>1 DEF Save, Connection, Status
    <3>2. CASE conn.status # "none"
      BY <1>0, <1>2, <2>1, <3>2 DEF Save, Connection, Status
    <3>3. QED
      BY <3>1, <3>2
  <2>3. callback' \in [Callbacks -> Callback]
    BY <1>2 DEF Save, WellTyped, Callback
  <2>4. saved' \in Token
    BY <1>2, <2>1 DEF Save, WellTyped, Provider
  <2>5. QED
    BY <1>2, <2>2, <2>3, <2>4 DEF Save, WellTyped
<1>3. ASSUME NEW c \in Callbacks, SaveFails(c) PROVE WellTyped'
  <2>1. callback' \in [Callbacks -> Callback]
    BY <1>3 DEF SaveFails, WellTyped, Callback
  <2>2. QED
    BY <1>3, <2>1 DEF SaveFails, WellTyped
<1>4. ASSUME NEW d \in Disconnects, Observe(d) PROVE WellTyped'
  <2>1. disc' \in [Disconnects -> Disconnect]
    BY <1>0, <1>4 DEF Observe, WellTyped, Disconnect, Connection
  <2>2. QED
    BY <1>4, <2>1 DEF Observe, WellTyped
<1>5. ASSUME NEW d \in Disconnects, Mark(d) PROVE WellTyped'
  <2>1. conn' \in Connection
    <3>1. CASE conn.status = "disconnecting"
      BY <1>0, <1>5, <3>1 DEF Mark
    <3>2. CASE conn.status # "disconnecting"
      BY <1>0, <1>5, <3>2 DEF Mark, Connection, Status
    <3>3. QED
      BY <3>1, <3>2
  <2>2. conn'.gen \in Nat
    BY <2>1 DEF Connection
  <2>3. disc' \in [Disconnects -> Disconnect]
    BY <1>5, <2>2 DEF Mark, WellTyped, Disconnect
  <2>4. QED
    BY <1>5, <2>1, <2>3 DEF Mark, WellTyped
<1>6. ASSUME NEW d \in Disconnects, Revoke(d) PROVE WellTyped'
  <2>1. disc' \in [Disconnects -> Disconnect]
    BY <1>6 DEF Revoke, WellTyped, Disconnect
  <2>2. square' \in Provider
    BY <1>6, SquareTypes DEF Revoke, WellTyped
  <2>3. QED
    BY <1>6, <2>1, <2>2 DEF Revoke, WellTyped
<1>7. ASSUME NEW d \in Disconnects, Delete(d) PROVE WellTyped'
  <2>1. disc' \in [Disconnects -> Disconnect]
    BY <1>7 DEF Delete, WellTyped, Disconnect
  <2>2. conn' \in Connection
    BY <1>0, <1>7 DEF Delete, Connection, Status
  <2>3. QED
    BY <1>7, <2>1, <2>2 DEF Delete, WellTyped
<1>8. ASSUME NEW d \in Disconnects, DisconnectFails(d) PROVE WellTyped'
  <2>1. disc' \in [Disconnects -> Disconnect]
    BY <1>8 DEF DisconnectFails, WellTyped, Disconnect
  <2>2. QED
    BY <1>8, <2>1 DEF DisconnectFails, WellTyped
<1>9. CASE UndoImport
  <2>1. ASSUME NEW w \in Workers
        PROVE  [worker[w] EXCEPT !.run = @ /\ ~Own(w)] \in Copy
    <3>1. worker[w] \in Copy /\ (worker[w].run /\ ~Own(w)) \in BOOLEAN
      BY DEF WellTyped, Copy
    <3>2. QED
      BY <3>1 DEF Copy
  <2>2. worker' \in [Workers -> Copy]
    BY <1>9, <2>1 DEF UndoImport
  <2>3. conn' \in Connection
    BY <1>0, <1>9 DEF UndoImport, Connection
  <2>4. QED
    BY <1>9, <2>2, <2>3 DEF UndoImport, WellTyped
<1>10. CASE LeaseExpires
  <2>1. conn' \in Connection
    BY <1>0, <1>10 DEF LeaseExpires, Connection
  <2>2. QED
    BY <1>10, <2>1 DEF LeaseExpires, WellTyped
<1>11. CASE MerchantRevokes
  BY <1>11, SquareTypes DEF MerchantRevokes, WellTyped
<1>12. QED
  BY <1>1, <1>2, <1>3, <1>4, <1>5, <1>6, <1>7, <1>8, <1>9, <1>10, <1>11
  DEF CallbackStep, DisconnectStep

\* Types survive every step.
LEMMA NextKeepsTypes ==
    ASSUME WellTyped, [Next]_vars
    PROVE  WellTyped'
<1>1. CASE Next
  BY <1>1, WorkerKeepsTypes, OthersKeepTypes DEF Next
<1>2. CASE UNCHANGED vars
  BY <1>2 DEF vars, WellTyped
<1>3. QED
  BY <1>1, <1>2

\* No row, no worker at work, nothing issued.
LEMMA InitIsWellTyped == ASSUME Init PROVE WellTyped
<1>1. conn \in Connection
  BY StartTypes DEF Init, Connection, Status
<1>2. square \in Provider
  BY StartTypes DEF Init, Provider
<1>3. callback \in [Callbacks -> Callback] /\ disc \in [Disconnects -> Disconnect]
  BY StartTypes DEF Init, Callback, Disconnect
<1>4. worker \in [Workers -> Copy]
  BY StartTypes DEF Init
<1>5. QED
  BY <1>1, <1>2, <1>3, <1>4, StartTypes DEF Init, WellTyped

-----------------------------------------------------------------------------
(* What a step does to the row, to Square's pairs and to the copies.        *)

\* Rows and generations only move on, and while they stand still the row is
\* there to stay and the saved grant is the same.
LEMMA RowMovesOn ==
    ASSUME WellTyped, [Next]_vars
    PROVE  /\ conn'.row >= conn.row
           /\ conn'.row = conn.row => conn'.gen >= conn.gen
           /\ conn'.row = conn.row /\ conn'.gen = conn.gen /\ conn'.status # "none"
                => conn.status # "none" /\ saved' = saved
<1>0. conn \in Connection /\ conn.row \in Nat /\ conn.gen \in Nat
  BY DEF WellTyped, Connection
<1>1. ASSUME NEW w \in Workers, WorkerStep(w)
      PROVE  /\ conn'.row = conn.row /\ conn'.gen = conn.gen /\ saved' = saved
             /\ conn'.status # "none" => conn.status # "none"
  BY <1>0, <1>1
  DEF WorkerStep, Load, Lease, CheckExpiry, Refresh, Store, Read, Blame, MayBlame,
      Own, Unchanged, Release, Crash, Connection
<1>2. ASSUME NEW c \in Callbacks, Save(c)
      PROVE  \/ conn'.row = conn.row + 1
             \/ conn'.row = conn.row /\ conn'.gen = conn.gen + 1
  <2>1. CASE conn.status = "none"
    BY <1>2, <2>1 DEF Save
  <2>2. CASE conn.status # "none"
    BY <1>0, <1>2, <2>2 DEF Save, Connection
  <2>3. QED
    BY <2>1, <2>2
<1>3. ASSUME NEW d \in Disconnects, DisconnectStep(d)
      PROVE  /\ conn'.row = conn.row /\ saved' = saved
             /\ conn'.gen \in {conn.gen, conn.gen + 1}
             /\ conn'.status # "none" => conn.status # "none"
  BY <1>0, <1>3
  DEF DisconnectStep, Observe, Mark, Unchanged, Revoke, Delete, DisconnectFails, Connection
<1>4. CASE \/ \E c \in Callbacks : Exchange(c) \/ SaveFails(c)
           \/ UndoImport \/ LeaseExpires \/ MerchantRevokes \/ UNCHANGED vars
  <2>1. /\ conn'.row = conn.row /\ conn'.gen = conn.gen /\ saved' = saved
        /\ conn'.status = conn.status
    BY <1>0, <1>4
    DEF Exchange, SaveFails, UndoImport, LeaseExpires, MerchantRevokes, vars, Connection
  <2>2. QED
    BY <1>0, <2>1
<1>5. QED
  BY <1>0, <1>1, <1>2, <1>3, <1>4 DEF Next, CallbackStep

\* The row's pair changes when a callback saves or a worker stores.
LEMMA RowPairChanges ==
    ASSUME WellTyped, [Next]_vars
    PROVE  \/ conn'.token = conn.token /\ (conn'.status # "none" => conn.status # "none")
           \/ \E c \in Callbacks : Save(c)
           \/ \E w \in Workers : Store(w) /\ MayStore(w)
<1>0. conn \in Connection
  BY DEF WellTyped
<1>1. ASSUME NEW w \in Workers, WorkerStep(w)
      PROVE  \/ conn'.token = conn.token /\ (conn'.status # "none" => conn.status # "none")
             \/ Store(w) /\ MayStore(w)
  BY <1>0, <1>1
  DEF WorkerStep, Load, Lease, CheckExpiry, Refresh, Store, Read, Blame, MayBlame,
      Own, Unchanged, Release, Crash, Connection
<1>2. ASSUME NEW d \in Disconnects, DisconnectStep(d)
      PROVE  conn'.token = conn.token /\ (conn'.status # "none" => conn.status # "none")
  BY <1>0, <1>2
  DEF DisconnectStep, Observe, Mark, Unchanged, Revoke, Delete, DisconnectFails, Connection
<1>3. CASE \/ \E c \in Callbacks : Exchange(c) \/ SaveFails(c)
           \/ UndoImport \/ LeaseExpires \/ MerchantRevokes \/ UNCHANGED vars
  BY <1>0, <1>3
  DEF Exchange, SaveFails, UndoImport, LeaseExpires, MerchantRevokes, vars, Connection
<1>4. QED
  BY <1>1, <1>2, <1>3 DEF Next, CallbackStep

\* Square's books change by its four operations only.
LEMMA SquareMoves ==
    ASSUME WellTyped, [Next]_vars
    PROVE  \/ square' = square
           \/ square' = Revoked
           \/ square' = Issued /\ square.issued < MaxTokens
           \/ \E w \in Workers :
                /\ Refresh(w) /\ square.issued < MaxTokens
                /\ square' = Rotated(worker[w].token)
  BY DEF Next, WorkerStep, CallbackStep, DisconnectStep, vars, Load, Lease,
     CheckExpiry, Refresh, Store, Read, Blame, Release, Crash, Exchange, Save,
     SaveFails, Observe, Mark, Revoke, Delete, DisconnectFails, UndoImport,
     LeaseExpires, MerchantRevokes

\* Pairs are issued in order, keep their grant, and a dead pair stays dead.
LEMMA SquareGrows ==
    ASSUME WellTyped, PairsInOrder, [Next]_vars
    PROVE  /\ square.issued \in Nat /\ square'.issued \in Nat
           /\ square.issued <= square'.issued
           /\ square'.live \cup square'.revoked \subseteq 1 .. square'.issued
           /\ square'.live \cap square'.revoked = {}
           /\ square.revoked \subseteq square'.revoked
           /\ \A t \in 0 .. square.issued :
                /\ square'.grant[t] = square.grant[t]
                /\ t \notin square.live => t \notin square'.live
<1> USE GrantAssumption DEF GrantAssumption
<1>0. /\ square.issued \in Nat /\ square.issued <= MaxTokens /\ MaxTokens \in Nat
      /\ square.grant \in [0 .. MaxTokens -> Token]
      /\ square.live \cup square.revoked \subseteq 1 .. square.issued
      /\ square.live \cap square.revoked = {}
  BY DEF WellTyped, Provider, PairsInOrder, Token
<1>1. CASE square' = square
  BY <1>0, <1>1
<1>2. CASE square' = Revoked
  <2>1. /\ square'.issued = square.issued /\ square'.live = {}
        /\ square'.revoked = 1 .. square.issued /\ square'.grant = square.grant
    BY <1>2 DEF WellTyped, Revoked, Provider
  <2>2. QED
    BY <1>0, <2>1
<1>3. ASSUME square.issued < MaxTokens, NEW t \in SUBSET Nat, NEW g \in Nat,
             square'.issued = square.issued + 1,
             square'.live = (square.live \ t) \cup {square.issued + 1},
             square'.revoked = square.revoked,
             square'.grant = [square.grant EXCEPT ![square.issued + 1] = g]
      PROVE  /\ square'.issued \in Nat
             /\ square.issued <= square'.issued
             /\ square'.live \cup square'.revoked \subseteq 1 .. square'.issued
             /\ square'.live \cap square'.revoked = {}
             /\ square.revoked \subseteq square'.revoked
             /\ \A u \in 0 .. square.issued :
                  /\ square'.grant[u] = square.grant[u]
                  /\ u \notin square.live => u \notin square'.live
  <2>1. square.live \subseteq 1 .. square.issued /\ square.revoked \subseteq 1 .. square.issued
    BY <1>0
  <2>2. square'.live \cup square'.revoked \subseteq 1 .. square'.issued
    BY <1>0, <1>3, <2>1
  <2>3. square'.live \cap square'.revoked = {}
    BY <1>0, <1>3, <2>1
  <2>4. ASSUME NEW u \in 0 .. square.issued
        PROVE  /\ square'.grant[u] = square.grant[u]
               /\ u \notin square.live => u \notin square'.live
    BY <1>0, <1>3
  <2>5. QED
    BY <1>0, <1>3, <2>2, <2>3, <2>4
<1>4. CASE square' = Issued /\ square.issued < MaxTokens
  <2>1. /\ square'.issued = square.issued + 1
        /\ square'.live = (square.live \ {}) \cup {square.issued + 1}
        /\ square'.revoked = square.revoked
        /\ square'.grant = [square.grant EXCEPT ![square.issued + 1] = square.issued + 1]
    BY <1>4 DEF WellTyped, Issued, Fresh, Provider
  <2>2. QED
    BY <1>0, <1>3, <1>4, <2>1
<1>5. CASE \E w \in Workers :
             /\ Refresh(w) /\ square.issued < MaxTokens
             /\ square' = Rotated(worker[w].token)
  <2>1. PICK w \in Workers :
          Refresh(w) /\ square.issued < MaxTokens /\ square' = Rotated(worker[w].token)
    BY <1>5
  <2>2. worker[w].token \in 0 .. MaxTokens
    BY DEF WellTyped, Copy, Token
  <2>3. square.grant[worker[w].token] \in Nat
    <3>1. square.grant[worker[w].token] \in Token
      BY <1>0, <2>2
    <3>2. QED
      BY <3>1, StartTypes
  <2>4. /\ square'.issued = square.issued + 1
        /\ square'.live = (square.live \ {worker[w].token}) \cup {square.issued + 1}
        /\ square'.revoked = square.revoked
        /\ square'.grant =
             [square.grant EXCEPT ![square.issued + 1] = square.grant[worker[w].token]]
    BY <2>1 DEF WellTyped, Rotated, Fresh, Provider
  <2>5. {worker[w].token} \in SUBSET Nat
    BY <2>2
  <2>6. QED
    BY <1>0, <1>3, <2>1, <2>3, <2>4, <2>5
<1>6. QED
  BY <1>1, <1>2, <1>4, <1>5, SquareMoves

\* A pair that dies was revoked, or refreshed by a worker that had it.
LEMMA PairsDieKnowingly ==
    ASSUME WellTyped, PairsInOrder, [Next]_vars,
           NEW t \in square.live, t \notin square'.live
    PROVE  \/ t \in square'.revoked
           \/ \E w \in Workers : Refresh(w) /\ worker[w].token = t
<1>1. CASE square' = Revoked
  BY <1>1 DEF PairsInOrder, WellTyped, Provider, Revoked
<1>2. CASE square' = Issued
  BY <1>2 DEF WellTyped, Provider, Issued
<1>3. ASSUME NEW w \in Workers, Refresh(w), square' = Rotated(worker[w].token)
      PROVE  worker[w].token = t
  BY <1>3 DEF WellTyped, Provider, Rotated
<1>4. QED
  BY <1>1, <1>2, <1>3, SquareMoves

-----------------------------------------------------------------------------
(* The copies workers have of the row.                                      *)

\* The numbers the copies are compared by.
LEMMA CopyNumbers ==
    ASSUME WellTyped, NEW w \in Workers
    PROVE  /\ conn.row \in Nat /\ conn.gen \in Nat /\ conn.token \in Nat
           /\ worker[w].row \in Nat /\ worker[w].gen \in Nat
           /\ worker[w].token \in Nat /\ worker[w].next \in Nat
  BY StartTypes DEF WellTyped, Connection, Copy

\* A copy nobody touches, or whose worker only moved on, still follows the row.
LEMMA SameCopyFollows ==
    ASSUME WellTyped, PairsInOrder, [Next]_vars,
           NEW w \in Workers, CopyFollows(w),
           worker'[w].row = worker[w].row, worker'[w].gen = worker[w].gen,
           worker'[w].token = worker[w].token,
           worker'[w].pc # "idle" => worker[w].pc # "idle",
           worker'[w].pc = "rotated" =>
             worker[w].pc = "rotated" /\ worker'[w].next = worker[w].next,
           worker'[w].pc = "refused" =>
             worker[w].pc = "refused" \/ worker[w].token \notin square.live
    PROVE  CopyFollows(w)'
<1>1. /\ worker[w].row <= conn.row
      /\ worker[w].row = conn.row => worker[w].gen <= conn.gen
      /\ worker[w].token <= square.issued
  BY DEF CopyFollows
<1>2. worker[w].token \in 0 .. square.issued
  BY <1>1, CopyNumbers, SquareGrows
<1>3. worker'[w].row <= conn'.row /\ (worker'[w].row = conn'.row => worker'[w].gen <= conn'.gen)
  <2>1. conn'.row \in Nat /\ conn'.gen \in Nat
    BY NextKeepsTypes DEF WellTyped, Connection
  <2>2. QED
    BY <1>1, <2>1, CopyNumbers, RowMovesOn
<1>4. worker'[w].token <= square'.issued
  BY <1>1, CopyNumbers, SquareGrows
<1>5. ASSUME worker'[w].pc # "idle"
      PROVE  worker'[w].token > 0 /\ (Own(w)' => square'.grant[worker'[w].token] = saved')
  <2>1. worker[w].token > 0 /\ (Own(w) => square.grant[worker[w].token] = saved)
    BY <1>5 DEF CopyFollows
  <2>2. ASSUME Own(w)' PROVE Own(w) /\ saved' = saved
    <3>1. conn'.status # "none" /\ conn'.row = worker[w].row /\ conn'.gen = worker[w].gen
      BY <2>2 DEF Own, Unchanged
    <3>2. conn'.row = conn.row /\ conn'.gen = conn.gen
      <4>1. conn'.row \in Nat /\ conn'.gen \in Nat
        BY NextKeepsTypes DEF WellTyped, Connection
      <4>2. conn'.row = conn.row
        BY <1>1, <3>1, <4>1, CopyNumbers, RowMovesOn
      <4>3. QED
        BY <1>1, <3>1, <4>1, <4>2, CopyNumbers, RowMovesOn
    <3>3. QED
      BY <3>1, <3>2, RowMovesOn DEF Own, Unchanged
  <2>3. QED
    BY <1>2, <2>1, <2>2, SquareGrows
<1>6. ASSUME worker'[w].pc = "rotated"
      PROVE  /\ worker'[w].next \in 1 .. square'.issued
             /\ square'.grant[worker'[w].next] = square'.grant[worker'[w].token]
  <2>1. /\ worker[w].next \in 1 .. square.issued
        /\ square.grant[worker[w].next] = square.grant[worker[w].token]
        /\ worker'[w].next = worker[w].next
    BY <1>6 DEF CopyFollows
  <2>2. QED
    BY <1>2, <2>1, SquareGrows
<1>7. ASSUME worker'[w].pc = "refused" PROVE worker'[w].token \notin square'.live
  <2>1. worker[w].token \notin square.live
    BY <1>7 DEF CopyFollows
  <2>2. QED
    BY <1>2, <2>1, SquareGrows
<1>8. QED
  BY <1>3, <1>4, <1>5, <1>6, <1>7 DEF CopyFollows

\* A worker at rest has nothing to follow.
LEMMA NoCopyFollows ==
    ASSUME WellTyped, PairsInOrder, [Next]_vars, NEW w \in Workers,
           worker'[w] = NoCopy
    PROVE  CopyFollows(w)'
<1>1. conn'.row \in Nat /\ conn'.gen \in Nat /\ square'.issued \in Nat
  BY NextKeepsTypes, SquareGrows DEF WellTyped, Connection
<1>2. /\ worker'[w].pc = "idle" /\ worker'[w].row = 0
      /\ worker'[w].gen = 0 /\ worker'[w].token = 0
  BY DEF NoCopy
<1>3. QED
  BY <1>1, <1>2 DEF CopyFollows

\* A worker's own step leaves it with a copy that follows the row.
LEMMA MovedCopyFollows ==
    ASSUME GrantInv, [Next]_vars, NEW w \in Workers, WorkerStep(w)
    PROVE  CopyFollows(w)'
<1>0. /\ WellTyped /\ RowHoldsPair /\ PairsInOrder /\ CopyFollows(w)
      /\ worker \in [Workers -> Copy] /\ worker[w] \in Copy
      /\ conn \in Connection
  BY DEF GrantInv, TypeOK, CopiesFollow, WellTyped
<1>1. CASE Load(w)
  <2>1. /\ worker'[w].row = conn.row /\ worker'[w].gen = conn.gen
        /\ worker'[w].token = conn.token /\ worker'[w].pc = "loaded"
        /\ conn' = conn /\ square' = square /\ saved' = saved
        /\ conn.status = "active"
    BY <1>0, <1>1 DEF Load
  <2>2. conn.token \in 1 .. square.issued
    BY <1>0, <2>1 DEF RowHoldsPair
  <2>3. square.grant[conn.token] = saved
    BY <2>1 DEF GrantInv, ReplacementSticks
  <2>4. QED
    BY <1>0, <2>1, <2>2, <2>3, CopyNumbers DEF CopyFollows
<1>2. CASE Lease(w)
  <2>1. \/ worker'[w] = NoCopy
        \/ /\ worker'[w].row = worker[w].row /\ worker'[w].gen = worker[w].gen
           /\ worker'[w].token = worker[w].token /\ worker'[w].pc = "leased"
           /\ worker[w].pc = "loaded"
    BY <1>0, <1>2 DEF Lease, Copy
  <2>2. QED
    BY <1>0, <2>1, SameCopyFollows, NoCopyFollows
<1>3. CASE CheckExpiry(w)
  <2>1. /\ worker'[w].row = worker[w].row /\ worker'[w].gen = worker[w].gen
        /\ worker'[w].token = worker[w].token /\ worker[w].pc = "leased"
        /\ worker'[w].pc \in {"refreshing", "reading"}
    BY <1>0, <1>3 DEF CheckExpiry, Copy
  <2>2. QED
    BY <1>0, <2>1, SameCopyFollows
<1>4. CASE Refresh(w)
  <2>1. CASE /\ worker[w].token \in square.live /\ square.issued < MaxTokens
             /\ square' = Rotated(worker[w].token)
             /\ worker' = [worker EXCEPT ![w] = [@ EXCEPT !.pc = "rotated", !.next = Fresh]]
    <3>1. /\ worker'[w].row = worker[w].row /\ worker'[w].gen = worker[w].gen
          /\ worker'[w].token = worker[w].token /\ worker[w].pc = "refreshing"
          /\ worker'[w].pc = "rotated" /\ worker'[w].next = Fresh
      BY <1>0, <1>4, <2>1 DEF Refresh, Copy
    <3>2. conn' = conn /\ saved' = saved
      BY <1>4 DEF Refresh
    <3>3. /\ square'.issued = Fresh
          /\ square'.grant[Fresh] = square.grant[worker[w].token]
      BY <1>0, <2>1, SquareTypes DEF Rotated, Provider, WellTyped
    <3>4. /\ square.issued \in Nat /\ worker[w].token \in 0 .. square.issued
          /\ square'.grant[worker[w].token] = square.grant[worker[w].token]
      BY <1>0, SquareGrows, CopyNumbers DEF CopyFollows
    <3>5. Fresh \in 1 .. Fresh /\ worker[w].token <= Fresh
      BY <3>4 DEF Fresh
    <3>6. Own(w)' => square.grant[worker[w].token] = saved
      BY <1>0, <3>1, <3>2 DEF Own, Unchanged, CopyFollows
    <3>7. QED
      BY <1>0, <3>1, <3>2, <3>3, <3>4, <3>5, <3>6 DEF CopyFollows
  <2>2. CASE /\ worker' = [worker EXCEPT ![w].pc = "refused"]
             /\ worker[w].token \notin square.live
    <3>1. /\ worker'[w].row = worker[w].row /\ worker'[w].gen = worker[w].gen
          /\ worker'[w].token = worker[w].token /\ worker[w].pc = "refreshing"
          /\ worker'[w].pc = "refused"
      BY <1>0, <1>4, <2>2 DEF Refresh, Copy
    <3>2. QED
      BY <1>0, <2>2, <3>1, SameCopyFollows
  <2>3. CASE worker' = [worker EXCEPT ![w].pc = "releasing"]
    <3>1. /\ worker'[w].row = worker[w].row /\ worker'[w].gen = worker[w].gen
          /\ worker'[w].token = worker[w].token /\ worker[w].pc = "refreshing"
          /\ worker'[w].pc = "releasing"
      BY <1>0, <1>4, <2>3 DEF Refresh, Copy
    <3>2. QED
      BY <1>0, <3>1, SameCopyFollows
  <2>4. QED
    BY <1>4, <2>1, <2>2, <2>3 DEF Refresh
<1>5. CASE Store(w)
  <2>1. CASE MayStore(w)
    <3>1. /\ worker'[w].row = worker[w].row /\ worker'[w].gen = worker[w].gen
          /\ worker'[w].token = worker[w].next /\ worker'[w].pc = "reading"
          /\ worker[w].pc = "rotated"
      <4>1. /\ worker[w].pc = "rotated"
            /\ worker' = [worker EXCEPT ![w] =
                 [@ EXCEPT !.pc = "reading", !.token = worker[w].next]]
        BY <1>5, <2>1 DEF Store, NextPair
      <4>2. worker'[w] = [worker[w] EXCEPT !.pc = "reading", !.token = worker[w].next]
        BY <1>0, <4>1
      <4>3. QED
        BY <1>0, <4>1, <4>2 DEF Copy
    <3>2. /\ conn'.row = conn.row /\ conn'.gen = conn.gen /\ conn'.status = conn.status
          /\ square' = square /\ saved' = saved
      BY <1>0, <1>5, <2>1 DEF Store, Connection
    <3>3. Own(w)' => Own(w)
      BY <3>1, <3>2 DEF Own, Unchanged
    <3>4. QED
      BY <1>0, <3>1, <3>2, <3>3, SquareGrows DEF CopyFollows
  <2>2. CASE ~MayStore(w)
    <3>1. /\ worker'[w].row = worker[w].row /\ worker'[w].gen = worker[w].gen
          /\ worker'[w].token = worker[w].token /\ worker[w].pc = "rotated"
          /\ worker'[w].pc = "releasing"
      BY <1>0, <1>5, <2>2 DEF Store, Copy
    <3>2. QED
      BY <1>0, <3>1, SameCopyFollows
  <2>3. QED
    BY <2>1, <2>2
<1>6. CASE Read(w)
  <2>1. /\ worker'[w].row = worker[w].row /\ worker'[w].gen = worker[w].gen
        /\ worker'[w].token = worker[w].token /\ worker[w].pc = "reading"
        /\ worker'[w].pc \in {"refused", "releasing"}
        /\ worker'[w].pc = "refused" => worker[w].token \in square.revoked
    BY <1>0, <1>6 DEF Read, Copy
  <2>2. worker[w].token \in square.revoked => worker[w].token \notin square.live
    BY <1>0 DEF PairsInOrder
  <2>3. QED
    BY <1>0, <2>1, <2>2, SameCopyFollows
<1>7. CASE Blame(w)
  <2>1. /\ worker'[w].row = worker[w].row /\ worker'[w].gen = worker[w].gen
        /\ worker'[w].token = worker[w].token /\ worker[w].pc = "refused"
        /\ worker'[w].pc = "releasing"
    BY <1>0, <1>7 DEF Blame, Copy
  <2>2. QED
    BY <1>0, <2>1, SameCopyFollows
<1>8. CASE Release(w)
  <2>1. \/ worker'[w] = NoCopy
        \/ /\ worker'[w].row = worker[w].row /\ worker'[w].gen = worker[w].gen
           /\ worker'[w].token = worker[w].token /\ worker[w].pc = "releasing"
           /\ worker'[w].pc = "loaded"
    <3>1. /\ worker[w].pc = "releasing"
          /\ \/ worker'[w] = NoCopy
             \/ worker'[w] = [worker[w] EXCEPT !.pc = "loaded", !.run = FALSE]
      BY <1>0, <1>8 DEF Release
    <3>2. QED
      BY <1>0, <3>1 DEF Copy
  <2>2. QED
    BY <1>0, <2>1, SameCopyFollows, NoCopyFollows
<1>9. CASE Crash(w)
  <2>1. worker'[w] = NoCopy
    BY <1>0, <1>9 DEF Crash
  <2>2. QED
    BY <1>0, <2>1, NoCopyFollows
<1>10. QED
  BY <1>1, <1>2, <1>3, <1>4, <1>5, <1>6, <1>7, <1>8, <1>9 DEF WorkerStep

\* A step that is not the worker's own leaves its copy alone, but for the run
\* an undo cancels.
LEMMA OtherCopiesKept ==
    ASSUME WellTyped, [Next]_vars, NEW w \in Workers, ~WorkerStep(w)
    PROVE  /\ worker'[w].row = worker[w].row /\ worker'[w].gen = worker[w].gen
           /\ worker'[w].token = worker[w].token /\ worker'[w].pc = worker[w].pc
           /\ worker'[w].next = worker[w].next
<1>1. ASSUME NEW v \in Workers, v # w, WorkerStep(v) PROVE worker'[w] = worker[w]
  BY <1>1
  DEF WellTyped, WorkerStep, Load, Lease, CheckExpiry, Refresh, Store, Read, Blame,
      Release, Crash
<1>2. ASSUME UndoImport
      PROVE  /\ worker'[w].row = worker[w].row /\ worker'[w].gen = worker[w].gen
             /\ worker'[w].token = worker[w].token /\ worker'[w].pc = worker[w].pc
             /\ worker'[w].next = worker[w].next
  BY <1>2 DEF WellTyped, UndoImport, Copy
<1>3. CASE \/ \E c \in Callbacks : CallbackStep(c)
           \/ \E d \in Disconnects : DisconnectStep(d)
           \/ LeaseExpires \/ MerchantRevokes \/ UNCHANGED vars
  BY <1>3
  DEF CallbackStep, Exchange, Save, SaveFails, DisconnectStep, Observe, Mark, Revoke,
      Delete, DisconnectFails, LeaseExpires, MerchantRevokes, vars
<1>4. QED
  BY <1>1, <1>2, <1>3 DEF Next

\* Every copy follows the row after every step.
LEMMA CopiesKeepFollowing ==
    ASSUME GrantInv, [Next]_vars
    PROVE  CopiesFollow'
<1>1. WellTyped /\ PairsInOrder /\ CopiesFollow
  BY DEF GrantInv, TypeOK
<1>2. ASSUME NEW w \in Workers PROVE CopyFollows(w)'
  <2>1. CASE WorkerStep(w)
    BY <2>1, MovedCopyFollows
  <2>2. CASE ~WorkerStep(w)
    BY <1>1, <2>2, OtherCopiesKept, SameCopyFollows DEF CopiesFollow
  <2>3. QED
    BY <2>1, <2>2
<1>3. QED
  BY <1>2 DEF CopiesFollow

-----------------------------------------------------------------------------
(* The row's pair.                                                          *)

\* What save_connection writes.
LEMMA SaveWrites ==
    ASSUME WellTyped, NEW c \in Callbacks, Save(c)
    PROVE  /\ callback[c].pc = "exchanged"
           /\ conn'.token = callback[c].token /\ conn'.status = "active"
           /\ saved' = square.grant[callback[c].token]
           /\ UNCHANGED <<square, worker, disc, lost>>
           /\ \A b \in Callbacks :
                callback'[b].pc = "exchanged" =>
                  /\ b # c /\ callback[b].pc = "exchanged"
                  /\ callback'[b].token = callback[b].token
<1>1. conn \in Connection /\ callback \in [Callbacks -> Callback]
  BY DEF WellTyped
<1>2. conn'.token = callback[c].token /\ conn'.status = "active"
  <2>1. CASE conn.status = "none"
    BY <2>1 DEF Save
  <2>2. CASE conn.status # "none"
    BY <1>1, <2>2 DEF Save, Connection
  <2>3. QED
    BY <2>1, <2>2
<1>3. callback' = [callback EXCEPT ![c].pc = "idle"]
  BY DEF Save
<1>4. QED
  BY <1>1, <1>2, <1>3 DEF Save, Callback

\* What a refresh stores.
LEMMA StoreWrites ==
    ASSUME WellTyped, NEW w \in Workers, Store(w), MayStore(w)
    PROVE  /\ worker[w].pc = "rotated" /\ worker[w].token = conn.token
           /\ Own(w) /\ conn.status = "active"
           /\ conn'.token = worker[w].next /\ conn'.status = conn.status
           /\ worker'[w].token = worker[w].next /\ worker'[w].pc = "reading"
           /\ \A v \in Workers : v # w => worker'[v] = worker[v]
           /\ UNCHANGED <<square, callback, disc, saved, lost>>
<1>1. conn \in Connection /\ worker \in [Workers -> Copy] /\ worker[w] \in Copy
  BY DEF WellTyped
<1>2. /\ worker[w].pc = "rotated"
      /\ worker' = [worker EXCEPT ![w] =
           [@ EXCEPT !.pc = "reading", !.token = worker[w].next]]
  BY DEF Store, NextPair
<1>3. worker'[w] = [worker[w] EXCEPT !.pc = "reading", !.token = worker[w].next]
  BY <1>1, <1>2
<1>4. conn' = [conn EXCEPT !.token = worker[w].next]
  BY DEF Store, NextPair
<1>5. conn'.token = worker[w].next /\ conn'.status = conn.status
  BY <1>1, <1>4 DEF Connection
<1>6. worker'[w].token = worker[w].next /\ worker'[w].pc = "reading"
  BY <1>1, <1>3 DEF Copy
<1>7. QED
  BY <1>1, <1>2, <1>5, <1>6 DEF Store, MayStore

\* The pair a callback or a worker is about to save was issued.
LEMMA SecretsAreIssued ==
    ASSUME GrantInv
    PROVE  /\ \A c \in Callbacks : callback[c].pc = "exchanged" =>
                callback[c].token \in 1 .. square.issued
           /\ \A w \in Workers : worker[w].pc = "rotated" =>
                worker[w].next \in 1 .. square.issued
  BY DEF GrantInv, PairsAreUnshared, Private, PairsInOrder

\* Square's books stay in order, and the row holds a pair it issued.
LEMMA OrderKept ==
    ASSUME GrantInv, [Next]_vars
    PROVE  PairsInOrder' /\ RowHoldsPair'
<1>1. /\ WellTyped /\ PairsInOrder /\ RowHoldsPair
      /\ conn.token \in Nat /\ conn.token <= square.issued
  BY StartTypes DEF GrantInv, TypeOK, PairsInOrder, WellTyped, Connection
<1>2. square.issued \in Nat /\ square'.issued \in Nat /\ square.issued <= square'.issued
  BY <1>1, SquareGrows
<1>3. /\ conn'.token <= square'.issued
      /\ conn'.status # "none" => conn'.token \in 1 .. square'.issued
  <2>1. CASE conn'.token = conn.token /\ (conn'.status # "none" => conn.status # "none")
    BY <1>1, <1>2, <2>1 DEF RowHoldsPair
  <2>2. ASSUME NEW c \in Callbacks, Save(c) PROVE conn'.token \in 1 .. square'.issued
    BY <1>1, <2>2, SaveWrites, SecretsAreIssued
  <2>3. ASSUME NEW w \in Workers, Store(w), MayStore(w)
        PROVE  conn'.token \in 1 .. square'.issued
    BY <1>1, <2>3, StoreWrites, SecretsAreIssued
  <2>4. QED
    BY <1>1, <1>2, <2>1, <2>2, <2>3, RowPairChanges
<1>4. QED
  BY <1>1, <1>3, SquareGrows DEF PairsInOrder, RowHoldsPair

\* The row's pair always belongs to the grant last saved.
LEMMA GrantKept ==
    ASSUME GrantInv, [Next]_vars
    PROVE  ReplacementSticks'
<1>1. /\ WellTyped /\ PairsInOrder /\ RowHoldsPair /\ CopiesFollow
      /\ ReplacementSticks
  BY DEF GrantInv, TypeOK
<1>2. CASE conn'.token = conn.token /\ (conn'.status # "none" => conn.status # "none")
           /\ ~(\E c \in Callbacks : Save(c))
  <2>1. saved' = saved
    BY <1>2
    DEF Next, WorkerStep, CallbackStep, DisconnectStep, vars, Load, Lease, CheckExpiry,
        Refresh, Store, Read, Blame, Release, Crash, Exchange, SaveFails, Observe, Mark,
        Revoke, Delete, DisconnectFails, UndoImport, LeaseExpires, MerchantRevokes
  <2>2. conn.status # "none" => conn.token \in 0 .. square.issued
    BY <1>1, SquareGrows DEF RowHoldsPair
  <2>3. QED
    BY <1>1, <1>2, <2>1, <2>2, SquareGrows DEF ReplacementSticks
<1>3. ASSUME NEW c \in Callbacks, Save(c) PROVE ReplacementSticks'
  BY <1>1, <1>3, SaveWrites DEF ReplacementSticks
<1>4. ASSUME NEW w \in Workers, Store(w), MayStore(w) PROVE ReplacementSticks'
  <2>1. square.grant[worker[w].next] = saved
    BY <1>1, <1>4, StoreWrites DEF CopiesFollow, CopyFollows
  <2>2. QED
    BY <1>1, <1>4, <2>1, StoreWrites DEF ReplacementSticks
<1>5. QED
  BY <1>1, <1>2, <1>3, <1>4, RowPairChanges

-----------------------------------------------------------------------------
(* Pairs known to one process only.                                         *)

\* A private pair stays private through a step that neither makes it the row's
\* pair nor gives it to a worker.
LEMMA PrivateStays ==
    ASSUME WellTyped, PairsInOrder, [Next]_vars, NEW t, Private(t),
           conn'.token # t,
           \A w \in Workers : worker'[w].token # t
    PROVE  Private(t)'
<1>1. t \in square.live \cup square.revoked /\ t \in 0 .. square.issued
  BY SquareGrows DEF Private, PairsInOrder
<1>2. t \in square'.live \cup square'.revoked
  <2>1. CASE t \in square.revoked
    BY <2>1, SquareGrows
  <2>2. CASE t \in square.live
    <3>1. ~\E w \in Workers : Refresh(w) /\ worker[w].token = t
      BY DEF Private
    <3>2. QED
      BY <2>2, <3>1, PairsDieKnowingly
  <2>3. QED
    BY <1>1, <2>1, <2>2
<1>3. QED
  BY <1>2 DEF Private

\* What a worker's copy holds after a step: what it held, the row's pair, or
\* nothing, unless it has just stored a refreshed pair.
LEMMA CopiedPairs ==
    ASSUME WellTyped, [Next]_vars, NEW w \in Workers
    PROVE  \/ worker'[w].token \in {worker[w].token, conn.token, 0}
           \/ Store(w) /\ MayStore(w)
<1>1. CASE ~WorkerStep(w)
  BY <1>1, OtherCopiesKept
<1>2. CASE WorkerStep(w)
  <2>1. worker \in [Workers -> Copy] /\ worker[w] \in Copy
    BY DEF WellTyped
  <2>2. CASE Load(w)
    BY <2>1, <2>2 DEF Load
  <2>3. CASE Lease(w) \/ Crash(w)
    BY <2>1, <2>3 DEF Lease, Crash, NoCopy, Copy
  <2>4. CASE CheckExpiry(w) \/ Read(w) \/ Blame(w)
    <3>1. PICK pc \in {"refreshing", "reading", "refused", "releasing"} :
            worker' = [worker EXCEPT ![w].pc = pc]
      BY <2>4 DEF CheckExpiry, Read, Blame
    <3>2. QED
      BY <2>1, <3>1 DEF Copy
  <2>5. CASE Refresh(w)
    <3>1. \/ worker'[w] = [worker[w] EXCEPT !.pc = "rotated", !.next = Fresh]
          \/ worker'[w] = [worker[w] EXCEPT !.pc = "releasing"]
          \/ worker'[w] = [worker[w] EXCEPT !.pc = "refused"]
      BY <2>1, <2>5 DEF Refresh
    <3>2. /\ [worker[w] EXCEPT !.pc = "rotated", !.next = Fresh].token = worker[w].token
          /\ [worker[w] EXCEPT !.pc = "releasing"].token = worker[w].token
          /\ [worker[w] EXCEPT !.pc = "refused"].token = worker[w].token
      BY <2>1 DEF Copy
    <3>3. QED
      BY <3>1, <3>2
  <2>6. CASE Store(w) /\ ~MayStore(w)
    BY <2>1, <2>6 DEF Store, Copy
  <2>7. CASE Release(w)
    <3>1. \/ worker'[w] = NoCopy
          \/ worker'[w] = [worker[w] EXCEPT !.pc = "loaded", !.run = FALSE]
      BY <2>1, <2>7 DEF Release
    <3>2. NoCopy.token = 0
      BY DEF NoCopy
    <3>3. [worker[w] EXCEPT !.pc = "loaded", !.run = FALSE].token = worker[w].token
      BY <2>1 DEF Copy
    <3>4. QED
      BY <3>1, <3>2, <3>3
  <2>8. QED
    BY <1>2, <2>2, <2>3, <2>4, <2>5, <2>6, <2>7 DEF WorkerStep
<1>3. QED
  BY <1>1, <1>2

\* A worker gets a pair of its own from a refresh only.
LEMMA NewlyRotated ==
    ASSUME WellTyped, [Next]_vars, NEW w \in Workers, worker'[w].pc = "rotated"
    PROVE  \/ worker[w].pc = "rotated" /\ worker'[w].next = worker[w].next
           \/ /\ Refresh(w) /\ worker'[w].next = Fresh
              /\ square.issued < MaxTokens /\ square' = Rotated(worker[w].token)
<1>1. CASE ~WorkerStep(w)
  BY <1>1, OtherCopiesKept
<1>2. CASE WorkerStep(w)
  <2>1. worker \in [Workers -> Copy] /\ worker[w] \in Copy
    BY DEF WellTyped
  <2>2. ~(Load(w) \/ Lease(w) \/ Crash(w))
    BY <2>1 DEF Load, Lease, Crash, NoCopy, Copy
  <2>3. ~(CheckExpiry(w) \/ Read(w) \/ Blame(w))
    BY <2>1 DEF CheckExpiry, Read, Blame, Copy
  <2>4. ~Store(w)
    BY <2>1, StoreWrites DEF Store, Copy
  <2>5. ~Release(w)
    <3>1. Release(w) => \/ worker'[w] = NoCopy
                        \/ worker'[w] = [worker[w] EXCEPT !.pc = "loaded", !.run = FALSE]
      BY <2>1 DEF Release
    <3>2. NoCopy.pc = "idle"
      BY DEF NoCopy
    <3>3. [worker[w] EXCEPT !.pc = "loaded", !.run = FALSE].pc = "loaded"
      BY <2>1 DEF Copy
    <3>4. QED
      BY <3>1, <3>2, <3>3
  <2>6. Refresh(w)
    BY <1>2, <2>2, <2>3, <2>4, <2>5 DEF WorkerStep
  <2>7. QED
    BY <2>1, <2>6 DEF Refresh, Copy
<1>3. QED
  BY <1>1, <1>2

\* A callback gets its pair from the exchange of its code.
LEMMA NewlyExchanged ==
    ASSUME WellTyped, [Next]_vars, NEW c \in Callbacks, callback'[c].pc = "exchanged"
    PROVE  \/ callback[c].pc = "exchanged" /\ callback'[c].token = callback[c].token
           \/ /\ Exchange(c) /\ callback'[c].token = Fresh
              /\ square.issued < MaxTokens /\ square' = Issued
<1>1. callback \in [Callbacks -> Callback] /\ callback[c] \in Callback
  BY DEF WellTyped
<1>2. CASE UNCHANGED callback
  BY <1>2
<1>3. ASSUME NEW b \in Callbacks, Save(b)
      PROVE  callback[c].pc = "exchanged" /\ callback'[c].token = callback[c].token
  BY <1>3, SaveWrites
<1>4. ASSUME NEW b \in Callbacks, SaveFails(b)
      PROVE  callback[c].pc = "exchanged" /\ callback'[c].token = callback[c].token
  <2>1. callback' = [callback EXCEPT ![b].pc = "idle"]
    BY <1>4 DEF SaveFails
  <2>2. c # b
    BY <1>1, <2>1 DEF Callback
  <2>3. QED
    BY <1>1, <2>1, <2>2
<1>5. ASSUME NEW b \in Callbacks, Exchange(b)
      PROVE  \/ callback[c].pc = "exchanged" /\ callback'[c].token = callback[c].token
             \/ /\ Exchange(c) /\ callback'[c].token = Fresh
                /\ square.issued < MaxTokens /\ square' = Issued
  BY <1>1, <1>5 DEF Exchange
<1>6. QED
  BY <1>2, <1>3, <1>4, <1>5
  DEF Next, WorkerStep, CallbackStep, DisconnectStep, vars, Load, Lease, CheckExpiry,
      Refresh, Store, Read, Blame, Release, Crash, Observe, Mark,
      Revoke, Delete, DisconnectFails, UndoImport, LeaseExpires, MerchantRevokes

\* A row that stands still was not stored to: what a refresh stores is new.
LEMMA NoStoreWithoutChange ==
    ASSUME GrantInv, conn' = conn, NEW w \in Workers, Store(w)
    PROVE  ~MayStore(w)
<1>1. WellTyped /\ PairsAreUnshared
  BY DEF GrantInv, TypeOK
<1>2. CASE MayStore(w)
  <2>1. worker[w].pc = "rotated" /\ conn'.token = worker[w].next
    BY <1>1, <1>2, StoreWrites
  <2>2. worker[w].next # conn.token
    BY <1>1, <2>1 DEF PairsAreUnshared, Private
  <2>3. QED
    BY <2>1, <2>2
<1>3. QED
  BY <1>2

\* A pair just issued is private to who asked for it.
LEMMA FreshIsPrivate ==
    ASSUME GrantInv, [Next]_vars, conn' = conn,
           NEW t, t = square.issued + 1, t \in square'.live
    PROVE  Private(t)'
<1>1. WellTyped /\ PairsInOrder /\ CopiesFollow
  BY DEF GrantInv, TypeOK
<1>2. square.issued \in Nat /\ conn.token \in Nat /\ conn.token <= square.issued
  BY <1>1, SquareGrows, StartTypes DEF PairsInOrder, WellTyped, Connection
<1>3. conn'.token # t
  BY <1>2
<1>4. ASSUME NEW w \in Workers PROVE worker'[w].token # t
  <2>1. worker[w].token \in Nat /\ worker[w].token <= square.issued
    BY <1>1, CopyNumbers DEF CopiesFollow, CopyFollows
  <2>2. worker'[w].token \in {worker[w].token, conn.token, 0}
    BY <1>1, CopiedPairs, NoStoreWithoutChange
  <2>3. QED
    BY <1>2, <2>1, <2>2
<1>5. QED
  BY <1>3, <1>4 DEF Private

\* A private pair stays so unless it is the one a callback saves or a worker
\* stores.
LEMMA UnspentStaysPrivate ==
    ASSUME GrantInv, [Next]_vars, NEW t, Private(t),
           \A c \in Callbacks : Save(c) => callback[c].token # t,
           \A w \in Workers : Store(w) /\ MayStore(w) => worker[w].next # t
    PROVE  Private(t)'
<1>1. WellTyped /\ PairsInOrder
  BY DEF GrantInv, TypeOK
<1>2. t # 0 /\ t # conn.token /\ \A w \in Workers : worker[w].token # t
  BY <1>1, SquareGrows DEF Private, PairsInOrder
<1>3. conn'.token # t
  BY <1>1, <1>2, RowPairChanges, SaveWrites, StoreWrites
<1>4. ASSUME NEW w \in Workers PROVE worker'[w].token # t
  <2>1. CASE Store(w) /\ MayStore(w)
    BY <1>1, <2>1, StoreWrites
  <2>2. CASE ~(Store(w) /\ MayStore(w))
    BY <1>1, <1>2, <2>2, CopiedPairs
  <2>3. QED
    BY <2>1, <2>2
<1>5. QED
  BY <1>1, <1>3, <1>4, PrivateStays

\* What a worker and a callback had to themselves before a step and still have.
LEMMA KeptSecrets ==
    ASSUME GrantInv, [Next]_vars
    PROVE  /\ \A w \in Workers :
                worker[w].pc = "rotated" /\ worker'[w].pc = "rotated"
                  => \A t : t = worker[w].next => Private(t)'
           /\ \A c \in Callbacks :
                callback[c].pc = "exchanged" /\ callback'[c].pc = "exchanged"
                  => \A t : t = callback[c].token => Private(t)'
<1>1. WellTyped /\ PairsAreUnshared
  BY DEF GrantInv, TypeOK
<1>2. ASSUME NEW w \in Workers, worker[w].pc = "rotated", worker'[w].pc = "rotated",
             NEW t, t = worker[w].next
      PROVE  Private(t)'
  <2>1. Private(t)
    BY <1>1, <1>2 DEF PairsAreUnshared
  <2>2. ASSUME NEW c \in Callbacks, Save(c) PROVE callback[c].token # t
    BY <1>1, <1>2, <2>2, SaveWrites DEF PairsAreUnshared
  <2>3. ASSUME NEW v \in Workers, Store(v), MayStore(v) PROVE worker[v].next # t
    <3>1. worker[v].pc = "rotated" /\ v # w
      BY <1>1, <1>2, <2>3, StoreWrites
    <3>2. QED
      BY <1>1, <1>2, <3>1 DEF PairsAreUnshared
  <2>4. QED
    BY <2>1, <2>2, <2>3, UnspentStaysPrivate
<1>3. ASSUME NEW c \in Callbacks, callback[c].pc = "exchanged",
             callback'[c].pc = "exchanged", NEW t, t = callback[c].token
      PROVE  Private(t)'
  <2>1. Private(t)
    BY <1>1, <1>3 DEF PairsAreUnshared
  <2>2. ASSUME NEW b \in Callbacks, Save(b) PROVE callback[b].token # t
    <3>1. callback[b].pc = "exchanged" /\ b # c
      BY <1>1, <1>3, <2>2, SaveWrites
    <3>2. QED
      BY <1>1, <1>3, <3>1 DEF PairsAreUnshared
  <2>3. ASSUME NEW v \in Workers, Store(v), MayStore(v) PROVE worker[v].next # t
    BY <1>1, <1>3, <2>3, StoreWrites DEF PairsAreUnshared
  <2>4. QED
    BY <2>1, <2>2, <2>3, UnspentStaysPrivate
<1>4. QED
  BY <1>2, <1>3

\* No pair gets to two processes: in one step at most one pair is issued, and
\* all the others were kept apart.
LEMMA UnsharedKept ==
    ASSUME GrantInv, [Next]_vars
    PROVE  PairsAreUnshared'
<1>0. /\ WellTyped /\ PairsInOrder /\ PairsAreUnshared
      /\ worker \in [Workers -> Copy] /\ callback \in [Callbacks -> Callback]
      /\ square.issued \in Nat
  BY SquareGrows DEF GrantInv, TypeOK, WellTyped
<1>1. CASE /\ \A w \in Workers : worker'[w].pc = "rotated" =>
                worker[w].pc = "rotated" /\ worker'[w].next = worker[w].next
           /\ \A c \in Callbacks : callback'[c].pc = "exchanged" =>
                callback[c].pc = "exchanged" /\ callback'[c].token = callback[c].token
  BY <1>0, <1>1, KeptSecrets DEF PairsAreUnshared
<1>2. ASSUME NEW w \in Workers, Refresh(w), worker'[w].pc = "rotated",
             worker'[w].next = Fresh, square.issued < MaxTokens,
             square' = Rotated(worker[w].token)
      PROVE  PairsAreUnshared'
  <2>1. /\ conn' = conn /\ callback' = callback
        /\ \A v \in Workers : v # w => worker'[v] = worker[v]
        /\ worker'[w].next = square.issued + 1
    BY <1>0, <1>2 DEF Refresh, Fresh
  <2>2. square.issued + 1 \in square'.live
    BY <1>0, <1>2 DEF Rotated, Fresh, WellTyped, Provider
  <2>3. \A t : t = worker'[w].next => Private(t)'
    BY <2>1, <2>2, FreshIsPrivate
  <2>4. /\ \A v \in Workers : worker[v].pc = "rotated" =>
             worker[v].next # square.issued + 1
        /\ \A c \in Callbacks : callback[c].pc = "exchanged" =>
             callback[c].token # square.issued + 1
    BY <1>0, SecretsAreIssued
  <2>5. QED
    BY <1>0, <2>1, <2>3, <2>4, KeptSecrets DEF PairsAreUnshared
<1>3. ASSUME NEW c \in Callbacks, Exchange(c), callback'[c].token = Fresh,
             square.issued < MaxTokens, square' = Issued
      PROVE  PairsAreUnshared'
  <2>1. /\ conn' = conn /\ worker' = worker
        /\ \A b \in Callbacks : b # c => callback'[b] = callback[b]
        /\ callback'[c].token = square.issued + 1
    BY <1>0, <1>3 DEF Exchange, Fresh
  <2>2. square.issued + 1 \in square'.live
    BY <1>0, <1>3 DEF Issued, Fresh, WellTyped, Provider
  <2>3. \A t : t = callback'[c].token => Private(t)'
    BY <2>1, <2>2, FreshIsPrivate
  <2>4. /\ \A v \in Workers : worker[v].pc = "rotated" =>
             worker[v].next # square.issued + 1
        /\ \A b \in Callbacks : callback[b].pc = "exchanged" =>
             callback[b].token # square.issued + 1
    BY <1>0, SecretsAreIssued
  <2>5. QED
    BY <1>0, <2>1, <2>3, <2>4, KeptSecrets DEF PairsAreUnshared
<1>4. QED
  BY <1>0, <1>1, <1>2, <1>3, NewlyRotated, NewlyExchanged

-----------------------------------------------------------------------------
(* Verdicts and dead pairs.                                                 *)

\* A connection that needs to be reconnected was asked to before, or is blamed
\* for a refusal of its own pair in this step.
LEMMA NewlyBlamed ==
    ASSUME WellTyped, [Next]_vars, conn'.status = "needs_reconnect"
    PROVE  \/ conn.status = "needs_reconnect" /\ saved' = saved
           \/ \E w \in Workers : Blame(w) /\ MayBlame(w) /\ saved' = saved
<1>0. conn \in Connection
  BY DEF WellTyped
<1>1. ASSUME NEW w \in Workers, WorkerStep(w)
      PROVE  /\ saved' = saved
             /\ conn.status = "needs_reconnect" \/ (Blame(w) /\ MayBlame(w))
  <2>1. CASE Blame(w)
    BY <2>1 DEF Blame
  <2>2. CASE ~Blame(w)
    BY <1>0, <1>1, <2>2
    DEF WorkerStep, Load, Lease, CheckExpiry, Refresh, Store, Read, Release, Crash,
        Connection
  <2>3. QED
    BY <2>1, <2>2
<1>2. ASSUME NEW c \in Callbacks, Save(c) PROVE FALSE
  BY <1>2, SaveWrites
<1>3. ASSUME NEW d \in Disconnects, DisconnectStep(d)
      PROVE  saved' = saved /\ conn.status = "needs_reconnect"
  BY <1>0, <1>3
  DEF DisconnectStep, Observe, Mark, Revoke, Delete, DisconnectFails, Connection
<1>4. CASE \/ \E c \in Callbacks : Exchange(c) \/ SaveFails(c)
           \/ UndoImport \/ LeaseExpires \/ MerchantRevokes \/ UNCHANGED vars
  BY <1>0, <1>4
  DEF Exchange, SaveFails, UndoImport, LeaseExpires, MerchantRevokes, vars, Connection
<1>5. QED
  BY <1>1, <1>2, <1>3, <1>4 DEF Next, CallbackStep

\* A verdict is about a dead pair of the grant in place.
LEMMA VerdictKept ==
    ASSUME GrantInv, [Next]_vars
    PROVE  VerdictOnOwnGrant'
<1>1. WellTyped /\ PairsInOrder /\ CopiesFollow /\ VerdictOnOwnGrant
  BY DEF GrantInv, TypeOK
<1>2. ASSUME NEW t \in 1 .. square.issued, square.grant[t] = saved,
             t \notin square.live, saved' = saved
      PROVE  VerdictOnOwnGrant'
  <2>1. /\ t \in 1 .. square'.issued /\ t \notin square'.live
        /\ square'.grant[t] = saved'
    BY <1>1, <1>2, SquareGrows
  <2>2. QED
    BY <2>1 DEF VerdictOnOwnGrant
<1>3. CASE conn.status = "needs_reconnect" /\ saved' = saved
  BY <1>1, <1>2, <1>3 DEF VerdictOnOwnGrant
<1>4. ASSUME NEW w \in Workers, Blame(w), MayBlame(w), saved' = saved
      PROVE  VerdictOnOwnGrant'
  <2>1. worker[w].pc = "refused" /\ Own(w)
    BY <1>4 DEF Blame, MayBlame
  <2>2. /\ worker[w].token > 0 /\ worker[w].token <= square.issued
        /\ worker[w].token \notin square.live
        /\ square.grant[worker[w].token] = saved
    BY <1>1, <2>1 DEF CopiesFollow, CopyFollows
  <2>3. worker[w].token \in 1 .. square.issued
    BY <1>1, <2>2, CopyNumbers, SquareGrows
  <2>4. QED
    BY <1>2, <1>4, <2>2, <2>3
<1>5. CASE conn'.status # "needs_reconnect"
  BY <1>5 DEF VerdictOnOwnGrant
<1>6. QED
  BY <1>1, <1>3, <1>4, <1>5, NewlyBlamed

\* A worker that has rotated a pair keeps it, stores it, or loses it on record.
LEMMA RotationsAccounted ==
    ASSUME WellTyped, [Next]_vars
    PROVE  /\ lost \subseteq lost'
           /\ \A w \in Workers : worker[w].pc = "rotated" =>
                \/ worker'[w].pc = "rotated" /\ worker'[w].token = worker[w].token
                \/ worker[w].token \in lost'
                \/ Store(w) /\ MayStore(w)
<1>0. worker \in [Workers -> Copy] /\ lost \in SUBSET Token
  BY DEF WellTyped
<1>1. lost \subseteq lost'
  BY <1>0
  DEF Next, WorkerStep, CallbackStep, DisconnectStep, vars, Load, Lease, CheckExpiry,
      Refresh, Store, Read, Blame, Release, Crash, Exchange, Save, SaveFails, Observe,
      Mark, Revoke, Delete, DisconnectFails, UndoImport, LeaseExpires, MerchantRevokes
<1>2. ASSUME NEW w \in Workers, worker[w].pc = "rotated"
      PROVE  \/ worker'[w].pc = "rotated" /\ worker'[w].token = worker[w].token
             \/ worker[w].token \in lost'
             \/ Store(w) /\ MayStore(w)
  <2>1. CASE ~WorkerStep(w)
    BY <1>2, <2>1, OtherCopiesKept
  <2>2. CASE WorkerStep(w)
    <3>1. Store(w) \/ Crash(w)
      BY <1>2, <2>2
      DEF WorkerStep, Load, Lease, CheckExpiry, Refresh, Read, Blame, Release
    <3>2. QED
      BY <1>2, <3>1 DEF Store, Crash
  <2>3. QED
    BY <2>1, <2>2
<1>3. QED
  BY <1>1, <1>2

\* A pair whose refresh succeeded at Square is on its way or on record as lost.
LEMMA RefreshAccounted ==
    ASSUME WellTyped, NEW w \in Workers, Refresh(w), worker[w].token \in square.live
    PROVE  \/ worker'[w].pc = "rotated" /\ worker'[w].token = worker[w].token
           \/ worker[w].token \in lost'
<1>1. worker \in [Workers -> Copy] /\ worker[w] \in Copy
  BY DEF WellTyped
<1>2. \/ worker'[w] = [worker[w] EXCEPT !.pc = "rotated", !.next = Fresh]
      \/ worker[w].token \in lost'
  BY <1>1 DEF Refresh
<1>3. [worker[w] EXCEPT !.pc = "rotated", !.next = Fresh].token = worker[w].token
      /\ [worker[w] EXCEPT !.pc = "rotated", !.next = Fresh].pc = "rotated"
  BY <1>1 DEF Copy
<1>4. QED
  BY <1>2, <1>3

\* A dead pair in the row stays accounted for.
LEMMA DeadKept ==
    ASSUME GrantInv, [Next]_vars
    PROVE  DeadTokensExplained'
<1>1. /\ WellTyped /\ PairsInOrder /\ RowHoldsPair /\ PairsAreUnshared
      /\ DeadTokensExplained
  BY DEF GrantInv, TypeOK
<1>2. CASE conn'.token = conn.token /\ (conn'.status # "none" => conn.status # "none")
           /\ ~(\E w \in Workers : Store(w) /\ MayStore(w))
  <2>1. SUFFICES ASSUME conn'.status # "none", conn'.token \notin square'.live
                 PROVE  \/ conn'.token \in square'.revoked
                        \/ conn'.token \in lost'
                        \/ \E w \in Workers :
                             worker'[w].pc = "rotated" /\ worker'[w].token = conn'.token
    BY DEF DeadTokensExplained
  <2>2. CASE conn.token \in square.live
    <3>1. \/ conn.token \in square'.revoked
          \/ \E w \in Workers : Refresh(w) /\ worker[w].token = conn.token
      BY <1>1, <1>2, <2>1, <2>2, PairsDieKnowingly
    <3>2. QED
      BY <1>1, <1>2, <2>2, <3>1, RefreshAccounted
  <2>3. CASE conn.token \notin square.live
    <3>1. \/ conn.token \in square.revoked
          \/ conn.token \in lost
          \/ \E w \in Workers :
               worker[w].pc = "rotated" /\ worker[w].token = conn.token
      BY <1>1, <1>2, <2>1, <2>3 DEF DeadTokensExplained
    <3>2. QED
      BY <1>1, <1>2, <3>1, SquareGrows, RotationsAccounted
  <2>4. QED
    BY <2>2, <2>3
<1>3. ASSUME NEW t, Private(t), conn'.token = t, square' = square
      PROVE  DeadTokensExplained'
  BY <1>3 DEF Private, DeadTokensExplained
<1>4. ASSUME NEW c \in Callbacks, Save(c) PROVE DeadTokensExplained'
  BY <1>1, <1>3, <1>4, SaveWrites DEF PairsAreUnshared
<1>5. ASSUME NEW w \in Workers, Store(w), MayStore(w) PROVE DeadTokensExplained'
  BY <1>1, <1>3, <1>5, StoreWrites DEF PairsAreUnshared
<1>6. QED
  BY <1>1, <1>2, <1>4, <1>5, RowPairChanges

-----------------------------------------------------------------------------
(* The theorems.                                                            *)

\* Nothing has been issued, copied or stored yet.
LEMMA InitGrantInv == ASSUME Init PROVE GrantInv
<1>1. WellTyped
  BY InitIsWellTyped
<1>2. /\ conn.status = "none" /\ conn.row = 0 /\ conn.gen = 0 /\ conn.token = 0
      /\ square.issued = 0 /\ square.live = {} /\ square.revoked = {}
      /\ \A c \in Callbacks : callback[c].pc = "idle"
      /\ \A w \in Workers :
           /\ worker[w].pc = "idle" /\ worker[w].row = 0
           /\ worker[w].gen = 0 /\ worker[w].token = 0
  BY DEF Init, NoCopy
<1>3. RowHoldsPair /\ DeadTokensExplained /\ ReplacementSticks /\ VerdictOnOwnGrant
  BY <1>2 DEF RowHoldsPair, DeadTokensExplained, ReplacementSticks, VerdictOnOwnGrant
<1>4. PairsInOrder /\ CopiesFollow
  BY <1>2 DEF PairsInOrder, CopiesFollow, CopyFollows
<1>5. PairsAreUnshared
  BY <1>2 DEF PairsAreUnshared
<1>6. QED
  BY <1>1, <1>3, <1>4, <1>5 DEF GrantInv, TypeOK

\* GrantInv, the inductive invariant: the numbering of Square's pairs, the
\* workers' copies and the secrecy of unsaved pairs carry the rest.
THEOREM GrantInvariant == Spec => []GrantInv
<1>1. Init => GrantInv
  BY InitGrantInv
<1>2. GrantInv /\ [Next]_vars => GrantInv'
  <2>1. SUFFICES ASSUME GrantInv, [Next]_vars PROVE GrantInv'
    OBVIOUS
  <2>2. WellTyped'
    BY <2>1, NextKeepsTypes DEF GrantInv, TypeOK
  <2>3. QED
    BY <2>1, <2>2, OrderKept, CopiesKeepFollowing, UnsharedKept, DeadKept, GrantKept,
       VerdictKept
    DEF GrantInv, TypeOK
<1>3. QED
  BY <1>1, <1>2, PTL DEF Spec

\* The variables keep their types, and a row always holds a pair Square issued.
THEOREM GrantTypeCorrect == Spec => []TypeOK
<1>1. GrantInv => TypeOK
  BY DEF GrantInv
<1>2. QED
  BY <1>1, GrantInvariant, PTL

\* However many workers refresh, a rotation of an old credential never
\* overwrites the one a reconnect saved.
THEOREM ReplacementsStick == Spec => []ReplacementSticks
<1>1. GrantInv => ReplacementSticks
  BY DEF GrantInv
<1>2. QED
  BY <1>1, GrantInvariant, PTL

\* The owner is never asked to reconnect because of a credential that was
\* already replaced.
THEOREM VerdictsAreOwn == Spec => []VerdictOnOwnGrant
<1>1. GrantInv => VerdictOnOwnGrant
  BY DEF GrantInv
<1>2. QED
  BY <1>1, GrantInvariant, PTL

\* A connection holds a pair Square no longer refreshes only for a revocation,
\* a rotation still on its way, or one lost on record.
THEOREM DeadTokensAreExplained == Spec => []DeadTokensExplained
<1>1. GrantInv => DeadTokensExplained
  BY DEF GrantInv
<1>2. QED
  BY <1>1, GrantInvariant, PTL

-----------------------------------------------------------------------------
(* Disconnects.                                                             *)

\* No disconnect is ahead of the row.
MarkInv ==
    /\ MarkedRowStays
    /\ \A d \in Disconnects : disc[d].row <= conn.row

\* Every step but a save of a marked row, which is refused, leaves a row that
\* is disconnecting as it is or deletes it.
LEMMA MarkLasts ==
    ASSUME WellTyped, [Next]_vars, conn.status = "disconnecting",
           conn'.row = conn.row, conn'.status # "none"
    PROVE  conn'.status = "disconnecting" /\ conn'.gen = conn.gen
<1>0. conn \in Connection
  BY DEF WellTyped
<1>1. ASSUME NEW w \in Workers, WorkerStep(w)
      PROVE  conn'.status = conn.status /\ conn'.gen = conn.gen
  BY <1>0, <1>1
  DEF WorkerStep, Load, Lease, CheckExpiry, Refresh, Store, MayStore, Read, Blame,
      MayBlame, Release, Crash, Connection
<1>2. \A c \in Callbacks : ~Save(c)
  BY DEF Save, SaveAllowed
<1>3. ASSUME NEW d \in Disconnects, DisconnectStep(d)
      PROVE  conn' = conn \/ conn'.status = "none"
  BY <1>0, <1>3
  DEF DisconnectStep, Observe, Mark, Revoke, Delete, DisconnectFails, Connection
<1>4. CASE \/ \E c \in Callbacks : Exchange(c) \/ SaveFails(c)
           \/ UndoImport \/ LeaseExpires \/ MerchantRevokes \/ UNCHANGED vars
  BY <1>0, <1>4
  DEF Exchange, SaveFails, UndoImport, LeaseExpires, MerchantRevokes, vars, Connection
<1>5. QED
  BY <1>1, <1>2, <1>3, <1>4 DEF Next, CallbackStep

\* A deleted row is not used again: what is saved next is a row of its own.
LEMMA NextRowIsNew ==
    ASSUME WellTyped, [Next]_vars, conn.status = "none", conn'.status # "none"
    PROVE  conn'.row = conn.row + 1
<1>0. conn \in Connection
  BY DEF WellTyped
<1>1. ASSUME NEW w \in Workers, WorkerStep(w) PROVE FALSE
  BY <1>0, <1>1
  DEF WorkerStep, Load, Lease, Own, Unchanged, CheckExpiry, Refresh, Store, MayStore,
      Read, Blame, MayBlame, Release, Crash, Connection
<1>2. ASSUME NEW c \in Callbacks, Save(c) PROVE conn'.row = conn.row + 1
  BY <1>2 DEF Save
<1>3. ASSUME NEW d \in Disconnects, DisconnectStep(d) PROVE FALSE
  BY <1>0, <1>3
  DEF DisconnectStep, Observe, Mark, Unchanged, Revoke, Delete, MayDelete,
      DisconnectFails, Connection
<1>4. CASE \/ \E c \in Callbacks : Exchange(c) \/ SaveFails(c)
           \/ UndoImport \/ LeaseExpires \/ MerchantRevokes \/ UNCHANGED vars
  BY <1>0, <1>4
  DEF Exchange, SaveFails, UndoImport, LeaseExpires, MerchantRevokes, vars, Connection
<1>5. QED
  BY <1>1, <1>2, <1>3, <1>4 DEF Next, CallbackStep

\* A disconnect on its way was there before, or it has just marked the row.
LEMMA DisconnectMoves ==
    ASSUME WellTyped, [Next]_vars, NEW d \in Disconnects
    PROVE  /\ disc'[d].row \in {disc[d].row, conn.row}
           /\ disc'[d].pc \in {"revoking", "deleting"} =>
                \/ /\ disc[d].pc \in {"revoking", "deleting"}
                   /\ disc'[d].row = disc[d].row /\ disc'[d].gen = disc[d].gen
                \/ /\ disc'[d].row = conn.row /\ disc'[d].gen = conn'.gen
                   /\ conn'.row = conn.row /\ conn'.status = "disconnecting"
<1>0. disc \in [Disconnects -> Disconnect] /\ disc[d] \in Disconnect
      /\ conn \in Connection
  BY DEF WellTyped
<1>1. CASE disc' = disc
  BY <1>1
<1>2. ASSUME NEW e \in Disconnects, e # d, DisconnectStep(e) PROVE disc'[d] = disc[d]
  BY <1>0, <1>2
  DEF DisconnectStep, Observe, Mark, Revoke, Delete, DisconnectFails
<1>3. ASSUME Mark(d)
      PROVE  /\ disc'[d].row = disc[d].row /\ disc[d].row = conn.row
             /\ disc'[d].gen = conn'.gen
             /\ conn'.row = conn.row /\ conn'.status = "disconnecting"
  <2>1. disc[d].row = conn.row
    BY <1>3 DEF Mark, Unchanged
  <2>2. disc'[d] = [disc[d] EXCEPT !.pc = "revoking", !.gen = conn'.gen]
    BY <1>0, <1>3 DEF Mark
  <2>3. disc'[d].row = disc[d].row /\ disc'[d].gen = conn'.gen
    BY <1>0, <2>2 DEF Disconnect
  <2>4. conn'.row = conn.row /\ conn'.status = "disconnecting"
    BY <1>0, <1>3 DEF Mark, Connection
  <2>5. QED
    BY <2>1, <2>3, <2>4
<1>4. ASSUME Observe(d) \/ Revoke(d) \/ Delete(d) \/ DisconnectFails(d)
      PROVE  /\ disc'[d].row \in {disc[d].row, conn.row}
             /\ disc'[d].pc \in {"revoking", "deleting"} =>
                  /\ disc[d].pc \in {"revoking", "deleting"}
                  /\ disc'[d].row = disc[d].row /\ disc'[d].gen = disc[d].gen
  BY <1>0, <1>4 DEF Observe, Revoke, Delete, DisconnectFails, Disconnect
<1>5. CASE \E w \in Workers : WorkerStep(w)
  BY <1>1, <1>5
  DEF WorkerStep, Load, Lease, CheckExpiry, Refresh, Store, Read, Blame, Release, Crash
<1>6. CASE \/ \E c \in Callbacks : CallbackStep(c)
           \/ UndoImport \/ LeaseExpires \/ MerchantRevokes \/ UNCHANGED vars
  BY <1>1, <1>6
  DEF CallbackStep, Exchange, Save, SaveFails, UndoImport, LeaseExpires,
      MerchantRevokes, vars
<1>7. QED
  BY <1>1, <1>2, <1>3, <1>4, <1>5, <1>6 DEF Next, DisconnectStep

\* The row a disconnect marked stays as it marked it until it is deleted: no
\* reconnect, late refresh or other disconnect changes it on the way.
THEOREM MarkedRowsStay == Spec => []MarkedRowStays
<1>1. Init => MarkInv
  <2>1. SUFFICES ASSUME Init PROVE MarkInv
    OBVIOUS
  <2>2. \A d \in Disconnects : disc[d].pc = "idle" /\ disc[d].row = 0
    BY <2>1 DEF Init
  <2>3. conn.row = 0
    BY <2>1 DEF Init
  <2>4. QED
    BY <2>2, <2>3 DEF MarkInv, MarkedRowStays
<1>2. TypeOK /\ MarkInv /\ [Next]_vars => MarkInv'
  <2>1. SUFFICES ASSUME WellTyped, MarkInv, [Next]_vars PROVE MarkInv'
    BY DEF TypeOK
  <2>2. conn.row \in Nat /\ \A d \in Disconnects : disc[d].row \in Nat
    BY <2>1 DEF WellTyped, Connection, Disconnect
  <2>3. WellTyped' /\ conn'.row \in Nat
    BY <2>1, NextKeepsTypes DEF WellTyped, Connection
  <2>4. conn'.row >= conn.row
    BY <2>1, RowMovesOn
  <2>5. \A d \in Disconnects : disc'[d].row <= conn'.row
    BY <2>1, <2>2, <2>3, <2>4, DisconnectMoves DEF MarkInv
  <2>6. ASSUME NEW d \in Disconnects, disc'[d].pc \in {"revoking", "deleting"},
               conn'.status # "none", conn'.row = disc'[d].row
        PROVE  conn'.status = "disconnecting" /\ conn'.gen = disc'[d].gen
    <3>1. CASE /\ disc'[d].row = conn.row /\ disc'[d].gen = conn'.gen
               /\ conn'.row = conn.row /\ conn'.status = "disconnecting"
      BY <3>1
    <3>2. CASE /\ disc[d].pc \in {"revoking", "deleting"}
               /\ disc'[d].row = disc[d].row /\ disc'[d].gen = disc[d].gen
      <4>1. disc[d].row <= conn.row /\ conn'.row = conn.row
        BY <2>1, <2>2, <2>3, <2>4, <2>6, <3>2 DEF MarkInv
      <4>2. conn.status # "none"
        BY <2>1, <2>2, <2>6, <4>1, NextRowIsNew
      <4>3. conn.status = "disconnecting" /\ conn.gen = disc[d].gen
        BY <2>1, <2>6, <3>2, <4>1, <4>2 DEF MarkInv, MarkedRowStays
      <4>4. QED
        BY <2>1, <2>6, <3>2, <4>1, <4>3, MarkLasts
    <3>3. QED
      BY <2>1, <2>6, <3>1, <3>2, DisconnectMoves
  <2>7. QED
    BY <2>5, <2>6 DEF MarkInv, MarkedRowStays
<1>3. MarkInv => MarkedRowStays
  BY DEF MarkInv
<1>4. QED
  BY <1>1, <1>2, <1>3, GrantTypeCorrect, PTL DEF Spec
=============================================================================
