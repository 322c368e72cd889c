---------------------------- MODULE SquareGrant ----------------------------
(***************************************************************************)
(* Who may use, rotate, replace and revoke a workspace's Square grant:     *)
(* the OAuth callback (integrations/pos_oauth.py), disconnect-pos          *)
(* (domains/sales/connections.py), the workers' token refresh              *)
(* (integrations/pos_sync.py) and Square itself, for one merchant.         *)
(*                                                                         *)
(* PosSync keeps the queue and one abstract credential; here the queue is  *)
(* only "some worker serves the connection", and every call to Square is a *)
(* step of its own between the transactions around it.  A pair of access   *)
(* and refresh tokens is one number.  Square accepts a pair's refresh      *)
(* token once: the refresh answers with a new pair.  A revocation is by    *)
(* merchant and ends every pair issued so far.                             *)
(***************************************************************************)
EXTENDS Naturals, FiniteSets

CONSTANTS
    Workers,        \* POS worker processes
    Callbacks,      \* OAuth callback requests
    Disconnects,    \* disconnect-pos requests
    NoWorker,       \* NULL of sync_lease_token
    MaxTokens,      \* bound: token pairs Square issues
    MaxRows,        \* bound: connection rows ever created
    MaxGeneration   \* bound: credential generations of one row

ASSUME GrantAssumption ==
    /\ NoWorker \notin Workers
    /\ {MaxTokens, MaxRows, MaxGeneration} \subseteq Nat

VARIABLES
    conn,       \* the workspace's Square connection row
    square,     \* pairs issued, still refreshable, and revoked; their grants
    callback,   \* each OAuth callback's place and the pair it was given
    disc,       \* each disconnect's place and the row it observed
    worker,     \* each worker's place and its copy of the row
    saved,      \* history: the grant last saved
    lost        \* history: refreshed pairs whose successor was never stored

vars == <<conn, square, callback, disc, worker, saved, lost>>

Status == {"none", "active", "needs_reconnect", "disconnecting"}
Token == 0 .. MaxTokens

Connection ==
    [row : Nat, status : Status, gen : Nat, token : Token,
     lease : Workers \cup {NoWorker}]

Provider ==
    [issued : Token, live : SUBSET Token, revoked : SUBSET Token,
     grant : [Token -> Token]]

Callback == [pc : {"idle", "exchanged"}, token : Token]

Disconnect ==
    [pc : {"idle", "observed", "revoking", "deleting"}, row : Nat, gen : Nat]

Copy ==
    [pc : {"idle", "loaded", "leased", "refreshing", "rotated", "refused",
           "reading", "releasing"},
     row : Nat, gen : Nat, token : Token, next : Token, run : BOOLEAN]

WellTyped ==
    /\ conn \in Connection
    /\ square \in Provider
    /\ callback \in [Callbacks -> Callback]
    /\ disc \in [Disconnects -> Disconnect]
    /\ worker \in [Workers -> Copy]
    /\ saved \in Token
    /\ lost \in SUBSET Token

\* A row always holds a pair that Square issued.
RowHoldsPair == conn.status # "none" => conn.token \in 1 .. square.issued

TypeOK == WellTyped /\ RowHoldsPair

NoCopy == [pc |-> "idle", row |-> 0, gen |-> 0, token |-> 0, next |-> 0,
           run |-> FALSE]

Init ==
    /\ conn = [row |-> 0, status |-> "none", gen |-> 0, token |-> 0,
               lease |-> NoWorker]
    /\ square = [issued |-> 0, live |-> {}, revoked |-> {},
                 grant |-> [t \in Token |-> 0]]
    /\ callback = [c \in Callbacks |-> [pc |-> "idle", token |-> 0]]
    /\ disc = [d \in Disconnects |-> [pc |-> "idle", row |-> 0, gen |-> 0]]
    /\ worker = [w \in Workers |-> NoCopy]
    /\ saved = 0
    /\ lost = {}

-----------------------------------------------------------------------------
(* Square.                                                                  *)

Fresh == square.issued + 1

\* An authorization code is exchanged: a pair of a new grant.
Issued ==
    [square EXCEPT !.issued = Fresh, !.live = @ \cup {Fresh},
                   !.grant[Fresh] = Fresh]

\* A refresh token is used: a new pair of the same grant replaces it.
Rotated(t) ==
    [square EXCEPT !.issued = Fresh, !.live = (@ \ {t}) \cup {Fresh},
                   !.grant[Fresh] = square.grant[t]]

Revoked ==
    [square EXCEPT !.live = {}, !.revoked = 1 .. square.issued]

\* The merchant withdraws the app's access in Square's own dashboard.
MerchantRevokes ==
    /\ square' = Revoked
    /\ UNCHANGED <<conn, callback, disc, worker, saved, lost>>

-----------------------------------------------------------------------------
(* The OAuth callback: exchange the code, then save_connection.             *)

Exchange(c) ==
    /\ callback[c].pc = "idle"
    /\ square.issued < MaxTokens
    /\ square' = Issued
    /\ callback' = [callback EXCEPT ![c] = [pc |-> "exchanged", token |-> Fresh]]
    /\ UNCHANGED <<conn, disc, worker, saved, lost>>

\* Mutant of SaveAllowed: a reconnect takes any row over.
SaveAnyRow == TRUE

\* save_connection refuses a row that is disconnecting.
SaveAllowed == conn.status # "disconnecting"

Save(c) ==
    /\ callback[c].pc = "exchanged"
    /\ SaveAllowed
    /\ \/ /\ conn.status = "none"
          /\ conn.row < MaxRows
          /\ conn' = [row |-> conn.row + 1, status |-> "active", gen |-> 1,
                      token |-> callback[c].token, lease |-> NoWorker]
       \/ /\ conn.status # "none"
          /\ conn.gen < MaxGeneration
          /\ conn' = [conn EXCEPT !.gen = @ + 1, !.status = "active",
                                  !.token = callback[c].token,
                                  !.lease = NoWorker]
    /\ saved' = square.grant[callback[c].token]
    /\ callback' = [callback EXCEPT ![c].pc = "idle"]
    /\ UNCHANGED <<square, disc, worker, lost>>

\* The locations cannot be listed, the save is refused, or the request dies.
SaveFails(c) ==
    /\ callback[c].pc = "exchanged"
    /\ callback' = [callback EXCEPT ![c].pc = "idle"]
    /\ UNCHANGED <<conn, square, disc, worker, saved, lost>>

-----------------------------------------------------------------------------
(* disconnect-pos: read the row, mark it, revoke at Square, delete it.      *)

Observe(d) ==
    /\ disc[d].pc = "idle"
    /\ conn.status # "none"
    /\ disc' = [disc EXCEPT ![d] = [pc |-> "observed", row |-> conn.row,
                                    gen |-> conn.gen]]
    /\ UNCHANGED <<conn, square, callback, worker, saved, lost>>

Unchanged(x) == conn.status # "none" /\ conn.row = x.row /\ conn.gen = x.gen

\* A row already disconnecting is taken over as it is.
Mark(d) ==
    /\ disc[d].pc = "observed"
    /\ Unchanged(disc[d])
    /\ IF conn.status = "disconnecting" THEN UNCHANGED conn
       ELSE /\ conn.gen < MaxGeneration
            /\ conn' = [conn EXCEPT !.gen = @ + 1, !.status = "disconnecting",
                                    !.lease = NoWorker]
    /\ disc' = [disc EXCEPT ![d] = [@ EXCEPT !.pc = "revoking", !.gen = conn'.gen]]
    /\ UNCHANGED <<square, callback, worker, saved, lost>>

\* Best effort: a failed revocation does not block the disconnect.
Revoke(d) ==
    /\ disc[d].pc = "revoking"
    /\ square' \in {square, Revoked}
    /\ disc' = [disc EXCEPT ![d].pc = "deleting"]
    /\ UNCHANGED <<conn, callback, worker, saved, lost>>

MayDelete(d) == Unchanged(disc[d]) /\ conn.status = "disconnecting"

Delete(d) ==
    /\ disc[d].pc = "deleting"
    /\ MayDelete(d)
    /\ conn' = [conn EXCEPT !.status = "none"]
    /\ disc' = [disc EXCEPT ![d].pc = "idle"]
    /\ UNCHANGED <<square, callback, worker, saved, lost>>

\* Another request got there first, or this one dies on its way.
DisconnectFails(d) ==
    /\ disc[d].pc # "idle"
    /\ disc' = [disc EXCEPT ![d].pc = "idle"]
    /\ UNCHANGED <<conn, square, callback, worker, saved, lost>>

-----------------------------------------------------------------------------
(* A worker: claim the connection's run and read the row, lease it,         *)
(* refresh, read sales, release; then the same again with the same copy of  *)
(* the row, without a run, to decorate the catalogue.                       *)

\* Guarded writes go through the row and generation the worker read.
Own(w) == Unchanged(worker[w])

\* One run of a generation is active at a time, and one worker claims it.
Load(w) ==
    /\ worker[w].pc = "idle"
    /\ conn.status = "active"
    /\ \A v \in Workers : ~(worker[v].run /\ Own(v))
    /\ worker' = [worker EXCEPT ![w] =
         [pc |-> "loaded", row |-> conn.row, gen |-> conn.gen,
          token |-> conn.token, next |-> 0, run |-> TRUE]]
    /\ UNCHANGED <<conn, square, callback, disc, saved, lost>>

Lease(w) ==
    /\ worker[w].pc = "loaded"
    /\ IF Own(w) /\ conn.status = "active" /\ conn.lease = NoWorker
       THEN /\ conn' = [conn EXCEPT !.lease = w]
            /\ worker' = [worker EXCEPT ![w].pc = "leased"]
       ELSE /\ worker' = [worker EXCEPT ![w] = NoCopy]
            /\ UNCHANGED conn
    /\ UNCHANGED <<square, callback, disc, saved, lost>>

\* Mutant of Refresh: a refresh whose answer is lost is sent once more.
RefreshRetried(w) ==
    /\ worker[w].pc = "refreshing"
    /\ \/ /\ worker[w].token \in square.live
          /\ square.issued < MaxTokens
          /\ square' = Rotated(worker[w].token)
          /\ worker' \in {[worker EXCEPT ![w] = [@ EXCEPT !.pc = "rotated", !.next = Fresh]],
                          [worker EXCEPT ![w].pc = "refused"]}
          /\ UNCHANGED lost
       \/ /\ worker[w].token \notin square.live
          /\ worker' = [worker EXCEPT ![w].pc = "refused"]
          /\ UNCHANGED <<square, lost>>
    /\ UNCHANGED <<conn, callback, disc, saved>>

\* ensure_fresh_square_token near expiry.  Square's answer may be lost after
\* the rotation: a transient failure, and the new pair with it.
Refresh(w) ==
    /\ worker[w].pc = "refreshing"
    /\ \/ /\ worker[w].token \in square.live
          /\ square.issued < MaxTokens
          /\ square' = Rotated(worker[w].token)
          /\ \/ /\ worker' = [worker EXCEPT ![w] =
                     [@ EXCEPT !.pc = "rotated", !.next = Fresh]]
                /\ UNCHANGED lost
             \/ /\ worker' = [worker EXCEPT ![w].pc = "releasing"]
                /\ lost' = lost \cup {worker[w].token}
       \/ /\ worker[w].token \notin square.live
          /\ worker' = [worker EXCEPT ![w].pc = "refused"]
          /\ UNCHANGED <<square, lost>>
    /\ UNCHANGED <<conn, callback, disc, saved>>

\* The access token is near expiry and has to be refreshed, or it is not and
\* is used as it is.
CheckExpiry(w) ==
    /\ worker[w].pc = "leased"
    /\ \E pc \in {"refreshing", "reading"} :
         worker' = [worker EXCEPT ![w].pc = pc]
    /\ UNCHANGED <<conn, square, callback, disc, saved, lost>>

\* Mutant of MayStore: the refreshed pair is written to whatever row is there.
MayStoreAny(w) == conn.status = "active"

MayStore(w) ==
    Own(w) /\ conn.status = "active" /\ conn.token = worker[w].token

\* What the row holds after the refresh.
NextPair(w) == worker[w].next

Store(w) ==
    /\ worker[w].pc = "rotated"
    /\ IF MayStore(w)
       THEN /\ conn' = [conn EXCEPT !.token = NextPair(w)]
            /\ worker' = [worker EXCEPT ![w] =
                 [@ EXCEPT !.pc = "reading", !.token = NextPair(w)]]
            /\ UNCHANGED lost
       ELSE /\ worker' = [worker EXCEPT ![w].pc = "releasing"]
            /\ lost' = lost \cup {worker[w].token}
            /\ UNCHANGED conn
    /\ UNCHANGED <<square, callback, disc, saved>>

\* A page of orders or of the catalogue: read, or refused for a dead grant.
Read(w) ==
    /\ worker[w].pc = "reading"
    /\ worker' = [worker EXCEPT ![w].pc =
         IF worker[w].token \in square.revoked THEN "refused" ELSE "releasing"]
    /\ UNCHANGED <<conn, square, callback, disc, saved, lost>>

\* Mutant of MayBlame: the verdict is written by row id alone.
MayBlameRow(w) == conn.row = worker[w].row /\ conn.status = "active"

MayBlame(w) == Own(w) /\ conn.status = "active"

\* SquareGrantRevoked: the connection needs to be reconnected.
Blame(w) ==
    /\ worker[w].pc = "refused"
    /\ conn' = IF MayBlame(w)
               THEN [conn EXCEPT !.status = "needs_reconnect"] ELSE conn
    /\ worker' = [worker EXCEPT ![w].pc = "releasing"]
    /\ UNCHANGED <<square, callback, disc, saved, lost>>

\* The pass commits or unwinds and gives the lease back; a worker that
\* finished its run goes on to decorate with the copy it has.
Release(w) ==
    /\ worker[w].pc = "releasing"
    /\ conn' = IF Own(w) /\ conn.lease = w
               THEN [conn EXCEPT !.lease = NoWorker] ELSE conn
    /\ worker' \in
         {[worker EXCEPT ![w] = NoCopy],
          [worker EXCEPT ![w] = IF worker[w].run
             THEN [@ EXCEPT !.pc = "loaded", !.run = FALSE] ELSE NoCopy]}
    /\ UNCHANGED <<square, callback, disc, saved, lost>>

\* The process dies.  A pair it had not stored yet dies with it.
Crash(w) ==
    /\ worker[w].pc # "idle"
    /\ lost' = IF worker[w].pc = "rotated"
               THEN lost \cup {worker[w].token} ELSE lost
    /\ worker' = [worker EXCEPT ![w] = NoCopy]
    /\ UNCHANGED <<conn, square, callback, disc, saved>>

-----------------------------------------------------------------------------
\* undo-sales-import cancels the run and clears the lease, and leaves the
\* generation and the worker's call to Square as they are.
UndoImport ==
    /\ conn.status # "none"
    /\ conn' = [conn EXCEPT !.lease = NoWorker]
    /\ worker' = [w \in Workers |-> [worker[w] EXCEPT !.run = @ /\ ~Own(w)]]
    /\ UNCHANGED <<square, callback, disc, saved, lost>>

InLease(w) ==
    worker[w].pc \in {"leased", "refreshing", "rotated", "refused", "reading",
                      "releasing"}

\* SYNC_LEASE_TIMEOUT, longer than any pass: only a dead worker's lease ends.
LeaseExpires ==
    /\ conn.lease \in Workers
    /\ ~InLease(conn.lease)
    /\ conn' = [conn EXCEPT !.lease = NoWorker]
    /\ UNCHANGED <<square, callback, disc, worker, saved, lost>>

WorkerStep(w) ==
    \/ Load(w) \/ Lease(w) \/ CheckExpiry(w) \/ Refresh(w) \/ Store(w)
    \/ Read(w) \/ Blame(w) \/ Release(w) \/ Crash(w)

CallbackStep(c) == Exchange(c) \/ Save(c) \/ SaveFails(c)

DisconnectStep(d) ==
    Observe(d) \/ Mark(d) \/ Revoke(d) \/ Delete(d) \/ DisconnectFails(d)

Next ==
    \/ \E w \in Workers : WorkerStep(w)
    \/ \E c \in Callbacks : CallbackStep(c)
    \/ \E d \in Disconnects : DisconnectStep(d)
    \/ UndoImport \/ LeaseExpires \/ MerchantRevokes

Spec == Init /\ [][Next]_vars

-----------------------------------------------------------------------------
(* Correctness.                                                             *)

\* A stored pair Square would no longer refresh is accounted for: the
\* merchant's access was revoked, its successor is on its way to the row, or
\* it was lost with a crash, a lost answer or a replaced credential.  A token
\* endpoint is never called twice with one token on the way there.
DeadTokensExplained ==
    conn.status # "none" /\ conn.token \notin square.live =>
        \/ conn.token \in square.revoked
        \/ conn.token \in lost
        \/ \E w \in Workers :
             worker[w].pc = "rotated" /\ worker[w].token = conn.token

\* Rotations of an old credential never overwrite the one a reconnect saved.
ReplacementSticks ==
    conn.status # "none" => square.grant[conn.token] = saved

\* "Reconnect refuses the durable disconnecting state, so a replacement
\* credential cannot slip in between this provider effect and local delete":
\* from its mark to its delete, the row a disconnect took stays as it took it,
\* whatever saves, late refreshes and refusals, undos and other disconnects do
\* meanwhile.  What its revocation can still hit is a later row, saved once a
\* second disconnect had deleted this one.
MarkedRowStays ==
    \A d \in Disconnects :
        /\ disc[d].pc \in {"revoking", "deleting"}
        /\ conn.status # "none" /\ conn.row = disc[d].row
        => conn.status = "disconnecting" /\ conn.gen = disc[d].gen

\* The owner is asked to reconnect only for a pair of the credential in place:
\* a late refusal of an older one cannot condemn its replacement.
VerdictOnOwnGrant ==
    conn.status = "needs_reconnect" =>
        \E t \in 1 .. square.issued :
            square.grant[t] = saved /\ t \notin square.live

\* "The per-connection sync lease serializes refreshes": two workers are never
\* both refreshing, or storing a refresh of, the same credential.
RefreshesSerialized ==
    \A v, w \in Workers :
        /\ worker[v].pc \in {"refreshing", "rotated"}
        /\ worker[w].pc \in {"refreshing", "rotated"}
        /\ worker[v].row = worker[w].row /\ worker[v].gen = worker[w].gen
        => v = w

\* "A replacement credential cannot slip in between this provider effect and
\* local delete": while a disconnect may revoke, no credential is in use.
NoReplacementDuringRevoke ==
    \A d \in Disconnects :
        disc[d].pc \in {"revoking", "deleting"} => conn.status # "active"

\* The strengthening that makes the invariants above inductive.  Pairs are
\* numbered as Square issues them, and a revoked one is not refreshable.
PairsInOrder ==
    /\ square.live \cup square.revoked \subseteq 1 .. square.issued
    /\ square.live \cap square.revoked = {}
    /\ conn.token <= square.issued

\* A worker's copy of the row is never newer than the row, and as long as it is
\* the row's own generation it speaks of the grant last saved.
CopyFollows(w) ==
    /\ worker[w].row <= conn.row
    /\ worker[w].row = conn.row => worker[w].gen <= conn.gen
    /\ worker[w].token <= square.issued
    /\ worker[w].pc # "idle" =>
         /\ worker[w].token > 0
         /\ Own(w) => square.grant[worker[w].token] = saved
    /\ worker[w].pc = "rotated" =>
         /\ worker[w].next \in 1 .. square.issued
         /\ square.grant[worker[w].next] = square.grant[worker[w].token]
    /\ worker[w].pc = "refused" => worker[w].token \notin square.live

CopiesFollow == \A w \in Workers : CopyFollows(w)

\* A pair in one process only, not yet in the database: no one else can have
\* refreshed it.
Private(t) ==
    /\ t \in square.live \cup square.revoked
    /\ t # conn.token
    /\ \A w \in Workers : worker[w].token # t

PairsAreUnshared ==
    /\ \A w \in Workers : worker[w].pc = "rotated" => Private(worker[w].next)
    /\ \A c \in Callbacks :
         callback[c].pc = "exchanged" => Private(callback[c].token)
    /\ \A v, w \in Workers :
         worker[v].pc = "rotated" /\ worker[w].pc = "rotated" /\ v # w
           => worker[v].next # worker[w].next
    /\ \A b, c \in Callbacks :
         callback[b].pc = "exchanged" /\ callback[c].pc = "exchanged" /\ b # c
           => callback[b].token # callback[c].token
    /\ \A w \in Workers, c \in Callbacks :
         worker[w].pc = "rotated" /\ callback[c].pc = "exchanged"
           => worker[w].next # callback[c].token

GrantInv ==
    /\ TypeOK /\ PairsInOrder /\ CopiesFollow /\ PairsAreUnshared
    /\ DeadTokensExplained /\ ReplacementSticks /\ VerdictOnOwnGrant
=============================================================================
