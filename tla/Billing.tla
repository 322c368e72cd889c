------------------------------- MODULE Billing -------------------------------
(***************************************************************************)
(* One account's subscription: Checkout, the return page, Stripe's events,  *)
(* the reconciliation they all end in, and the deletion of the account      *)
(* (domains/accounts/billing.py, billing_reconciliation.py).  Every request *)
(* runs in a server thread, reads Stripe outside any transaction, and       *)
(* writes in short ones; between two of its steps other requests, the       *)
(* customer on Stripe's pages, and crashes have their turn.                 *)
(*                                                                          *)
(* The account has one Stripe customer: its local row and its idempotency   *)
(* key are made with the first attempt, so creating it again is no new      *)
(* customer, and it is not drawn.  A session is known by its attempt, whose *)
(* id is its idempotency key, and so is the subscription a paid session     *)
(* starts.  Asked to create a session that exists, Stripe answers with the  *)
(* session as it now is, which is how the code reads the answer.  It lists  *)
(* the subscription some time later; the code calls the time in between     *)
(* "still being confirmed".                                                 *)
(***************************************************************************)
EXTENDS Integers, FiniteSets

CONSTANTS
    Workers,      \* the threads that serve requests
    Nobody,       \* no thread
    MaxAttempts,  \* bound on Checkout attempts
    MaxRequests,  \* bound on user requests and overlapping event deliveries
    MaxMishaps    \* bound on failed calls, crashes, slow threads, pages left to
                  \* expire and subscriptions ended at Stripe, together

ASSUME BillingAssumption ==
    /\ Nobody \notin Workers
    /\ MaxAttempts \in Nat /\ MaxRequests \in Nat /\ MaxMishaps \in Nat

Attempts == 1 .. MaxAttempts
NoAttempt == 0

\* A subscription is paid for, listed and ended; each is an event, known by
\* the moment it happened.
Events == 1 .. 3 * MaxAttempts

VARIABLES
    session,      \* at Stripe: the Checkout session of each attempt
    subscription, \* at Stripe: the subscription it started
    listed,       \* at Stripe: the subscriptions list_subscriptions returns
    paidAt,       \* at Stripe: the event of each paid session
    clock,        \* at Stripe: how much has happened
    offered,      \* the sessions whose page a browser was sent to
    attempt,      \* StripeCheckoutAttempt
    mirror,       \* StripeSubscription
    status,       \* BillingAccount.status
    deleting,     \* BillingAccount.deletion_state
    newest,       \* who claimed BillingAccount.reconcile_generation last
    gone,         \* the user is deleted, the Stripe customer tombstoned
    event,        \* StripeWebhookEvent.status, "due" before and between tries
    lease,        \* whose processing_started_at an event carries
    stale,        \* events whose lease has run out
    job,          \* what each thread is doing
    seen,         \* history: when Stripe was in the state the mirror shows
    overwritten,  \* history: a completed attempt was set back
    late,         \* history: an attempt was made for an account already paid
    requests,     \* what MaxRequests counts
    mishaps        \* what MaxMishaps counts

stripe == <<session, subscription, listed, paidAt, clock>>
account == <<attempt, mirror, status, deleting, newest, gone>>
deliveries == <<event, lease, stale>>
history == <<seen, overwritten, late>>
bounds == <<requests, mishaps>>
vars == <<stripe, offered, account, deliveries, job, history, bounds>>

Idle ==
    [kind |-> "none", step |-> "idle", attempt |-> NoAttempt, round |-> 1,
     answer |-> "none", snap |-> [a \in Attempts |-> "none"], at |-> 0,
     event |-> 0, todo |-> {}]

NoRow == [status |-> "none", session |-> FALSE, subscription |-> FALSE]

Init ==
    /\ session = [a \in Attempts |-> "none"]
    /\ subscription = [a \in Attempts |-> "none"]
    /\ listed = {}
    /\ paidAt = [a \in Attempts |-> 0]
    /\ clock = 0
    /\ offered = {}
    /\ attempt = [a \in Attempts |-> NoRow]
    /\ mirror = [a \in Attempts |-> "none"]
    /\ status = "none"
    /\ deleting = FALSE
    /\ newest = Nobody
    /\ gone = FALSE
    /\ event = [v \in Events |-> "due"]
    /\ lease = [v \in Events |-> Nobody]
    /\ stale = {}
    /\ job = [w \in Workers |-> Idle]
    /\ seen = 0
    /\ overwritten = FALSE
    /\ late = FALSE
    /\ requests = 0
    /\ mishaps = 0

Request == requests < MaxRequests /\ requests' = requests + 1

Mishap == mishaps < MaxMishaps /\ mishaps' = mishaps + 1

At(w, step) == job[w].step = step

Goes(w, step) == job' = [job EXCEPT ![w].step = step]

Ends(w) == job' = [job EXCEPT ![w] = Idle]

-----------------------------------------------------------------------------
(* Reconciliation.                                                          *)

\* _claim_reconciliation takes the next generation.
Claim(w) ==
    /\ At(w, "claim")
    /\ ~gone
    /\ newest' = w
    /\ Goes(w, "read")
    /\ UNCHANGED <<stripe, offered, attempt, mirror, status, deleting, gone,
                   deliveries, history, bounds>>

\* What list_subscriptions returns.
Listed == [a \in Attempts |-> IF a \in listed THEN subscription[a] ELSE "none"]

\* _customer_snapshots, outside any transaction.
Read(w) ==
    /\ At(w, "read")
    /\ job' = [job EXCEPT ![w].step = "commit", ![w].snap = Listed,
                          ![w].at = clock]
    /\ UNCHANGED <<stripe, offered, account, deliveries, history, bounds>>

\* derive_entitlement.
Derived(subscriptions) ==
    CASE \E a \in Attempts : subscriptions[a] = "live"  -> "paid"
      [] \A a \in Attempts : subscriptions[a] = "none"  -> "none"
      [] OTHER -> "lapsed"

\* Mutant: any pass may commit what it read.
CurrentAlways(w) == TRUE

\* No later pass has claimed the account.
Current(w) == newest = w

\* Subscription metadata completes the attempt it came from.
Completes(subscriptions) ==
    [a \in Attempts |->
        IF subscriptions[a] = "none" THEN attempt[a]
        ELSE [attempt[a] EXCEPT !.status = "completed", !.subscription = TRUE]]

\* What each request goes on with once its own pass has committed.
After ==
    [checkout |-> "check", sync |-> "idle", webhook |-> "finish",
     delete |-> "fence"]

\* The commit of reconcile_billing_account, under the account's row lock.
Commit(w) ==
    /\ At(w, "commit")
    /\ ~gone
    /\ Current(w)
    /\ mirror' = job[w].snap
    /\ attempt' = Completes(job[w].snap)
    /\ status' = IF deleting THEN "deleting" ELSE Derived(job[w].snap)
    /\ seen' = job[w].at
    /\ job' = [job EXCEPT ![w] =
         IF job[w].kind = "sync" THEN Idle
         ELSE [Idle EXCEPT !.kind = job[w].kind, !.step = After[job[w].kind],
                           !.event = job[w].event]]
    /\ UNCHANGED <<stripe, offered, deleting, newest, gone, deliveries,
                   overwritten, late, bounds>>

\* The filter of _finish_webhook_event and _retry_webhook_event.
Holds(w) ==
    event[job[w].event] = "processing" /\ lease[job[w].event] = w

\* _finish_webhook_event and _retry_webhook_event: the thread that holds an
\* event's lease gives it up.
Release(w, outcome) ==
    IF job[w].kind = "webhook" /\ Holds(w)
    THEN /\ event' = [event EXCEPT ![job[w].event] = outcome]
         /\ lease' = [lease EXCEPT ![job[w].event] = Nobody]
         /\ stale' = stale \ {job[w].event}
    ELSE UNCHANGED deliveries

\* Mutant: a superseded pass counts as done, since a newer one is on its way.
OutcomeAnyway(committed) == "processed"

\* 200 only for a pass that has committed itself.
Outcome(committed) == IF committed THEN "processed" ELSE "due"

\* A later pass has claimed the account: nothing is written, and the request
\* answers 503.
Superseded(w) ==
    /\ At(w, "commit")
    /\ ~gone
    /\ ~Current(w)
    /\ Release(w, Outcome(FALSE))
    /\ Ends(w)
    /\ UNCHANGED <<stripe, offered, account, history, bounds>>

-----------------------------------------------------------------------------
(* create-stripe-checkout.                                                  *)

StartCheckout(w) ==
    /\ At(w, "idle")
    /\ Request
    /\ ~gone /\ ~deleting
    /\ job' = [job EXCEPT ![w] = [Idle EXCEPT !.kind = "checkout",
                                              !.step = "claim"]]
    /\ UNCHANGED <<stripe, offered, account, deliveries, history, mishaps>>

\* A paid account is refused.
Check(w) ==
    /\ At(w, "check")
    /\ ~gone
    /\ IF status = "paid" THEN Ends(w) ELSE Goes(w, "reserve")
    /\ UNCHANGED <<stripe, offered, account, deliveries, history, bounds>>

\* Mutant: an attempt without a session yet is not active.
ActiveOpen(a) == attempt[a].status = "open"

Active(a) == attempt[a].status \in {"pending", "open"}

\* Mutant: a subscription that is known by its id has been confirmed.
UnresolvedWithoutId ==
    \E a \in Attempts :
        attempt[a].status = "completed" /\ ~attempt[a].subscription

\* _completed_checkout_is_unresolved.
Unresolved ==
    \E a \in Attempts :
        /\ attempt[a].status = "completed"
        /\ ~attempt[a].subscription \/ mirror[a] = "none"

Unused(a) ==
    attempt[a].status = "none" /\ \A b \in 1 .. a - 1 : attempt[b].status # "none"

\* _reserve_checkout: the active attempt, or a new one unless the account is
\* being deleted or a completed one is still being confirmed.
Reserve(w) ==
    /\ At(w, "reserve")
    /\ ~gone
    /\ \/ /\ deleting \/ (Unresolved /\ \A a \in Attempts : ~Active(a))
          /\ Ends(w)
          /\ UNCHANGED <<attempt, late>>
       \/ /\ ~deleting
          /\ \E a \in Attempts :
               /\ Active(a)
               /\ job' = [job EXCEPT ![w].step = "create", ![w].attempt = a]
          /\ UNCHANGED <<attempt, late>>
       \/ /\ ~deleting /\ ~Unresolved
          /\ \A a \in Attempts : ~Active(a)
          /\ \E a \in Attempts :
               /\ Unused(a)
               /\ attempt' = [attempt EXCEPT ![a].status = "pending"]
               /\ job' = [job EXCEPT ![w].step = "create", ![w].attempt = a]
          /\ late' = (late \/ status = "paid")
    /\ UNCHANGED <<stripe, offered, mirror, status, deleting, newest, gone,
                   deliveries, seen, overwritten, bounds>>

\* create_checkout_session: the attempt's id is the idempotency key, so a
\* session made before is what Stripe answers with.
Create(w) ==
    /\ At(w, "create")
    /\ LET a == job[w].attempt
       IN  /\ session' = [session EXCEPT ![a] = IF @ = "none" THEN "open" ELSE @]
           /\ job' = [job EXCEPT ![w].step = "store", ![w].answer = session'[a]]
    /\ UNCHANGED <<subscription, listed, paidAt, clock, offered, account,
                   deliveries, history, bounds>>

RowOf(answer) ==
    [status |-> CASE answer = "complete" -> "completed"
                  [] answer = "expired"  -> "expired"
                  [] OTHER               -> "open",
     session |-> TRUE,
     subscription |-> answer = "complete"]

\* stripe_checkout_one_active_per_account.
Collides(a, row) ==
    row.status = "open" /\ \E b \in Attempts \ {a} : Active(b)

\* The row, if there still is one, becomes what Stripe answered, whatever
\* became of it meanwhile; an open session's page goes to the browser, an
\* expired one is replaced once, and a deletion goes on to expire the session.
Store(w) ==
    /\ At(w, "store")
    /\ LET a == job[w].attempt
           row == RowOf(job[w].answer)
       IN  IF Collides(a, row)
           THEN Ends(w) /\ UNCHANGED <<attempt, offered, overwritten>>
           ELSE /\ attempt' = IF gone THEN attempt ELSE [attempt EXCEPT ![a] = row]
                /\ overwritten' = (\/ overwritten
                                   \/ /\ attempt[a].status = "completed"
                                      /\ row.status # "completed")
                /\ IF job[w].kind = "delete"
                   THEN /\ Goes(w, IF row.status = "open" THEN "expire" ELSE "settle")
                        /\ UNCHANGED offered
                   ELSE IF row.status = "expired" /\ job[w].round = 1
                   THEN /\ job' = [job EXCEPT ![w].step = "reserve",
                                              ![w].round = 2]
                        /\ UNCHANGED offered
                   ELSE /\ Ends(w)
                        /\ offered' = IF row.status = "open" THEN offered \cup {a}
                                      ELSE offered
    /\ UNCHANGED <<stripe, mirror, status, deleting, newest, gone, deliveries,
                   seen, late, bounds>>

-----------------------------------------------------------------------------
(* sync-stripe-subscription, with the return page's session or without one; *)
(* the portal and the reconciliation command do no more than the latter.    *)

StartSync(w) ==
    /\ At(w, "idle")
    /\ Request
    /\ ~gone
    /\ \/ job' = [job EXCEPT ![w] = [Idle EXCEPT !.kind = "sync",
                                                 !.step = "claim"]]
       \/ \E a \in offered :
            /\ session[a] = "complete"
            /\ job' = [job EXCEPT ![w] = [Idle EXCEPT !.kind = "sync",
                         !.step = "mark", !.attempt = a]]
    /\ UNCHANGED <<stripe, offered, account, deliveries, history, mishaps>>

\* _mark_checkout_completed.
Mark(w) ==
    /\ At(w, "mark")
    /\ ~gone
    /\ attempt' = [attempt EXCEPT ![job[w].attempt] = RowOf("complete")]
    /\ job' = [job EXCEPT ![w].step = "claim", ![w].attempt = NoAttempt]
    /\ UNCHANGED <<stripe, offered, mirror, status, deleting, newest, gone,
                   deliveries, history, bounds>>

-----------------------------------------------------------------------------
(* The webhook.                                                             *)

\* Mutant: without a lease.
BusyForGood(v) == event[v] = "processing"

\* Another thread works on it within its lease.
Busy(v) == event[v] = "processing" /\ v \notin stale

\* _record_webhook_event and _claim_webhook_event.  Stripe delivers an event
\* until it is answered 200, now or later, and in any order; its retries back
\* off, so that deliveries overlap other requests only so often.
Deliver(w, v) ==
    /\ At(w, "idle")
    /\ v <= clock
    /\ event[v] # "processed" /\ ~Busy(v)
    /\ IF job = [x \in Workers |-> Idle] THEN UNCHANGED requests ELSE Request
    /\ event' = [event EXCEPT ![v] = "processing"]
    /\ lease' = [lease EXCEPT ![v] = w]
    /\ stale' = stale \ {v}
    /\ job' = [job EXCEPT ![w] = [Idle EXCEPT !.kind = "webhook",
                                              !.step = "lookup", !.event = v]]
    /\ UNCHANGED <<stripe, offered, account, history, mishaps>>

\* A tombstoned customer needs no work; a completed session names its attempt.
Lookup(w) ==
    /\ At(w, "lookup")
    /\ \/ gone /\ Goes(w, "finish")
       \/ /\ ~gone
          /\ \A a \in Attempts : paidAt[a] # job[w].event
          /\ Goes(w, "claim")
       \/ /\ ~gone
          /\ \E a \in Attempts :
               /\ paidAt[a] = job[w].event
               /\ job' = [job EXCEPT ![w].step = "mark", ![w].attempt = a]
    /\ UNCHANGED <<stripe, offered, account, deliveries, history, bounds>>

\* _finish_webhook_event, if the lease is still this thread's.
Finish(w) ==
    /\ At(w, "finish")
    /\ Release(w, Outcome(TRUE))
    /\ Ends(w)
    /\ UNCHANGED <<stripe, offered, account, history, bounds>>

\* WEBHOOK_PROCESSING_LEASE has passed: its thread died, or is slow.
LeaseRunsOut(v) ==
    /\ Busy(v)
    /\ IF \E w \in Workers : lease[v] = w /\ job[w].event = v
       THEN Mishap ELSE UNCHANGED mishaps
    /\ stale' = stale \cup {v}
    /\ UNCHANGED <<stripe, offered, account, event, lease, job, history, requests>>

-----------------------------------------------------------------------------
(* delete_user_with_billing.                                                *)

StartDelete(w) ==
    /\ At(w, "idle")
    /\ Request
    /\ ~gone
    /\ deleting' = TRUE
    /\ status' = "deleting"
    /\ job' = [job EXCEPT ![w] = [Idle EXCEPT !.kind = "delete",
                                              !.step = "collect"]]
    /\ UNCHANGED <<stripe, offered, attempt, mirror, newest, gone, deliveries,
                   history, mishaps>>

\* The active attempt, if there is one, has to be settled first: its session
\* is read, or made if its id was never stored.
Collect(w) ==
    /\ At(w, "collect")
    /\ ~gone
    /\ \/ (\A a \in Attempts : ~Active(a)) /\ Goes(w, "claim")
       \/ \E a \in Attempts :
            /\ Active(a)
            /\ job' = [job EXCEPT ![w].attempt = a, ![w].step =
                 IF attempt[a].session THEN "retrieve" ELSE "create"]
    /\ UNCHANGED <<stripe, offered, account, deliveries, history, bounds>>

Retrieve(w) ==
    /\ At(w, "retrieve")
    /\ LET answer == session[job[w].attempt]
       IN  job' = [job EXCEPT ![w].answer = answer, ![w].step =
                     IF answer = "open" THEN "expire" ELSE "settle"]
    /\ UNCHANGED <<stripe, offered, account, deliveries, history, bounds>>

\* expire_checkout_session, which Stripe refuses for one paid since.
Expire(w) ==
    /\ At(w, "expire")
    /\ LET a == job[w].attempt
       IN  IF session[a] = "complete"
           THEN Ends(w) /\ UNCHANGED session
           ELSE /\ session' = [session EXCEPT ![a] = "expired"]
                /\ job' = [job EXCEPT ![w].answer = "expired",
                                      ![w].step = "settle"]
    /\ UNCHANGED <<subscription, listed, paidAt, clock, offered, account,
                   deliveries, history, bounds>>

Settle(w) ==
    /\ At(w, "settle")
    /\ ~gone
    /\ attempt' = [attempt EXCEPT ![job[w].attempt] = RowOf(job[w].answer)]
    /\ job' = [job EXCEPT ![w] = [Idle EXCEPT !.kind = "delete",
                                              !.step = "claim"]]
    /\ UNCHANGED <<stripe, offered, mirror, status, deleting, newest, gone,
                   deliveries, history, bounds>>

\* After the pass: wait for a completed Checkout, or go on to what the mirror
\* says is still running.
Fence(w) ==
    /\ At(w, "fence")
    /\ ~gone
    /\ IF Unresolved THEN Ends(w)
       ELSE job' = [job EXCEPT ![w].step = "cancel",
                      ![w].todo = {a \in Attempts : mirror[a] = "live"}]
    /\ UNCHANGED <<stripe, offered, account, deliveries, history, bounds>>

\* cancel_subscription, which Stripe refuses for one that has ended since.
Cancel(w) ==
    /\ At(w, "cancel")
    /\ \E a \in job[w].todo :
         IF subscription[a] = "live"
         THEN /\ subscription' = [subscription EXCEPT ![a] = "ended"]
              /\ clock' = clock + 1
              /\ job' = [job EXCEPT ![w].todo = @ \ {a}]
         ELSE Ends(w) /\ UNCHANGED <<subscription, clock>>
    /\ UNCHANGED <<session, listed, paidAt, offered, account, deliveries,
                   history, bounds>>

\* The tombstone and user.delete(), in one transaction; the account's rows
\* go with the user.
DeleteUser(w) ==
    /\ At(w, "cancel")
    /\ ~gone
    /\ job[w].todo = {}
    /\ gone' = TRUE
    /\ attempt' = [a \in Attempts |-> NoRow]
    /\ mirror' = [a \in Attempts |-> "none"]
    /\ Ends(w)
    /\ UNCHANGED <<stripe, offered, status, deleting, newest, deliveries,
                   history, bounds>>

-----------------------------------------------------------------------------
(* Failures, and the customer at Stripe.                                    *)

\* The rows of a request are gone with the user: it fails, and an event it
\* was working on waits for its lease.
Orphaned(w) ==
    /\ gone
    /\ \/ job[w].step \in {"mark", "claim", "commit", "check", "reserve",
                           "collect", "settle", "fence"}
       \/ At(w, "cancel") /\ job[w].todo = {}
    /\ Ends(w)
    /\ UNCHANGED <<stripe, offered, account, deliveries, history, bounds>>

\* A thread dies between two steps, or a call to Stripe fails (the step
\* before shows what it may have done all the same).
Fail(w) ==
    /\ ~At(w, "idle")
    /\ Mishap
    /\ \/ UNCHANGED deliveries
       \/ job[w].step \in {"lookup", "read"} /\ Release(w, "due")
    /\ Ends(w)
    /\ UNCHANGED <<stripe, offered, account, history, requests>>

\* The customer pays on a page they were sent to.
Pay(a) ==
    /\ a \in offered
    /\ session[a] = "open"
    /\ session' = [session EXCEPT ![a] = "complete"]
    /\ subscription' = [subscription EXCEPT ![a] = "live"]
    /\ clock' = clock + 1
    /\ paidAt' = [paidAt EXCEPT ![a] = clock + 1]
    /\ UNCHANGED <<listed, offered, account, deliveries, job, history, bounds>>

\* customer.subscription.created.
Appear(a) ==
    /\ subscription[a] # "none" /\ a \notin listed
    /\ listed' = listed \cup {a}
    /\ clock' = clock + 1
    /\ UNCHANGED <<session, subscription, paidAt, offered, account, deliveries,
                   job, history, bounds>>

\* customer.subscription.deleted: cancelled in the portal, or not paid for.
Lapse(a) ==
    /\ a \in listed /\ subscription[a] = "live"
    /\ Mishap
    /\ subscription' = [subscription EXCEPT ![a] = "ended"]
    /\ clock' = clock + 1
    /\ UNCHANGED <<session, listed, paidAt, offered, account, deliveries, job,
                   history, requests>>

\* A session nobody paid closes after a while.
Close(a) ==
    /\ session[a] = "open"
    /\ Mishap
    /\ session' = [session EXCEPT ![a] = "expired"]
    /\ UNCHANGED <<subscription, listed, paidAt, clock, offered, account,
                   deliveries, job, history, requests>>

Work(w) ==
    \/ Claim(w) \/ Read(w) \/ Commit(w) \/ Superseded(w)
    \/ Check(w) \/ Reserve(w) \/ Create(w) \/ Store(w) \/ Mark(w)
    \/ Lookup(w) \/ Finish(w)
    \/ Collect(w) \/ Retrieve(w) \/ Expire(w) \/ Settle(w)
    \/ Fence(w) \/ Cancel(w) \/ DeleteUser(w) \/ Orphaned(w)

Next ==
    \/ \E w \in Workers :
         Work(w) \/ StartCheckout(w) \/ StartSync(w) \/ StartDelete(w) \/ Fail(w)
    \/ \E w \in Workers, v \in Events : Deliver(w, v)
    \/ \E v \in Events : LeaseRunsOut(v)
    \/ \E a \in Attempts : Pay(a) \/ Appear(a) \/ Lapse(a) \/ Close(a)

Spec == Init /\ [][Next]_vars

\* A request that started goes on, a lease runs out, and Stripe delivers what
\* was not answered 200; no customer, failure or overlap has to happen.
Fairness ==
    /\ \A w \in Workers : WF_vars(Work(w))
    /\ WF_vars(\E v \in Events : LeaseRunsOut(v))
    /\ WF_vars(\E w \in Workers, v \in Events : Deliver(w, v))

LiveSpec == Spec /\ Fairness

-----------------------------------------------------------------------------
(* Properties.                                                              *)

Subscriptions == [Attempts -> {"none", "live", "ended"}]

Jobs ==
    [kind : {"none", "checkout", "sync", "webhook", "delete"},
     step : {"idle", "claim", "read", "commit", "check", "reserve", "create",
             "store", "mark", "lookup", "finish", "collect", "retrieve",
             "expire", "settle", "fence", "cancel"},
     attempt : Attempts \cup {NoAttempt}, round : {1, 2},
     answer : {"none", "open", "complete", "expired"},
     snap : Subscriptions, at : Nat, event : Events \cup {0},
     todo : SUBSET Attempts]

\* Every variable has its type.
TypeOK ==
    /\ session \in [Attempts -> {"none", "open", "complete", "expired"}]
    /\ subscription \in Subscriptions
    /\ listed \subseteq Attempts
    /\ paidAt \in [Attempts -> Nat] /\ clock \in Nat
    /\ offered \subseteq Attempts
    /\ attempt \in [Attempts ->
         [status : {"none", "pending", "open", "completed", "expired"},
          session : BOOLEAN, subscription : BOOLEAN]]
    /\ mirror \in Subscriptions
    /\ status \in {"none", "paid", "lapsed", "deleting"}
    /\ deleting \in BOOLEAN /\ gone \in BOOLEAN
    /\ newest \in Workers \cup {Nobody}
    /\ event \in [Events -> {"due", "processing", "processed"}]
    /\ lease \in [Events -> Workers \cup {Nobody}]
    /\ stale \subseteq Events
    /\ job \in [Workers -> Jobs]
    /\ seen \in Nat
    /\ overwritten \in BOOLEAN /\ late \in BOOLEAN
    /\ requests \in 0 .. MaxRequests /\ mishaps \in 0 .. MaxMishaps

\* stripe_checkout_one_active_per_account: the constraint is never what
\* stops two reservations, and no late answer gets around it.
OneActive == \A a, b \in Attempts : Active(a) /\ Active(b) => a = b

Running(a) == subscription[a] = "live" \/ session[a] = "open"

\* docs/CONTRACT.md of a completed Checkout: not "allowed through account
\* deletion until that exact subscription appears in the local mirror".  So
\* a deleted user is charged for nothing and can pay on no page.
NothingLeftRunning ==
    gone => \A a \in Attempts : ~Running(a)

\* A deleted user leaves no subscription running and no page open to pay on,
\* whatever Checkouts, payments, events and earlier deletions that failed
\* were under way; unless a late answer of create_checkout_session set a
\* completed attempt back to open.
LeftRunningOnlyIfOverwritten ==
    gone /\ ~overwritten => \A a \in Attempts : ~Running(a)

\* The mirror never goes back: a pass that read Stripe earlier never replaces
\* what a later one stored.
MirrorNeverGoesBack == [][seen' >= seen]_vars

\* An event is answered 200 only when what the account stores was read after
\* it happened (or the user is deleted): one that arrives late, twice, out of
\* order, or while another pass supersedes its own is never lost.
ProcessedMeansRead ==
    \A v \in Events : event[v] = "processed" => gone \/ seen >= v

\* Nobody is subscribed twice: while a Checkout is being paid, confirmed or
\* mirrored no second session can be paid; unless the attempt was made after
\* the account was found unpaid and by then had been paid.
SubscribedTwiceOnlyIfLate ==
    \/ late
    \/ \A a, b \in Attempts :
         subscription[a] = "live" /\ subscription[b] = "live" => a = b

\* The same without the exception.
SubscribedOnce ==
    \A a, b \in Attempts :
        subscription[a] = "live" /\ subscription[b] = "live" => a = b

\* docs/CONTRACT.md: "A completed session retains its returned subscription
\* id".
CompletedStaysCompleted ==
    [][\A a \in Attempts :
         attempt[a].status = "completed" /\ ~gone'
         => attempt'[a].status = "completed"]_vars

\* Once Stripe rests and failures stop, the account says what Stripe says:
\* every event is delivered until a pass that saw it has committed.
AccountCatchesUp == <>[](deleting \/ status = Derived(Listed))
=============================================================================
