---------------------------- MODULE BillingProofs ----------------------------
(***************************************************************************)
(* The subscription of one account, for any number of threads, attempts     *)
(* and requests: one active Checkout attempt, a mirror that never goes      *)
(* back, and no event answered before what it tells has been read.  The     *)
(* inductive invariant adds what each thread knows by the step it is at.    *)
(***************************************************************************)
EXTENDS Billing, TLAPS

OnSession == {"store", "mark", "retrieve", "expire", "settle"}

\* What a thread knows: the attempt and the event it works on, and that what
\* it read of Stripe is as new as the event it read it for.
Knows(w) ==
    /\ ~At(w, "idle") => job[w].kind # "none"
    /\ job[w].step \in OnSession \cup {"create"} => job[w].attempt \in Attempts
    /\ job[w].step \in OnSession => session[job[w].attempt] # "none"
    /\ At(w, "settle") => job[w].answer \in {"complete", "expired"}
    /\ At(w, "lookup") => job[w].event \in Events
    /\ job[w].event <= clock
    /\ At(w, "commit") => /\ job[w].event <= job[w].at
                          /\ job[w].at <= clock
                          /\ newest = w => seen <= job[w].at
    /\ At(w, "finish") => gone \/ job[w].event <= seen

\* Sessions the rows and the events name have been made.
Made ==
    \A a \in Attempts :
        attempt[a].session \/ paidAt[a] # 0 => session[a] # "none"

IInv ==
    /\ TypeOK
    /\ OneActive
    /\ Made
    /\ seen <= clock
    /\ \A w \in Workers : Knows(w)
    /\ ProcessedMeansRead

\* A row of StripeCheckoutAttempt.
Rows == [status : {"none", "pending", "open", "completed", "expired"},
         session : BOOLEAN, subscription : BOOLEAN]

-----------------------------------------------------------------------------
(* What does not depend on the action.                                      *)

\* A thread that does nothing knows what it knew, as long as the sessions it
\* may work on stay, time does not go back, and no pass commits under a
\* claim of its own.
LEMMA Bystander ==
  ASSUME TypeOK, NEW x \in Workers, Knows(x),
         job'[x] = job[x],
         clock' \in Nat, clock <= clock', seen' \in Nat, seen <= seen',
         \A a \in Attempts : session[a] # "none" => session'[a] # "none",
         gone => gone',
         newest' = x => newest = x /\ seen' = seen
  PROVE  Knows(x)'
<1>1. /\ job[x] \in Jobs /\ clock \in Nat /\ seen \in Nat
      /\ job[x].at \in Nat /\ job[x].event \in Nat
  BY BillingAssumption DEF TypeOK, Jobs, Events, BillingAssumption
<1> QED
  BY <1>1 DEF Knows, At, OnSession

\* A thread at rest.
LEMMA Rest ==
  /\ Idle \in Jobs
  /\ Idle.step = "idle" /\ Idle.event = 0 /\ Idle.kind = "none"
  BY DEF Idle, Jobs, NoAttempt, Subscriptions

\* It knows nothing.
LEMMA RestKnows ==
  ASSUME clock' \in Nat, NEW x \in Workers, job'[x] = Idle
  PROVE  Knows(x)'
  BY Rest DEF Knows, At, OnSession

\* One thread moves.
LEMMA Turn ==
  ASSUME TypeOK, NEW w \in Workers, NEW j \in Jobs,
         job' = [job EXCEPT ![w] = j]
  PROVE  /\ job' \in [Workers -> Jobs]
         /\ job'[w] = j
         /\ \A x \in Workers \ {w} : job'[x] = job[x]
  BY DEF TypeOK

Steps == {"idle", "claim", "read", "commit", "check", "reserve", "create",
          "store", "mark", "lookup", "finish", "collect", "retrieve",
          "expire", "settle", "fence", "cancel"}

\* It goes on to another step of its request.
LEMMA Going ==
  ASSUME TypeOK, NEW w \in Workers, NEW s \in Steps, Goes(w, s)
  PROVE  \E j \in Jobs :
           /\ job' = [job EXCEPT ![w] = j]
           /\ j.step = s /\ j.kind = job[w].kind /\ j.attempt = job[w].attempt
           /\ j.answer = job[w].answer /\ j.event = job[w].event
           /\ j.at = job[w].at
<1> DEFINE j == [job[w] EXCEPT !.step = s]
<1>1. job[w] \in Jobs
  BY DEF TypeOK
<1>2. /\ j \in Jobs
      /\ j.step = s /\ j.kind = job[w].kind /\ j.attempt = job[w].attempt
      /\ j.answer = job[w].answer /\ j.event = job[w].event
      /\ j.at = job[w].at
  BY <1>1 DEF Jobs, Steps
<1>3. job' = [job EXCEPT ![w] = j]
  BY DEF Goes
<1> QED
  BY <1>2, <1>3

\* It ends its request.
LEMMA Ending ==
  ASSUME TypeOK, clock' \in Nat, NEW w \in Workers, Ends(w)
  PROVE  Idle \in Jobs /\ job' = [job EXCEPT ![w] = Idle] /\ Knows(w)'
<1>1. Idle \in Jobs /\ job' = [job EXCEPT ![w] = Idle]
  BY Rest DEF Ends
<1>2. job'[w] = Idle
  BY <1>1, Turn
<1> QED
  BY <1>1, <1>2, RestKnows

\* A thread that knows what it does leaves the others knowing what they do.
LEMMA Working ==
  ASSUME IInv, NEW w \in Workers, NEW j \in Jobs,
         job' = [job EXCEPT ![w] = j], Knows(w)',
         newest' \in {newest, w}, seen' = seen,
         clock' \in Nat, clock <= clock', gone => gone',
         \A a \in Attempts : session[a] # "none" => session'[a] # "none"
  PROVE  job' \in [Workers -> Jobs] /\ \A x \in Workers : Knows(x)'
<1>1. /\ job' \in [Workers -> Jobs]
      /\ \A x \in Workers \ {w} : job'[x] = job[x]
  BY Turn DEF IInv
<1>2. ASSUME NEW x \in Workers, x # w PROVE Knows(x)'
  BY <1>1, <1>2, Bystander DEF IInv, TypeOK
<1> QED
  BY <1>1, <1>2

\* A step that changes no more than a thread's job, and perhaps claims the
\* account for it.
LEMMA Thinking ==
  ASSUME IInv, NEW w \in Workers, NEW j \in Jobs,
         job' = [job EXCEPT ![w] = j], Knows(w)',
         newest' \in {newest, w},
         UNCHANGED <<stripe, offered, attempt, mirror, status, deleting, gone,
                     deliveries, history, bounds>>
  PROVE  IInv'
<1>1. clock' \in Nat /\ clock <= clock'
  BY DEF IInv, TypeOK, stripe
<1>2. job' \in [Workers -> Jobs] /\ \A x \in Workers : Knows(x)'
  BY <1>1, Working DEF stripe, history
<1>3. TypeOK'
  BY <1>2 DEF IInv, TypeOK, stripe, deliveries, history, bounds
<1>4. OneActive' /\ Made' /\ (seen <= clock)' /\ ProcessedMeansRead'
  BY DEF IInv, OneActive, Active, Made, ProcessedMeansRead, stripe, deliveries, history
<1> QED
  BY <1>2, <1>3, <1>4 DEF IInv

\* Only the event a thread holds changes, to what the thread says of it.
LEMMA Releasing ==
  ASSUME IInv, NEW w \in Workers, NEW outcome \in {"due", "processed"},
         Release(w, outcome)
  PROVE  /\ event' \in [Events -> {"due", "processing", "processed"}]
         /\ lease' \in [Events -> Workers \cup {Nobody}]
         /\ stale' \subseteq Events
         /\ \A v \in Events :
              event'[v] = "processed" =>
                \/ event[v] = "processed"
                \/ outcome = "processed" /\ v = job[w].event
  BY DEF IInv, TypeOK, Release, deliveries

\* A request that ends, and says of its event what it has done.
LEMMA Answering ==
  ASSUME IInv, NEW w \in Workers, Ends(w),
         NEW outcome \in {"due", "processed"},
         Release(w, outcome) \/ UNCHANGED deliveries,
         outcome = "processed" => At(w, "finish"),
         mishaps' \in 0 .. MaxMishaps,
         UNCHANGED <<stripe, offered, account, history, requests>>
  PROVE  IInv'
<1>1. /\ clock' \in Nat /\ clock <= clock'
      /\ session' = session /\ gone' = gone /\ seen' = seen /\ newest' = newest
  BY DEF IInv, TypeOK, stripe, account, history
<1>2. Idle \in Jobs /\ job' = [job EXCEPT ![w] = Idle] /\ Knows(w)'
  BY <1>1, Ending DEF IInv
<1>3. job' \in [Workers -> Jobs] /\ \A x \in Workers : Knows(x)'
  BY <1>1, <1>2, Working
<1>4. /\ event' \in [Events -> {"due", "processing", "processed"}]
      /\ lease' \in [Events -> Workers \cup {Nobody}]
      /\ stale' \subseteq Events
      /\ \A v \in Events :
           event'[v] = "processed" =>
             \/ event[v] = "processed"
             \/ outcome = "processed" /\ v = job[w].event
  <2>1. CASE Release(w, outcome)
    BY <2>1, Releasing
  <2>2. CASE UNCHANGED deliveries
    BY <2>2 DEF IInv, TypeOK, deliveries
  <2> QED
    BY <2>1, <2>2
<1>5. TypeOK'
  BY <1>3, <1>4 DEF IInv, TypeOK, stripe, account, history
<1>6. OneActive' /\ Made' /\ (seen <= clock)'
  BY DEF IInv, OneActive, Active, Made, stripe, account, history
<1>7. ProcessedMeansRead'
  BY <1>1, <1>4 DEF IInv, ProcessedMeansRead, Knows
<1> QED
  BY <1>3, <1>5, <1>6, <1>7 DEF IInv

-----------------------------------------------------------------------------
(* Reconciliation.                                                          *)

\* A pass that claims the account has read nothing yet.
LEMMA ClaimInv == ASSUME IInv, NEW w \in Workers, Claim(w) PROVE IInv'
<1>1. PICK j \in Jobs :
        /\ job' = [job EXCEPT ![w] = j]
        /\ j.step = "read" /\ j.kind = job[w].kind /\ j.event = job[w].event
  BY Going DEF IInv, Claim, Steps
<1>2. job'[w] = j
  BY <1>1, Turn DEF IInv
<1>3. Knows(w)'
  BY <1>1, <1>2 DEF IInv, Claim, Knows, At, OnSession, stripe
<1> QED
  BY <1>1, <1>3, Thinking DEF Claim

\* What is read at this moment is newer than the event.
LEMMA ReadInv == ASSUME IInv, NEW w \in Workers, Read(w) PROVE IInv'
<1> DEFINE j == [job[w] EXCEPT !.step = "commit", !.snap = Listed, !.at = clock]
<1>1. job[w] \in Jobs /\ clock \in Nat /\ Listed \in Subscriptions
  BY DEF IInv, TypeOK, Listed, Subscriptions
<1>2. /\ j \in Jobs
      /\ j.step = "commit" /\ j.kind = job[w].kind /\ j.event = job[w].event
      /\ j.at = clock
  BY <1>1 DEF Jobs
<1>3. job' = [job EXCEPT ![w] = j]
  BY DEF Read
<1> HIDE DEF j
<1>4. job'[w] = j
  BY <1>2, <1>3, Turn DEF IInv
<1>5. Knows(w)'
  BY <1>1, <1>2, <1>4 DEF IInv, Read, Knows, At, OnSession, stripe, history
<1> QED
  BY <1>2, <1>3, <1>5, Thinking DEF Read, account

\* What a pass commits is as new as its event, and nobody older comes after it.
LEMMA CommitInv == ASSUME IInv, NEW w \in Workers, Commit(w) PROVE IInv'
<1> DEFINE j == IF job[w].kind = "sync" THEN Idle
                ELSE [Idle EXCEPT !.kind = job[w].kind, !.step = After[job[w].kind],
                                  !.event = job[w].event]
<1>1. /\ job[w] \in Jobs /\ job[w].step = "commit" /\ job[w].kind # "none"
      /\ job[w].event <= job[w].at /\ seen <= job[w].at /\ job[w].at <= clock
      /\ job[w].at \in Nat /\ clock \in Nat /\ seen \in Nat
      /\ newest = w /\ newest' = w /\ seen' = job[w].at
      /\ clock' = clock /\ session' = session /\ gone' = gone
  BY DEF IInv, TypeOK, Commit, Current, Knows, At, stripe, Jobs
<1>2. /\ j \in Jobs
      /\ j.step # "idle" => j.kind # "none"
      /\ j.step \in {"idle", "check", "finish", "fence"}
      /\ j.event \in {0, job[w].event}
  <2>1. job[w].kind \in {"checkout", "sync", "webhook", "delete"}
    BY <1>1 DEF Jobs
  <2>2. CASE job[w].kind = "sync"
    BY <2>2, Rest
  <2>3. job[w].event \in Events \cup {0}
    BY <1>1 DEF Jobs
  <2>4. CASE job[w].kind = "checkout"
    <3> DEFINE i == [Idle EXCEPT !.kind = "checkout", !.step = "check",
                                 !.event = job[w].event]
    <3>1. i \in Jobs /\ i.kind = "checkout" /\ i.step = "check" /\ i.event = job[w].event
      BY <2>3, Rest DEF Jobs
    <3>2. After[job[w].kind] = "check"
      BY <2>4 DEF After
    <3>3. j = i
      BY <2>4, <3>2
    <3> QED
      BY <3>1, <3>3
  <2>5. CASE job[w].kind = "webhook"
    <3> DEFINE i == [Idle EXCEPT !.kind = "webhook", !.step = "finish",
                                 !.event = job[w].event]
    <3>1. i \in Jobs /\ i.kind = "webhook" /\ i.step = "finish" /\ i.event = job[w].event
      BY <2>3, Rest DEF Jobs
    <3>2. After[job[w].kind] = "finish"
      BY <2>5 DEF After
    <3>3. j = i
      BY <2>5, <3>2
    <3> QED
      BY <3>1, <3>3
  <2>6. CASE job[w].kind = "delete"
    <3> DEFINE i == [Idle EXCEPT !.kind = "delete", !.step = "fence",
                                 !.event = job[w].event]
    <3>1. i \in Jobs /\ i.kind = "delete" /\ i.step = "fence" /\ i.event = job[w].event
      BY <2>3, Rest DEF Jobs
    <3>2. After[job[w].kind] = "fence"
      BY <2>6 DEF After
    <3>3. j = i
      BY <2>6, <3>2
    <3> QED
      BY <3>1, <3>3
  <2> QED
    BY <1>1, <2>1, <2>2, <2>4, <2>5, <2>6
<1>3. job' = [job EXCEPT ![w] = j]
  BY DEF Commit
<1> HIDE DEF j
<1>4. /\ job' \in [Workers -> Jobs] /\ job'[w] = j
      /\ \A x \in Workers \ {w} : job'[x] = job[x]
  BY <1>2, <1>3, Turn DEF IInv
<1>5. Knows(w)'
  BY <1>1, <1>2, <1>4 DEF IInv, Knows, At, OnSession
<1>6. ASSUME NEW x \in Workers, x # w PROVE Knows(x)'
  BY <1>1, <1>4, <1>6, Bystander DEF IInv
<1>7. /\ attempt' = Completes(job[w].snap)
      /\ attempt' \in [Attempts ->
           [status : {"none", "pending", "open", "completed", "expired"},
            session : BOOLEAN, subscription : BOOLEAN]]
      /\ \A a \in Attempts : /\ attempt'[a].session = attempt[a].session
                             /\ Active(a)' => Active(a)
  <2>1. attempt' = Completes(job[w].snap) /\ attempt \in [Attempts -> Rows]
    BY DEF IInv, TypeOK, Commit, Rows
  <2>2. ASSUME NEW a \in Attempts
        PROVE  \/ attempt'[a] = attempt[a]
               \/ attempt'[a] = [attempt[a] EXCEPT !.status = "completed",
                                                   !.subscription = TRUE]
    BY <2>1 DEF Completes
  <2>3. ASSUME NEW a \in Attempts
        PROVE  /\ attempt'[a] \in Rows
               /\ attempt'[a].session = attempt[a].session
               /\ Active(a)' => Active(a)
    <3>1. attempt[a] \in Rows
      BY <2>1
    <3>2. CASE attempt'[a] = attempt[a]
      BY <3>1, <3>2 DEF Active
    <3>3. CASE attempt'[a] = [attempt[a] EXCEPT !.status = "completed",
                                                !.subscription = TRUE]
      BY <3>1, <3>3 DEF Active, Rows
    <3> QED
      BY <2>2, <3>2, <3>3
  <2> QED
    BY <2>1, <2>3 DEF Completes, Rows
<1>8. TypeOK'
  <2>1. mirror' \in Subscriptions /\ status' \in {"none", "paid", "lapsed", "deleting"}
    BY <1>1 DEF Commit, Jobs, Derived
  <2> QED
    BY <1>1, <1>4, <1>7, <2>1 DEF IInv, TypeOK, Commit, stripe, deliveries, bounds
<1>9. OneActive' /\ Made'
  BY <1>7 DEF IInv, OneActive, Made, Commit, stripe
<1>10. (seen <= clock)' /\ ProcessedMeansRead'
  <2>1. \A v \in Events : v \in Nat
    BY BillingAssumption DEF Events, BillingAssumption
  <2> QED
    BY <1>1, <2>1 DEF IInv, ProcessedMeansRead, Commit, deliveries
<1> QED
  BY <1>5, <1>6, <1>8, <1>9, <1>10 DEF IInv

\* A superseded pass leaves its event to another delivery.
LEMMA SupersededInv == ASSUME IInv, NEW w \in Workers, Superseded(w) PROVE IInv'
<1>1. Release(w, "due")
  BY DEF Superseded, Outcome
<1>2. mishaps' \in 0 .. MaxMishaps /\ UNCHANGED requests
  BY DEF IInv, TypeOK, Superseded, bounds
<1> QED
  BY <1>1, <1>2, Answering DEF Superseded

-----------------------------------------------------------------------------
(* The webhook.                                                             *)

\* An event is answered by a pass that committed what it read of it.
LEMMA FinishInv == ASSUME IInv, NEW w \in Workers, Finish(w) PROVE IInv'
<1>1. Release(w, "processed")
  BY DEF Finish, Outcome
<1>2. mishaps' \in 0 .. MaxMishaps /\ UNCHANGED requests
  BY DEF IInv, TypeOK, Finish, bounds
<1> QED
  BY <1>1, <1>2, Answering DEF Finish

\* A thread that dies leaves its event to its lease; one that hears an error gives it up.
LEMMA FailInv == ASSUME IInv, NEW w \in Workers, Fail(w) PROVE IInv'
<1>1. mishaps' \in 0 .. MaxMishaps
  BY BillingAssumption DEF IInv, TypeOK, Fail, Mishap, BillingAssumption
<1> QED
  BY <1>1, Answering DEF Fail

\* A request whose user is gone ends.
LEMMA OrphanedInv == ASSUME IInv, NEW w \in Workers, Orphaned(w) PROVE IInv'
<1>1. mishaps' \in 0 .. MaxMishaps /\ UNCHANGED <<requests, deliveries>>
  BY DEF IInv, TypeOK, Orphaned, bounds
<1> QED
  BY <1>1, Answering DEF Orphaned

\* A completed session is known to Stripe.
LEMMA LookupInv == ASSUME IInv, NEW w \in Workers, Lookup(w) PROVE IInv'
<1>1. /\ job[w] \in Jobs /\ job[w].event \in Events /\ job[w].kind # "none"
      /\ job[w].event <= clock
  BY DEF IInv, TypeOK, Lookup, Knows, At
<1>2. UNCHANGED <<stripe, offered, attempt, mirror, status, deleting, gone,
                  deliveries, history, bounds>> /\ newest' = newest
  BY DEF Lookup, account
<1>3. CASE gone /\ Goes(w, "finish")
  <2>1. PICK j \in Jobs :
          /\ job' = [job EXCEPT ![w] = j]
          /\ j.step = "finish" /\ j.kind = job[w].kind /\ j.event = job[w].event
    BY <1>3, Going DEF IInv, Steps
  <2>2. job'[w] = j
    BY <2>1, Turn DEF IInv
  <2>3. Knows(w)'
    BY <1>1, <1>2, <1>3, <2>1, <2>2 DEF Knows, At, OnSession, stripe
  <2> QED
    BY <1>2, <2>1, <2>3, Thinking
<1>4. CASE Goes(w, "claim")
  <2>1. PICK j \in Jobs :
          /\ job' = [job EXCEPT ![w] = j]
          /\ j.step = "claim" /\ j.kind = job[w].kind /\ j.event = job[w].event
    BY <1>4, Going DEF IInv, Steps
  <2>2. job'[w] = j
    BY <2>1, Turn DEF IInv
  <2>3. Knows(w)'
    BY <1>1, <1>2, <2>1, <2>2 DEF Knows, At, OnSession, stripe
  <2> QED
    BY <1>2, <2>1, <2>3, Thinking
<1>5. ASSUME NEW a \in Attempts, paidAt[a] = job[w].event,
             job' = [job EXCEPT ![w].step = "mark", ![w].attempt = a]
      PROVE  IInv'
  <2> DEFINE j == [job[w] EXCEPT !.step = "mark", !.attempt = a]
  <2>1. /\ j \in Jobs
        /\ j.step = "mark" /\ j.kind = job[w].kind /\ j.event = job[w].event
        /\ j.attempt = a
    BY <1>1 DEF Jobs
  <2>2. job' = [job EXCEPT ![w] = j]
    BY <1>5
  <2> HIDE DEF j
  <2>3. job'[w] = j
    BY <2>1, <2>2, Turn DEF IInv
  <2>4. session[a] # "none"
    BY <1>1, <1>5, BillingAssumption DEF IInv, Made, Events, BillingAssumption
  <2>5. Knows(w)'
    BY <1>1, <1>2, <2>1, <2>3, <2>4 DEF Knows, At, OnSession, stripe
  <2> QED
    BY <1>2, <2>1, <2>2, <2>5, Thinking
<1> QED
  BY <1>3, <1>4, <1>5 DEF Lookup

\* A lease that runs out changes no thread.
LEMMA LeaseRunsOutInv ==
  ASSUME IInv, NEW v \in Events, LeaseRunsOut(v) PROVE IInv'
<1>1. mishaps' \in 0 .. MaxMishaps
  BY BillingAssumption DEF IInv, TypeOK, LeaseRunsOut, Mishap, BillingAssumption
<1>2. TypeOK'
  BY <1>1 DEF IInv, TypeOK, LeaseRunsOut, stripe, account, history
<1>3. \A x \in Workers : Knows(x)'
  BY DEF IInv, LeaseRunsOut, Knows, At, OnSession, stripe, account, history
<1>4. OneActive' /\ Made' /\ (seen <= clock)' /\ ProcessedMeansRead'
  BY DEF IInv, OneActive, Active, Made, ProcessedMeansRead, LeaseRunsOut,
         stripe, account, history
<1> QED
  BY <1>2, <1>3, <1>4 DEF IInv

\* What is counted stays within its bound.
LEMMA Counting ==
  ASSUME TypeOK
  PROVE  /\ Request => requests' \in 0 .. MaxRequests
         /\ Mishap => mishaps' \in 0 .. MaxMishaps
  BY BillingAssumption DEF TypeOK, Request, Mishap, BillingAssumption

\* A thread only takes an event that has happened.
LEMMA DeliverInv ==
  ASSUME IInv, NEW w \in Workers, NEW v \in Events, Deliver(w, v) PROVE IInv'
<1> DEFINE j == [Idle EXCEPT !.kind = "webhook", !.step = "lookup", !.event = v]
<1>1. /\ j \in Jobs /\ j.kind = "webhook" /\ j.step = "lookup" /\ j.event = v
  BY Rest DEF Jobs
<1>2. job' = [job EXCEPT ![w] = j]
  BY DEF Deliver
<1> HIDE DEF j
<1>3. job'[w] = j
  BY <1>1, <1>2, Turn DEF IInv
<1>4. /\ clock' = clock /\ clock' \in Nat /\ clock <= clock' /\ v <= clock
      /\ session' = session /\ gone' = gone /\ seen' = seen /\ newest' = newest
  BY DEF IInv, TypeOK, Deliver, stripe, account, history
<1>5. Knows(w)'
  BY <1>1, <1>3, <1>4 DEF Knows, At, OnSession
<1>6. job' \in [Workers -> Jobs] /\ \A x \in Workers : Knows(x)'
  BY <1>1, <1>2, <1>4, <1>5, Working
<1>7. TypeOK'
  <2>1. requests' \in 0 .. MaxRequests
    BY Counting DEF IInv, TypeOK, Deliver
  <2> QED
    BY <1>6, <2>1 DEF IInv, TypeOK, Deliver, stripe, account, history
<1>8. OneActive' /\ Made' /\ (seen <= clock)' /\ ProcessedMeansRead'
  BY DEF IInv, TypeOK, OneActive, Active, Made, ProcessedMeansRead, Deliver,
         stripe, account, history
<1> QED
  BY <1>6, <1>7, <1>8 DEF IInv

-----------------------------------------------------------------------------
(* Checkout and the return page.                                            *)

\* What a row says of Stripe's answer.
LEMMA RowOfType ==
  ASSUME NEW answer
  PROVE  /\ RowOf(answer) \in Rows
         /\ RowOf(answer).status \in {"open", "completed", "expired"}
         /\ answer \in {"complete", "expired"} => RowOf(answer).status # "open"
         /\ RowOf(answer).status # "open" => answer \in {"complete", "expired"}
  BY DEF RowOf, Rows

\* A row written from Stripe's answer: there is at most one active attempt as
\* long as an open one has no rival.
LEMMA Writing ==
  ASSUME IInv, NEW a \in Attempts, NEW row \in Rows,
         attempt' = [attempt EXCEPT ![a] = row],
         session[a] # "none",
         UNCHANGED <<session, paidAt>>,
         row.status \in {"pending", "open"} =>
           \A b \in Attempts \ {a} : ~Active(b)
  PROVE  attempt' \in [Attempts -> Rows] /\ OneActive' /\ Made'
<1>1. attempt \in [Attempts -> Rows]
  BY DEF IInv, TypeOK, Rows
<1>2. /\ attempt' \in [Attempts -> Rows]
      /\ attempt'[a] = row
      /\ \A b \in Attempts \ {a} : attempt'[b] = attempt[b]
  BY <1>1
<1>3. OneActive'
  BY <1>2 DEF IInv, OneActive, Active
<1>4. Made'
  BY <1>2 DEF IInv, Made
<1> QED
  BY <1>2, <1>3, <1>4

\* A request starts knowing nothing.
LEMMA StartCheckoutInv ==
  ASSUME IInv, NEW w \in Workers, StartCheckout(w) PROVE IInv'
<1> DEFINE j == [Idle EXCEPT !.kind = "checkout", !.step = "claim"]
<1>1. /\ j \in Jobs /\ j.kind = "checkout" /\ j.step = "claim" /\ j.event = 0
  BY Rest DEF Jobs
<1>2. job' = [job EXCEPT ![w] = j]
  BY DEF StartCheckout
<1> HIDE DEF j
<1>3. job'[w] = j
  BY <1>1, <1>2, Turn DEF IInv
<1>4. /\ clock' = clock /\ clock' \in Nat /\ clock <= clock'
      /\ session' = session /\ gone' = gone /\ seen' = seen /\ newest' = newest
  BY DEF IInv, TypeOK, StartCheckout, stripe, account, history
<1>5. Knows(w)'
  BY <1>1, <1>3, <1>4 DEF Knows, At, OnSession
<1>6. job' \in [Workers -> Jobs] /\ \A x \in Workers : Knows(x)'
  BY <1>1, <1>2, <1>4, <1>5, Working
<1>7. TypeOK'
  <2>1. requests' \in 0 .. MaxRequests
    BY Counting DEF IInv, StartCheckout
  <2> QED
    BY <1>6, <2>1 DEF IInv, TypeOK, StartCheckout, stripe, account, deliveries, history
<1>8. OneActive' /\ Made' /\ (seen <= clock)' /\ ProcessedMeansRead'
  BY DEF IInv, OneActive, Active, Made, ProcessedMeansRead, StartCheckout,
         stripe, account, deliveries, history
<1> QED
  BY <1>6, <1>7, <1>8 DEF IInv

\* The return page names a session that has been made.
LEMMA StartSyncInv ==
  ASSUME IInv, NEW w \in Workers, StartSync(w) PROVE IInv'
<1>0. Request /\ UNCHANGED <<stripe, offered, account, deliveries, history, mishaps>>
  BY DEF StartSync
<1>1. /\ clock' = clock /\ clock' \in Nat /\ clock <= clock'
      /\ session' = session /\ gone' = gone /\ seen' = seen /\ newest' = newest
  BY <1>0 DEF IInv, TypeOK, stripe, account, history
<1>2. \E j \in Jobs :
        /\ job' = [job EXCEPT ![w] = j]
        /\ j.kind = "sync" /\ j.event = 0 /\ j.step \in {"claim", "mark"}
        /\ j.step = "mark" => /\ j.attempt \in Attempts
                              /\ session[j.attempt] # "none"
  <2>1. CASE job' = [job EXCEPT ![w] = [Idle EXCEPT !.kind = "sync", !.step = "claim"]]
    <3> DEFINE j == [Idle EXCEPT !.kind = "sync", !.step = "claim"]
    <3>1. j \in Jobs /\ j.kind = "sync" /\ j.step = "claim" /\ j.event = 0
      BY Rest DEF Jobs
    <3> QED
      BY <2>1, <3>1
  <2>2. ASSUME NEW a \in offered, session[a] = "complete",
               job' = [job EXCEPT ![w] = [Idle EXCEPT !.kind = "sync",
                         !.step = "mark", !.attempt = a]]
        PROVE  \E j \in Jobs :
                 /\ job' = [job EXCEPT ![w] = j]
                 /\ j.kind = "sync" /\ j.event = 0 /\ j.step \in {"claim", "mark"}
                 /\ j.step = "mark" => /\ j.attempt \in Attempts
                                       /\ session[j.attempt] # "none"
    <3> DEFINE j == [Idle EXCEPT !.kind = "sync", !.step = "mark", !.attempt = a]
    <3>1. a \in Attempts
      BY DEF IInv, TypeOK
    <3>2. /\ j \in Jobs /\ j.kind = "sync" /\ j.step = "mark" /\ j.event = 0
          /\ j.attempt = a
      BY <3>1, Rest DEF Jobs
    <3> QED
      BY <2>2, <3>1, <3>2
  <2> QED
    BY <2>1, <2>2 DEF StartSync
<1>3. PICK j \in Jobs :
        /\ job' = [job EXCEPT ![w] = j]
        /\ j.kind = "sync" /\ j.event = 0 /\ j.step \in {"claim", "mark"}
        /\ j.step = "mark" => /\ j.attempt \in Attempts
                              /\ session[j.attempt] # "none"
  BY <1>2
<1>4. job'[w] = j
  BY <1>3, Turn DEF IInv
<1>5. Knows(w)'
  BY <1>1, <1>3, <1>4 DEF Knows, At, OnSession
<1>6. job' \in [Workers -> Jobs] /\ \A x \in Workers : Knows(x)'
  BY <1>1, <1>3, <1>5, Working
<1>7. TypeOK'
  <2>1. requests' \in 0 .. MaxRequests
    BY <1>0, Counting DEF IInv
  <2> QED
    BY <1>0, <1>6, <2>1 DEF IInv, TypeOK, stripe, account, deliveries, history
<1>8. OneActive' /\ Made' /\ (seen <= clock)' /\ ProcessedMeansRead'
  BY <1>0 DEF IInv, OneActive, Active, Made, ProcessedMeansRead,
         stripe, account, deliveries, history
<1> QED
  BY <1>6, <1>7, <1>8 DEF IInv

\* A new row is made when no attempt is active.
LEMMA ReserveInv == ASSUME IInv, NEW w \in Workers, Reserve(w) PROVE IInv'
<1>0. /\ At(w, "reserve")
      /\ UNCHANGED <<stripe, offered, mirror, status, deleting, newest, gone,
                     deliveries, seen, overwritten, bounds>>
  BY DEF Reserve
<1>1. /\ job[w] \in Jobs /\ job[w].kind # "none" /\ job[w].event <= clock
      /\ attempt \in [Attempts -> Rows]
  BY <1>0 DEF IInv, TypeOK, Rows, Knows, At
<1>2. /\ clock' = clock /\ clock' \in Nat /\ clock <= clock'
      /\ session' = session /\ paidAt' = paidAt
      /\ gone' = gone /\ seen' = seen /\ newest' = newest
  BY <1>0 DEF IInv, TypeOK, stripe
<1>3. /\ attempt' \in [Attempts -> Rows] /\ late' \in BOOLEAN
      /\ OneActive' /\ Made'
  <2>1. CASE UNCHANGED <<attempt, late>>
    BY <1>1, <1>2, <2>1 DEF IInv, TypeOK, OneActive, Active, Made
  <2>2. ASSUME NEW a \in Attempts, \A b \in Attempts : ~Active(b),
               attempt' = [attempt EXCEPT ![a].status = "pending"],
               late' = (late \/ status = "paid")
        PROVE  /\ attempt' \in [Attempts -> Rows] /\ late' \in BOOLEAN
               /\ OneActive' /\ Made'
    <3>1. /\ attempt' \in [Attempts -> Rows]
          /\ attempt'[a].session = attempt[a].session
          /\ \A b \in Attempts \ {a} : attempt'[b] = attempt[b]
      BY <1>1, <2>2 DEF Rows
    <3>2. OneActive' /\ Made'
      BY <1>2, <2>2, <3>1 DEF IInv, OneActive, Active, Made
    <3> QED
      BY <2>2, <3>1, <3>2 DEF IInv, TypeOK
  <2> QED
    BY <2>1, <2>2 DEF Reserve
<1>4. \E j \in Jobs :
        /\ job' = [job EXCEPT ![w] = j]
        /\ \/ /\ j.step = "idle"
              /\ j.event = 0
           \/ /\ j.step = "create" /\ j.kind = job[w].kind
              /\ j.event = job[w].event /\ j.attempt \in Attempts
  <2>1. CASE Ends(w)
    BY <2>1, Rest DEF Ends
  <2>2. ASSUME NEW a \in Attempts,
               job' = [job EXCEPT ![w].step = "create", ![w].attempt = a]
        PROVE  \E j \in Jobs :
                 /\ job' = [job EXCEPT ![w] = j]
                 /\ j.step = "create" /\ j.kind = job[w].kind
                 /\ j.event = job[w].event /\ j.attempt \in Attempts
    <3> DEFINE j == [job[w] EXCEPT !.step = "create", !.attempt = a]
    <3>1. /\ j \in Jobs
          /\ j.step = "create" /\ j.kind = job[w].kind
          /\ j.event = job[w].event /\ j.attempt = a
      BY <1>1 DEF Jobs
    <3> QED
      BY <2>2, <3>1
  <2> QED
    BY <2>1, <2>2 DEF Reserve
<1>5. PICK j \in Jobs :
        /\ job' = [job EXCEPT ![w] = j]
        /\ \/ /\ j.step = "idle"
              /\ j.event = 0
           \/ /\ j.step = "create" /\ j.kind = job[w].kind
              /\ j.event = job[w].event /\ j.attempt \in Attempts
  BY <1>4
<1>6. job'[w] = j
  BY <1>5, Turn DEF IInv
<1>7. Knows(w)'
  BY <1>1, <1>2, <1>5, <1>6 DEF Knows, At, OnSession
<1>8. job' \in [Workers -> Jobs] /\ \A x \in Workers : Knows(x)'
  BY <1>2, <1>5, <1>7, Working
<1>9. TypeOK'
  BY <1>0, <1>3, <1>8 DEF IInv, TypeOK, Rows, stripe, deliveries, bounds
<1>10. (seen <= clock)' /\ ProcessedMeansRead'
  BY <1>0, <1>2 DEF IInv, ProcessedMeansRead, deliveries
<1> QED
  BY <1>3, <1>8, <1>9, <1>10 DEF IInv

\* The session exists from here on.
LEMMA CreateInv == ASSUME IInv, NEW w \in Workers, Create(w) PROVE IInv'
<1> DEFINE a == job[w].attempt
           answer == IF session[a] = "none" THEN "open" ELSE session[a]
           j == [job[w] EXCEPT !.step = "store", !.answer = answer]
<1>0. /\ At(w, "create")
      /\ UNCHANGED <<subscription, listed, paidAt, clock, offered, account,
                     deliveries, history, bounds>>
      /\ session' = [session EXCEPT ![a] = answer]
  BY DEF Create
<1>1. /\ job[w] \in Jobs /\ job[w].kind # "none" /\ job[w].event <= clock
      /\ a \in Attempts
  BY <1>0 DEF IInv, TypeOK, Knows, At
<1>2. /\ answer \in {"open", "complete", "expired"}
      /\ session' \in [Attempts -> {"none", "open", "complete", "expired"}]
      /\ session'[a] = answer
      /\ \A b \in Attempts : session[b] # "none" => session'[b] # "none"
  BY <1>0, <1>1 DEF IInv, TypeOK
<1>3. /\ j \in Jobs
      /\ j.step = "store" /\ j.kind = job[w].kind /\ j.event = job[w].event
      /\ j.attempt = a
      /\ job' = [job EXCEPT ![w] = j]
  <2>1. /\ j \in Jobs
        /\ j.step = "store" /\ j.kind = job[w].kind /\ j.event = job[w].event
        /\ j.attempt = a
    BY <1>1, <1>2 DEF Jobs
  <2>2. job' = [job EXCEPT ![w].step = "store", ![w].answer = session'[a]]
    BY DEF Create
  <2>3. job' = [job EXCEPT ![w].step = "store", ![w].answer = answer]
    BY <1>2, <2>2
  <2>4. job' = [job EXCEPT ![w] = j]
    BY <2>3
  <2> QED
    BY <2>1, <2>4
<1> HIDE DEF j
<1>4. /\ clock' = clock /\ clock' \in Nat /\ clock <= clock'
      /\ gone' = gone /\ seen' = seen /\ newest' = newest
  BY <1>0 DEF IInv, TypeOK, account, history
<1>5. job'[w] = j
  BY <1>3, Turn DEF IInv
<1>6. Knows(w)'
  BY <1>1, <1>2, <1>3, <1>4, <1>5 DEF Knows, At, OnSession
<1>7. job' \in [Workers -> Jobs] /\ \A x \in Workers : Knows(x)'
  BY <1>2, <1>3, <1>4, <1>6, Working
<1>8. TypeOK'
  BY <1>0, <1>2, <1>7 DEF IInv, TypeOK, account, deliveries, history, bounds
<1>9. OneActive' /\ Made' /\ (seen <= clock)' /\ ProcessedMeansRead'
  BY <1>0, <1>2 DEF IInv, OneActive, Active, Made, ProcessedMeansRead,
     account, deliveries, history
<1> QED
  BY <1>7, <1>8, <1>9 DEF IInv

\* What Stripe answered is stored unless another attempt is active.
LEMMA StoreInv == ASSUME IInv, NEW w \in Workers, Store(w) PROVE IInv'
<1> DEFINE a == job[w].attempt
           row == RowOf(job[w].answer)
<1>0. /\ At(w, "store")
      /\ UNCHANGED <<stripe, mirror, status, deleting, newest, gone, deliveries,
                     seen, late, bounds>>
  BY DEF Store
<1>1. /\ job[w] \in Jobs /\ job[w].kind # "none" /\ job[w].event <= clock
      /\ a \in Attempts /\ session[a] # "none"
  BY <1>0 DEF IInv, TypeOK, Knows, At, OnSession
<1>2. /\ clock' = clock /\ clock' \in Nat /\ clock <= clock'
      /\ session' = session /\ paidAt' = paidAt
      /\ gone' = gone /\ seen' = seen /\ newest' = newest
  BY <1>0 DEF IInv, TypeOK, stripe
<1>3. /\ row \in Rows
      /\ row.status \in {"open", "completed", "expired"}
      /\ row.status # "open" => job[w].answer \in {"complete", "expired"}
  BY RowOfType
<1>4. /\ attempt' \in [Attempts -> Rows] /\ overwritten' \in BOOLEAN
      /\ OneActive' /\ Made'
  <2>1. CASE Collides(a, row)
    <3>1. UNCHANGED <<attempt, overwritten>>
      BY <2>1 DEF Store
    <3> QED
      BY <1>2, <3>1 DEF IInv, TypeOK, OneActive, Active, Made, Rows
  <2>2. CASE ~Collides(a, row)
    <3>1. /\ attempt' = IF gone THEN attempt ELSE [attempt EXCEPT ![a] = row]
          /\ overwritten' = (\/ overwritten
                             \/ /\ attempt[a].status = "completed"
                                /\ row.status # "completed")
      BY <2>2 DEF Store
    <3>2. row.status \in {"pending", "open"} => \A b \in Attempts \ {a} : ~Active(b)
      BY <1>3, <2>2 DEF Collides
    <3>3. attempt' \in [Attempts -> Rows] /\ OneActive' /\ Made'
      <4>1. CASE gone
        BY <1>2, <3>1, <4>1 DEF IInv, TypeOK, OneActive, Active, Made, Rows
      <4>2. CASE ~gone
        BY <1>1, <1>2, <1>3, <3>1, <3>2, <4>2, Writing
      <4> QED
        BY <4>1, <4>2
    <3> QED
      BY <3>1, <3>3 DEF IInv, TypeOK
  <2> QED
    BY <2>1, <2>2
<1>5. offered' \subseteq Attempts
  <2>1. offered' = offered \/ offered' = offered \cup {a}
    BY DEF Store
  <2> QED
    BY <1>1, <2>1 DEF IInv, TypeOK
<1>6. \E j \in Jobs :
        /\ job' = [job EXCEPT ![w] = j]
        /\ \/ j.step = "idle" /\ j.event = 0
           \/ /\ j.step \in {"expire", "settle", "reserve"}
              /\ j.kind = job[w].kind /\ j.event = job[w].event
              /\ j.attempt = a
              /\ j.step = "settle" => j.answer \in {"complete", "expired"}
  <2>1. CASE Ends(w)
    BY <2>1, Rest DEF Ends
  <2>2. ASSUME NEW s \in {"expire", "settle"}, Goes(w, s),
               s = "settle" => row.status # "open"
        PROVE  \E j \in Jobs :
                 /\ job' = [job EXCEPT ![w] = j]
                 /\ j.step = s
                 /\ j.kind = job[w].kind /\ j.event = job[w].event
                 /\ j.attempt = a
                 /\ s = "settle" => j.answer \in {"complete", "expired"}
    <3>1. s \in Steps
      BY DEF Steps
    <3> QED
      BY <1>3, <2>2, <3>1, Going DEF IInv
  <2>3. ASSUME job' = [job EXCEPT ![w].step = "reserve", ![w].round = 2]
        PROVE  \E j \in Jobs :
                 /\ job' = [job EXCEPT ![w] = j]
                 /\ j.step = "reserve"
                 /\ j.kind = job[w].kind /\ j.event = job[w].event
                 /\ j.attempt = a
    <3> DEFINE j == [job[w] EXCEPT !.step = "reserve", !.round = 2]
    <3>1. /\ j \in Jobs
          /\ j.step = "reserve" /\ j.kind = job[w].kind
          /\ j.event = job[w].event /\ j.attempt = a
      BY <1>1 DEF Jobs
    <3> QED
      BY <2>3, <3>1
  <2>4. \/ Ends(w)
        \/ row.status = "open" /\ Goes(w, "expire")
        \/ row.status # "open" /\ Goes(w, "settle")
        \/ job' = [job EXCEPT ![w].step = "reserve", ![w].round = 2]
    BY DEF Store
  <2> QED
    BY <2>1, <2>2, <2>3, <2>4
<1>7. PICK j \in Jobs :
        /\ job' = [job EXCEPT ![w] = j]
        /\ \/ j.step = "idle" /\ j.event = 0
           \/ /\ j.step \in {"expire", "settle", "reserve"}
              /\ j.kind = job[w].kind /\ j.event = job[w].event
              /\ j.attempt = a
              /\ j.step = "settle" => j.answer \in {"complete", "expired"}
  BY <1>6
<1>8. job'[w] = j
  BY <1>7, Turn DEF IInv
<1>9. Knows(w)'
  BY <1>1, <1>2, <1>7, <1>8 DEF Knows, At, OnSession
<1>10. job' \in [Workers -> Jobs] /\ \A x \in Workers : Knows(x)'
  BY <1>2, <1>7, <1>9, Working
<1>11. TypeOK'
  BY <1>0, <1>4, <1>5, <1>10 DEF IInv, TypeOK, Rows, stripe, deliveries, bounds
<1>12. (seen <= clock)' /\ ProcessedMeansRead'
  BY <1>0, <1>2 DEF IInv, ProcessedMeansRead, deliveries
<1> QED
  BY <1>4, <1>10, <1>11, <1>12 DEF IInv

\* A completed attempt is not active.
LEMMA MarkInv == ASSUME IInv, NEW w \in Workers, Mark(w) PROVE IInv'
<1> DEFINE a == job[w].attempt
           j == [job[w] EXCEPT !.step = "claim", !.attempt = NoAttempt]
<1>0. /\ At(w, "mark")
      /\ attempt' = [attempt EXCEPT ![a] = RowOf("complete")]
      /\ job' = [job EXCEPT ![w] = j]
      /\ UNCHANGED <<stripe, offered, mirror, status, deleting, newest, gone,
                     deliveries, history, bounds>>
  BY DEF Mark
<1>1. /\ job[w] \in Jobs /\ job[w].kind # "none" /\ job[w].event <= clock
      /\ a \in Attempts /\ session[a] # "none"
  BY <1>0 DEF IInv, TypeOK, Knows, At, OnSession
<1>2. /\ clock' = clock /\ clock' \in Nat /\ clock <= clock'
      /\ session' = session /\ paidAt' = paidAt
      /\ gone' = gone /\ seen' = seen /\ newest' = newest
  BY <1>0 DEF IInv, TypeOK, stripe, history
<1>3. /\ j \in Jobs
      /\ j.step = "claim" /\ j.kind = job[w].kind /\ j.event = job[w].event
      /\ job' = [job EXCEPT ![w] = j]
  BY <1>0, <1>1 DEF Jobs
<1> HIDE DEF j
<1>4. job'[w] = j
  BY <1>3, Turn DEF IInv
<1>5. Knows(w)'
  BY <1>1, <1>2, <1>3, <1>4 DEF Knows, At, OnSession
<1>6. job' \in [Workers -> Jobs] /\ \A x \in Workers : Knows(x)'
  BY <1>2, <1>3, <1>5, Working
<1>7. attempt' \in [Attempts -> Rows] /\ OneActive' /\ Made'
  <2>1. RowOf("complete") \in Rows /\ RowOf("complete").status = "completed"
    BY RowOfType DEF RowOf
  <2> QED
    BY <1>0, <1>1, <1>2, <2>1, Writing
<1>8. TypeOK'
  BY <1>0, <1>6, <1>7 DEF IInv, TypeOK, Rows, stripe, deliveries, history, bounds
<1>9. (seen <= clock)' /\ ProcessedMeansRead'
  BY <1>0, <1>2 DEF IInv, ProcessedMeansRead, deliveries
<1> QED
  BY <1>6, <1>7, <1>8, <1>9 DEF IInv

\* A paid account goes no further.
LEMMA CheckInv == ASSUME IInv, NEW w \in Workers, Check(w) PROVE IInv'
<1>0. /\ At(w, "check") /\ (Ends(w) \/ Goes(w, "reserve"))
      /\ newest' = newest
      /\ UNCHANGED <<stripe, offered, attempt, mirror, status, deleting, gone,
                     deliveries, history, bounds>>
  BY DEF Check, account
<1>1. CASE Ends(w)
  <2>1. clock' \in Nat
    BY <1>0 DEF IInv, TypeOK, stripe
  <2> QED
    BY <1>0, <1>1, <2>1, Ending, Thinking DEF IInv
<1>2. CASE Goes(w, "reserve")
  <2>1. PICK j \in Jobs :
          /\ job' = [job EXCEPT ![w] = j]
          /\ j.step = "reserve" /\ j.kind = job[w].kind /\ j.event = job[w].event
    BY <1>2, Going DEF IInv, Steps
  <2>2. job'[w] = j
    BY <2>1, Turn DEF IInv
  <2>3. Knows(w)'
    BY <1>0, <2>1, <2>2 DEF IInv, Knows, At, OnSession, stripe
  <2> QED
    BY <1>0, <2>1, <2>3, Thinking
<1> QED
  BY <1>0, <1>1, <1>2

-----------------------------------------------------------------------------
(* The deletion.                                                            *)

\* A deletion starts knowing nothing.
LEMMA StartDeleteInv ==
  ASSUME IInv, NEW w \in Workers, StartDelete(w) PROVE IInv'
<1> DEFINE j == [Idle EXCEPT !.kind = "delete", !.step = "collect"]
<1>0. /\ Request /\ deleting' = TRUE /\ status' = "deleting"
      /\ UNCHANGED <<stripe, offered, attempt, mirror, newest, gone, deliveries,
                     history, mishaps>>
  BY DEF StartDelete
<1>1. /\ j \in Jobs /\ j.kind = "delete" /\ j.step = "collect" /\ j.event = 0
      /\ job' = [job EXCEPT ![w] = j]
  BY Rest DEF Jobs, StartDelete
<1> HIDE DEF j
<1>2. job'[w] = j
  BY <1>1, Turn DEF IInv
<1>3. /\ clock' = clock /\ clock' \in Nat /\ clock <= clock'
      /\ session' = session /\ gone' = gone /\ seen' = seen /\ newest' = newest
  BY <1>0 DEF IInv, TypeOK, stripe, history
<1>4. Knows(w)'
  BY <1>1, <1>2, <1>3 DEF Knows, At, OnSession
<1>5. job' \in [Workers -> Jobs] /\ \A x \in Workers : Knows(x)'
  BY <1>1, <1>3, <1>4, Working
<1>6. requests' \in 0 .. MaxRequests
  BY <1>0, Counting DEF IInv
<1>7. TypeOK'
  BY <1>0, <1>5, <1>6 DEF IInv, TypeOK, stripe, deliveries, history
<1>8. OneActive' /\ Made' /\ (seen <= clock)' /\ ProcessedMeansRead'
  BY <1>0 DEF IInv, OneActive, Active, Made, ProcessedMeansRead,
     stripe, deliveries, history
<1> QED
  BY <1>5, <1>7, <1>8 DEF IInv

\* A row that names a session is read at Stripe, another's session is made.
LEMMA CollectInv == ASSUME IInv, NEW w \in Workers, Collect(w) PROVE IInv'
<1>0. /\ At(w, "collect") /\ newest' = newest
      /\ UNCHANGED <<stripe, offered, attempt, mirror, status, deleting, gone,
                     deliveries, history, bounds>>
  BY DEF Collect, account
<1>1. job[w] \in Jobs /\ job[w].kind # "none" /\ job[w].event <= clock
  BY <1>0 DEF IInv, TypeOK, Knows, At
<1>2. CASE Goes(w, "claim")
  <2>1. PICK j \in Jobs :
          /\ job' = [job EXCEPT ![w] = j]
          /\ j.step = "claim" /\ j.kind = job[w].kind /\ j.event = job[w].event
    BY <1>2, Going DEF IInv, Steps
  <2>2. job'[w] = j
    BY <2>1, Turn DEF IInv
  <2>3. Knows(w)'
    BY <1>0, <1>1, <2>1, <2>2 DEF Knows, At, OnSession, stripe
  <2> QED
    BY <1>0, <2>1, <2>3, Thinking
<1>3. ASSUME NEW a \in Attempts, NEW s \in {"retrieve", "create"},
             s = "retrieve" => attempt[a].session,
             job' = [job EXCEPT ![w].attempt = a, ![w].step = s]
      PROVE  IInv'
  <2> DEFINE j == [job[w] EXCEPT !.attempt = a, !.step = s]
  <2>1. /\ j \in Jobs
        /\ j.step = s /\ j.kind = job[w].kind /\ j.event = job[w].event
        /\ j.attempt = a
    BY <1>1 DEF Jobs
  <2>2. job' = [job EXCEPT ![w] = j]
    BY <1>3
  <2> HIDE DEF j
  <2>3. job'[w] = j
    BY <2>1, <2>2, Turn DEF IInv
  <2>4. s = "retrieve" => session[a] # "none"
    BY <1>3 DEF IInv, Made
  <2>5. Knows(w)'
    BY <1>0, <1>1, <2>1, <2>3, <2>4 DEF Knows, At, OnSession, stripe
  <2> QED
    BY <1>0, <2>1, <2>2, <2>5, Thinking
<1>4. \/ Goes(w, "claim")
      \/ \E a \in Attempts :
           job' = [job EXCEPT ![w].attempt = a, ![w].step =
                     IF attempt[a].session THEN "retrieve" ELSE "create"]
  BY DEF Collect
<1>5. ASSUME NEW a \in Attempts,
             job' = [job EXCEPT ![w].attempt = a, ![w].step =
                       IF attempt[a].session THEN "retrieve" ELSE "create"]
      PROVE  IInv'
  <2>1. CASE attempt[a].session
    BY <1>3, <1>5, <2>1
  <2>2. CASE ~attempt[a].session
    BY <1>3, <1>5, <2>2
  <2> QED
    BY <2>1, <2>2
<1> QED
  BY <1>2, <1>4, <1>5

\* What Stripe says of a session that has been made.
LEMMA RetrieveInv == ASSUME IInv, NEW w \in Workers, Retrieve(w) PROVE IInv'
<1> DEFINE answer == session[job[w].attempt]
           step == IF answer = "open" THEN "expire" ELSE "settle"
           j == [job[w] EXCEPT !.answer = answer, !.step = step]
<1>0. /\ At(w, "retrieve") /\ newest' = newest
      /\ UNCHANGED <<stripe, offered, attempt, mirror, status, deleting, gone,
                     deliveries, history, bounds>>
      /\ job' = [job EXCEPT ![w].answer = answer, ![w].step = step]
  BY DEF Retrieve, account
<1>1. /\ job[w] \in Jobs /\ job[w].kind # "none" /\ job[w].event <= clock
      /\ job[w].attempt \in Attempts
      /\ answer \in {"open", "complete", "expired"}
  BY <1>0 DEF IInv, TypeOK, Knows, At, OnSession
<1>2. /\ j \in Jobs
      /\ j.step \in {"expire", "settle"} /\ j.kind = job[w].kind
      /\ j.event = job[w].event /\ j.attempt = job[w].attempt
      /\ j.step = "settle" => j.answer \in {"complete", "expired"}
  BY <1>1 DEF Jobs
<1>3. job' = [job EXCEPT ![w] = j]
  BY <1>0
<1> HIDE DEF j
<1>4. job'[w] = j
  BY <1>2, <1>3, Turn DEF IInv
<1>5. Knows(w)'
  <2>1. session' = session /\ clock' = clock /\ session[job[w].attempt] # "none"
    BY <1>0, <1>1 DEF stripe
  <2> QED
    BY <1>1, <1>2, <1>4, <2>1 DEF Knows, At, OnSession
<1> QED
  BY <1>0, <1>2, <1>3, <1>5, Thinking

\* An expired session has been made all the same.
LEMMA ExpireInv == ASSUME IInv, NEW w \in Workers, Expire(w) PROVE IInv'
<1> DEFINE a == job[w].attempt
           j == [job[w] EXCEPT !.answer = "expired", !.step = "settle"]
<1>0. /\ At(w, "expire")
      /\ UNCHANGED <<subscription, listed, paidAt, clock, offered, account,
                     deliveries, history, bounds>>
      /\ \/ Ends(w) /\ UNCHANGED session
         \/ /\ session' = [session EXCEPT ![a] = "expired"]
            /\ job' = [job EXCEPT ![w] = j]
  BY DEF Expire
<1>1. /\ job[w] \in Jobs /\ job[w].kind # "none" /\ job[w].event <= clock
      /\ a \in Attempts /\ session[a] # "none"
  BY <1>0 DEF IInv, TypeOK, Knows, At, OnSession
<1>2. /\ clock' = clock /\ clock' \in Nat /\ clock <= clock'
      /\ gone' = gone /\ seen' = seen /\ newest' = newest
  BY <1>0 DEF IInv, TypeOK, account, history
<1>3. /\ session' \in [Attempts -> {"none", "open", "complete", "expired"}]
      /\ \A b \in Attempts : session[b] # "none" => session'[b] # "none"
  BY <1>0 DEF IInv, TypeOK
<1>4. job' \in [Workers -> Jobs] /\ \A x \in Workers : Knows(x)'
  <2>1. CASE Ends(w)
    BY <1>2, <1>3, <2>1, Ending, Working DEF IInv
  <2>2. CASE job' = [job EXCEPT ![w] = j]
    <3>1. /\ j \in Jobs
          /\ j.step = "settle" /\ j.answer = "expired" /\ j.kind = job[w].kind
          /\ j.event = job[w].event /\ j.attempt = a
      BY <1>1 DEF Jobs
    <3> HIDE DEF j
    <3>2. job'[w] = j
      BY <2>2, <3>1, Turn DEF IInv
    <3>3. Knows(w)'
      BY <1>1, <1>2, <1>3, <3>1, <3>2 DEF Knows, At, OnSession
    <3> QED
      BY <1>2, <1>3, <2>2, <3>1, <3>3, Working
  <2> QED
    BY <1>0, <2>1, <2>2
<1>5. TypeOK'
  BY <1>0, <1>3, <1>4 DEF IInv, TypeOK, account, deliveries, history, bounds
<1>6. OneActive' /\ Made' /\ (seen <= clock)' /\ ProcessedMeansRead'
  BY <1>0, <1>3 DEF IInv, OneActive, Active, Made, ProcessedMeansRead,
     account, deliveries, history
<1> QED
  BY <1>4, <1>5, <1>6 DEF IInv

\* A settled attempt is not active.
LEMMA SettleInv == ASSUME IInv, NEW w \in Workers, Settle(w) PROVE IInv'
<1> DEFINE a == job[w].attempt
           row == RowOf(job[w].answer)
           j == [Idle EXCEPT !.kind = "delete", !.step = "claim"]
<1>0. /\ At(w, "settle")
      /\ attempt' = [attempt EXCEPT ![a] = row]
      /\ UNCHANGED <<stripe, offered, mirror, status, deleting, newest, gone,
                     deliveries, history, bounds>>
  BY DEF Settle
<1>1. /\ a \in Attempts /\ session[a] # "none"
      /\ job[w].answer \in {"complete", "expired"}
  BY <1>0 DEF IInv, Knows, At, OnSession
<1>2. /\ clock' = clock /\ clock' \in Nat /\ clock <= clock'
      /\ session' = session /\ paidAt' = paidAt
      /\ gone' = gone /\ seen' = seen /\ newest' = newest
  BY <1>0 DEF IInv, TypeOK, stripe, history
<1>3. /\ j \in Jobs /\ j.step = "claim" /\ j.kind = "delete" /\ j.event = 0
      /\ job' = [job EXCEPT ![w] = j]
  BY Rest DEF Jobs, Settle
<1> HIDE DEF j
<1>4. job'[w] = j
  BY <1>3, Turn DEF IInv
<1>5. Knows(w)'
  BY <1>2, <1>3, <1>4 DEF Knows, At, OnSession
<1>6. job' \in [Workers -> Jobs] /\ \A x \in Workers : Knows(x)'
  BY <1>2, <1>3, <1>5, Working
<1>7. attempt' \in [Attempts -> Rows] /\ OneActive' /\ Made'
  <2>1. row \in Rows /\ row.status \in {"completed", "expired"}
    BY <1>1, RowOfType
  <2> QED
    BY <1>0, <1>1, <1>2, <2>1, Writing
<1>8. TypeOK'
  BY <1>0, <1>6, <1>7 DEF IInv, TypeOK, Rows, stripe, deliveries, history, bounds
<1>9. (seen <= clock)' /\ ProcessedMeansRead'
  BY <1>0, <1>2 DEF IInv, ProcessedMeansRead, deliveries
<1> QED
  BY <1>6, <1>7, <1>8, <1>9 DEF IInv

\* The fence only looks.
LEMMA FenceInv == ASSUME IInv, NEW w \in Workers, Fence(w) PROVE IInv'
<1> DEFINE j == [job[w] EXCEPT !.step = "cancel",
                               !.todo = {a \in Attempts : mirror[a] = "live"}]
<1>0. /\ At(w, "fence") /\ newest' = newest
      /\ UNCHANGED <<stripe, offered, attempt, mirror, status, deleting, gone,
                     deliveries, history, bounds>>
      /\ Ends(w) \/ job' = [job EXCEPT ![w] = j]
  BY DEF Fence, account
<1>1. /\ job[w] \in Jobs /\ job[w].kind # "none" /\ job[w].event <= clock
      /\ clock' \in Nat
  BY <1>0 DEF IInv, TypeOK, Knows, At, stripe
<1>2. CASE Ends(w)
  BY <1>0, <1>1, <1>2, Ending, Thinking DEF IInv
<1>3. CASE job' = [job EXCEPT ![w] = j]
  <2>1. /\ j \in Jobs
        /\ j.step = "cancel" /\ j.kind = job[w].kind /\ j.event = job[w].event
    BY <1>1 DEF Jobs
  <2> HIDE DEF j
  <2>2. job'[w] = j
    BY <1>3, <2>1, Turn DEF IInv
  <2>3. Knows(w)'
    BY <1>0, <1>1, <2>1, <2>2 DEF Knows, At, OnSession, stripe
  <2> QED
    BY <1>0, <1>3, <2>1, <2>3, Thinking
<1> QED
  BY <1>0, <1>2, <1>3

\* A cancelled subscription is one more event.
LEMMA CancelInv == ASSUME IInv, NEW w \in Workers, Cancel(w) PROVE IInv'
<1>0. /\ At(w, "cancel")
      /\ UNCHANGED <<session, listed, paidAt, offered, account, deliveries,
                     history, bounds>>
  BY DEF Cancel
<1>1. /\ job[w] \in Jobs /\ job[w].kind # "none" /\ job[w].event <= clock
      /\ clock \in Nat /\ job[w].event \in Nat
  BY <1>0, BillingAssumption
  DEF IInv, TypeOK, Knows, At, Jobs, Events, BillingAssumption
<1>2. /\ session' = session
      /\ gone' = gone /\ seen' = seen /\ newest' = newest
  BY <1>0 DEF account, history
<1>3. /\ subscription' \in Subscriptions
      /\ clock' \in Nat /\ clock <= clock'
  BY <1>1 DEF IInv, TypeOK, Cancel, Subscriptions
<1>4. job' \in [Workers -> Jobs] /\ \A x \in Workers : Knows(x)'
  <2>1. CASE Ends(w)
    BY <1>2, <1>3, <2>1, Ending, Working DEF IInv
  <2>2. ASSUME NEW a \in Attempts,
               job' = [job EXCEPT ![w].todo = @ \ {a}]
        PROVE  job' \in [Workers -> Jobs] /\ \A x \in Workers : Knows(x)'
    <3> DEFINE j == [job[w] EXCEPT !.todo = @ \ {a}]
    <3>1. /\ j \in Jobs
          /\ j.step = "cancel" /\ j.kind = job[w].kind /\ j.event = job[w].event
      BY <1>0, <1>1 DEF Jobs, At
    <3>2. job' = [job EXCEPT ![w] = j]
      BY <2>2
    <3> HIDE DEF j
    <3>3. job'[w] = j
      BY <3>1, <3>2, Turn DEF IInv
    <3>4. Knows(w)'
      BY <1>1, <1>3, <3>1, <3>3 DEF Knows, At, OnSession
    <3> QED
      BY <1>2, <1>3, <3>1, <3>2, <3>4, Working
  <2>3. \/ Ends(w)
        \/ \E a \in job[w].todo : job' = [job EXCEPT ![w].todo = @ \ {a}]
    BY DEF Cancel
  <2>4. job[w].todo \subseteq Attempts
    BY <1>1 DEF Jobs
  <2> QED
    BY <2>1, <2>2, <2>3, <2>4
<1>5. TypeOK'
  BY <1>0, <1>3, <1>4 DEF IInv, TypeOK, account, deliveries, history, bounds
<1>6. OneActive' /\ Made' /\ ProcessedMeansRead'
  BY <1>0 DEF IInv, OneActive, Active, Made, ProcessedMeansRead,
     account, deliveries, history
<1>7. (seen <= clock)'
  BY <1>1, <1>2, <1>3 DEF IInv, TypeOK
<1> QED
  BY <1>4, <1>5, <1>6, <1>7 DEF IInv

\* A deleted user has no rows.
LEMMA DeleteUserInv == ASSUME IInv, NEW w \in Workers, DeleteUser(w) PROVE IInv'
<1>0. /\ gone' = TRUE /\ Ends(w)
      /\ attempt' = [a \in Attempts |-> NoRow]
      /\ mirror' = [a \in Attempts |-> "none"]
      /\ UNCHANGED <<stripe, offered, status, deleting, newest, deliveries,
                     history, bounds>>
  BY DEF DeleteUser
<1>1. /\ clock' = clock /\ clock' \in Nat /\ clock <= clock'
      /\ session' = session /\ paidAt' = paidAt /\ seen' = seen /\ newest' = newest
  BY <1>0 DEF IInv, TypeOK, stripe, history
<1>2. job' \in [Workers -> Jobs] /\ \A x \in Workers : Knows(x)'
  BY <1>0, <1>1, Ending, Working DEF IInv
<1>3. NoRow \in Rows /\ NoRow.status = "none" /\ NoRow.session = FALSE
  BY DEF NoRow, Rows
<1>4. attempt' \in [Attempts -> Rows] /\ OneActive' /\ Made'
  BY <1>0, <1>1, <1>3 DEF IInv, OneActive, Active, Made
<1>5. TypeOK'
  BY <1>0, <1>2, <1>4 DEF IInv, TypeOK, Rows, Subscriptions, stripe, deliveries,
     history, bounds
<1>6. (seen <= clock)' /\ ProcessedMeansRead'
  BY <1>0, <1>1 DEF IInv, ProcessedMeansRead
<1> QED
  BY <1>2, <1>4, <1>5, <1>6 DEF IInv

-----------------------------------------------------------------------------
(* The customer at Stripe.                                                  *)

\* What happens at Stripe leaves every thread knowing what it knew.
LEMMA Elsewhere ==
  ASSUME IInv,
         UNCHANGED <<offered, account, deliveries, job, history, requests>>,
         clock' \in Nat, clock <= clock',
         session' \in [Attempts -> {"none", "open", "complete", "expired"}],
         \A a \in Attempts : session[a] # "none" => session'[a] # "none",
         paidAt' \in [Attempts -> Nat],
         \A a \in Attempts : paidAt'[a] # paidAt[a] => session'[a] # "none",
         subscription' \in Subscriptions, listed' \subseteq Attempts,
         mishaps' \in 0 .. MaxMishaps
  PROVE  IInv'
<1>1. gone' = gone /\ seen' = seen /\ newest' = newest /\ job' = job
  BY DEF account, history
<1>2. ASSUME NEW x \in Workers PROVE Knows(x)'
  BY <1>1, Bystander DEF IInv, TypeOK
<1>3. TypeOK'
  BY DEF IInv, TypeOK, account, deliveries, history
<1>4. OneActive' /\ Made' /\ ProcessedMeansRead'
  BY DEF IInv, OneActive, Active, Made, ProcessedMeansRead,
     account, deliveries, history
<1>5. (seen <= clock)'
  BY <1>1 DEF IInv, TypeOK
<1> QED
  BY <1>2, <1>3, <1>4, <1>5 DEF IInv

\* A session that is paid for has been made.
LEMMA PayInv == ASSUME IInv, NEW a \in Attempts, Pay(a) PROVE IInv'
<1>0. /\ UNCHANGED <<listed, offered, account, deliveries, job, history, bounds>>
      /\ session' = [session EXCEPT ![a] = "complete"]
      /\ subscription' = [subscription EXCEPT ![a] = "live"]
      /\ clock' = clock + 1
      /\ paidAt' = [paidAt EXCEPT ![a] = clock + 1]
  BY DEF Pay
<1>1. /\ clock' \in Nat /\ clock <= clock' /\ paidAt' \in [Attempts -> Nat]
      /\ session' \in [Attempts -> {"none", "open", "complete", "expired"}]
      /\ subscription' \in Subscriptions /\ listed' \subseteq Attempts
      /\ mishaps' \in 0 .. MaxMishaps
  BY <1>0 DEF IInv, TypeOK, Subscriptions, bounds
<1>2. \A b \in Attempts : /\ session[b] # "none" => session'[b] # "none"
                          /\ paidAt'[b] # paidAt[b] => session'[b] # "none"
  BY <1>0 DEF IInv, TypeOK
<1> QED
  BY <1>0, <1>1, <1>2, Elsewhere DEF bounds

\* A subscription that is listed is one more event.
LEMMA AppearInv == ASSUME IInv, NEW a \in Attempts, Appear(a) PROVE IInv'
<1>0. /\ UNCHANGED <<session, subscription, paidAt, offered, account, deliveries,
                     job, history, bounds>>
      /\ listed' = listed \cup {a} /\ clock' = clock + 1
  BY DEF Appear
<1>1. /\ clock' \in Nat /\ clock <= clock' /\ paidAt' \in [Attempts -> Nat]
      /\ session' \in [Attempts -> {"none", "open", "complete", "expired"}]
      /\ subscription' \in Subscriptions /\ listed' \subseteq Attempts
      /\ mishaps' \in 0 .. MaxMishaps
  BY <1>0 DEF IInv, TypeOK, bounds
<1> QED
  BY <1>0, <1>1, Elsewhere DEF bounds

\* A subscription that ends is one more event.
LEMMA LapseInv == ASSUME IInv, NEW a \in Attempts, Lapse(a) PROVE IInv'
<1>0. /\ UNCHANGED <<session, listed, paidAt, offered, account, deliveries, job,
                     history, requests>>
      /\ Mishap /\ clock' = clock + 1
      /\ subscription' = [subscription EXCEPT ![a] = "ended"]
  BY DEF Lapse
<1>1. /\ clock' \in Nat /\ clock <= clock' /\ paidAt' \in [Attempts -> Nat]
      /\ session' \in [Attempts -> {"none", "open", "complete", "expired"}]
      /\ subscription' \in Subscriptions /\ listed' \subseteq Attempts
  BY <1>0 DEF IInv, TypeOK, Subscriptions
<1>2. mishaps' \in 0 .. MaxMishaps
  BY <1>0, Counting DEF IInv
<1> QED
  BY <1>0, <1>1, <1>2, Elsewhere

\* A session that closes has been made all the same.
LEMMA CloseInv == ASSUME IInv, NEW a \in Attempts, Close(a) PROVE IInv'
<1>0. /\ UNCHANGED <<subscription, listed, paidAt, clock, offered, account,
                     deliveries, job, history, requests>>
      /\ Mishap
      /\ session' = [session EXCEPT ![a] = "expired"]
  BY DEF Close
<1>1. /\ clock' \in Nat /\ clock <= clock' /\ paidAt' \in [Attempts -> Nat]
      /\ session' \in [Attempts -> {"none", "open", "complete", "expired"}]
      /\ subscription' \in Subscriptions /\ listed' \subseteq Attempts
      /\ \A b \in Attempts : session[b] # "none" => session'[b] # "none"
  BY <1>0 DEF IInv, TypeOK
<1>2. mishaps' \in 0 .. MaxMishaps
  BY <1>0, Counting DEF IInv
<1> QED
  BY <1>0, <1>1, <1>2, Elsewhere

-----------------------------------------------------------------------------
(* The theorems.                                                            *)

\* At first nothing has happened.
LEMMA InitInv == Init => IInv
<1> SUFFICES ASSUME Init PROVE IInv
  OBVIOUS
<1>1. \A v \in Events : v \in Nat
  BY BillingAssumption DEF Events, BillingAssumption
<1>2. NoRow \in Rows /\ NoRow.status = "none" /\ NoRow.session = FALSE
  BY DEF NoRow, Rows
<1>3. TypeOK
  <2>1. /\ session \in [Attempts -> {"none", "open", "complete", "expired"}]
        /\ subscription \in Subscriptions /\ mirror \in Subscriptions
        /\ paidAt \in [Attempts -> Nat]
    BY DEF Init, Subscriptions
  <2>2. attempt \in [Attempts -> Rows] /\ job \in [Workers -> Jobs]
    BY <1>2, Rest DEF Init
  <2>3. /\ event \in [Events -> {"due", "processing", "processed"}]
        /\ lease \in [Events -> Workers \cup {Nobody}]
    BY DEF Init
  <2>4. requests \in 0 .. MaxRequests /\ mishaps \in 0 .. MaxMishaps
    BY BillingAssumption DEF Init, BillingAssumption
  <2> QED
    BY <2>1, <2>2, <2>3, <2>4 DEF Init, TypeOK, Rows
<1>4. OneActive /\ Made
  BY <1>2 DEF Init, OneActive, Active, Made
<1>5. \A x \in Workers : Knows(x)
  BY Rest DEF Init, Knows, At, OnSession
<1>6. seen <= clock /\ ProcessedMeansRead
  BY DEF Init, ProcessedMeansRead
<1> QED
  BY <1>3, <1>4, <1>5, <1>6 DEF IInv

\* Every step of the account keeps the inductive invariant.
LEMMA NextInv == IInv /\ [Next]_vars => IInv'
<1> SUFFICES ASSUME IInv, [Next]_vars PROVE IInv'
  OBVIOUS
<1>1. ASSUME NEW w \in Workers, Work(w) PROVE IInv'
  BY <1>1, ClaimInv, ReadInv, CommitInv, SupersededInv, CheckInv, ReserveInv,
     CreateInv, StoreInv, MarkInv, LookupInv, FinishInv, CollectInv, RetrieveInv,
     ExpireInv, SettleInv, FenceInv, CancelInv, DeleteUserInv, OrphanedInv
  DEF Work
<1>2. ASSUME NEW w \in Workers,
             StartCheckout(w) \/ StartSync(w) \/ StartDelete(w) \/ Fail(w)
      PROVE  IInv'
  BY <1>2, StartCheckoutInv, StartSyncInv, StartDeleteInv, FailInv
<1>3. ASSUME NEW v \in Events,
             LeaseRunsOut(v) \/ \E w \in Workers : Deliver(w, v)
      PROVE  IInv'
  BY <1>3, LeaseRunsOutInv, DeliverInv
<1>4. ASSUME NEW a \in Attempts, Pay(a) \/ Appear(a) \/ Lapse(a) \/ Close(a)
      PROVE  IInv'
  BY <1>4, PayInv, AppearInv, LapseInv, CloseInv
<1>5. CASE UNCHANGED vars
  <2>1. /\ UNCHANGED <<session, subscription, listed, paidAt, clock>>
        /\ UNCHANGED <<offered, attempt, mirror, status, deleting, newest, gone>>
        /\ UNCHANGED <<event, lease, stale, job, seen, overwritten, late>>
        /\ UNCHANGED <<requests, mishaps>>
    BY <1>5 DEF vars, stripe, account, deliveries, history, bounds
  <2>2. TypeOK' /\ OneActive' /\ Made' /\ (seen <= clock)' /\ ProcessedMeansRead'
    BY <2>1 DEF IInv, TypeOK, OneActive, Active, Made, ProcessedMeansRead
  <2>3. \A x \in Workers : Knows(x)'
    BY <2>1 DEF IInv, Knows, At
  <2> QED
    BY <2>2, <2>3 DEF IInv
<1> QED
  BY <1>1, <1>2, <1>3, <1>4, <1>5 DEF Next

\* The inductive invariant holds throughout.
THEOREM Inductive == Spec => []IInv
  BY InitInv, NextInv, PTL DEF Spec

\* Every variable keeps its type.
THEOREM TypeCorrect == Spec => []TypeOK
<1>1. IInv => TypeOK
  BY DEF IInv
<1> QED
  BY <1>1, Inductive, PTL

\* The database constraint on active attempts is never met by two of them: no
\* reservation and no late answer of Stripe makes a second one.
THEOREM OneActiveAlways == Spec => []OneActive
<1>1. IInv => OneActive
  BY DEF IInv
<1> QED
  BY <1>1, Inductive, PTL

\* An event is answered 200 only when a pass that read Stripe after it has
\* committed, however many threads, deliveries and superseded passes there are.
THEOREM AnsweredMeansRead == Spec => []ProcessedMeansRead
<1>1. IInv => ProcessedMeansRead
  BY DEF IInv
<1> QED
  BY <1>1, Inductive, PTL

\* Only a commit changes what the mirror shows.
LEMMA FenceStep == IInv /\ [Next]_vars => seen' >= seen
<1> SUFFICES ASSUME IInv, [Next]_vars PROVE seen' >= seen
  OBVIOUS
<1>0. seen \in Nat
  BY DEF IInv, TypeOK
<1>1. ASSUME NEW w \in Workers, Commit(w) PROVE seen' >= seen
  BY <1>0, <1>1 DEF IInv, TypeOK, Commit, Current, Knows, At, Jobs
<1>2. ASSUME NEW w \in Workers, Work(w) PROVE Commit(w) \/ seen' = seen
  <2>1. Claim(w) \/ Read(w) \/ Superseded(w) \/ Check(w) => seen' = seen
    BY DEF Claim, Read, Superseded, Check, history
  <2>2. Reserve(w) \/ Create(w) \/ Store(w) \/ Mark(w) => seen' = seen
    BY DEF Reserve, Create, Store, Mark, history
  <2>3. Lookup(w) \/ Finish(w) \/ Collect(w) \/ Retrieve(w) => seen' = seen
    BY DEF Lookup, Finish, Collect, Retrieve, history
  <2>4. Expire(w) \/ Settle(w) \/ Fence(w) \/ Cancel(w) => seen' = seen
    BY DEF Expire, Settle, Fence, Cancel, history
  <2>5. DeleteUser(w) \/ Orphaned(w) => seen' = seen
    BY DEF DeleteUser, Orphaned, history
  <2> QED
    BY <1>2, <2>1, <2>2, <2>3, <2>4, <2>5 DEF Work
<1>3. ASSUME NEW w \in Workers PROVE
        StartCheckout(w) \/ StartSync(w) \/ StartDelete(w) \/ Fail(w) => seen' = seen
  BY DEF StartCheckout, StartSync, StartDelete, Fail, history
<1>4. ASSUME NEW v \in Events PROVE
        LeaseRunsOut(v) \/ (\E w \in Workers : Deliver(w, v)) => seen' = seen
  BY DEF LeaseRunsOut, Deliver, history
<1>5. ASSUME NEW a \in Attempts PROVE
        Pay(a) \/ Appear(a) \/ Lapse(a) \/ Close(a) => seen' = seen
  BY DEF Pay, Appear, Lapse, Close, history
<1>6. UNCHANGED vars => seen' = seen
  BY DEF vars, history
<1>7. (\E w \in Workers : Commit(w)) \/ seen' = seen
  BY <1>2, <1>3, <1>4, <1>5, <1>6 DEF Next
<1> QED
  BY <1>0, <1>1, <1>7

\* The generation fence keeps the mirror from going back: only the last thread
\* to claim the account commits, and it read Stripe after whatever the mirror
\* shows was read.
THEOREM NeverGoesBack == Spec => MirrorNeverGoesBack
<1>1. IInv /\ [Next]_vars => [seen' >= seen]_vars
  BY FenceStep
<1> QED
  BY <1>1, Inductive, PTL DEF Spec, MirrorNeverGoesBack

-----------------------------------------------------------------------------
(* What deletion and Checkout go by.                                        *)

\* What was read of Stripe's subscriptions goes out of date in one direction:
\* a subscription that was there stays, one that had ended stays so.
Lasting(snapshot) ==
    \A a \in Attempts :
        /\ snapshot[a] # "none" => subscription[a] # "none"
        /\ snapshot[a] = "ended" => subscription[a] = "ended"

\* What the rows say of a session, and the session of its subscription.
RowsTell ==
    \A a \in Attempts :
        /\ attempt[a].status = "none" => gone \/ session[a] = "none"
        /\ attempt[a].status = "open" => session[a] # "none"
        /\ attempt[a].status = "completed" => session[a] = "complete"
        /\ attempt[a].status = "expired" => session[a] = "expired"
        /\ subscription[a] # "none" \/ paidAt[a] # 0 => session[a] = "complete"
        /\ gone => attempt[a].status = "none" /\ session[a] # "open"

MirrorTells == Lasting(mirror) /\ (deleting \/ status = Derived(mirror))

\* Nobody can pay for this attempt any more, and if it was paid the account
\* knows, unless that was overwritten.
Settled(a) ==
    \/ attempt[a].status = "none"
    \/ session[a] = "expired"
    \/ session[a] = "complete" /\ (overwritten \/ attempt[a].status = "completed")

OnAttempt == {"create", "store", "mark", "retrieve", "expire", "settle"}

Deleting == {"collect", "retrieve", "expire", "settle", "fence", "cancel"}

\* The fence of a deletion: an account that is being deleted gets no attempt
\* any more, and what the thread does after "collect" leaves the others settled,
\* what it does after "settle" all of them.
Fenced(w) ==
    job[w].kind = "delete" =>
        /\ deleting
        /\ \A a \in Attempts :
             \/ At(w, "collect")
             \/ job[w].step \in OnAttempt /\ a = job[w].attempt
             \/ Settled(a)

\* What a thread can be sure of, whatever the others have done meanwhile.
Sure(w) ==
    /\ Lasting(job[w].snap)
    /\ At(w, "create") => \/ attempt[job[w].attempt].status # "none"
                          \/ session[job[w].attempt] # "none"
    /\ /\ job[w].step \in {"store", "settle"}
       /\ job[w].answer \in {"complete", "expired"}
       => session[job[w].attempt] = job[w].answer
    /\ At(w, "mark") => session[job[w].attempt] = "complete"
    /\ job[w].step \in Deleting => job[w].kind = "delete"
    /\ Fenced(w)
    /\ At(w, "cancel") =>
         \A a \in Attempts :
            subscription[a] = "live" => a \in job[w].todo \/ overwritten

\* A subscription runs, or the attempt may still lead to one.
Payable(a) ==
    \/ session[a] = "none" /\ attempt[a].status # "none"
    \/ session[a] = "open"
    \/ subscription[a] = "live"

OnePayable == late \/ \A a, b \in Attempts : Payable(a) /\ Payable(b) => a = b

SureInv ==
    /\ RowsTell
    /\ MirrorTells
    /\ \A w \in Workers : Sure(w)
    /\ OnePayable
    /\ LeftRunningOnlyIfOverwritten

\* What no step takes back.
Onward ==
    /\ deleting => deleting'
    /\ overwritten => overwritten'
    /\ \A a \in Attempts :
         /\ session[a] # "none" => session'[a] # "none"
         /\ session[a] \in {"complete", "expired"} => session'[a] = session[a]
         /\ subscription[a] # "none" => subscription'[a] # "none"
         /\ subscription[a] = "ended" => subscription'[a] = "ended"
         /\ attempt[a].status # "none" =>
              attempt'[a].status # "none" \/ session'[a] # "none"
         /\ deleting /\ Settled(a) =>
              /\ Settled(a)'
              /\ subscription'[a] = "live" => subscription[a] = "live"

\* A thread that does nothing stays sure of what it was sure of.
LEMMA StaysSure ==
  ASSUME TypeOK, Onward, NEW x \in Workers, Knows(x), Sure(x), job'[x] = job[x]
  PROVE  Sure(x)'
<1> DEFINE a == job[x].attempt
<1>1. job[x] \in Jobs /\ (job[x].step \in OnAttempt \ {"mark"} => a \in Attempts)
      /\ (At(x, "mark") => a \in Attempts)
  BY DEF TypeOK, Knows, At, OnAttempt, OnSession
<1>2. Lasting(job[x].snap)'
  BY DEF Deleting, Sure, Lasting, Onward
<1>3. At(x, "create")' => \/ attempt'[a].status # "none"
                          \/ session'[a] # "none"
  BY <1>1 DEF Deleting, Sure, Onward, At, OnAttempt
<1>4. /\ job[x].step \in {"store", "settle"}
      /\ job[x].answer \in {"complete", "expired"}
      => session'[a] = job[x].answer
  BY <1>1 DEF Deleting, Sure, Onward, OnAttempt
<1>5. At(x, "mark") => session'[a] = "complete"
  BY <1>1 DEF Deleting, Sure, Onward, At
<1>6. Fenced(x)'
  BY DEF Deleting, Sure, Fenced, Onward, At
<1>7. At(x, "cancel") =>
         \A b \in Attempts :
            subscription'[b] = "live" => b \in job[x].todo \/ overwritten'
  BY DEF Deleting, Sure, Fenced, Onward, At, OnAttempt
<1> QED
  BY <1>2, <1>3, <1>4, <1>5, <1>6, <1>7 DEF Deleting, Sure, At

\* A thread at rest has nothing to be sure of.
LEMMA RestSure ==
  ASSUME NEW x \in Workers, job'[x] = Idle
  PROVE  Sure(x)'
<1>1. /\ job'[x].step = "idle" /\ job'[x].kind = "none"
      /\ \A a \in Attempts : job'[x].snap[a] = "none"
  BY DEF Idle
<1> QED
  BY <1>1 DEF Deleting, Sure, Fenced, Lasting, At

\* A step of one thread that changes nothing these facts are about.
Untouched ==
    UNCHANGED <<session, subscription, paidAt, attempt, mirror, status, deleting,
                gone, overwritten, late>>

\* Such a step keeps the invariant if its thread is sure of what it does.
LEMMA Quiet ==
  ASSUME IInv, SureInv, Untouched,
         \A x \in Workers : Sure(x)' \/ job'[x] = job[x]
  PROVE  SureInv'
<1>1. Onward
  BY DEF Onward, Untouched, Settled
<1>2. \A x \in Workers : Sure(x)'
  BY <1>1, StaysSure DEF IInv, SureInv
<1>3. RowsTell' /\ OnePayable' /\ LeftRunningOnlyIfOverwritten'
  BY DEF SureInv, Untouched, RowsTell, OnePayable, Payable,
     LeftRunningOnlyIfOverwritten, Running
<1>4. MirrorTells'
  BY DEF SureInv, Untouched, MirrorTells, Lasting, Derived
<1> QED
  BY <1>2, <1>3, <1>4 DEF SureInv

-----------------------------------------------------------------------------
(* Steps that only think.                                                   *)

\* A step of a thread that leaves every other job alone.
LEMMA Alone ==
  ASSUME TypeOK, NEW w \in Workers, NEW j, job' = [job EXCEPT ![w] = j]
  PROVE  job'[w] = j /\ \A x \in Workers \ {w} : job'[x] = job[x]
  BY DEF TypeOK

\* A thread that goes on to another step carries what it knows along.
LEMMA GoesOn ==
  ASSUME TypeOK, NEW w \in Workers, NEW s, Goes(w, s)
  PROVE  /\ job'[w].step = s /\ job'[w].kind = job[w].kind
         /\ job'[w].attempt = job[w].attempt /\ job'[w].answer = job[w].answer
         /\ job'[w].snap = job[w].snap /\ job'[w].todo = job[w].todo
         /\ job'[w].event = job[w].event
         /\ \A x \in Workers \ {w} : job'[x] = job[x]
  BY DEF TypeOK, Goes, Jobs

\* A thread at a step of no consequence.
LEMMA PlainlySure ==
  ASSUME SureInv, Untouched, NEW w \in Workers,
         job'[w].snap \in {job[w].snap, Idle.snap},
         job'[w].step \notin Deleting \cup {"create", "store", "mark"},
         job'[w].kind # "delete"
  PROVE  Sure(w)'
<1>1. \A a \in Attempts : Idle.snap[a] = "none"
  BY DEF Idle
<1>2. Lasting(job[w].snap)'
  BY <1>1 DEF SureInv, Sure, Lasting, Untouched
<1> QED
  BY <1>2 DEF Deleting, Sure, Fenced, At

\* A request may end at any time.
LEMMA EndsSure ==
  ASSUME IInv, SureInv, NEW w \in Workers, Ends(w), Untouched
  PROVE  SureInv'
<1>1. job'[w] = Idle /\ \A x \in Workers \ {w} : job'[x] = job[x]
  BY Alone DEF IInv, Ends
<1> QED
  BY <1>1, RestSure, Quiet

\* A claim leaves the fence of a deletion up.
LEMMA ClaimSure ==
  ASSUME IInv, SureInv, NEW w \in Workers, Claim(w) PROVE SureInv'
<1>1. Untouched
  BY DEF Claim, Untouched, stripe, history
<1>2. /\ job'[w].step = "read" /\ job'[w].kind = job[w].kind
      /\ job'[w].snap = job[w].snap
      /\ \A x \in Workers \ {w} : job'[x] = job[x]
  BY GoesOn DEF IInv, Claim
<1>3. Sure(w)'
  BY <1>1, <1>2 DEF Deleting, SureInv, Sure, Fenced, Settled, Lasting, Untouched, Claim, At,
     OnAttempt
<1> QED
  BY <1>1, <1>2, <1>3, Quiet

\* What is read now goes out of date in one direction.
LEMMA ReadSure ==
  ASSUME IInv, SureInv, NEW w \in Workers, Read(w) PROVE SureInv'
<1>1. Untouched
  BY DEF Read, Untouched, stripe, account, history
<1>2. /\ job'[w].step = "commit" /\ job'[w].kind = job[w].kind
      /\ job'[w].snap = Listed
      /\ \A x \in Workers \ {w} : job'[x] = job[x]
  BY DEF IInv, TypeOK, Jobs, Read
<1>3. Lasting(job[w].snap)'
  BY <1>1, <1>2 DEF Lasting, Listed, Untouched
<1>4. Sure(w)'
  BY <1>1, <1>2, <1>3 DEF Deleting, SureInv, Sure, Fenced, Settled, Untouched, Read, At,
     OnAttempt
<1> QED
  BY <1>1, <1>2, <1>4, Quiet

\* Superseded, answered, orphaned and failed requests just end.
LEMMA EndingSure ==
  ASSUME IInv, SureInv, NEW w \in Workers,
         Superseded(w) \/ Finish(w) \/ Orphaned(w) \/ Fail(w)
  PROVE  SureInv'
<1>1. Untouched /\ Ends(w)
  BY DEF Superseded, Finish, Orphaned, Fail, Untouched, stripe, account, history
<1> QED
  BY <1>1, EndsSure

\* Only a session that is paid is marked on return.
LEMMA StartSure ==
  ASSUME IInv, SureInv, NEW w \in Workers,
         StartCheckout(w) \/ StartSync(w) \/ \E v \in Events : Deliver(w, v)
  PROVE  SureInv'
<1>1. Untouched
  BY DEF StartCheckout, StartSync, Deliver, Untouched, stripe, account, history
<1>2. CASE StartCheckout(w)
  <2>1. /\ job'[w].step = "claim" /\ job'[w].kind = "checkout"
        /\ job'[w].snap = Idle.snap
        /\ \A x \in Workers \ {w} : job'[x] = job[x]
    BY <1>2 DEF IInv, TypeOK, StartCheckout, Idle
  <2> QED
    BY <1>1, <2>1, PlainlySure, Quiet DEF Deleting
<1>3. ASSUME NEW v \in Events, Deliver(w, v) PROVE SureInv'
  <2>1. /\ job'[w].step = "lookup" /\ job'[w].kind = "webhook"
        /\ job'[w].snap = Idle.snap
        /\ \A x \in Workers \ {w} : job'[x] = job[x]
    BY <1>3 DEF IInv, TypeOK, Deliver, Idle
  <2> QED
    BY <1>1, <2>1, PlainlySure, Quiet DEF Deleting
<1>4. CASE job' = [job EXCEPT ![w] = [Idle EXCEPT !.kind = "sync", !.step = "claim"]]
  <2>1. /\ job'[w].step = "claim" /\ job'[w].kind = "sync"
        /\ job'[w].snap = Idle.snap
        /\ \A x \in Workers \ {w} : job'[x] = job[x]
    BY <1>4 DEF IInv, TypeOK, Idle
  <2> QED
    BY <1>1, <2>1, PlainlySure, Quiet DEF Deleting
<1>5. ASSUME NEW a \in offered, session[a] = "complete",
             job' = [job EXCEPT ![w] = [Idle EXCEPT !.kind = "sync",
                       !.step = "mark", !.attempt = a]]
      PROVE  SureInv'
  <2>1. /\ job'[w].step = "mark" /\ job'[w].kind = "sync"
        /\ job'[w].snap = Idle.snap /\ job'[w].attempt = a
        /\ \A x \in Workers \ {w} : job'[x] = job[x]
    BY <1>5 DEF IInv, TypeOK, Idle
  <2>2. \A b \in Attempts : Idle.snap[b] = "none"
    BY DEF Idle
  <2>3. Sure(w)'
    BY <1>1, <1>5, <2>1, <2>2 DEF Deleting, Sure, Fenced, Lasting, Untouched, At
  <2> QED
    BY <1>1, <2>1, <2>3, Quiet
<1> QED
  BY <1>2, <1>3, <1>4, <1>5 DEF StartSync

\* A deletion does not come by here; a Checkout has no fence.
LEMMA CheckSure ==
  ASSUME IInv, SureInv, NEW w \in Workers, Check(w) PROVE SureInv'
<1>1. Untouched
  BY DEF Check, Untouched, stripe, account, history
<1>2. CASE Goes(w, "reserve")
  <2>1. /\ job'[w].step = "reserve" /\ job'[w].kind = job[w].kind
        /\ job'[w].snap = job[w].snap
        /\ \A x \in Workers \ {w} : job'[x] = job[x]
    BY <1>2, GoesOn DEF IInv
  <2>2. Sure(w)'
    BY <1>1, <2>1 DEF Deleting, SureInv, Sure, Fenced, Settled, Lasting, Untouched, Check,
       At, OnAttempt
  <2> QED
    BY <1>1, <2>1, <2>2, Quiet
<1> QED
  BY <1>1, <1>2, EndsSure DEF Check

\* An event names the session it was paid with.
LEMMA LookupSure ==
  ASSUME IInv, SureInv, NEW w \in Workers, Lookup(w) PROVE SureInv'
<1>1. Untouched
  BY DEF Lookup, Untouched, stripe, account, history
<1>2. ASSUME NEW s \in {"finish", "claim"}, Goes(w, s) PROVE SureInv'
  <2>1. /\ job'[w].step = s /\ job'[w].kind = job[w].kind
        /\ job'[w].snap = job[w].snap
        /\ \A x \in Workers \ {w} : job'[x] = job[x]
    BY <1>2, GoesOn DEF IInv
  <2>2. Sure(w)'
    BY <1>1, <2>1 DEF Deleting, SureInv, Sure, Fenced, Settled, Lasting, Untouched, Lookup,
       At, OnAttempt
  <2> QED
    BY <1>1, <2>1, <2>2, Quiet
<1>3. ASSUME NEW a \in Attempts, paidAt[a] = job[w].event,
             job' = [job EXCEPT ![w].step = "mark", ![w].attempt = a]
      PROVE  SureInv'
  <2>1. /\ job'[w].step = "mark" /\ job'[w].kind = job[w].kind
        /\ job'[w].snap = job[w].snap /\ job'[w].attempt = a
        /\ \A x \in Workers \ {w} : job'[x] = job[x]
    BY <1>3 DEF IInv, TypeOK, Jobs
  <2>2. session[a] = "complete"
    <3>1. job[w].event # 0
      BY BillingAssumption DEF IInv, Knows, Lookup, Events, BillingAssumption, At
    <3> QED
      BY <1>3, <3>1 DEF SureInv, RowsTell
  <2>3. Sure(w)'
    BY <1>1, <2>1, <2>2 DEF Deleting, SureInv, Sure, Fenced, Settled, Lasting, Untouched,
       Lookup, At, OnAttempt
  <2> QED
    BY <1>1, <2>1, <2>3, Quiet
<1> QED
  BY <1>2, <1>3 DEF Lookup

\* A deletion that finds no active attempt finds all of them settled, and one that
\* finds one, all others.
LEMMA CollectSure ==
  ASSUME IInv, SureInv, NEW w \in Workers, Collect(w) PROVE SureInv'
<1>1. Untouched /\ ~gone /\ At(w, "collect")
  BY DEF Collect, Untouched, stripe, account, history
<1>2. ASSUME NEW a \in Attempts, ~Active(a) PROVE Settled(a)
  <2>1. attempt[a].status \in {"none", "completed", "expired"}
    BY <1>2 DEF IInv, TypeOK, Active
  <2> QED
    BY <2>1 DEF SureInv, RowsTell, Settled
<1>3. CASE (\A a \in Attempts : ~Active(a)) /\ Goes(w, "claim")
  <2>1. /\ job'[w].step = "claim" /\ job'[w].kind = job[w].kind
        /\ job'[w].snap = job[w].snap
        /\ \A x \in Workers \ {w} : job'[x] = job[x]
    BY <1>3, GoesOn DEF IInv
  <2>2. \A a \in Attempts : Settled(a)'
    BY <1>1, <1>2, <1>3 DEF Settled, Untouched
  <2>3. Sure(w)'
    BY <1>1, <2>1, <2>2 DEF Deleting, SureInv, Sure, Fenced, Lasting, Untouched, At
  <2> QED
    BY <1>1, <2>1, <2>3, Quiet
<1>4. ASSUME NEW a \in Attempts, Active(a),
             job' = [job EXCEPT ![w].attempt = a, ![w].step =
                       IF attempt[a].session THEN "retrieve" ELSE "create"]
      PROVE  SureInv'
  <2>1. /\ job'[w].step \in {"retrieve", "create"} /\ job'[w].kind = job[w].kind
        /\ job'[w].snap = job[w].snap /\ job'[w].attempt = a
        /\ \A x \in Workers \ {w} : job'[x] = job[x]
    BY <1>4 DEF IInv, TypeOK, Jobs
  <2>2. \A b \in Attempts : Settled(b)' \/ b = a
    BY <1>1, <1>2, <1>4 DEF IInv, OneActive, Settled, Untouched
  <2>3. attempt'[a].status # "none"
    BY <1>1, <1>4 DEF Active, Untouched
  <2>4. Sure(w)'
    BY <1>1, <2>1, <2>2, <2>3 DEF Deleting, SureInv, Sure, Fenced, Lasting, Untouched, At,
       OnAttempt
  <2> QED
    BY <1>1, <2>1, <2>4, Quiet
<1> QED
  BY <1>3, <1>4 DEF Collect

\* What a deletion reads of the session it has to settle is final unless open.
LEMMA RetrieveSure ==
  ASSUME IInv, SureInv, NEW w \in Workers, Retrieve(w) PROVE SureInv'
<1>1. Untouched /\ At(w, "retrieve")
  BY DEF Retrieve, Untouched, stripe, account, history
<1>2. /\ job'[w].step \in {"expire", "settle"} /\ job'[w].kind = job[w].kind
      /\ job'[w].snap = job[w].snap /\ job'[w].attempt = job[w].attempt
      /\ job'[w].answer = session[job[w].attempt]
      /\ \A x \in Workers \ {w} : job'[x] = job[x]
  BY DEF IInv, TypeOK, Jobs, Retrieve
<1>3. Sure(w)'
  BY <1>1, <1>2 DEF Deleting, SureInv, Sure, Fenced, Settled, Lasting, Untouched, At,
     OnAttempt
<1> QED
  BY <1>1, <1>2, <1>3, Quiet

\* The fence holds: what still runs is in the mirror.
LEMMA FenceSure ==
  ASSUME IInv, SureInv, NEW w \in Workers, Fence(w) PROVE SureInv'
<1>1. Untouched /\ ~gone /\ At(w, "fence")
  BY DEF Fence, Untouched, stripe, account, history
<1>2. CASE ~Unresolved
  <2> DEFINE live == {a \in Attempts : mirror[a] = "live"}
  <2>1. /\ job'[w].step = "cancel" /\ job'[w].kind = job[w].kind
        /\ job'[w].snap = job[w].snap /\ job'[w].todo = live
        /\ \A x \in Workers \ {w} : job'[x] = job[x]
    BY <1>2 DEF IInv, TypeOK, Jobs, Fence
  <2>2. job[w].kind = "delete" /\ \A a \in Attempts : Settled(a)
    BY <1>1 DEF Deleting, SureInv, Sure, Fenced, At, OnAttempt
  <2>3. ASSUME NEW a \in Attempts, subscription[a] = "live", ~overwritten
        PROVE  a \in live
    <3>1. session[a] = "complete" /\ attempt[a].status = "completed"
      BY <1>1, <2>2, <2>3 DEF SureInv, RowsTell, Settled
    <3>2. mirror[a] # "none" /\ mirror[a] # "ended"
      BY <1>2, <2>3, <3>1 DEF Unresolved, SureInv, MirrorTells, Lasting
    <3> QED
      BY <3>2 DEF IInv, TypeOK, Subscriptions
  <2>4. Sure(w)'
    BY <1>1, <2>1, <2>2, <2>3 DEF Deleting, SureInv, Sure, Fenced, Settled, Lasting,
       Untouched, At
  <2> QED
    BY <1>1, <2>1, <2>4, Quiet
<1> QED
  BY <1>1, <1>2, EndsSure DEF Fence

-----------------------------------------------------------------------------
(* Steps that move a row or a session.                                      *)

\* A step that makes nothing payable, and leaves the account's own fields alone.
LEMMA Moving ==
  ASSUME IInv, SureInv, Onward, RowsTell',
         \A x \in Workers : Sure(x)' \/ job'[x] = job[x],
         UNCHANGED <<mirror, status, deleting, gone>>, late => late',
         \A a \in Attempts : Payable(a)' => Payable(a),
         gone => \A a \in Attempts : subscription'[a] = "live" => subscription[a] = "live"
  PROVE  SureInv'
<1>1. \A x \in Workers : Sure(x)'
  BY StaysSure DEF IInv, SureInv
<1>2. MirrorTells'
  BY DEF SureInv, MirrorTells, Lasting, Derived, Onward
<1>3. OnePayable'
  BY DEF SureInv, OnePayable
<1>4. LeftRunningOnlyIfOverwritten'
  BY DEF SureInv, RowsTell, LeftRunningOnlyIfOverwritten, Running, Onward
<1> QED
  BY <1>1, <1>2, <1>3, <1>4 DEF SureInv

\* A session made for an attempt is the only way to pay that was not there.
LEMMA CreateSure ==
  ASSUME IInv, SureInv, NEW w \in Workers, Create(w) PROVE SureInv'
<1> DEFINE a == job[w].attempt
<1>0. /\ At(w, "create") /\ a \in Attempts
      /\ session' = [session EXCEPT ![a] = IF @ = "none" THEN "open" ELSE @]
      /\ UNCHANGED <<subscription, paidAt, attempt, mirror, status, deleting, gone,
                     overwritten, late>>
  BY DEF IInv, Knows, At, Create, account, history
<1>1. /\ job'[w].step = "store" /\ job'[w].kind = job[w].kind
      /\ job'[w].snap = job[w].snap /\ job'[w].attempt = a
      /\ job'[w].answer = session'[a]
      /\ \A x \in Workers \ {w} : job'[x] = job[x]
  BY DEF IInv, TypeOK, Jobs, Create
<1>2. /\ session'[a] # "none"
      /\ \A b \in Attempts : \/ session'[b] = session[b]
                             \/ session[b] = "none" /\ b = a /\ session'[b] = "open"
  BY <1>0 DEF IInv, TypeOK
<1>3. attempt[a].status # "none" \/ session[a] # "none"
  BY <1>0 DEF Deleting, SureInv, Sure
<1>4. Onward
  BY <1>0, <1>2, <1>3 DEF Onward, Settled
<1>5. RowsTell'
  BY <1>0, <1>2, <1>3 DEF SureInv, RowsTell
<1>6. Sure(w)'
  BY <1>0, <1>1, <1>2 DEF Deleting, SureInv, Sure, Fenced, Settled, Lasting, At, OnAttempt
<1>7. \A b \in Attempts : Payable(b)' => Payable(b)
  BY <1>0, <1>2, <1>3 DEF Payable
<1> QED
  BY <1>0, <1>1, <1>4, <1>5, <1>6, <1>7, Moving

\* A row says completed or expired exactly where Stripe said so.
LEMMA RowOfTells ==
  /\ \A answer : RowOf(answer).status \in {"open", "completed", "expired"}
  /\ \A answer : RowOf(answer).status = "completed" <=> answer = "complete"
  /\ \A answer : RowOf(answer).status = "expired" <=> answer = "expired"
  BY DEF RowOf

\* A row that says of its session what Stripe said of it.
LEMMA Telling ==
  ASSUME IInv, SureInv, NEW a \in Attempts, NEW answer, ~gone,
         session[a] # "none",
         answer \in {"complete", "expired"} => session[a] = answer,
         attempt' = [attempt EXCEPT ![a] = RowOf(answer)],
         overwritten => overwritten',
         attempt[a].status = "completed" =>
            RowOf(answer).status = "completed" \/ overwritten',
         UNCHANGED <<session, subscription, paidAt, deleting, gone>>
  PROVE  /\ Onward /\ RowsTell'
         /\ \A b \in Attempts : Payable(b)' => Payable(b)
         /\ answer \in {"complete", "expired"} => Settled(a)'
<1>1. /\ attempt'[a] = RowOf(answer)
      /\ \A b \in Attempts \ {a} : attempt'[b] = attempt[b]
  BY DEF IInv, TypeOK
<1>2. /\ attempt'[a].status \in {"open", "completed", "expired"}
      /\ attempt'[a].status = "completed" => answer = "complete"
      /\ attempt'[a].status = "expired" => answer = "expired"
      /\ answer = "complete" => attempt'[a].status = "completed"
  BY <1>1, RowOfTells
<1>3. ASSUME NEW b \in Attempts, Settled(b) PROVE Settled(b)'
  BY <1>1, <1>2, <1>3, RowOfTells DEF SureInv, RowsTell, Settled
<1>4. Onward
  BY <1>1, <1>2, <1>3 DEF Onward
<1>5. RowsTell'
  BY <1>1, <1>2 DEF SureInv, RowsTell
<1>6. \A b \in Attempts : Payable(b)' => Payable(b)
  BY <1>1 DEF Payable
<1>7. answer \in {"complete", "expired"} => Settled(a)'
  BY <1>2 DEF Settled
<1> QED
  BY <1>4, <1>5, <1>6, <1>7

\* A session marked as completed has been paid.
LEMMA MarkSure ==
  ASSUME IInv, SureInv, NEW w \in Workers, Mark(w) PROVE SureInv'
<1>a. job[w].attempt \in Attempts
  BY DEF IInv, Knows, At, OnSession, Mark
<1> PICK a \in Attempts : a = job[w].attempt
  BY <1>a
<1>0. /\ At(w, "mark") /\ ~gone /\ a = job[w].attempt
      /\ attempt' = [attempt EXCEPT ![a] = RowOf("complete")]
      /\ UNCHANGED <<session, subscription, paidAt, mirror, status, deleting, gone,
                     overwritten, late>>
  BY DEF IInv, Knows, At, OnSession, Mark, stripe, history
<1>1. /\ job'[w].step = "claim" /\ job'[w].kind = job[w].kind
      /\ job'[w].snap = job[w].snap
      /\ \A x \in Workers \ {w} : job'[x] = job[x]
  BY DEF IInv, TypeOK, Jobs, Mark
<1>2. session[a] = "complete"
  BY <1>0 DEF Deleting, SureInv, Sure
<1>3. RowOf("complete").status = "completed"
  BY RowOfTells
<1>4. /\ Onward /\ RowsTell' /\ Settled(a)'
      /\ \A b \in Attempts : Payable(b)' => Payable(b)
  BY <1>0, <1>2, <1>3, Telling
<1>5. Sure(w)'
  BY <1>0, <1>1, <1>4 DEF Deleting, SureInv, Sure, Fenced, Lasting, Onward, At, OnAttempt
<1> QED
  BY <1>0, <1>1, <1>4, <1>5, Moving

\* What a deletion settles is settled.
LEMMA SettleSure ==
  ASSUME IInv, SureInv, NEW w \in Workers, Settle(w) PROVE SureInv'
<1>a. job[w].attempt \in Attempts
  BY DEF IInv, Knows, At, OnSession, Settle
<1> PICK a \in Attempts : a = job[w].attempt
  BY <1>a
<1>0. /\ At(w, "settle") /\ ~gone /\ a = job[w].attempt
      /\ job[w].answer \in {"complete", "expired"}
      /\ attempt' = [attempt EXCEPT ![a] = RowOf(job[w].answer)]
      /\ UNCHANGED <<session, subscription, paidAt, mirror, status, deleting, gone,
                     overwritten, late>>
  BY DEF IInv, Knows, At, OnSession, Settle, stripe, history
<1>1. /\ job'[w].step = "claim" /\ job'[w].kind = "delete"
      /\ job'[w].snap = Idle.snap
      /\ \A x \in Workers \ {w} : job'[x] = job[x]
  BY DEF IInv, TypeOK, Idle, Settle
<1>2. session[a] = job[w].answer
  BY <1>0 DEF Deleting, SureInv, Sure, At
<1>3. attempt[a].status = "completed" => RowOf(job[w].answer).status = "completed"
  BY <1>0, <1>2, RowOfTells DEF SureInv, RowsTell
<1>4. /\ Onward /\ RowsTell' /\ Settled(a)'
      /\ \A b \in Attempts : Payable(b)' => Payable(b)
  BY <1>0, <1>2, <1>3, Telling
<1>5. \A b \in Attempts : Idle.snap[b] = "none"
  BY DEF Idle
<1>6. Sure(w)'
  BY <1>0, <1>1, <1>4, <1>5 DEF Deleting, SureInv, Sure, Fenced, Lasting, Onward, At, OnAttempt
<1> QED
  BY <1>0, <1>1, <1>4, <1>6, Moving

\* What is stored is what Stripe answered, however long ago: the session may
\* have been paid or have expired since.
LEMMA StoreSure ==
  ASSUME IInv, SureInv, NEW w \in Workers, Store(w) PROVE SureInv'
<1>a. job[w].attempt \in Attempts
  BY DEF IInv, Knows, At, OnSession, Store
<1> PICK a \in Attempts : a = job[w].attempt
  BY <1>a
<1> DEFINE row == RowOf(job[w].answer)
<1>0. /\ At(w, "store") /\ session[a] # "none"
      /\ UNCHANGED <<session, subscription, paidAt, mirror, status, deleting, gone,
                     late>>
  BY DEF IInv, Knows, At, OnSession, Store, stripe
<1>1. job[w].answer \in {"complete", "expired"} => session[a] = job[w].answer
  BY <1>0 DEF SureInv, Sure, At
<1>2. CASE Collides(a, row)
  <2>1. Untouched /\ Ends(w)
    BY <1>0, <1>2 DEF Store, Untouched
  <2> QED
    BY <2>1, EndsSure
<1>3. CASE ~Collides(a, row)
  <2>1. /\ attempt' = IF gone THEN attempt ELSE [attempt EXCEPT ![a] = row]
        /\ overwritten' = (\/ overwritten
                           \/ /\ attempt[a].status = "completed"
                              /\ row.status # "completed")
    BY <1>3 DEF Store
  <2>2. /\ overwritten => overwritten'
        /\ attempt[a].status = "completed" => row.status = "completed" \/ overwritten'
    BY <2>1
  <2>3. /\ Onward /\ RowsTell'
        /\ \A b \in Attempts : Payable(b)' => Payable(b)
        /\ job[w].answer \in {"complete", "expired"} => Settled(a)'
    <3>1. CASE gone
      <4>1. attempt' = attempt
        BY <2>1, <3>1
      <4>2. RowsTell' /\ \A b \in Attempts : Payable(b)' => Payable(b)
        BY <1>0, <4>1 DEF SureInv, RowsTell, Payable
      <4>3. Onward
        BY <1>0, <2>2, <4>1 DEF Onward, Settled
      <4>4. Settled(a)'
        BY <1>0, <3>1, <4>1 DEF SureInv, RowsTell, Settled
      <4> QED
        BY <4>2, <4>3, <4>4
    <3>2. CASE ~gone
      <4>1. attempt' = [attempt EXCEPT ![a] = row]
        BY <2>1, <3>2
      <4> QED
        BY <1>0, <1>1, <2>2, <3>2, <4>1, Telling
    <3> QED
      BY <3>1, <3>2
  <2>4. Sure(w)'
    <3>1. CASE Ends(w)
      <4>1. job'[w] = Idle
        BY <3>1, Alone DEF IInv, Ends
      <4> QED
        BY <4>1, RestSure
    <3>2. CASE /\ job[w].kind = "delete"
               /\ Goes(w, IF row.status = "open" THEN "expire" ELSE "settle")
      <4>1. /\ job'[w].step = IF row.status = "open" THEN "expire" ELSE "settle"
            /\ job'[w].kind = "delete"
            /\ job'[w].snap = job[w].snap /\ job'[w].attempt = a
            /\ job'[w].answer = job[w].answer
        BY <3>2, GoesOn DEF IInv
      <4>2. /\ Lasting(job[w].snap)' /\ Fenced(w)'
        BY <1>0, <2>3, <3>2, <4>1 DEF SureInv, Sure, Fenced, Lasting, Onward, At,
           OnAttempt
      <4> QED
        BY <1>0, <1>1, <4>1, <4>2 DEF Sure, At
    <3>3. CASE /\ job[w].kind # "delete"
               /\ job' = [job EXCEPT ![w].step = "reserve", ![w].round = 2]
      <4>1. /\ job'[w].step = "reserve" /\ job'[w].kind = job[w].kind
            /\ job'[w].snap = job[w].snap
        BY <3>3 DEF IInv, TypeOK, Jobs
      <4>2. Lasting(job[w].snap)'
        BY <1>0, <4>1 DEF SureInv, Sure, Lasting
      <4> QED
        BY <3>3, <4>1, <4>2 DEF Sure, Fenced, Deleting, At
    <3> QED
      BY <1>3, <3>1, <3>2, <3>3 DEF Store
  <2>5. \A x \in Workers \ {w} : job'[x] = job[x]
    BY <1>3 DEF IInv, TypeOK, Store, Goes, Ends
  <2> QED
    BY <1>0, <2>3, <2>4, <2>5, Moving
<1> QED
  BY <1>2, <1>3

\* A deletion expires a session unless it has been paid.
LEMMA ExpireSure ==
  ASSUME IInv, SureInv, NEW w \in Workers, Expire(w) PROVE SureInv'
<1> DEFINE a == job[w].attempt
<1>0. /\ At(w, "expire") /\ a \in Attempts /\ session[a] # "none"
      /\ UNCHANGED <<subscription, paidAt, attempt, mirror, status, deleting, gone,
                     overwritten, late>>
  BY DEF IInv, Knows, At, OnSession, Expire, account, history
<1>1. CASE session[a] = "complete"
  <2>1. Untouched /\ Ends(w)
    BY <1>0, <1>1 DEF Expire, Untouched
  <2> QED
    BY <2>1, EndsSure
<1>2. CASE session[a] # "complete"
  <2>1. /\ session' = [session EXCEPT ![a] = "expired"]
        /\ job' = [job EXCEPT ![w].answer = "expired", ![w].step = "settle"]
    BY <1>2 DEF Expire
  <2>2. /\ session'[a] = "expired"
        /\ \A b \in Attempts \ {a} : session'[b] = session[b]
    BY <1>0, <2>1 DEF IInv, TypeOK
  <2>3. /\ job'[w].step = "settle" /\ job'[w].kind = job[w].kind
        /\ job'[w].snap = job[w].snap /\ job'[w].attempt = a
        /\ job'[w].answer = "expired"
        /\ \A x \in Workers \ {w} : job'[x] = job[x]
    BY <2>1 DEF IInv, TypeOK, Jobs
  <2>4. subscription[a] = "none" /\ paidAt[a] = 0 /\ attempt[a].status # "completed"
    BY <1>0, <1>2 DEF SureInv, RowsTell
  <2>5. Onward
    BY <1>0, <1>2, <2>2 DEF Onward, Settled
  <2>6. RowsTell' /\ \A b \in Attempts : Payable(b)' => Payable(b)
    BY <1>0, <2>2, <2>4 DEF SureInv, RowsTell, Payable
  <2>7. Sure(w)'
    BY <1>0, <2>2, <2>3 DEF SureInv, Sure, Fenced, Settled, Lasting, Deleting, At,
       OnAttempt
  <2> QED
    BY <1>0, <2>3, <2>5, <2>6, <2>7, Moving
<1> QED
  BY <1>1, <1>2

\* What a deletion cancels need not be cancelled again.
LEMMA CancelSure ==
  ASSUME IInv, SureInv, NEW w \in Workers, Cancel(w) PROVE SureInv'
<1>0. /\ At(w, "cancel")
      /\ UNCHANGED <<session, paidAt, attempt, mirror, status, deleting, gone,
                     overwritten, late>>
  BY DEF Cancel, account, history
<1>1. PICK a \in job[w].todo :
        IF subscription[a] = "live"
        THEN /\ subscription' = [subscription EXCEPT ![a] = "ended"]
             /\ clock' = clock + 1
             /\ job' = [job EXCEPT ![w].todo = @ \ {a}]
        ELSE Ends(w) /\ UNCHANGED <<subscription, clock>>
  BY DEF Cancel
<1>2. CASE subscription[a] # "live"
  <2>1. Untouched /\ Ends(w)
    BY <1>0, <1>1, <1>2 DEF Untouched
  <2> QED
    BY <2>1, EndsSure
<1>3. CASE subscription[a] = "live"
  <2>1. /\ a \in Attempts /\ subscription'[a] = "ended"
        /\ \A b \in Attempts \ {a} : subscription'[b] = subscription[b]
    BY <1>1, <1>3 DEF IInv, TypeOK, Jobs, Subscriptions
  <2>2. /\ job'[w].step = job[w].step /\ job'[w].kind = job[w].kind
        /\ job'[w].snap = job[w].snap /\ job'[w].attempt = job[w].attempt
        /\ job'[w].todo = job[w].todo \ {a}
        /\ \A x \in Workers \ {w} : job'[x] = job[x]
    BY <1>1, <1>3 DEF IInv, TypeOK, Jobs
  <2>3. Onward
    BY <1>0, <1>3, <2>1 DEF Onward, Settled
  <2>4. RowsTell' /\ \A b \in Attempts : Payable(b)' => Payable(b)
    BY <1>0, <1>3, <2>1 DEF SureInv, RowsTell, Payable
  <2>5. Sure(w)'
    BY <1>0, <1>3, <2>1, <2>2 DEF SureInv, Sure, Fenced, Settled, Lasting, Deleting,
       At, OnAttempt
  <2> QED
    BY <1>0, <2>1, <2>2, <2>3, <2>4, <2>5, Moving
<1> QED
  BY <1>2, <1>3

\* Nothing is payable twice: a new attempt is made when none is active and
\* every completed one is mirrored, so that what runs makes the account paid.
LEMMA ReserveSure ==
  ASSUME IInv, SureInv, NEW w \in Workers, Reserve(w) PROVE SureInv'
<1>0. /\ At(w, "reserve") /\ ~gone
      /\ UNCHANGED <<session, subscription, paidAt, mirror, status, deleting, gone,
                     overwritten>>
  BY DEF Reserve, stripe
<1>1. CASE Ends(w) /\ UNCHANGED <<attempt, late>>
  <2>1. Untouched
    BY <1>0, <1>1 DEF Untouched
  <2> QED
    BY <1>1, <2>1, EndsSure
<1>2. ASSUME NEW a \in Attempts, Active(a), ~deleting,
             job' = [job EXCEPT ![w].step = "create", ![w].attempt = a],
             UNCHANGED <<attempt, late>>
      PROVE  SureInv'
  <2>1. /\ job'[w].step = "create" /\ job'[w].kind = job[w].kind
        /\ job'[w].snap = job[w].snap /\ job'[w].attempt = a
        /\ \A x \in Workers \ {w} : job'[x] = job[x]
    BY <1>2 DEF IInv, TypeOK, Jobs
  <2>2. Untouched /\ attempt'[a].status # "none"
    BY <1>0, <1>2 DEF Untouched, Active
  <2>3. Sure(w)'
    BY <1>2, <2>1, <2>2 DEF SureInv, Sure, Fenced, Lasting, Deleting, Untouched, At
  <2> QED
    BY <2>1, <2>2, <2>3, Quiet
<1>3. ASSUME NEW a \in Attempts, Unused(a), ~deleting, ~Unresolved,
             \A b \in Attempts : ~Active(b),
             attempt' = [attempt EXCEPT ![a].status = "pending"],
             job' = [job EXCEPT ![w].step = "create", ![w].attempt = a],
             late' = (late \/ status = "paid")
      PROVE  SureInv'
  <2>1. /\ job'[w].step = "create" /\ job'[w].kind = job[w].kind
        /\ job'[w].snap = job[w].snap /\ job'[w].attempt = a
        /\ \A x \in Workers \ {w} : job'[x] = job[x]
    BY <1>3 DEF IInv, TypeOK, Jobs
  <2>2. /\ attempt'[a].status = "pending" /\ attempt[a].status = "none"
        /\ \A b \in Attempts \ {a} : attempt'[b] = attempt[b]
    BY <1>3 DEF IInv, TypeOK, Unused
  <2>3. session[a] = "none" /\ subscription[a] = "none"
    BY <1>0, <2>2 DEF SureInv, RowsTell, IInv, TypeOK, Subscriptions
  <2>4. Onward
    BY <1>0, <1>3, <2>2, <2>3 DEF Onward
  <2>5. RowsTell'
    BY <1>0, <2>2, <2>3 DEF SureInv, RowsTell
  <2>6. Sure(w)'
    <3>1. job[w].kind # "delete"
      BY <1>3 DEF SureInv, Sure, Fenced
    <3>2. Lasting(job[w].snap)'
      BY <1>0, <2>1 DEF SureInv, Sure, Lasting
    <3> QED
      BY <2>1, <2>2, <3>1, <3>2 DEF Sure, Fenced, Deleting, At
  <2>7. ASSUME NEW b \in Attempts, Payable(b) PROVE late'
    <3>1. attempt[b].status \in {"none", "completed", "expired"}
      BY <1>3 DEF IInv, TypeOK, Active
    <3>2. subscription[b] = "live" /\ attempt[b].status = "completed"
      BY <1>0, <2>7, <3>1 DEF Payable, SureInv, RowsTell
    <3>3. mirror[b] # "none" /\ mirror[b] # "ended"
      BY <1>3, <3>2 DEF Unresolved, SureInv, MirrorTells, Lasting
    <3>4. mirror[b] = "live"
      BY <3>3 DEF IInv, TypeOK, Subscriptions
    <3>5. status = "paid"
      BY <1>3, <3>4 DEF SureInv, MirrorTells, Derived
    <3> QED
      BY <1>3, <3>5
  <2>8. \A b \in Attempts \ {a} : Payable(b)' => Payable(b)
    BY <1>0, <2>2 DEF Payable
  <2>9. OnePayable'
    BY <2>7, <2>8 DEF OnePayable
  <2>10. \A x \in Workers : Sure(x)'
    BY <2>1, <2>4, <2>6, StaysSure DEF IInv, SureInv
  <2>11. MirrorTells'
    BY <1>0 DEF SureInv, MirrorTells, Lasting, Derived
  <2>12. LeftRunningOnlyIfOverwritten'
    BY <1>0 DEF LeftRunningOnlyIfOverwritten
  <2> QED
    BY <2>5, <2>9, <2>10, <2>11, <2>12 DEF SureInv
<1> QED
  BY <1>1, <1>2, <1>3 DEF Reserve

\* A pass completes the attempts whose subscription it read.
LEMMA CommitSure ==
  ASSUME IInv, SureInv, NEW w \in Workers, Commit(w) PROVE SureInv'
<1> PICK snap : snap = job[w].snap
  OBVIOUS
<1>0. /\ At(w, "commit") /\ ~gone
      /\ mirror' = snap /\ attempt' = Completes(snap)
      /\ status' = IF deleting THEN "deleting" ELSE Derived(snap)
      /\ UNCHANGED <<session, subscription, paidAt, deleting, gone,
                     overwritten, late>>
  BY DEF Commit, stripe
<1>1. Lasting(snap) /\ snap \in Subscriptions
  BY DEF SureInv, Sure, IInv, TypeOK, Jobs
<1>2. ASSUME NEW a \in Attempts
      PROVE  \/ attempt'[a] = attempt[a]
             \/ attempt'[a].status = "completed" /\ session[a] = "complete"
  <2>1. CASE snap[a] = "none"
    BY <1>0, <2>1 DEF Completes
  <2>2. CASE snap[a] # "none"
    <3>1. attempt'[a] = [attempt[a] EXCEPT !.status = "completed", !.subscription = TRUE]
      BY <1>0, <2>2 DEF Completes
    <3>2. attempt'[a].status = "completed"
      BY <3>1 DEF IInv, TypeOK
    <3> QED
      BY <1>1, <2>2, <3>2 DEF Lasting, SureInv, RowsTell
  <2> QED
    BY <2>1, <2>2
<1>3. Onward
  <2>1. \A a \in Attempts : Settled(a) => Settled(a)'
    BY <1>0, <1>2 DEF Settled
  <2>2. \A a \in Attempts : attempt[a].status # "none" => attempt'[a].status # "none"
    BY <1>2
  <2> QED
    BY <1>0, <2>1, <2>2 DEF Onward
<1>4. RowsTell'
  BY <1>0, <1>2 DEF SureInv, RowsTell
<1>5. MirrorTells'
  <2>1. Lasting(mirror)'
    BY <1>0, <1>1 DEF Lasting
  <2>2. status' = Derived(snap) \/ deleting'
    BY <1>0
  <2>3. Derived(snap) = Derived(mirror)'
    BY <1>0 DEF Derived
  <2> QED
    BY <2>1, <2>2, <2>3 DEF MirrorTells
<1>6. OnePayable'
  <2>1. \A a \in Attempts : Payable(a)' => Payable(a)
    BY <1>0, <1>2 DEF Payable
  <2> QED
    BY <1>0, <2>1 DEF SureInv, OnePayable
<1>7. LeftRunningOnlyIfOverwritten'
  BY <1>0 DEF LeftRunningOnlyIfOverwritten
<1>8. Sure(w)'
  <2>1. CASE job[w].kind = "sync"
    <3>1. job'[w] = Idle
      BY <2>1 DEF IInv, TypeOK, Commit
    <3> QED
      BY <3>1, RestSure
  <2>2. CASE job[w].kind # "sync"
    <3> DEFINE s == After[job[w].kind]
    <3>1. job' = [job EXCEPT ![w] = [Idle EXCEPT !.kind = job[w].kind,
                    !.step = s, !.event = job[w].event]]
      BY <2>2 DEF Commit
    <3>2. /\ job'[w].kind = job[w].kind /\ job'[w].step = s
          /\ job'[w].snap = Idle.snap
      BY <3>1 DEF IInv, TypeOK, Idle
    <3>3. job[w].kind \in {"checkout", "webhook", "delete"}
      BY <1>0, <2>2 DEF IInv, TypeOK, Jobs, Knows, At
    <3>4. /\ s \in {"check", "finish", "fence"}
          /\ s = "fence" => job[w].kind = "delete"
      BY <3>3 DEF After
    <3>5. \A a \in Attempts : Idle.snap[a] = "none"
      BY DEF Idle
    <3>6. Fenced(w)'
      <4>1. job[w].kind = "delete" => deleting /\ \A a \in Attempts : Settled(a)
        BY <1>0 DEF SureInv, Sure, Fenced, At, OnAttempt
      <4> HIDE DEF s
      <4> QED
        BY <1>3, <3>2, <4>1 DEF Fenced, Onward
    <3>7. Lasting(job[w].snap)'
      BY <3>2, <3>5 DEF Lasting
    <3> HIDE DEF s
    <3> QED
      BY <3>2, <3>4, <3>6, <3>7 DEF Sure, Deleting, At
  <2> QED
    BY <2>1, <2>2
<1>9. \A x \in Workers : Sure(x)'
  <2>1. \A x \in Workers \ {w} : job'[x] = job[x]
    BY DEF IInv, TypeOK, Commit
  <2> QED
    BY <1>3, <1>8, <2>1, StaysSure DEF IInv, SureInv
<1> QED
  BY <1>4, <1>5, <1>6, <1>7, <1>9 DEF SureInv

\* From the moment a deletion starts no attempt is reserved.
LEMMA StartDeleteSure ==
  ASSUME IInv, SureInv, NEW w \in Workers, StartDelete(w) PROVE SureInv'
<1>0. /\ ~gone /\ deleting'
      /\ UNCHANGED <<session, subscription, paidAt, attempt, mirror, gone,
                     overwritten, late>>
  BY DEF StartDelete, stripe, history
<1>1. /\ job'[w].step = "collect" /\ job'[w].kind = "delete"
      /\ job'[w].snap = Idle.snap
      /\ \A x \in Workers \ {w} : job'[x] = job[x]
  BY DEF IInv, TypeOK, StartDelete, Idle
<1>2. \A a \in Attempts : Idle.snap[a] = "none"
  BY DEF Idle
<1>3. Sure(w)'
  BY <1>0, <1>1, <1>2 DEF Sure, Fenced, Lasting, At
<1>4. Onward
  BY <1>0 DEF Onward, Settled
<1>5. \A x \in Workers : Sure(x)'
  BY <1>1, <1>3, <1>4, StaysSure DEF IInv, SureInv
<1>6. RowsTell' /\ OnePayable' /\ MirrorTells' /\ LeftRunningOnlyIfOverwritten'
  BY <1>0 DEF SureInv, RowsTell, OnePayable, Payable, MirrorTells, Lasting,
     LeftRunningOnlyIfOverwritten
<1> QED
  BY <1>5, <1>6 DEF SureInv

\* The user goes when nothing is left to cancel.
LEMMA DeleteUserSure ==
  ASSUME IInv, SureInv, NEW w \in Workers, DeleteUser(w) PROVE SureInv'
<1>0. /\ At(w, "cancel") /\ ~gone /\ gone' /\ job[w].todo = {}
      /\ attempt' = [a \in Attempts |-> NoRow]
      /\ mirror' = [a \in Attempts |-> "none"]
      /\ UNCHANGED <<session, subscription, paidAt, status, deleting,
                     overwritten, late>>
      /\ Ends(w)
  BY DEF DeleteUser, stripe, history
<1>1. deleting /\ \A a \in Attempts : Settled(a)
  BY <1>0 DEF SureInv, Sure, Fenced, Deleting, At, OnAttempt
<1>2. ASSUME NEW a \in Attempts
      PROVE  /\ session[a] # "open"
             /\ overwritten \/ subscription[a] # "live"
             /\ attempt[a].status # "none" => session[a] # "none"
             /\ attempt'[a].status = "none" /\ mirror'[a] = "none"
  BY <1>0, <1>1 DEF SureInv, RowsTell, Settled, Sure, At, NoRow
<1>3. Onward
  BY <1>0, <1>2 DEF Onward, Settled
<1>4. \A x \in Workers : Sure(x)'
  <2>1. job'[w] = Idle /\ \A x \in Workers \ {w} : job'[x] = job[x]
    BY <1>0, Alone DEF IInv, Ends
  <2> QED
    BY <1>3, <2>1, RestSure, StaysSure DEF IInv, SureInv
<1>5. RowsTell'
  BY <1>0, <1>2 DEF SureInv, RowsTell
<1>6. MirrorTells'
  BY <1>0, <1>1, <1>2 DEF MirrorTells, Lasting
<1>7. OnePayable'
  <2>1. \A a \in Attempts : Payable(a)' => Payable(a)
    BY <1>0, <1>2 DEF Payable
  <2> QED
    BY <1>0, <2>1 DEF SureInv, OnePayable
<1>8. LeftRunningOnlyIfOverwritten'
  BY <1>0, <1>2 DEF LeftRunningOnlyIfOverwritten, Running
<1> QED
  BY <1>4, <1>5, <1>6, <1>7, <1>8 DEF SureInv

-----------------------------------------------------------------------------
(* The customer at Stripe.                                                  *)

\* Only an open session is paid, and there is none once deletion is past it.
LEMMA PaySure == ASSUME IInv, SureInv, NEW a \in Attempts, Pay(a) PROVE SureInv'
<1>0. /\ session[a] = "open"
      /\ UNCHANGED <<attempt, mirror, status, deleting, gone, overwritten, late, job>>
  BY DEF Pay, account, history
<1>1. /\ session'[a] = "complete" /\ subscription'[a] = "live"
      /\ \A b \in Attempts \ {a} : /\ session'[b] = session[b]
                                   /\ subscription'[b] = subscription[b]
                                   /\ paidAt'[b] = paidAt[b]
  BY DEF IInv, TypeOK, Subscriptions, Pay
<1>2. ~gone /\ attempt[a].status \notin {"none", "completed", "expired"}
  BY <1>0 DEF SureInv, RowsTell
<1>3. subscription[a] = "none"
  BY <1>0 DEF SureInv, RowsTell
<1>4. Onward
  BY <1>0, <1>1, <1>2, <1>3 DEF Onward, Settled
<1>5. RowsTell'
  BY <1>0, <1>1, <1>2 DEF SureInv, RowsTell
<1>6. \A b \in Attempts : Payable(b)' => Payable(b)
  BY <1>0, <1>1 DEF Payable
<1> QED
  BY <1>0, <1>2, <1>4, <1>5, <1>6, Moving

\* Listing says nothing of what runs.
LEMMA AppearSure ==
  ASSUME IInv, SureInv, NEW a \in Attempts, Appear(a) PROVE SureInv'
<1>1. Untouched /\ job' = job
  BY DEF Appear, Untouched, account, history
<1> QED
  BY <1>1, Quiet

\* A subscription that lapses runs no more.
LEMMA LapseSure ==
  ASSUME IInv, SureInv, NEW a \in Attempts, Lapse(a) PROVE SureInv'
<1>0. /\ subscription[a] = "live"
      /\ UNCHANGED <<session, paidAt, attempt, mirror, status, deleting, gone,
                     overwritten, late, job>>
  BY DEF Lapse, account, history
<1>1. /\ subscription'[a] = "ended"
      /\ \A b \in Attempts \ {a} : subscription'[b] = subscription[b]
  BY DEF IInv, TypeOK, Subscriptions, Lapse
<1>2. Onward
  BY <1>0, <1>1 DEF Onward, Settled
<1>3. RowsTell' /\ \A b \in Attempts : Payable(b)' => Payable(b)
  BY <1>0, <1>1 DEF SureInv, RowsTell, Payable
<1>4. gone => \A b \in Attempts : subscription'[b] = "live" => subscription[b] = "live"
  BY <1>1
<1> QED
  BY <1>0, <1>2, <1>3, <1>4, Moving

\* A session that closes cannot be paid any more.
LEMMA CloseSure ==
  ASSUME IInv, SureInv, NEW a \in Attempts, Close(a) PROVE SureInv'
<1>0. /\ session[a] = "open"
      /\ UNCHANGED <<subscription, paidAt, attempt, mirror, status, deleting, gone,
                     overwritten, late, job>>
  BY DEF Close, account, history
<1>1. /\ session'[a] = "expired"
      /\ \A b \in Attempts \ {a} : session'[b] = session[b]
  BY DEF IInv, TypeOK, Close
<1>2. Onward
  BY <1>0, <1>1 DEF Onward, Settled
<1>3. RowsTell' /\ \A b \in Attempts : Payable(b)' => Payable(b)
  BY <1>0, <1>1 DEF SureInv, RowsTell, Payable
<1> QED
  BY <1>0, <1>2, <1>3, Moving

\* Leases are no part of this.
LEMMA LeaseRunsOutSure ==
  ASSUME IInv, SureInv, NEW v \in Events, LeaseRunsOut(v) PROVE SureInv'
<1>1. Untouched /\ job' = job
  BY DEF LeaseRunsOut, Untouched, stripe, account, history
<1> QED
  BY <1>1, Quiet

-----------------------------------------------------------------------------

\* At first nothing is payable.
LEMMA InitSure == Init => SureInv
<1> SUFFICES ASSUME Init PROVE SureInv
  OBVIOUS
<1>1. \A a \in Attempts : /\ attempt[a].status = "none" /\ session[a] = "none"
                          /\ subscription[a] = "none" /\ mirror[a] = "none"
                          /\ paidAt[a] = 0
  BY DEF Init, NoRow
<1>2. ~gone /\ status = "none"
  BY DEF Init
<1>3. RowsTell /\ OnePayable /\ LeftRunningOnlyIfOverwritten
  BY <1>1, <1>2 DEF RowsTell, OnePayable, Payable, LeftRunningOnlyIfOverwritten
<1>4. MirrorTells
  <2>1. Derived(mirror) = "none"
    BY <1>1 DEF Derived
  <2> QED
    BY <1>1, <1>2, <2>1 DEF MirrorTells, Lasting
<1>5. ASSUME NEW w \in Workers PROVE Sure(w)
  <2>1. /\ job[w].step = "idle" /\ job[w].kind = "none"
        /\ \A a \in Attempts : job[w].snap[a] = "none"
    BY DEF Init, Idle
  <2> QED
    BY <2>1 DEF Sure, Fenced, Lasting, Deleting, At
<1> QED
  BY <1>3, <1>4, <1>5 DEF SureInv

\* Every step keeps the second invariant, beside the first.
LEMMA NextSure == IInv /\ SureInv /\ [Next]_vars => SureInv'
<1> SUFFICES ASSUME IInv, SureInv, [Next]_vars PROVE SureInv'
  OBVIOUS
<1>1. ASSUME NEW w \in Workers, Work(w) PROVE SureInv'
  BY <1>1, ClaimSure, ReadSure, CommitSure, EndingSure, CheckSure, ReserveSure,
     CreateSure, StoreSure, MarkSure, LookupSure, CollectSure, RetrieveSure,
     ExpireSure, SettleSure, FenceSure, CancelSure, DeleteUserSure
  DEF Work
<1>2. ASSUME NEW w \in Workers,
             StartCheckout(w) \/ StartSync(w) \/ StartDelete(w) \/ Fail(w)
      PROVE  SureInv'
  BY <1>2, StartSure, StartDeleteSure, EndingSure
<1>3. ASSUME NEW v \in Events,
             LeaseRunsOut(v) \/ \E w \in Workers : Deliver(w, v)
      PROVE  SureInv'
  BY <1>3, LeaseRunsOutSure, StartSure
<1>4. ASSUME NEW a \in Attempts, Pay(a) \/ Appear(a) \/ Lapse(a) \/ Close(a)
      PROVE  SureInv'
  BY <1>4, PaySure, AppearSure, LapseSure, CloseSure
<1>5. CASE UNCHANGED vars
  <2>1. Untouched /\ job' = job
    BY <1>5 DEF vars, Untouched, stripe, account, history
  <2> QED
    BY <2>1, Quiet
<1> QED
  BY <1>1, <1>2, <1>3, <1>4, <1>5 DEF Next

\* The second invariant holds throughout.
THEOREM SureAlways == Spec => []SureInv
  BY InitSure, NextSure, Inductive, PTL DEF Spec

\* The deletion's guarantee, for any number of threads, attempts, requests and
\* failures: what it collects, settles and finds mirrored is all there is, because
\* from deletion_state on nothing is reserved; only a completed row set back to
\* open by a late answer gets around it.
THEOREM NothingLeftRunningAlways == Spec => []LeftRunningOnlyIfOverwritten
<1>1. SureInv => LeftRunningOnlyIfOverwritten
  BY DEF SureInv
<1> QED
  BY <1>1, SureAlways, PTL

\* No second subscription, however Checkouts, payments and passes interleave: a
\* reservation finds at most a confirmed subscription, and then the account paid;
\* what gets around it is a request that checked the account before that.
THEOREM SubscribedOnceAlways == Spec => []SubscribedTwiceOnlyIfLate
<1>1. SureInv => SubscribedTwiceOnlyIfLate
  BY DEF SureInv, OnePayable, Payable, SubscribedTwiceOnlyIfLate
<1> QED
  BY <1>1, SureAlways, PTL
=============================================================================
