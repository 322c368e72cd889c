---------------------------- MODULE CommitQueue ----------------------------
(***************************************************************************)
(* Controls that save themselves (useCommit): one screen, one queue per    *)
(* conflict domain, at most one write of a domain in flight.  A value goes *)
(* on screen when it is picked; a newer one replaces the one still         *)
(* waiting; a write that fails with nothing queued behind it puts back     *)
(* what the server last acknowledged.                                      *)
(*                                                                         *)
(* A value is the number of the commit that picked it, 0 what the page was *)
(* opened with.  A caller's revert closure is the value it puts back.      *)
(***************************************************************************)
EXTENDS Naturals, FiniteSets

CONSTANTS
    Domains,        \* conflict domains of the screen
    Nothing,        \* null
    MaxCommits,     \* bound: values picked
    MaxFailures     \* bound: writes that answer with a failure

ASSUME CommitAssumption ==
    /\ Nothing \notin Nat
    /\ {MaxCommits, MaxFailures} \subseteq Nat

VARIABLES
    mounted,    \* the screen is still up
    made,       \* values picked so far
    failures,   \* writes that failed so far
    screen,     \* what each domain shows
    queue,      \* each domain's Queue
    write,      \* each domain's write in flight
    pill,       \* what the chrome's pill says
    stored,     \* the server's value of each domain
    late,       \* writes given up on that the server may still run
    acked,      \* history: the value each domain's last success carried
    told        \* history: what each commit's caller was answered

vars == <<mounted, made, failures, screen, queue, write, pill, stored, late,
          acked, told>>

Value == Nat
MaybeValue == Value \cup {Nothing}

Queue == [desired : MaybeValue, desiredRevert : MaybeValue,
          confirmed : MaybeValue, waiting : SUBSET Value]
Write == [sent : MaybeValue, callers : SUBSET Value,
          stage : {"none", "out", "landed", "failed"}]

EmptyQueue == [desired |-> Nothing, desiredRevert |-> Nothing,
               confirmed |-> Nothing, waiting |-> {}]
NoWrite == [sent |-> Nothing, callers |-> {}, stage |-> "none"]

TypeOK ==
    /\ mounted \in BOOLEAN
    /\ made \in Nat
    /\ failures \in Nat
    /\ screen \in [Domains -> Value]
    /\ queue \in [Domains -> Queue]
    /\ write \in [Domains -> Write]
    /\ pill \in {"saved", "saving", "error"}
    /\ stored \in [Domains -> Value]
    /\ acked \in [Domains -> Value]
    /\ late \in [Domains -> SUBSET Value]
    /\ told \in [Domains -> [saved : SUBSET Value, failed : SUBSET Value]]

Running(d) == write[d].stage # "none"
Quiet(d) == ~Running(d)

Init ==
    /\ mounted = TRUE
    /\ made = 0
    /\ failures = 0
    /\ screen = [d \in Domains |-> 0]
    /\ queue = [d \in Domains |-> EmptyQueue]
    /\ write = [d \in Domains |-> NoWrite]
    /\ pill = "saved"
    /\ stored = [d \in Domains |-> 0]
    /\ acked = [d \in Domains |-> 0]
    /\ late = [d \in Domains |-> {}]
    /\ told = [d \in Domains |-> [saved |-> {}, failed |-> {}]]

-----------------------------------------------------------------------------
\* Mutants: the screen taken for the server's value, a replaced value's
\* callers dropped.
EnqueuedConfirming(q, value, shown) ==
    [desired |-> value,
     desiredRevert |-> IF q.desired = Nothing THEN shown ELSE q.desiredRevert,
     confirmed |-> shown, waiting |-> q.waiting \cup {value}]
EnqueuedAlone(q, value, shown) ==
    [desired |-> value,
     desiredRevert |-> IF q.desired = Nothing THEN shown ELSE q.desiredRevert,
     confirmed |-> IF q.confirmed = Nothing THEN shown ELSE q.confirmed,
     waiting |-> {value}]

\* The first attempt since the last success is the one that knows what the
\* server holds; a newer value replaces the one waiting, and keeps its callers.
Enqueued(q, value, shown) ==
    [desired |-> value,
     desiredRevert |-> IF q.desired = Nothing THEN shown ELSE q.desiredRevert,
     confirmed |-> IF q.confirmed = Nothing THEN shown ELSE q.confirmed,
     waiting |-> q.waiting \cup {value}]

\* What the loop sends, and the queue it leaves behind.
Sending(q) == [sent |-> q.desired, callers |-> q.waiting, stage |-> "out"]
Drained(q) == [EmptyQueue EXCEPT !.confirmed = q.confirmed]

\* commit(): on screen at once, and sent at once unless the domain is writing.
Commit(d) ==
    /\ mounted
    /\ made < MaxCommits
    /\ made' = made + 1
    /\ screen' = [screen EXCEPT ![d] = made']
    /\ LET q == Enqueued(queue[d], made', screen[d])
       IN  IF Running(d)
           THEN /\ queue' = [queue EXCEPT ![d] = q]
                /\ UNCHANGED <<write, pill>>
           ELSE /\ queue' = [queue EXCEPT ![d] = Drained(q)]
                /\ write' = [write EXCEPT ![d] = Sending(q)]
                /\ pill' = "saving"
    /\ UNCHANGED <<mounted, failures, stored, late, acked, told>>

\* The action commits on the server.
Land(d) ==
    /\ write[d].stage = "out"
    /\ write' = [write EXCEPT ![d].stage = "landed"]
    /\ stored' = [stored EXCEPT ![d] = write[d].sent]
    /\ UNCHANGED <<mounted, made, failures, screen, queue, pill, late, acked,
                   told>>

\* The write answers with an error or throws, its answer is lost, or the
\* request times out: then the server may run it yet.
Fail(d) ==
    /\ write[d].stage \in {"out", "landed"}
    /\ failures < MaxFailures
    /\ failures' = failures + 1
    /\ write' = [write EXCEPT ![d].stage = "failed"]
    /\ late' \in {late} \cup
          IF write[d].stage = "out"
          THEN {[late EXCEPT ![d] = @ \cup {write[d].sent}]} ELSE {}
    /\ UNCHANGED <<mounted, made, screen, queue, pill, stored, acked, told>>

\* The server runs a write its client gave up on.
LandLate(d, v) ==
    /\ v \in late[d]
    /\ stored' = [stored EXCEPT ![d] = v]
    /\ late' = [late EXCEPT ![d] = @ \ {v}]
    /\ UNCHANGED <<mounted, made, failures, screen, queue, write, pill, acked,
                   told>>

\* Mutant: the loop ends whatever waits.
ContinueNever(d, q) ==
    /\ queue' = [queue EXCEPT ![d] = q]
    /\ write' = [write EXCEPT ![d] = NoWrite]

\* After the answer the loop sends what waits, or ends.
Continue(d, q) ==
    IF q.desired # Nothing
    THEN /\ queue' = [queue EXCEPT ![d] = Drained(q)]
         /\ write' = [write EXCEPT ![d] = Sending(q)]
    ELSE /\ queue' = [queue EXCEPT ![d] = q]
         /\ write' = [write EXCEPT ![d] = NoWrite]

\* Mutant: another domain's write does not count.
PillOnSavedAlone(d) == IF queue[d].desired # Nothing THEN "saving" ELSE "saved"

\* The pill once a write has landed: another domain keeps it.
PillOnSaved(d) ==
    IF queue[d].desired # Nothing THEN "saving"
    ELSE IF \E e \in Domains \ {d} : Running(e) THEN pill
    ELSE "saved"

\* drain(), from a successful answer to the next await.
AnswerSaved(d) ==
    /\ mounted
    /\ write[d].stage = "landed"
    /\ Continue(d, [queue[d] EXCEPT !.confirmed = queue[d].desiredRevert])
    /\ pill' = PillOnSaved(d)
    /\ acked' = [acked EXCEPT ![d] = write[d].sent]
    /\ told' = [told EXCEPT ![d].saved = @ \cup write[d].callers]
    /\ UNCHANGED <<mounted, made, failures, screen, stored, late>>

\* drain(), from a failure to the next await.
AnswerFailed(d) ==
    /\ mounted
    /\ write[d].stage = "failed"
    /\ LET q == queue[d]
       IN  IF q.desired # Nothing
           THEN /\ Continue(d, q)
                /\ pill' = "saving"
                /\ UNCHANGED screen
           ELSE /\ Continue(d, [q EXCEPT !.confirmed = Nothing])
                /\ pill' = "error"
                /\ screen' = [screen EXCEPT ![d] = q.confirmed]
    /\ told' = [told EXCEPT ![d].failed = @ \cup write[d].callers]
    /\ UNCHANGED <<mounted, made, failures, stored, late, acked>>

\* The screen goes away: an answer to it ends the loop.
Unmount ==
    /\ mounted
    /\ mounted' = FALSE
    /\ UNCHANGED <<made, failures, screen, queue, write, pill, stored, late,
                   acked, told>>

Step(d) ==
    \/ Commit(d)
    \/ Land(d)
    \/ Fail(d)
    \/ \E v \in late[d] : LandLate(d, v)
    \/ AnswerSaved(d)
    \/ AnswerFailed(d)

Next == Unmount \/ \E d \in Domains : Step(d)

\* A server action ends, by landing or by the client's timeout, and the
\* promise's continuation runs.
Fairness ==
    \A d \in Domains :
        /\ WF_vars(Land(d) \/ Fail(d))
        /\ WF_vars(AnswerSaved(d) \/ AnswerFailed(d))

Spec == Init /\ [][Next]_vars /\ Fairness

-----------------------------------------------------------------------------
\* What the queue remembers.  With a write in flight and no confirmed value
\* lost, a revert always leads back to what the server acknowledged.
Remembers(d) ==
    /\ Quiet(d) => /\ queue[d] = EmptyQueue
                   /\ screen[d] = acked[d]
    /\ Running(d) => /\ write[d].sent # Nothing
                     /\ queue[d].confirmed = acked[d]
    /\ Running(d) /\ queue[d].desired = Nothing =>
          /\ screen[d] = write[d].sent
          /\ queue[d].waiting = {}
    /\ queue[d].desired # Nothing =>
          /\ screen[d] = queue[d].desired
          /\ queue[d].desiredRevert = write[d].sent
QueueOK == \A d \in Domains : Remembers(d)

\* A domain with nothing in flight shows what the server last acknowledged,
\* whatever failed, was replaced or was queued on the way: a failed write puts
\* back the confirmed value, never an earlier optimistic one (use-commit.ts).
QuietShowsAcknowledged ==
    \A d \in Domains : Quiet(d) => screen[d] = acked[d]

\* The pill says Saved only when every domain of the screen is quiet and shows
\* a value the server acknowledged (running.current, use-commit.ts).
SavedMeansAllQuiet ==
    pill = "saved" => \A d \in Domains : Quiet(d) /\ screen[d] = acked[d]

\* No caller is forgotten, and one told its value was saved is never
\* contradicted: the domain's acknowledged value is that one or one picked
\* later.  One told it failed never sees its value stay on screen.
CallersToldTheTruth ==
    /\ \A n \in 1 .. made : \E d \in Domains :
          n \in queue[d].waiting \cup write[d].callers \cup
               told[d].saved \cup told[d].failed
    /\ \A d \in Domains :
          /\ \A n \in told[d].saved : acked[d] >= n
          /\ Quiet(d) => screen[d] \notin told[d].failed

\* Nobody waits for ever: while the screen is up, the callers of every domain
\* come to be answered.
EveryCallerAnswered ==
    []<>(\/ ~mounted
         \/ \A d \in Domains : queue[d].waiting \cup write[d].callers = {})
=============================================================================
