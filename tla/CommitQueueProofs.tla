------------------------- MODULE CommitQueueProofs -------------------------
(***************************************************************************)
(* The commit queue, for any set of domains and any bounds: what a quiet   *)
(* domain shows, what the pill means and what callers are told.  The       *)
(* inductive invariant adds to QueueOK the order of a domain's numbers:    *)
(* what was acknowledged, then what is on its way, then what waits.        *)
(***************************************************************************)
EXTENDS CommitQueue, TLAPS

Heard(d) == told[d].saved \cup told[d].failed

Ordered(d) ==
    /\ acked[d] <= made
    /\ \A n \in Heard(d) : n <= made
    /\ \A n \in told[d].saved : n <= acked[d]
    /\ acked[d] \notin told[d].failed
    /\ Quiet(d) => write[d] = NoWrite
    /\ queue[d].desired = Nothing => queue[d].desiredRevert = Nothing
    /\ Running(d) => /\ acked[d] < write[d].sent
                     /\ write[d].sent <= made
                     /\ \A n \in write[d].callers :
                           acked[d] < n /\ n <= write[d].sent
                     /\ \A n \in Heard(d) : n < write[d].sent
    /\ queue[d].desired # Nothing =>
          /\ write[d].sent < queue[d].desired
          /\ queue[d].desired <= made
          /\ \A n \in queue[d].waiting :
                write[d].sent < n /\ n <= queue[d].desired

Good(d) == Remembers(d) /\ Ordered(d)

\* Where the caller of a value can be.
Places(d) == queue[d].waiting \cup write[d].callers \cup Heard(d)
Accounted == \A n \in 1 .. made : \E d \in Domains : n \in Places(d)

IInv ==
    /\ TypeOK
    /\ \A d \in Domains : Good(d)
    /\ pill = "saved" => \A d \in Domains : Quiet(d)
    /\ Accounted

-----------------------------------------------------------------------------
(* What the loop's helpers return.                                          *)

\* A domain at rest.
LEMMA RestType ==
  /\ EmptyQueue \in Queue
  /\ EmptyQueue.desired = Nothing /\ EmptyQueue.waiting = {}
  /\ EmptyQueue.confirmed = Nothing /\ EmptyQueue.desiredRevert = Nothing
  /\ NoWrite \in Write
  /\ NoWrite.stage = "none" /\ NoWrite.callers = {}
  BY DEF EmptyQueue, NoWrite, Queue, Write, MaybeValue, Value

\* What is sent, and what is left.
LEMMA SendingType ==
  ASSUME NEW q \in Queue
  PROVE  /\ Sending(q) \in Write
         /\ Sending(q).sent = q.desired
         /\ Sending(q).callers = q.waiting
         /\ Sending(q).stage = "out"
         /\ Drained(q) \in Queue
         /\ Drained(q).desired = Nothing
         /\ Drained(q).waiting = {}
         /\ Drained(q).confirmed = q.confirmed
         /\ Drained(q).desiredRevert = Nothing
  BY DEF Sending, Drained, EmptyQueue, NoWrite, Queue, Write, MaybeValue, Value

\* A domain nothing happens to stays as it is while values are picked elsewhere.
LEMMA Untouched ==
  ASSUME TypeOK, NEW d \in Domains, Good(d),
         made' \in Nat, made <= made',
         queue'[d] = queue[d], write'[d] = write[d], screen'[d] = screen[d],
         acked'[d] = acked[d], told'[d] = told[d]
  PROVE  /\ Good(d)'
         /\ Places(d)' = Places(d)
         /\ Quiet(d)' = Quiet(d)
<1>1. Remembers(d)' = Remembers(d) /\ Quiet(d)' = Quiet(d)
  BY DEF Remembers, Quiet, Running
<1>2. Places(d)' = Places(d) /\ Heard(d)' = Heard(d)
  BY DEF Places, Heard
<1>3. /\ acked[d] \in Nat /\ made \in Nat
      /\ write[d].sent \in MaybeValue /\ queue[d].desired \in MaybeValue
      /\ queue[d].waiting \subseteq Nat /\ write[d].callers \subseteq Nat
      /\ Heard(d) \subseteq Nat
  BY DEF TypeOK, Queue, Write, Value, MaybeValue, Heard
<1>4. Ordered(d)'
  BY <1>1, <1>2, <1>3, CommitAssumption
  DEF Good, Ordered, Quiet, Running, Remembers, MaybeValue, Value, CommitAssumption
<1> QED
  BY <1>1, <1>2, <1>4 DEF Good

\* Accounted only needs that nobody leaves a domain's places.
LEMMA AccountedKept ==
  ASSUME TypeOK, Accounted, made' = made,
         \A d \in Domains : Places(d) \subseteq Places(d)'
  PROVE  Accounted'
  BY DEF Accounted

-----------------------------------------------------------------------------
(* The invariant holds at first, and every action keeps it.                 *)

LEMMA InitInv == Init => IInv
<1> SUFFICES ASSUME Init PROVE IInv
  OBVIOUS
<1>1. TypeOK
  BY RestType DEF Init, TypeOK, Value
<1>2. ASSUME NEW d \in Domains PROVE Good(d) /\ Quiet(d)
  <2>1. /\ queue[d] = EmptyQueue /\ write[d] = NoWrite
        /\ screen[d] = 0 /\ acked[d] = 0 /\ made = 0
        /\ told[d] = [saved |-> {}, failed |-> {}]
    BY DEF Init
  <2> QED
    BY <2>1 DEF Good, Remembers, Ordered, Quiet, Running, Heard, EmptyQueue, NoWrite
<1>3. Accounted
  BY DEF Init, Accounted
<1> QED
  BY <1>1, <1>2, <1>3 DEF IInv

\* A value picked: it goes out at once, or waits behind the one on its way.
LEMMA CommitInv == ASSUME IInv, NEW d \in Domains, Commit(d) PROVE IInv'
<1> DEFINE q == Enqueued(queue[d], made', screen[d])
<1>1. TypeOK
  BY DEF IInv
<1>2. /\ made \in Nat /\ made' = made + 1 /\ made' \in Nat
      /\ queue \in [Domains -> Queue] /\ write \in [Domains -> Write]
      /\ screen \in [Domains -> Nat] /\ acked \in [Domains -> Nat]
      /\ queue[d] \in Queue /\ write[d] \in Write
      /\ screen[d] \in Nat /\ acked[d] \in Nat
      /\ Nothing \notin Nat
  BY <1>1, CommitAssumption DEF TypeOK, Commit, Value, CommitAssumption
<1>3. /\ q \in Queue /\ q.desired = made'
      /\ q.waiting = queue[d].waiting \cup {made'}
      /\ q.desiredRevert = IF queue[d].desired = Nothing THEN screen[d]
                           ELSE queue[d].desiredRevert
      /\ q.confirmed = IF queue[d].confirmed = Nothing THEN screen[d]
                       ELSE queue[d].confirmed
      /\ q = Enqueued(queue[d], made', screen[d])
  BY <1>2 DEF Enqueued, Queue, MaybeValue, Value
<1> HIDE DEF q
<1>4. /\ Sending(q) \in Write /\ Sending(q).sent = q.desired
      /\ Sending(q).callers = q.waiting /\ Sending(q).stage = "out"
      /\ Drained(q) \in Queue /\ Drained(q).desired = Nothing
      /\ Drained(q).waiting = {} /\ Drained(q).confirmed = q.confirmed
      /\ Drained(q).desiredRevert = Nothing
  BY <1>3, SendingType
<1>5. /\ screen' = [screen EXCEPT ![d] = made']
      /\ acked' = acked /\ told' = told
      /\ UNCHANGED <<mounted, failures, stored, late>>
  BY DEF Commit
<1>6. Good(d) /\ (Quiet(d) <=> ~Running(d))
  BY DEF IInv, Quiet
<1>7. CASE Running(d)
  <2>1. queue' = [queue EXCEPT ![d] = q] /\ write' = write /\ pill' = pill
    BY <1>3, <1>7 DEF Commit
  <2>2. TypeOK'
    BY <1>1, <1>2, <1>3, <1>5, <2>1 DEF TypeOK, Value
  <2>3. queue'[d] = q /\ write'[d] = write[d] /\ screen'[d] = made'
    BY <1>2, <1>5, <2>1
  <2>4. Remembers(d)' /\ Running(d)'
    BY <1>2, <1>3, <1>5, <1>6, <1>7, <2>1, <2>3
    DEF Good, Remembers, Quiet, Running
  <2>5. Ordered(d)'
    <3>1. /\ write[d].sent \in Nat /\ write[d].sent <= made
          /\ acked[d] < write[d].sent
          /\ queue[d].waiting \subseteq Nat /\ write[d].callers \subseteq Nat
      BY <1>2, <1>6, <1>7 DEF Good, Ordered, Remembers, Queue, Write, Value, MaybeValue
    <3>2. \A n \in queue[d].waiting : write[d].sent < n /\ n <= made
      <4>1. CASE queue[d].desired = Nothing
        BY <4>1, <1>6, <1>7 DEF Good, Remembers
      <4>2. CASE queue[d].desired # Nothing
        <5>1. queue[d].desired \in Nat
          BY <4>2, <1>2 DEF Queue, MaybeValue, Value
        <5> QED
          BY <5>1, <4>2, <1>2, <1>6, <3>1 DEF Good, Ordered
      <4> QED
        BY <4>1, <4>2
    <3>3. Heard(d)' = Heard(d) /\ Heard(d) \subseteq Nat
      BY <1>1, <1>5 DEF Heard, TypeOK, Value
    <3>4. \A n \in q.waiting : write[d].sent < n /\ n <= made'
      BY <3>1, <3>2, <1>2, <1>3
    <3>5. Ordered(d) /\ acked'[d] = acked[d] /\ told'[d] = told[d]
      BY <1>5, <1>6 DEF Good
    <3>6. ~Quiet(d)'
      BY <2>4 DEF Quiet
    <3> QED
      BY <1>2, <1>3, <1>7, <2>3, <2>4, <3>1, <3>3, <3>4, <3>5, <3>6 DEF Ordered
  <2>6. Places(d) \subseteq Places(d)' /\ made' \in Places(d)'
    BY <1>3, <1>5, <2>3 DEF Places, Heard
  <2>7. ASSUME NEW e \in Domains, e # d
        PROVE  Good(e)' /\ Places(e)' = Places(e) /\ Quiet(e)' = Quiet(e)
    BY <2>1, <1>1, <1>2, <1>5, <2>7, Untouched DEF IInv
  <2>8. Accounted'
    BY <1>2, <2>6, <2>7 DEF Accounted, IInv
  <2>9. pill' = "saved" => \A e \in Domains : Quiet(e)'
    BY <1>6, <1>7, <2>1 DEF IInv
  <2> QED
    BY <2>2, <2>4, <2>5, <2>7, <2>8, <2>9 DEF IInv, Good
<1>8. CASE ~Running(d)
  <2>1. /\ queue' = [queue EXCEPT ![d] = Drained(q)]
        /\ write' = [write EXCEPT ![d] = Sending(q)] /\ pill' = "saving"
    BY <1>3, <1>8 DEF Commit
  <2>2. TypeOK'
    BY <1>1, <1>2, <1>4, <1>5, <2>1 DEF TypeOK, Value
  <2>3. /\ queue'[d] = Drained(q) /\ write'[d] = Sending(q)
        /\ screen'[d] = made' /\ acked'[d] = acked[d] /\ told'[d] = told[d]
    BY <1>2, <1>5, <2>1
  <2>4. /\ queue[d] = EmptyQueue /\ screen[d] = acked[d]
        /\ write[d] = NoWrite
    BY <1>6, <1>8 DEF Good, Remembers, Ordered
  <2>5. q.waiting = {made'} /\ q.confirmed = acked[d]
    BY <1>3, <2>4 DEF EmptyQueue
  <2>6. Running(d)' /\ ~Quiet(d)' /\ Remembers(d)'
    BY <1>2, <1>3, <1>4, <2>3, <2>5 DEF Remembers, Quiet, Running
  <2>7. Ordered(d)'
    <3>1. acked[d] <= made /\ \A n \in Heard(d) : n <= made
      BY <1>6 DEF Good, Ordered
    <3>2. Heard(d)' = Heard(d) /\ Heard(d) \subseteq Nat
      BY <1>1, <2>3 DEF Heard, TypeOK, Value
    <3>3. /\ \A n \in told'[d].saved : n <= acked'[d]
          /\ acked'[d] \notin told'[d].failed
      BY <1>6, <2>3 DEF Good, Ordered
    <3> QED
      BY <1>2, <1>3, <1>4, <2>3, <2>5, <2>6, <3>1, <3>2, <3>3 DEF Ordered
  <2>8. Places(d) \subseteq Places(d)' /\ made' \in Places(d)'
    BY <1>4, <2>3, <2>4, <2>5, RestType DEF Places, Heard
  <2>9. ASSUME NEW e \in Domains, e # d
        PROVE  Good(e)' /\ Places(e)' = Places(e)
    BY <2>1, <1>1, <1>2, <1>5, <2>9, Untouched DEF IInv
  <2>10. Accounted'
    BY <1>2, <2>8, <2>9 DEF Accounted, IInv
  <2> QED
    BY <2>1, <2>2, <2>6, <2>7, <2>9, <2>10 DEF IInv, Good
<1> QED
  BY <1>7, <1>8

\* What an action on the server, a failure or the screen's end leaves: the
\* queue, the screen and the callers as they were, a write at another stage.
LEMMA StageInv ==
  ASSUME IInv, TypeOK',
         UNCHANGED <<made, screen, queue, pill, acked, told>>,
         \A e \in Domains : /\ write'[e].sent = write[e].sent
                            /\ write'[e].callers = write[e].callers
                            /\ Running(e)' = Running(e)
                            /\ Quiet(e) => write'[e] = write[e]
  PROVE  IInv'
<1>1. ASSUME NEW e \in Domains
      PROVE  Good(e)' /\ Places(e)' = Places(e) /\ Quiet(e)' = Quiet(e)
  <2>1. Quiet(e)' = Quiet(e)
    BY DEF Quiet
  <2>2. Remembers(e)'
    BY <2>1 DEF IInv, Good, Remembers
  <2>3. Heard(e)' = Heard(e) /\ Places(e)' = Places(e)
    BY DEF Heard, Places
  <2>4. Ordered(e)
    BY DEF IInv, Good
  <2>5. Ordered(e)'
    BY <2>1, <2>3, <2>4 DEF Ordered
  <2> QED
    BY <2>1, <2>2, <2>3, <2>5 DEF Good
<1>2. Accounted'
  BY <1>1 DEF IInv, Accounted
<1> QED
  BY <1>1, <1>2 DEF IInv

LEMMA LandInv == ASSUME IInv, NEW d \in Domains, Land(d) PROVE IInv'
<1>1. /\ write \in [Domains -> Write] /\ write[d].sent \in Nat
      /\ stored \in [Domains -> Nat]
  BY DEF IInv, TypeOK, Land, Write, MaybeValue, Value, Good, Remembers, Running
<1>2. write' = [write EXCEPT ![d].stage = "landed"] /\ write[d].stage = "out"
  BY DEF Land
<1>3. write' \in [Domains -> Write] /\ stored' \in [Domains -> Nat]
  BY <1>1, <1>2 DEF Land, Write
<1>4. TypeOK'
  BY <1>3 DEF IInv, TypeOK, Land, Value
<1>5. \A e \in Domains : /\ write'[e].sent = write[e].sent
                         /\ write'[e].callers = write[e].callers
                         /\ Running(e)' = Running(e)
                         /\ Quiet(e) => write'[e] = write[e]
  BY <1>1, <1>2 DEF Running, Quiet, Write
<1> QED
  BY <1>4, <1>5, StageInv DEF Land

LEMMA FailInv == ASSUME IInv, NEW d \in Domains, Fail(d) PROVE IInv'
<1>1. /\ write \in [Domains -> Write] /\ write[d].sent \in Nat
      /\ late \in [Domains -> SUBSET Nat] /\ failures \in Nat
  BY DEF IInv, TypeOK, Fail, Write, MaybeValue, Value, Good, Remembers, Running
<1>2. /\ write' = [write EXCEPT ![d].stage = "failed"]
      /\ write[d].stage \in {"out", "landed"}
      /\ failures' = failures + 1
  BY DEF Fail
<1>3. write' \in [Domains -> Write]
  BY <1>1, <1>2 DEF Write
<1>4. late' \in [Domains -> SUBSET Nat]
  <2>1. late' = late \/ late' = [late EXCEPT ![d] = @ \cup {write[d].sent}]
    BY DEF Fail
  <2> QED
    BY <1>1, <2>1
<1>5. TypeOK'
  BY <1>1, <1>2, <1>3, <1>4 DEF IInv, TypeOK, Fail, Value
<1>6. \A e \in Domains : /\ write'[e].sent = write[e].sent
                         /\ write'[e].callers = write[e].callers
                         /\ Running(e)' = Running(e)
                         /\ Quiet(e) => write'[e] = write[e]
  BY <1>1, <1>2 DEF Running, Quiet, Write
<1> QED
  BY <1>5, <1>6, StageInv DEF Fail

LEMMA LateInv ==
  ASSUME IInv, NEW d \in Domains, NEW v \in late[d], LandLate(d, v) PROVE IInv'
<1>1. late \in [Domains -> SUBSET Nat] /\ stored \in [Domains -> Nat] /\ v \in Nat
  BY DEF IInv, TypeOK, Value
<1>2. stored' \in [Domains -> Nat] /\ late' \in [Domains -> SUBSET Nat]
  BY <1>1 DEF LandLate
<1>3. TypeOK'
  BY <1>2 DEF IInv, TypeOK, LandLate, Value
<1> QED
  BY <1>3, StageInv DEF LandLate, Running

LEMMA UnmountInv == ASSUME IInv, Unmount PROVE IInv'
<1>1. TypeOK'
  BY DEF IInv, TypeOK, Unmount
<1> QED
  BY <1>1, StageInv DEF Unmount, Running

\* What every answer does to its domain once its callers have heard: the loop
\* sends what waits, or the domain comes to rest on what was acknowledged.
LEMMA AnswerInv ==
  ASSUME IInv, NEW d \in Domains, Running(d), NEW q \in Queue,
         Continue(d, q),
         q.desired = queue[d].desired, q.waiting = queue[d].waiting,
         UNCHANGED <<mounted, made, failures, stored, late>>,
         screen' \in [Domains -> Nat], acked' \in [Domains -> Nat],
         told' \in [Domains -> [saved : SUBSET Nat, failed : SUBSET Nat]],
         pill' \in {"saved", "saving", "error"},
         \A e \in Domains \ {d} : /\ screen'[e] = screen[e]
                                  /\ acked'[e] = acked[e]
                                  /\ told'[e] = told[e],
         acked'[d] <= write[d].sent,
         Heard(d)' = Heard(d) \cup write[d].callers,
         \A n \in told'[d].saved : n <= acked'[d],
         acked'[d] \notin told'[d].failed,
         IF q.desired # Nothing
         THEN q.confirmed = acked'[d] /\ screen'[d] = screen[d]
         ELSE q = EmptyQueue /\ screen'[d] = acked'[d],
         pill' = "saved" => /\ q.desired = Nothing
                            /\ \A e \in Domains \ {d} : Quiet(e)
  PROVE  IInv'
<1>1. /\ TypeOK /\ Good(d) /\ made \in Nat
      /\ queue \in [Domains -> Queue] /\ write \in [Domains -> Write]
      /\ write[d] \in Write /\ queue[d] \in Queue
      /\ write[d].callers \subseteq Nat /\ Heard(d) \subseteq Nat
      /\ acked'[d] \in Nat
  BY DEF IInv, TypeOK, Write, Queue, Value, Heard
<1>2. /\ Sending(q) \in Write /\ Sending(q).sent = q.desired
      /\ Sending(q).callers = q.waiting /\ Sending(q).stage = "out"
      /\ Drained(q) \in Queue /\ Drained(q).desired = Nothing
      /\ Drained(q).waiting = {} /\ Drained(q).confirmed = q.confirmed
      /\ Drained(q).desiredRevert = Nothing
  BY SendingType
<1>3. /\ write[d].sent \in Nat /\ write[d].sent <= made
      /\ \A n \in write[d].callers : n <= write[d].sent
      /\ \A n \in Heard(d) : n <= write[d].sent
  BY <1>1 DEF Good, Ordered, Remembers, Write, MaybeValue, Value
<1>4. ASSUME NEW e \in Domains, e # d
      PROVE  Good(e)' /\ Places(e)' = Places(e) /\ Quiet(e)' = Quiet(e)
  <2>1. queue'[e] = queue[e] /\ write'[e] = write[e]
    BY <1>1, <1>4 DEF Continue
  <2> QED
    BY <1>1, <1>4, <2>1, Untouched DEF IInv
<1>5. CASE q.desired # Nothing
  <2>1. /\ queue'[d] = Drained(q) /\ write'[d] = Sending(q)
        /\ queue' \in [Domains -> Queue] /\ write' \in [Domains -> Write]
    BY <1>1, <1>2, <1>5 DEF Continue
  <2>2. TypeOK'
    BY <1>1, <2>1 DEF TypeOK, Value
  <2>3. /\ q.desired \in Nat /\ q.desired <= made /\ write[d].sent < q.desired
        /\ \A n \in q.waiting : write[d].sent < n /\ n <= q.desired
        /\ q.waiting \subseteq Nat /\ screen[d] = q.desired
        /\ Nothing \notin Nat
    BY <1>1, <1>5, CommitAssumption
    DEF Good, Ordered, Remembers, Queue, MaybeValue, Value, CommitAssumption
  <2>4. Running(d)' /\ ~Quiet(d)' /\ Remembers(d)'
    BY <1>2, <1>5, <2>1, <2>3 DEF Remembers, Running, Quiet
  <2>5. Ordered(d)'
    BY <1>1, <1>2, <1>3, <2>1, <2>3, <2>4 DEF Ordered
  <2>6. Places(d)' = Places(d)
    BY <1>2, <2>1 DEF Places
  <2>7. Accounted'
    BY <1>4, <2>6 DEF IInv, Accounted
  <2>8. pill' # "saved"
    BY <1>5
  <2> QED
    BY <1>4, <2>2, <2>4, <2>5, <2>7, <2>8 DEF IInv, Good
<1>6. CASE q.desired = Nothing
  <2>1. /\ queue'[d] = EmptyQueue /\ write'[d] = NoWrite
        /\ queue' \in [Domains -> Queue] /\ write' \in [Domains -> Write]
    BY <1>1, <1>6, RestType DEF Continue
  <2>2. TypeOK'
    BY <1>1, <2>1 DEF TypeOK, Value
  <2>3. Quiet(d)' /\ ~Running(d)' /\ Remembers(d)'
    BY <1>6, <2>1, RestType DEF Remembers, Running, Quiet
  <2>4. Ordered(d)'
    BY <1>1, <1>3, <2>1, <2>3, RestType DEF Ordered
  <2>5. Places(d)' = Places(d)
    BY <1>6, <2>1, RestType DEF Places
  <2>6. Accounted'
    BY <1>4, <2>5 DEF IInv, Accounted
  <2>7. pill' = "saved" => \A e \in Domains : Quiet(e)'
    BY <1>4, <2>3
  <2> QED
    BY <1>4, <2>2, <2>3, <2>4, <2>6, <2>7 DEF IInv, Good
<1> QED
  BY <1>5, <1>6

LEMMA AnswerSavedInv ==
  ASSUME IInv, NEW d \in Domains, AnswerSaved(d) PROVE IInv'
<1> DEFINE q == [queue[d] EXCEPT !.confirmed = queue[d].desiredRevert]
<1>1. /\ TypeOK /\ Good(d) /\ made \in Nat
      /\ queue[d] \in Queue /\ write[d] \in Write /\ write[d].stage = "landed"
      /\ acked \in [Domains -> Nat] /\ screen \in [Domains -> Nat]
      /\ told \in [Domains -> [saved : SUBSET Nat, failed : SUBSET Nat]]
      /\ Nothing \notin Nat
  BY CommitAssumption
  DEF IInv, TypeOK, Value, AnswerSaved, CommitAssumption
<1>2. Running(d) /\ ~Quiet(d) /\ Running(d) = (~Quiet(d))
  BY <1>1 DEF Running, Quiet
<1>3. /\ write[d].sent \in Nat /\ write[d].callers \subseteq Nat
      /\ acked[d] < write[d].sent /\ acked[d] \in Nat
      /\ \A n \in write[d].callers : n <= write[d].sent
      /\ \A n \in Heard(d) : n < write[d].sent
  BY <1>1, <1>2 DEF Good, Ordered, Remembers, Write, MaybeValue, Value
<1>4. /\ q \in Queue /\ q.desired = queue[d].desired
      /\ q.waiting = queue[d].waiting /\ q.confirmed = queue[d].desiredRevert
  BY <1>1 DEF Queue
<1>5. /\ acked' = [acked EXCEPT ![d] = write[d].sent]
      /\ told' = [told EXCEPT ![d].saved = @ \cup write[d].callers]
      /\ screen' = screen /\ Continue(d, q) /\ pill' = PillOnSaved(d)
      /\ UNCHANGED <<mounted, made, failures, stored, late>>
  BY DEF AnswerSaved
<1>6. IF q.desired # Nothing
      THEN q.confirmed = acked'[d] /\ screen'[d] = screen[d]
      ELSE q = EmptyQueue /\ screen'[d] = acked'[d]
  <2>1. acked'[d] = write[d].sent
    BY <1>1, <1>5
  <2>2. CASE queue[d].desired # Nothing
    BY <2>1, <2>2, <1>1, <1>4, <1>5 DEF Good, Remembers
  <2>3. CASE queue[d].desired = Nothing
    <3>1. queue[d].waiting = {} /\ screen[d] = write[d].sent
      BY <2>3, <1>1, <1>2 DEF Good, Remembers
    <3>2. queue[d].desiredRevert = Nothing
      BY <2>3, <1>1 DEF Good, Ordered
    <3>3. q = EmptyQueue
      <4>1. queue[d] = [desired |-> Nothing, desiredRevert |-> Nothing,
                        confirmed |-> queue[d].confirmed, waiting |-> {}]
        BY <2>3, <3>1, <3>2, <1>1 DEF Queue
      <4> QED
        BY <4>1 DEF EmptyQueue
    <3> QED
      BY <2>1, <2>3, <3>1, <3>3, <1>4, <1>5
  <2> QED
    BY <2>2, <2>3
<1>7. /\ told' \in [Domains -> [saved : SUBSET Nat, failed : SUBSET Nat]]
      /\ told'[d].saved = told[d].saved \cup write[d].callers
      /\ told'[d].failed = told[d].failed
      /\ \A e \in Domains \ {d} : told'[e] = told[e]
  BY <1>1, <1>3, <1>5
<1>8. /\ Heard(d)' = Heard(d) \cup write[d].callers
      /\ told[d].saved \subseteq Heard(d) /\ told[d].failed \subseteq Heard(d)
      /\ Heard(d) \subseteq Nat
  BY <1>1, <1>7 DEF Heard
<1>9. /\ \A n \in told'[d].saved : n <= acked'[d]
      /\ acked'[d] \notin told'[d].failed
      /\ acked'[d] <= write[d].sent
  BY <1>1, <1>3, <1>5, <1>7, <1>8
<1>10. /\ pill' \in {"saved", "saving", "error"}
       /\ pill' = "saved" => /\ q.desired = Nothing
                             /\ \A e \in Domains \ {d} : Quiet(e)
  <2>1. pill \in {"saved", "saving", "error"} /\ pill # "saved"
    BY <1>1, <1>2 DEF IInv, TypeOK
  <2>2. \A e \in Domains : Quiet(e) <=> ~Running(e)
    BY DEF Quiet
  <2> QED
    BY <1>4, <1>5, <2>1, <2>2 DEF PillOnSaved
<1>11. /\ screen' \in [Domains -> Nat] /\ acked' \in [Domains -> Nat]
       /\ \A e \in Domains \ {d} : screen'[e] = screen[e] /\ acked'[e] = acked[e]
  BY <1>1, <1>3, <1>5
<1> HIDE DEF q
<1> QED
  BY <1>2, <1>4, <1>5, <1>6, <1>7, <1>8, <1>9, <1>10, <1>11, AnswerInv

LEMMA AnswerFailedInv ==
  ASSUME IInv, NEW d \in Domains, AnswerFailed(d) PROVE IInv'
<1> DEFINE q == IF queue[d].desired # Nothing THEN queue[d]
                ELSE [queue[d] EXCEPT !.confirmed = Nothing]
<1>1. /\ TypeOK /\ Good(d) /\ made \in Nat
      /\ queue[d] \in Queue /\ write[d] \in Write /\ write[d].stage = "failed"
      /\ acked \in [Domains -> Nat] /\ screen \in [Domains -> Nat]
      /\ told \in [Domains -> [saved : SUBSET Nat, failed : SUBSET Nat]]
      /\ Nothing \notin Nat
  BY CommitAssumption
  DEF IInv, TypeOK, Value, AnswerFailed, CommitAssumption
<1>2. Running(d)
  BY <1>1 DEF Running
<1>3. /\ write[d].sent \in Nat /\ write[d].callers \subseteq Nat
      /\ acked[d] < write[d].sent /\ acked[d] \in Nat
      /\ \A n \in write[d].callers : acked[d] < n
      /\ queue[d].confirmed = acked[d]
  BY <1>1, <1>2 DEF Good, Ordered, Remembers, Write, MaybeValue, Value
<1>4. /\ q \in Queue /\ q.desired = queue[d].desired
      /\ q.waiting = queue[d].waiting
  BY <1>1 DEF Queue, MaybeValue
<1>5. /\ acked' = acked
      /\ told' = [told EXCEPT ![d].failed = @ \cup write[d].callers]
      /\ UNCHANGED <<mounted, made, failures, stored, late>>
  BY DEF AnswerFailed
<1>6. /\ Continue(d, q)
      /\ pill' = IF queue[d].desired # Nothing THEN "saving" ELSE "error"
      /\ screen' = IF queue[d].desired # Nothing THEN screen
                   ELSE [screen EXCEPT ![d] = queue[d].confirmed]
  BY DEF AnswerFailed
<1>7. IF q.desired # Nothing
      THEN q.confirmed = acked'[d] /\ screen'[d] = screen[d]
      ELSE q = EmptyQueue /\ screen'[d] = acked'[d]
  <2>1. CASE queue[d].desired # Nothing
    BY <2>1, <1>3, <1>4, <1>5, <1>6
  <2>2. CASE queue[d].desired = Nothing
    <3>1. queue[d].waiting = {} /\ queue[d].desiredRevert = Nothing
      BY <2>2, <1>1, <1>2 DEF Good, Remembers, Ordered
    <3>2. q = EmptyQueue
      BY <2>2, <3>1, <1>1 DEF Queue, EmptyQueue
    <3> QED
      BY <2>2, <3>2, <1>1, <1>3, <1>4, <1>5, <1>6
  <2> QED
    BY <2>1, <2>2
<1>8. /\ told' \in [Domains -> [saved : SUBSET Nat, failed : SUBSET Nat]]
      /\ told'[d].saved = told[d].saved
      /\ told'[d].failed = told[d].failed \cup write[d].callers
      /\ \A e \in Domains \ {d} : told'[e] = told[e]
  BY <1>1, <1>3, <1>5
<1>9. Heard(d)' = Heard(d) \cup write[d].callers
  BY <1>8 DEF Heard
<1>10. /\ \A n \in told'[d].saved : n <= acked'[d]
       /\ acked'[d] \notin told'[d].failed
       /\ acked'[d] <= write[d].sent
  BY <1>1, <1>3, <1>5, <1>8 DEF Good, Ordered
<1>11. /\ pill' \in {"saved", "saving", "error"} /\ pill' # "saved"
  BY <1>6
<1>12. /\ screen' \in [Domains -> Nat] /\ acked' \in [Domains -> Nat]
       /\ \A e \in Domains \ {d} : screen'[e] = screen[e] /\ acked'[e] = acked[e]
  BY <1>1, <1>3, <1>5, <1>6
<1> HIDE DEF q
<1> QED
  BY <1>2, <1>4, <1>5, <1>6, <1>7, <1>8, <1>9, <1>10, <1>11, <1>12, AnswerInv

-----------------------------------------------------------------------------
(* The theorems.                                                            *)

LEMMA StepInv == IInv /\ [Next]_vars => IInv'
<1> SUFFICES ASSUME IInv, [Next]_vars PROVE IInv'
  OBVIOUS
<1>1. CASE UNCHANGED vars
  BY <1>1 DEF vars, IInv, TypeOK, Good, Remembers, Ordered, Quiet, Running,
     Heard, Accounted, Places
<1>2. CASE Unmount
  BY <1>2, UnmountInv
<1>3. ASSUME NEW d \in Domains, Step(d) PROVE IInv'
  BY <1>3, CommitInv, LandInv, FailInv, LateInv, AnswerSavedInv, AnswerFailedInv
  DEF Step
<1> QED
  BY <1>1, <1>2, <1>3 DEF Next

\* The strengthened invariant of the queue.
THEOREM InductiveInvariant == Spec => []IInv
  BY InitInv, StepInv, PTL DEF Spec

\* Every value has its type: what a failed write puts back is never null.
THEOREM TypeCorrect == Spec => []TypeOK
<1>1. IInv => TypeOK
  BY DEF IInv
<1> QED
  BY <1>1, InductiveInvariant, PTL

\* A write in flight is remembered with the value to go back to.
THEOREM QueueCorrect == Spec => []QueueOK
<1>1. IInv => QueueOK
  BY DEF IInv, Good, QueueOK
<1> QED
  BY <1>1, InductiveInvariant, PTL

\* A quiet domain shows what the server last acknowledged.
THEOREM QuietShows == Spec => []QuietShowsAcknowledged
<1>1. IInv => QuietShowsAcknowledged
  BY DEF IInv, Good, Remembers, QuietShowsAcknowledged
<1> QED
  BY <1>1, InductiveInvariant, PTL

\* Saved: every domain quiet, every value acknowledged.
THEOREM SavedIsQuiet == Spec => []SavedMeansAllQuiet
<1>1. IInv => SavedMeansAllQuiet
  BY DEF IInv, Good, Remembers, SavedMeansAllQuiet
<1> QED
  BY <1>1, InductiveInvariant, PTL

\* No caller is forgotten or told what the screen contradicts.
THEOREM CallersHearTheTruth == Spec => []CallersToldTheTruth
<1>1. ASSUME IInv PROVE CallersToldTheTruth
  <2>1. ASSUME NEW d \in Domains
        PROVE  /\ \A n \in told[d].saved : acked[d] >= n
               /\ Quiet(d) => screen[d] \notin told[d].failed
    <3>1. Good(d) /\ acked[d] \in Nat /\ told[d].saved \subseteq Nat
      BY <1>1 DEF IInv, TypeOK, Value
    <3> QED
      BY <3>1 DEF Good, Remembers, Ordered
  <2>2. \A n \in 1 .. made : \E d \in Domains :
          n \in queue[d].waiting \cup write[d].callers \cup
               told[d].saved \cup told[d].failed
    BY <1>1 DEF IInv, Accounted, Places, Heard
  <2> QED
    BY <2>1, <2>2 DEF CallersToldTheTruth
<1> QED
  BY <1>1, InductiveInvariant, PTL

=============================================================================
