-------------------------- MODULE PrimoTurnsProofs --------------------------
(***************************************************************************)
(* What Primo's windows and transcripts keep, for any number of windows,   *)
(* conversations, texts, requests and failures: answers after the question *)
(* they were made for, answers that never go back, questions given back or *)
(* asked again only when they were not kept, and the one step that puts    *)
(* rows of one conversation on the page of another.                        *)
(***************************************************************************)
EXTENDS PrimoTurns, FiniteSetTheorems, SequenceTheorems, TLAPS

-----------------------------------------------------------------------------
(* Sequences of rows.                                                       *)

Of(s, c) == \A i \in DOMAIN s : s[i].chat = c
Begins(s) == s # <<>> => s[1].role = "user"

\* A question of s with that id and text.
Reads(s, id, t) ==
    \E i \in DOMAIN s : s[i].role = "user" /\ s[i].id = id /\ s[i].text = t

\* A set of positions that is not empty has a last one.
LEMMA LastExists ==
  ASSUME NEW n \in Nat, NEW Q \in SUBSET (1..n), Q # {}
  PROVE  \E i \in Q : \A j \in Q : j <= i
<1> DEFINE From(i) == {j \in Q : i <= j}
           T == {From(i) : i \in Q}
<1>1. IsFiniteSet(Q)
  <2>1. IsFiniteSet(1..n)
    BY FS_Interval
  <2> QED
    BY <2>1, FS_Subset
<1>2. \A S \in T : S \subseteq Q /\ IsFiniteSet(S)
  BY <1>1, FS_Subset
<1>3. T \subseteq FiniteSubsetsOf(Q) /\ T # {}
  <2>1. \A S \in T : S \in FiniteSubsetsOf(Q)
    BY <1>2 DEF FiniteSubsetsOf
  <2>2. PICK i \in Q : TRUE
    OBVIOUS
  <2>3. From(i) \in T
    BY <2>2
  <2> QED
    BY <2>1, <2>3
<1>4. PICK S \in T : \A U \in T : ~ (<<U, S>> \in StrictSubsetOrdering(Q))
  BY <1>3, FS_StrictSubsetOrderingWellFounded, WFMin
<1>5. PICK i \in Q : S = From(i)
  OBVIOUS
<1>6. ASSUME NEW j \in Q, j > i PROVE FALSE
  <2>1. From(j) \in T /\ From(j) \subseteq S /\ i \in S /\ i \notin From(j)
    <3>1. i \in Nat /\ j \in Nat /\ \A k \in Q : k \in Nat
      OBVIOUS
    <3>2. From(j) \in T
      BY <1>6
    <3>3. \A k \in Q : j <= k => i <= k
      BY <1>6, <3>1
    <3>4. i <= i /\ ~(j <= i)
      BY <1>6, <3>1
    <3>5. From(j) \subseteq From(i) /\ i \in From(i) /\ i \notin From(j)
      BY <3>3, <3>4, Zenon
    <3> QED
      BY <1>5, <3>2, <3>5, Zenon
  <2>2. <<From(j), S>> \in StrictSubsetOrdering(Q)
    BY <2>1, <1>2 DEF StrictSubsetOrdering
  <2> QED
    BY <2>1, <2>2, <1>4
<1> QED
  BY <1>6

\* The last question of a sequence that has one.
LEMMA LastQuestionIsThere ==
  ASSUME NEW M, NEW s \in Seq(M), Questions(s) # {}
  PROVE  \E i \in Questions(s) :
            /\ i \in 1..Len(s) /\ LastQuestion(s) = s[i]
            /\ s[i] \in M /\ s[i].role = "user"
            /\ \A j \in Questions(s) : j <= i
<1>1. Questions(s) \in SUBSET (1..Len(s)) /\ Len(s) \in Nat
  BY DEF Questions
<1>2. \E i \in Questions(s) : \A j \in Questions(s) : j <= i
  BY <1>1, LastExists
<1> DEFINE k == CHOOSE i \in Questions(s) : \A j \in Questions(s) : j <= i
<1>3. k \in Questions(s) /\ \A j \in Questions(s) : j <= k
  BY <1>2
<1>4. LastQuestion(s) = s[k]
  BY DEF LastQuestion
<1> HIDE DEF k
<1>5. k \in 1..Len(s) /\ s[k] \in M /\ s[k].role = "user"
  BY <1>1, <1>3, ElementOfSeq DEF Questions
<1> QED
  BY <1>3, <1>4, <1>5

LEMMA PlaceIsThere ==
  ASSUME NEW s, NEW key
  PROVE  \/ Place(s, key) = 0 /\ \A i \in DOMAIN s : Key(s[i]) # key
         \/ Place(s, key) \in DOMAIN s /\ Key(s[Place(s, key)]) = key
BY DEF Place

\* s up to the place of q, with q in that place.
LEMMA UpToShape ==
  ASSUME NEW M, NEW s \in Seq(M), NEW q \in M
  PROVE  /\ UpTo(s, q) \in Seq(M)
         /\ Len(UpTo(s, q)) \in 1..(Len(s) + 1)
         /\ UpTo(s, q)[Len(UpTo(s, q))] = q
         /\ \A i \in 1..Len(s) : i < Len(UpTo(s, q)) => UpTo(s, q)[i] = s[i]
         /\ Place(s, Key(q)) # 0 => Len(UpTo(s, q)) = Place(s, Key(q))
<1> DEFINE k == Place(s, Key(q))
           h == SubSeq(s, 1, k - 1)
<1>1. k \in 0..Len(s) /\ DOMAIN s = 1..Len(s) /\ Len(s) \in Nat
  BY PlaceIsThere
<1>2. \A i \in 1..(k - 1) : s[i] \in M
  BY <1>1
<1>3. /\ h \in Seq(M) /\ Len(h) = (IF k = 0 THEN 0 ELSE k - 1)
      /\ \A i \in 1..Len(h) : h[i] = s[i]
  <2>1. /\ h \in Seq(M) /\ Len(h) = (IF 1 <= k - 1 THEN (k - 1) - 1 + 1 ELSE 0)
        /\ \A i \in 1..((k - 1) - 1 + 1) : h[i] = s[1 + i - 1]
    <3> HIDE DEF k
    <3> QED
      BY <1>1, <1>2, SubSeqProperties
  <2> QED
    BY <2>1, <1>1
<1>4. UpTo(s, q) = Append(h, q)
  BY DEF UpTo
<1> HIDE DEF h
<1> QED
  BY <1>1, <1>3, <1>4, AppendProperties

\* A row put after the last, or in its place.
LEMMA UpsertNew ==
  ASSUME NEW M, NEW s \in Seq(M), NEW q \in M, Place(s, Key(q)) = 0
  PROVE  /\ Upsert(s, q) \in Seq(M)
         /\ Len(Upsert(s, q)) = Len(s) + 1
         /\ Upsert(s, q)[Len(s) + 1] = q
         /\ \A i \in 1..Len(s) : Upsert(s, q)[i] = s[i]
<1>1. Upsert(s, q) = Append(s, q)
  BY DEF Upsert
<1> QED
  BY <1>1, AppendProperties

LEMMA UpsertAgain ==
  ASSUME NEW M, NEW s \in Seq(M), NEW q \in M, Place(s, Key(q)) # 0
  PROVE  /\ Upsert(s, q) \in Seq(M)
         /\ Len(Upsert(s, q)) = Len(s)
         /\ Upsert(s, q)[Place(s, Key(q))] = q
         /\ \A i \in 1..Len(s) :
              i # Place(s, Key(q)) => Upsert(s, q)[i] = s[i]
<1> DEFINE k == Place(s, Key(q))
<1>1. k \in 1..Len(s)
  BY PlaceIsThere
<1>2. Upsert(s, q) = [s EXCEPT ![k] = q]
  BY DEF Upsert
<1> HIDE DEF k
<1>3. /\ [s EXCEPT ![k] = q] \in Seq(M) /\ Len([s EXCEPT ![k] = q]) = Len(s)
      /\ \A i \in 1..Len(s) : [s EXCEPT ![k] = q][i] = IF i = k THEN q ELSE s[i]
  BY <1>1, ExceptSeq
<1> QED
  BY <1>1, <1>2, <1>3 DEF k

-----------------------------------------------------------------------------
(* The inductive invariant.                                                 *)

\* A window's page, the request it listens to and what it would give back,
\* when n requests have been made.
WindowFits(p, n) ==
    /\ Begins(p.page)
    /\ p.status = "busy" <=> p.request # 0
    /\ p.loading => p.request = 0
    /\ p.request # 0 =>
         /\ p.page # <<>> /\ p.page[Len(p.page)].role = "user"
         /\ p.request <= n
    /\ p.attempt # None =>
         /\ p.request # 0
         /\ Begins(p.attempt.before)
         /\ p.page[Len(p.page)].id = p.attempt.id
         /\ p.page[Len(p.page)].text = p.attempt.text
         /\ ~(p.attempt.edit /\ p.attempt.retry)
    /\ \A d \in p.drafts : ~(d.edit /\ d.retry)

\* The request a window listens to asks the last row of its page.
RequestFits(r) ==
    /\ r.n <= sent /\ r.window \in DOMAIN win
    /\ r.question.role = "user"
    /\ Hears(r) => win[r.window].page[Len(win[r.window].page)] = r.question

RequestsFit ==
    /\ \A r, s \in requests : r.n = s.n => r = s
    /\ \A r \in requests : RequestFits(r)

\* A transcript holds each row once, and every answer after its question,
\* no younger than it.
AnswerFits(s, i) ==
    s[i].role = "assistant" =>
        /\ i > 1 /\ s[i - 1].role = "user"
        /\ s[i - 1].id = s[i].id
        /\ s[i - 1].text = s[i].text
        /\ s[i].gen <= s[i - 1].gen
TranscriptFits(s, c, n) ==
    /\ Of(s, c)
    /\ \A i, j \in DOMAIN s : Key(s[i]) = Key(s[j]) => i = j
    /\ \A i \in DOMAIN s : s[i].gen <= n /\ AnswerFits(s, i)

\* A question with the generation of a request still reads as the request has
\* it: an edit or a retry makes a generation of its own.
GenerationTells(r) ==
    r.stage = "kept" =>
        /\ r.gen <= saves
        /\ \A c \in Chats : \A i \in Questions(stored[c]) :
             stored[c][i].gen = r.gen => stored[c][i].text = r.question.text

TurnsInv ==
    /\ TypeOK
    /\ \A w \in DOMAIN win : WindowFits(win[w], sent)
    /\ RequestsFit
    /\ \A c \in Chats : TranscriptFits(stored[c], c, saves)
    /\ \A r \in requests : GenerationTells(r)

-----------------------------------------------------------------------------
(* How a step may leave a window that asks nothing in it.                   *)

\* A window with rows of its own conversation only, and the one step that
\* may leave it with others.
Clean(p) ==
    /\ Of(p.page, p.chat)
    /\ p.attempt # None => Of(p.attempt.before, p.chat)
IntoFresh(p, q) ==
    q.chat # p.chat /\ q.chat \in p.fresh /\ stored[q.chat] # <<>>
StaysClean(p, q) == Clean(p) => Clean(q) \/ IntoFresh(p, q)

LEMMA CleanIs ==
  ASSUME NEW p
  PROVE  Clean(p) <=> ~Astray(p)
BY DEF Clean, Astray, Of

BeforeOf(p) == IF p.attempt = None THEN <<>> ELSE p.attempt.before

SameTurn(p, q) ==
    /\ q.chat = p.chat /\ q.page = p.page /\ q.status = p.status
    /\ q.request = p.request /\ q.attempt = p.attempt
    /\ q.drafts \subseteq p.drafts
    /\ q.loading => p.loading

\* No longer listening, with rows it had or that are stored.
Rests(p, q) ==
    /\ q.request = 0 /\ q.attempt = None /\ q.status # "busy"
    /\ q.drafts \subseteq p.drafts
    /\ StaysClean(p, q) /\ Begins(q.page)
    /\ \A id, t : Reads(q.page, id, t) =>
         \/ Reads(p.page, id, t)
         \/ \E c \in Chats : Reads(stored[c], id, t)

Moves(p, q) == q \in Provider /\ (SameTurn(p, q) \/ Rests(p, q))

LEMMA EmptyPage ==
  /\ <<>> \in Seq(Message) /\ \A c : Of(<<>>, c) /\ Begins(<<>>)
  /\ \A id, t : ~Reads(<<>>, id, t)
  BY DEF Of, Begins, Reads

LEMMA Constants == None \notin Chats /\ MaxRequests \in Nat /\ MaxExtra \in Nat
  BY PrimoAssumption DEF PrimoAssumption

LEMMA EmptyIsClean ==
  ASSUME NEW q, q.page = <<>>, q.attempt = None
  PROVE  Clean(q)
BY EmptyPage DEF Clean

\* The types of a window's fields by name: what a provider is made of.
Pages == Seq(Message)
Attempts == Attempt \cup {None}
Numbers == 0..MaxRequests
ChatOrNone == Chats \cup {None}
DraftSets == SUBSET Draft
LEMMA ProviderIs ==
  Provider =
    [chat : Chats, page : Pages, status : {"ready", "busy", "error"},
     request : Numbers, attempt : Attempts, loading : BOOLEAN,
     failed : BOOLEAN, stale : SUBSET Chats, fresh : SUBSET Chats,
     unsent : ChatOrNone, remembered : ChatOrNone, drafts : DraftSets]
  BY DEF Provider, Pages, Attempts, Numbers, ChatOrNone, DraftSets

LEMMA Members ==
  /\ <<>> \in Pages /\ None \in Attempts /\ 0 \in Numbers /\ None \in ChatOrNone
  /\ (\A c \in Chats : c \in ChatOrNone) /\ {} \in DraftSets
  BY Constants DEF Pages, Attempts, Numbers, ChatOrNone, DraftSets

LEMMA OpenedType ==
  ASSUME NEW c \in Chats
  PROVE  /\ Opened(c) \in Provider /\ Linked(c) \in Provider
         /\ \A p \in {Opened(c), Linked(c)} :
              /\ p.request = 0 /\ p.attempt = None /\ p.status = "ready"
              /\ p.page = <<>> /\ p.drafts = {} /\ p.chat = c
<1>1. Opened(c) \in Provider /\ Linked(c) \in Provider
  <2>1. Opened(c) \in Provider
    BY ProviderIs, Members DEF Opened
  <2> QED
    BY <2>1, ProviderIs, Members DEF Linked
<1>2. /\ Opened(c).request = 0 /\ Opened(c).attempt = None
      /\ Opened(c).status = "ready" /\ Opened(c).page = <<>>
      /\ Opened(c).drafts = {} /\ Opened(c).chat = c
  BY DEF Opened
<1>3. /\ Linked(c).request = 0 /\ Linked(c).attempt = None
      /\ Linked(c).status = "ready" /\ Linked(c).page = <<>>
      /\ Linked(c).drafts = {} /\ Linked(c).chat = c
  BY <1>2 DEF Linked, Opened
<1> QED
  BY <1>1, <1>2, <1>3

LEMMA StartedMoves ==
  ASSUME NEW p \in Provider, NEW c \in Chats
  PROVE  Moves(p, Started(p, c))
<1>1. Started(p, c) \in Provider
  BY ProviderIs, Members DEF Started
<1>2. /\ Started(p, c).request = 0 /\ Started(p, c).attempt = None
      /\ Started(p, c).status = "ready" /\ Started(p, c).page = <<>>
      /\ Started(p, c).drafts = p.drafts
  BY DEF Started, Provider
<1> QED
  BY <1>1, <1>2, EmptyPage, EmptyIsClean DEF Moves, Rests, StaysClean

LEMMA LoadingMoves ==
  ASSUME NEW p \in Provider, NEW c \in Chats
  PROVE  Moves(p, Loading(p, c)) /\ Loading(p, c).drafts = p.drafts
<1>1. Loading(p, c) \in Provider
  BY ProviderIs, Members DEF Loading
<1>2. /\ Loading(p, c).request = 0 /\ Loading(p, c).attempt = None
      /\ Loading(p, c).status = "ready" /\ Loading(p, c).page = <<>>
      /\ Loading(p, c).drafts = p.drafts
  BY DEF Loading, Provider
<1> QED
  BY <1>1, <1>2, EmptyPage, EmptyIsClean DEF Moves, Rests, StaysClean

\* A conversation the provider takes for new is chosen: the page stays.
LEMMA KeptMoves ==
  ASSUME NEW p \in Provider, NEW n, WindowFits(p, n), NEW c \in Chats,
         c # p.chat, c \in p.fresh, stored[c] # <<>>
  PROVE  Moves(p, Kept(p, c))
<1>1. Kept(p, c) \in Provider
  BY ProviderIs, Members DEF Kept
<1>2. /\ Kept(p, c).request = 0 /\ Kept(p, c).attempt = None
      /\ Kept(p, c).status = "ready" /\ Kept(p, c).page = p.page
      /\ Kept(p, c).drafts = p.drafts /\ Kept(p, c).chat = c
  BY DEF Kept, Provider
<1> QED
  BY <1>1, <1>2 DEF Moves, Rests, StaysClean, IntoFresh, WindowFits

LEMMA ChosenMoves ==
  ASSUME NEW p \in Provider, NEW n, WindowFits(p, n), NEW c \in Chats,
         c # p.chat, stored[c] # <<>>
  PROVE  Moves(p, Chosen(p, c))
<1>1. CASE c \in p.fresh
  BY <1>1, KeptMoves DEF Chosen
<1>2. CASE c \notin p.fresh
  BY <1>2, LoadingMoves DEF Chosen
<1> QED
  BY <1>1, <1>2

\* Not a definite rejection, or nothing to give back.
LEMMA FailedLeaves ==
  ASSUME NEW p \in Provider, NEW state,
         p.attempt = None \/ state # "rejected"
  PROVE  LET q == Failed(p, state)
         IN  /\ q \in Provider
             /\ q.request = 0 /\ q.attempt = None /\ q.status = "error"
             /\ q.page = p.page /\ q.drafts = p.drafts /\ q.chat = p.chat
<1>1. Failed(p, state) = [p EXCEPT !.status = "error", !.request = 0, !.attempt = None]
  BY DEF Failed
<1> QED
  BY <1>1, ProviderIs, Members

LEMMA FailedMoves ==
  ASSUME NEW p \in Provider, NEW n, WindowFits(p, n), NEW state,
         p.attempt = None \/ state # "rejected"
  PROVE  Moves(p, Failed(p, state))
BY FailedLeaves DEF Moves, Rests, StaysClean, Clean, WindowFits

\* The turn given back.
LEMMA FailedGivesBack ==
  ASSUME NEW p \in Provider, p.attempt # None
  PROVE  LET q == Failed(p, "rejected")
             a == p.attempt
             d == [chat |-> p.chat, id |-> a.id, text |-> a.text,
                   edit |-> a.edit, retry |-> a.retry]
         IN  /\ q \in Provider /\ a \in Attempt /\ d \in Draft
             /\ q.request = 0 /\ q.attempt = None /\ q.status = "ready"
             /\ q.page = a.before /\ q.chat = p.chat
             /\ q.drafts = p.drafts \cup {d} /\ q.loading = p.loading
<1> DEFINE a == p.attempt
           d == [chat |-> p.chat, id |-> a.id, text |-> a.text,
                 edit |-> a.edit, retry |-> a.retry]
           q == [p EXCEPT !.page = a.before, !.status = "ready", !.request = 0,
                          !.attempt = None, !.drafts = @ \cup {d}]
<1>1. Failed(p, "rejected") = q
  BY DEF Failed
<1>2. a \in Attempt /\ a.before \in Seq(Message)
  BY DEF Provider, Attempt
<1>3. d \in Draft
  BY <1>2 DEF Draft, Provider, Attempt
<1> HIDE DEF d, a
<1>4. q \in Provider
  <2>1. a.before \in Pages /\ p.drafts \cup {d} \in DraftSets
    BY <1>2, <1>3 DEF Pages, DraftSets, Provider
  <2> QED
    BY <2>1, ProviderIs, Members
<1>5. /\ q.request = 0 /\ q.attempt = None /\ q.status = "ready"
      /\ q.page = a.before /\ q.chat = p.chat
      /\ q.drafts = p.drafts \cup {d} /\ q.loading = p.loading
  BY DEF Provider
<1> QED
  BY <1>1, <1>2, <1>3, <1>4, <1>5 DEF a, d

\* A page with the part of its answer that came is the page and an answer.
LEMMA AnsweredPage ==
  ASSUME NEW p \in Provider, NEW n, WindowFits(p, n), NEW q \in Message,
         q.role = "user", p.page # <<>>
  PROVE  LET s == Append(p.page, AnswerTo(q))
         IN  /\ s \in Seq(Message) /\ AnswerTo(q) \in Message
             /\ Of(p.page, p.chat) /\ q.chat = p.chat => Of(s, p.chat)
             /\ Begins(s)
             /\ \A id, t : Reads(s, id, t) => Reads(p.page, id, t)
<1> DEFINE a == AnswerTo(q)
           s == Append(p.page, a)
<1>1. a \in Message /\ a.role = "assistant" /\ a.chat = q.chat
  BY DEF AnswerTo, Message
<1>2. p.page \in Seq(Message)
  BY DEF Provider
<1> HIDE DEF a
<1>3. /\ s \in Seq(Message) /\ Len(s) = Len(p.page) + 1
      /\ \A i \in 1..Len(p.page) : s[i] = p.page[i]
      /\ s[Len(p.page) + 1] = a /\ Len(p.page) \in Nat
  BY <1>1, <1>2, AppendProperties
<1> HIDE DEF s
<1>4. DOMAIN s = 1..Len(s) /\ DOMAIN p.page = 1..Len(p.page) /\ 1 \in DOMAIN p.page
  BY <1>2, <1>3
<1>5. Of(p.page, p.chat) /\ q.chat = p.chat => Of(s, p.chat)
  <2>1. \A i \in DOMAIN s : i \in DOMAIN p.page \/ i = Len(p.page) + 1
    BY <1>3, <1>4
  <2> QED
    BY <1>1, <1>3, <1>4, <2>1 DEF Of
<1>6. Begins(s)
  BY <1>3, <1>4 DEF Begins, WindowFits
<1>7. \A id, t : Reads(s, id, t) => Reads(p.page, id, t)
  BY <1>1, <1>3, <1>4 DEF Reads
<1> QED
  BY <1>1, <1>3, <1>5, <1>6, <1>7 DEF a, s

\* What a page that is listening has in its last row is its last question.
LEMMA ListensToItsLast ==
  ASSUME NEW p \in Provider, NEW n, WindowFits(p, n), p.request # 0
  PROVE  /\ Len(p.page) \in 1..Len(p.page) /\ Questions(p.page) # {}
         /\ LastQuestion(p.page) = p.page[Len(p.page)]
         /\ LastQuestion(p.page) \in Message /\ LastQuestion(p.page).role = "user"
         /\ Of(p.page, p.chat) => LastQuestion(p.page).chat = p.chat
<1>1. p.page \in Seq(Message) /\ p.page # <<>> /\ p.page[Len(p.page)].role = "user"
  BY DEF Provider, WindowFits
<1>2. Len(p.page) \in 1..Len(p.page) /\ Len(p.page) \in Questions(p.page)
  BY <1>1 DEF Questions
<1>3. PICK i \in Questions(p.page) :
        /\ i \in 1..Len(p.page) /\ LastQuestion(p.page) = p.page[i]
        /\ p.page[i] \in Message /\ p.page[i].role = "user"
        /\ \A j \in Questions(p.page) : j <= i
  BY <1>1, <1>2, LastQuestionIsThere
<1>4. i = Len(p.page)
  BY <1>2, <1>3
<1>5. Of(p.page, p.chat) => p.page[i].chat = p.chat
  BY <1>3, <1>1 DEF Of
<1> QED
  BY <1>2, <1>3, <1>4, <1>5

LEMMA HeardFits ==
  ASSUME NEW w, NEW n, win[w] \in Provider, WindowFits(win[w], n),
         win[w].request # 0, NEW streamed \in BOOLEAN
  PROVE  LET q == Heard(w, streamed)
         IN  /\ q \in Provider /\ Begins(q.page)
             /\ Of(win[w].page, win[w].chat) => Of(q.page, q.chat)
             /\ q.attempt = win[w].attempt /\ q.drafts = win[w].drafts
             /\ \A id, t : Reads(q.page, id, t) => Reads(win[w].page, id, t)
<1> DEFINE p == win[w]
           q == [p EXCEPT !.page = Append(@, AnswerTo(LastQuestion(p.page)))]
<1>1. CASE ~streamed
  BY <1>1 DEF Heard, WindowFits
<1>2. CASE streamed
  <2>1. Heard(w, streamed) = q
    BY <1>2 DEF Heard
  <2> DEFINE s == Append(p.page, AnswerTo(LastQuestion(p.page)))
  <2>2. p.page # <<>>
    BY DEF WindowFits
  <2>3. /\ LastQuestion(p.page) \in Message /\ LastQuestion(p.page).role = "user"
        /\ Of(p.page, p.chat) => LastQuestion(p.page).chat = p.chat
    BY ListensToItsLast
  <2>4. /\ s \in Seq(Message) /\ Begins(s)
        /\ Of(p.page, p.chat) => Of(s, p.chat)
        /\ \A id, t : Reads(s, id, t) => Reads(p.page, id, t)
    BY <2>2, <2>3, AnsweredPage
  <2>5. q = [p EXCEPT !.page = s]
    BY ProviderIs
  <2> HIDE DEF s, q
  <2>6. q \in Provider /\ q.page = s /\ q.chat = p.chat
        /\ q.attempt = p.attempt /\ q.drafts = p.drafts
    BY <2>4, <2>5, ProviderIs DEF Pages
  <2> QED
    BY <2>1, <2>4, <2>6
<1> QED
  BY <1>1, <1>2


LEMMA StopMoves ==
  ASSUME NEW w, NEW n, win[w] \in Provider, WindowFits(win[w], n),
         win[w].status = "busy", NEW streamed \in BOOLEAN
  PROVE  /\ Moves(win[w], [Heard(w, streamed) EXCEPT
                             !.status = "ready", !.request = 0, !.attempt = None])
         /\ Moves(win[w], Failed(Heard(w, streamed), "unknown"))
<1> DEFINE q == Heard(w, streamed)
           z == [q EXCEPT !.status = "ready", !.request = 0, !.attempt = None]
<1>0. win[w].request # 0
  BY DEF WindowFits
<1>1. /\ q \in Provider /\ Begins(q.page)
      /\ Of(win[w].page, win[w].chat) => Of(q.page, q.chat)
      /\ q.attempt = win[w].attempt /\ q.drafts = win[w].drafts
      /\ \A id, t : Reads(q.page, id, t) => Reads(win[w].page, id, t)
  BY <1>0, HeardFits
<1> HIDE DEF q
<1>2. /\ z \in Provider /\ z.request = 0 /\ z.attempt = None
      /\ z.status = "ready" /\ z.page = q.page /\ z.chat = q.chat
      /\ z.drafts = q.drafts
  BY <1>1, ProviderIs, Members
<1>3. LET f == Failed(q, "unknown")
      IN  /\ f \in Provider
          /\ f.request = 0 /\ f.attempt = None /\ f.status = "error"
          /\ f.page = q.page /\ f.drafts = q.drafts /\ f.chat = q.chat
  BY <1>1, FailedLeaves
<1> HIDE DEF z
<1>4. Moves(win[w], z)
  BY <1>1, <1>2 DEF Moves, Rests, StaysClean, Clean
<1>5. Moves(win[w], Failed(q, "unknown"))
  BY <1>1, <1>3 DEF Moves, Rests, StaysClean, Clean
<1> QED
  BY <1>4, <1>5 DEF z, q

LEMMA EndedMoves ==
  ASSUME NEW p \in Provider, NEW n, WindowFits(p, n), NEW r \in Request,
         p.request # 0, p.page[Len(p.page)] = r.question, NEW well \in BOOLEAN
  PROVE  Moves(p, Ended(p, r, well))
<1> DEFINE s == Append(p.page, AnswerTo(r.question))
           q == [p EXCEPT !.page = s]
           z == [q EXCEPT !.status = "ready", !.request = 0, !.attempt = None]
           f == Failed(q, "accepted")
<1>1. /\ p.page # <<>> /\ r.question \in Message /\ r.question.role = "user"
      /\ Of(p.page, p.chat) => r.question.chat = p.chat
  BY ListensToItsLast DEF WindowFits, Request
<1>2. /\ s \in Seq(Message) /\ Begins(s)
      /\ Of(p.page, p.chat) => Of(s, p.chat)
      /\ \A id, t : Reads(s, id, t) => Reads(p.page, id, t)
  BY <1>1, AnsweredPage
<1>3. Ended(p, r, well) = IF well THEN z ELSE f
  BY ProviderIs DEF Ended
<1> HIDE DEF s
<1>4. /\ q \in Provider /\ q.page = s /\ q.chat = p.chat
      /\ q.attempt = p.attempt /\ q.drafts = p.drafts
  BY <1>2, ProviderIs DEF Pages
<1> HIDE DEF q
<1>5. /\ z \in Provider /\ z.request = 0 /\ z.attempt = None
      /\ z.status = "ready" /\ z.page = s /\ z.chat = p.chat
      /\ z.drafts = p.drafts
  BY <1>4, ProviderIs, Members
<1>6. /\ f \in Provider
      /\ f.request = 0 /\ f.attempt = None /\ f.status = "error"
      /\ f.page = s /\ f.drafts = p.drafts /\ f.chat = p.chat
  BY <1>4, FailedLeaves
<1> HIDE DEF z, f
<1> QED
  BY <1>2, <1>3, <1>5, <1>6 DEF Moves, Rests, StaysClean, Clean

\* The rows of a conversation as its page shows them.
LEMMA PageOfStored ==
  ASSUME NEW c \in Chats, stored[c] \in Seq(StoredRow), NEW n \in Nat,
         TranscriptFits(stored[c], c, n)
  PROVE  LET s == [i \in DOMAIN stored[c] |-> PageRow(stored[c][i])]
         IN  /\ s \in Seq(Message) /\ Of(s, c) /\ Begins(s)
             /\ \A id, t : Reads(s, id, t) => Reads(stored[c], id, t)
<1> DEFINE z == stored[c]
           s == [i \in DOMAIN z |-> PageRow(z[i])]
<1>1. \A i \in DOMAIN z : z[i] \in StoredRow /\ z[i].chat = c
  BY DEF TranscriptFits, Of
<1>2. \A i \in DOMAIN z : PageRow(z[i]) \in Message
  BY <1>1 DEF PageRow, StoredRow, Message
<1>3. s \in Seq(Message)
  BY <1>2, IsASeq
<1>4. \A i \in DOMAIN z : /\ s[i].chat = z[i].chat /\ s[i].role = z[i].role
                          /\ s[i].id = z[i].id /\ s[i].text = z[i].text
  BY DEF PageRow
<1>5. Of(s, c)
  BY <1>1, <1>4 DEF Of
<1>6. Begins(s)
  <2>1. SUFFICES ASSUME s # <<>> PROVE s[1].role = "user"
    BY DEF Begins
  <2>2. 1 \in DOMAIN z
    BY <2>1, <1>3
  <2>3. z[1].role # "assistant"
    BY <2>2 DEF TranscriptFits, AnswerFits
  <2> QED
    BY <2>2, <2>3, <1>1, <1>4 DEF StoredRow
<1>7. \A id, t : Reads(s, id, t) => Reads(z, id, t)
  BY <1>4 DEF Reads
<1> QED
  BY <1>3, <1>5, <1>6, <1>7


LEMMA LoadedMoves ==
  ASSUME NEW p \in Provider, NEW n, WindowFits(p, n), p.loading, NEW m \in Nat,
         stored[p.chat] \in Seq(StoredRow), TranscriptFits(stored[p.chat], p.chat, m)
  PROVE  Moves(p, Loaded(p))
<1> DEFINE s == [i \in DOMAIN stored[p.chat] |-> PageRow(stored[p.chat][i])]
           q == Loaded(p)
<1>1. p.chat \in Chats /\ p.request = 0 /\ p.attempt = None /\ p.status # "busy"
  BY DEF WindowFits, Provider
<1>2. /\ s \in Seq(Message) /\ Of(s, p.chat) /\ Begins(s)
      /\ \A id, t : Reads(s, id, t) => Reads(stored[p.chat], id, t)
  BY <1>1, PageOfStored
<1>3. q = [p EXCEPT !.loading = FALSE, !.page = s,
                    !.unsent = IF @ = p.chat THEN None ELSE @]
  BY DEF Loaded
<1> HIDE DEF s, q
<1>4. /\ q \in Provider /\ q.page = s /\ q.chat = p.chat /\ q.request = p.request
      /\ q.attempt = p.attempt /\ q.status = p.status /\ q.drafts = p.drafts
  BY <1>2, <1>3, ProviderIs, Members DEF Pages
<1> QED
  BY <1>1, <1>2, <1>4 DEF Moves, Rests, StaysClean, Clean, q

LEMMA FlagsMove ==
  ASSUME NEW p \in Provider, NEW a \in BOOLEAN, NEW c \in Chats
  PROVE  /\ Moves(p, [p EXCEPT !.loading = FALSE, !.failed = a])
         /\ Moves(p, [p EXCEPT !.loading = FALSE, !.fresh = @ \cup {c}])
         /\ Moves(p, [p EXCEPT !.stale = @ \ {c}])
         /\ Moves(p, [p EXCEPT !.fresh = @ \ {c}])
<1> DEFINE x == [p EXCEPT !.loading = FALSE, !.failed = a]
           y == [p EXCEPT !.loading = FALSE, !.fresh = @ \cup {c}]
           z == [p EXCEPT !.stale = @ \ {c}]
           v == [p EXCEPT !.fresh = @ \ {c}]
<1>1. /\ x \in Provider /\ x.chat = p.chat /\ x.page = p.page /\ x.status = p.status
      /\ x.request = p.request /\ x.attempt = p.attempt /\ x.drafts = p.drafts
      /\ ~x.loading
  BY ProviderIs
<1>2. /\ y \in Provider /\ y.chat = p.chat /\ y.page = p.page /\ y.status = p.status
      /\ y.request = p.request /\ y.attempt = p.attempt /\ y.drafts = p.drafts
      /\ ~y.loading
  BY ProviderIs
<1>3. /\ z \in Provider /\ z.chat = p.chat /\ z.page = p.page /\ z.status = p.status
      /\ z.request = p.request /\ z.attempt = p.attempt /\ z.drafts = p.drafts
      /\ z.loading = p.loading
  BY ProviderIs
<1>5. /\ v \in Provider /\ v.chat = p.chat /\ v.page = p.page /\ v.status = p.status
      /\ v.request = p.request /\ v.attempt = p.attempt /\ v.drafts = p.drafts
      /\ v.loading = p.loading
  BY ProviderIs
<1> HIDE DEF x, y, z, v
<1>4. Moves(p, x) /\ Moves(p, y) /\ Moves(p, z) /\ Moves(p, v)
  BY <1>1, <1>2, <1>3, <1>5 DEF Moves, SameTurn
<1> QED
  BY <1>4 DEF x, y, z, v

\* The window reloads, or starts over instead of one it remembered.
LEMMA ReloadMoves ==
  ASSUME NEW p \in Provider, NEW c \in Chats
  PROVE  /\ Moves(p, [Loading(p, p.chat) EXCEPT
                        !.stale = {}, !.fresh = {}, !.remembered = p.chat,
                        !.drafts = {d \in @ : ~d.edit}])
         /\ Moves(p, [Started([p EXCEPT !.loading = FALSE], c) EXCEPT
                        !.remembered = None])
<1> DEFINE l == Loading(p, p.chat)
           x == [l EXCEPT !.stale = {}, !.fresh = {}, !.remembered = p.chat,
                          !.drafts = {d \in @ : ~d.edit}]
           m == [p EXCEPT !.loading = FALSE]
           y == [Started(m, c) EXCEPT !.remembered = None]
<1>1. /\ l \in Provider /\ l.request = 0 /\ l.attempt = None /\ l.status = "ready"
      /\ l.page = <<>> /\ l.drafts = p.drafts /\ p.chat \in Chats
  <2>1. p.chat \in Chats
    BY DEF Provider
  <2>2. l \in Provider /\ l.drafts = p.drafts
    BY <2>1, LoadingMoves DEF Moves
  <2>3. /\ l.request = 0 /\ l.attempt = None /\ l.status = "ready" /\ l.page = <<>>
    BY ProviderIs DEF Loading
  <2> QED
    BY <2>1, <2>2, <2>3
<1>2. m \in Provider /\ m.drafts = p.drafts
  BY ProviderIs
<1> HIDE DEF l, m
<1>3. /\ x \in Provider /\ x.request = 0 /\ x.attempt = None /\ x.status = "ready"
      /\ x.page = <<>> /\ x.drafts \subseteq p.drafts
  <2>1. {d \in l.drafts : ~d.edit} \in DraftSets
    BY <1>1 DEF Provider, DraftSets
  <2> QED
    BY <1>1, <2>1, ProviderIs, Members
<1>4. /\ y \in Provider /\ y.request = 0 /\ y.attempt = None /\ y.status = "ready"
      /\ y.page = <<>> /\ y.drafts = p.drafts
  <2>1. Started(m, c) \in Provider
    BY <1>2, StartedMoves DEF Moves
  <2>2. /\ Started(m, c).request = 0 /\ Started(m, c).attempt = None
        /\ Started(m, c).status = "ready" /\ Started(m, c).page = <<>>
        /\ Started(m, c).drafts = p.drafts
    BY <1>2, ProviderIs DEF Started
  <2> QED
    BY <2>1, <2>2, ProviderIs, Members
<1> HIDE DEF x, y
<1>5. Moves(p, x) /\ Moves(p, y)
  BY <1>3, <1>4, EmptyPage, EmptyIsClean DEF Moves, Rests, StaysClean
<1> QED
  BY <1>5 DEF x, y, l, m

-----------------------------------------------------------------------------
(* Steps that post no question and give none back.                          *)

WindowMoves(w) ==
    IF w \in DOMAIN win
    THEN SameTurn(win[w], win'[w]) \/ Rests(win[w], win'[w])
    ELSE /\ win'[w].request = 0 /\ win'[w].attempt = None
         /\ win'[w].status = "ready" /\ win'[w].page = <<>> /\ win'[w].drafts = {}

WindowsMove ==
    /\ DOMAIN win \subseteq DOMAIN win' /\ DOMAIN win' \subseteq Windows
    /\ win' \in [DOMAIN win' -> Provider]
    /\ \A w \in DOMAIN win' : WindowMoves(w)

\* Requests go on, end, or get their question kept.
Keeping(r) == [r EXCEPT !.stage = "kept", !.gen = saves + 1]
RequestsMove ==
    \/ requests' \subseteq requests
    \/ \E r \in requests :
         r.stage = "asked" /\ requests' = (requests \ {r}) \cup {Keeping(r)}

\* No question is stored but those of the requests that keep theirs.
StoredMoves ==
    \A c \in Chats : \A id, t : Reads(stored'[c], id, t) =>
        \/ Reads(stored[c], id, t)
        \/ \E r \in requests \ requests' :
             r.stage = "asked" /\ r.question.id = id /\ r.question.text = t

Calm ==
    /\ WindowsMove /\ RequestsMove /\ StoredMoves
    /\ sent' = sent /\ refused \subseteq refused'

LEMMA WindowsStay ==
  ASSUME TypeOK, UNCHANGED win
  PROVE  WindowsMove
<1>1. \A w \in DOMAIN win : SameTurn(win[w], win'[w])
  BY DEF SameTurn
<1> QED
  BY <1>1 DEF WindowsMove, WindowMoves, TypeOK

LEMMA OneWindowMoves ==
  ASSUME TypeOK, NEW w \in DOMAIN win, NEW q, Moves(win[w], q),
         win' = [win EXCEPT ![w] = q]
  PROVE  WindowsMove
<1>1. DOMAIN win' = DOMAIN win /\ DOMAIN win \subseteq Windows
  BY DEF TypeOK
<1>2. \A v \in DOMAIN win : v # w => win'[v] = win[v]
  OBVIOUS
<1>3. win'[w] = q
  OBVIOUS
<1>4. \A v \in DOMAIN win : win'[v] \in Provider
  BY <1>2, <1>3 DEF Moves, TypeOK
<1>5. win' \in [DOMAIN win' -> Provider]
  BY <1>1, <1>4
<1>6. \A v \in DOMAIN win : SameTurn(win[v], win'[v]) \/ Rests(win[v], win'[v])
  BY <1>2, <1>3 DEF Moves, SameTurn
<1> QED
  BY <1>1, <1>5, <1>6 DEF WindowsMove, WindowMoves

LEMMA StoredStays == UNCHANGED stored => StoredMoves
  BY DEF StoredMoves

LEMMA SameTurnFits ==
  ASSUME NEW p \in Provider, NEW q \in Provider, NEW n, WindowFits(p, n),
         SameTurn(p, q)
  PROVE  WindowFits(q, n)
BY DEF WindowFits, SameTurn

LEMMA RestsFits ==
  ASSUME NEW p \in Provider, NEW q \in Provider, NEW n, WindowFits(p, n),
         Rests(p, q)
  PROVE  WindowFits(q, n)
BY DEF WindowFits, Rests

LEMMA RequestNumbers ==
  ASSUME TypeOK
  PROVE  /\ \A r \in requests : r \in Request /\ r.n \in Nat /\ r.n >= 1
         /\ sent \in Nat
BY Constants DEF TypeOK, Request, Id

LEMMA KeepingFits ==
  ASSUME NEW r \in Request, saves \in Nat
  PROVE  /\ Keeping(r) \in Request /\ Keeping(r).n = r.n
         /\ Keeping(r).window = r.window /\ Keeping(r).question = r.question
         /\ Keeping(r).edit = r.edit
         /\ Keeping(r).stage = "kept" /\ Keeping(r).gen = saves + 1
<1> DEFINE E == [text : Texts, last : {"user", "assistant"} \X Id] \cup {None}
<1>1. Request = [n : Id, window : Windows, question : Message, edit : E,
                 gen : Nat, stage : {"asked", "kept"}]
  BY DEF Request
<1>2. saves + 1 \in Nat
  OBVIOUS
<1> DEFINE N == Nat
           g == saves + 1
<1>3. Request = [n : Id, window : Windows, question : Message, edit : E,
                 gen : N, stage : {"asked", "kept"}]
  BY <1>1
<1>4. g \in N /\ Keeping(r) = [r EXCEPT !.stage = "kept", !.gen = g]
  BY <1>2 DEF Keeping
<1> HIDE DEF E, N, g
<1>5. /\ Keeping(r) \in Request /\ Keeping(r).n = r.n
      /\ Keeping(r).window = r.window /\ Keeping(r).question = r.question
      /\ Keeping(r).edit = r.edit
      /\ Keeping(r).stage = "kept" /\ Keeping(r).gen = g
  BY <1>3, <1>4
<1> QED
  BY <1>5 DEF g

LEMMA CalmFits ==
  ASSUME TurnsInv, TypeOK', Calm
  PROVE  /\ \A w \in DOMAIN win' : WindowFits(win'[w], sent')
         /\ RequestsFit'
<1>1. \A w \in DOMAIN win' : WindowFits(win'[w], sent')
  <2>1. SUFFICES ASSUME NEW w \in DOMAIN win' PROVE WindowFits(win'[w], sent)
    BY DEF Calm
  <2>2. win'[w] \in Provider /\ WindowMoves(w)
    BY DEF Calm, WindowsMove
  <2>3. CASE w \in DOMAIN win
    <3>1. win[w] \in Provider /\ WindowFits(win[w], sent)
      BY <2>3 DEF TurnsInv, TypeOK
    <3> QED
      BY <2>2, <2>3, <3>1, SameTurnFits, RestsFits DEF WindowMoves
  <2>4. CASE w \notin DOMAIN win
    BY <2>2, <2>4, EmptyPage DEF WindowMoves, WindowFits
  <2> QED
    BY <2>3, <2>4
<1>2. \A r \in requests' : \E s \in requests :
        /\ s.n = r.n /\ s.window = r.window /\ s.question = r.question
        /\ (r \in requests => r = s)
  BY KeepingFits DEF Calm, RequestsMove, TurnsInv, TypeOK
<1>3. \A r, s \in requests' : r.n = s.n => r = s
  <2>1. CASE requests' \subseteq requests
    BY <2>1 DEF TurnsInv, RequestsFit
  <2>2. CASE \E r \in requests :
               r.stage = "asked" /\ requests' = (requests \ {r}) \cup {Keeping(r)}
    <3>1. PICK r \in requests :
             r.stage = "asked" /\ requests' = (requests \ {r}) \cup {Keeping(r)}
      BY <2>2
    <3>2. Keeping(r).n = r.n
      BY KeepingFits DEF TurnsInv, TypeOK
    <3> QED
      BY <3>1, <3>2 DEF TurnsInv, RequestsFit
  <2> QED
    BY <2>1, <2>2 DEF Calm, RequestsMove
<1>4. \A r \in requests' : RequestFits(r)'
  <2>1. SUFFICES ASSUME NEW r \in requests' PROVE RequestFits(r)'
    OBVIOUS
  <2>2. PICK s \in requests :
          s.n = r.n /\ s.window = r.window /\ s.question = r.question
    BY <1>2
  <2>3. RequestFits(s) /\ s.n >= 1 /\ s.n \in Nat
    BY RequestNumbers DEF TurnsInv, RequestsFit
  <2>4. s.window \in DOMAIN win /\ s.window \in DOMAIN win' /\ WindowMoves(s.window)
    BY <2>3 DEF RequestFits, Calm, WindowsMove
  <2>5. SameTurn(win[s.window], win'[s.window]) \/ win'[s.window].request = 0
    BY <2>4 DEF WindowMoves, Rests
  <2> QED
    BY <2>2, <2>3, <2>4, <2>5 DEF RequestFits, Hears, SameTurn, Calm
<1> QED
  BY <1>1, <1>3, <1>4 DEF RequestsFit

-----------------------------------------------------------------------------
(* What primo-save-turn leaves in a transcript.                             *)

QuestionRow(r, n) ==
    [role |-> "user", chat |-> r.question.chat, id |-> r.question.id,
     text |-> r.question.text, gen |-> n]
AnswerRow(r) ==
    [role |-> "assistant", chat |-> r.question.chat, id |-> r.question.id,
     text |-> r.question.text, gen |-> r.gen]

LEMMA RowTypes ==
  ASSUME NEW r \in Request, NEW n \in Nat
  PROVE  /\ QuestionRow(r, n) \in StoredRow /\ AnswerRow(r) \in StoredRow
         /\ r.question \in Message
  BY DEF Request, Message, StoredRow, QuestionRow, AnswerRow

LEMMA RowsAreRows ==
  ASSUME NEW s \in Seq(StoredRow)
  PROVE  \A i \in DOMAIN s : /\ s[i] \in StoredRow /\ s[i].gen \in Nat
                              /\ s[i].role \in {"user", "assistant"}
<1>1. \A i \in DOMAIN s : s[i] \in StoredRow
  OBVIOUS
<1> QED
  BY <1>1 DEF StoredRow

\* u has a question in the place of its last row, and s before it.
LEMMA CutAtQuestion ==
  ASSUME NEW s \in Seq(StoredRow), NEW u \in Seq(StoredRow), NEW c, NEW n \in Nat,
         TranscriptFits(s, c, n),
         Len(u) \in 1..(Len(s) + 1),
         \A i \in 1..(Len(u) - 1) : i \in DOMAIN s /\ u[i] = s[i],
         u[Len(u)].role = "user", u[Len(u)].chat = c, u[Len(u)].gen = n + 1,
         \A i \in 1..(Len(u) - 1) : Key(s[i]) # Key(u[Len(u)])
  PROVE  TranscriptFits(u, c, n + 1)
<1>1. DOMAIN u = 1..Len(u) /\ DOMAIN s = 1..Len(s) /\ Len(u) \in Nat /\ Len(s) \in Nat
  OBVIOUS
<1>2. \A i \in DOMAIN u : i \in 1..(Len(u) - 1) \/ i = Len(u)
  BY <1>1
<1>3. \A i \in DOMAIN s : s[i].gen \in Nat
  BY RowsAreRows
<1>4. Of(u, c)
  BY <1>2 DEF TranscriptFits, Of
<1>5. \A i, j \in DOMAIN u : Key(u[i]) = Key(u[j]) => i = j
  BY <1>2 DEF TranscriptFits
<1>6. \A i \in DOMAIN u : u[i].gen <= n + 1
  BY <1>2, <1>3 DEF TranscriptFits
<1>7. \A i \in DOMAIN u : AnswerFits(u, i)
  <2>1. SUFFICES ASSUME NEW i \in DOMAIN u, u[i].role = "assistant"
                 PROVE  AnswerFits(u, i)
    BY DEF AnswerFits
  <2>2. i \in 1..(Len(u) - 1) /\ u[i] = s[i]
    BY <2>1, <1>2
  <2>3. AnswerFits(s, i) /\ i > 1
    BY <2>1, <2>2 DEF TranscriptFits, AnswerFits
  <2>4. i - 1 \in 1..(Len(u) - 1)
    BY <2>2, <2>3, <1>1
  <2> QED
    BY <2>2, <2>3, <2>4 DEF AnswerFits
<1> QED
  BY <1>4, <1>5, <1>6, <1>7 DEF TranscriptFits

\* A question kept, anew, again or edited.
LEMMA SavedFits ==
  ASSUME NEW r \in Request, r.question.role = "user",
         NEW s \in Seq(StoredRow), saves \in Nat,
         TranscriptFits(s, r.question.chat, saves), ~Conflicts(s, r)
  PROVE  LET u == SavedQuestion(s, r)
         IN  /\ u \in Seq(StoredRow)
             /\ TranscriptFits(u, r.question.chat, saves + 1)
             /\ \A i \in DOMAIN u :
                  u[i] = QuestionRow(r, saves + 1) \/ \E j \in DOMAIN s : u[i] = s[j]
             /\ \A i \in DOMAIN s, j \in DOMAIN u :
                  s[i].role = "assistant" /\ Key(s[i]) = Key(u[j]) => u[j] = s[i]
<1> DEFINE row == QuestionRow(r, saves + 1)
           c == r.question.chat
           u == SavedQuestion(s, r)
           n == Place(s, Key(r.question))
<1>1. /\ row \in StoredRow /\ Key(row) = Key(r.question) /\ row.role = "user"
      /\ row.chat = c /\ row.gen = saves + 1 /\ row.text = r.question.text
      /\ row.id = r.question.id
  BY RowTypes DEF QuestionRow, Key
<1>2. u = IF r.edit # None THEN UpTo(s, row) ELSE Upsert(s, row)
  BY DEF SavedQuestion, QuestionRow
<1>3. DOMAIN s = 1..Len(s) /\ Len(s) \in Nat
  OBVIOUS
<1>4. \A i, j \in DOMAIN s : Key(s[i]) = Key(s[j]) => i = j
  BY DEF TranscriptFits
<1>5. \A k, x : Key(k) = Key(x) => k.role = x.role
  BY DEF Key
<1> HIDE DEF row, u
<1>6. CASE r.edit # None
  <2>1. n # 0
    BY <1>6 DEF Conflicts
  <2>2. n \in DOMAIN s /\ Key(s[n]) = Key(row)
    BY <2>1, <1>1, PlaceIsThere
  <2>3. /\ u \in Seq(StoredRow) /\ Len(u) = n /\ u[Len(u)] = row
        /\ \A i \in 1..(Len(u) - 1) : i \in DOMAIN s /\ u[i] = s[i]
    <3>1. u = UpTo(s, row) /\ Place(s, Key(row)) = n
      BY <1>1, <1>2, <1>6
    <3>2. row \in StoredRow
      BY <1>1
    <3>3. /\ UpTo(s, row) \in Seq(StoredRow)
          /\ UpTo(s, row)[Len(UpTo(s, row))] = row
          /\ \A i \in 1..Len(s) : i < Len(UpTo(s, row)) => UpTo(s, row)[i] = s[i]
          /\ Len(UpTo(s, row)) = Place(s, Key(row))
      BY <2>1, <3>1, <3>2, UpToShape
    <3>4. \A i \in 1..(n - 1) : i \in 1..Len(s) /\ i < n
      BY <2>2, <1>3
    <3> HIDE DEF n
    <3> QED
      BY <3>1, <3>3, <3>4, <1>3
  <2>4. Len(u) \in 1..(Len(s) + 1)
    BY <2>2, <2>3, <1>3
  <2>5. \A i \in 1..(Len(u) - 1) : Key(s[i]) # Key(u[Len(u)])
    BY <2>2, <2>3, <1>3, <1>4
  <2>6. TranscriptFits(u, c, saves + 1)
    <3>1. /\ u[Len(u)].role = "user" /\ u[Len(u)].chat = c
          /\ u[Len(u)].gen = saves + 1
      BY <2>3, <1>1
    <3> QED
      BY <2>3, <2>4, <2>5, <3>1, CutAtQuestion
  <2>7. \A i \in DOMAIN u : i \in 1..(Len(u) - 1) \/ i = Len(u)
    BY <2>3, <2>4
  <2>8. \A i \in DOMAIN u : u[i] = row \/ \E j \in DOMAIN s : u[i] = s[j]
    BY <2>3, <2>7
  <2>9. \A i \in DOMAIN s, j \in DOMAIN u :
           s[i].role = "assistant" /\ Key(s[i]) = Key(u[j]) => u[j] = s[i]
    BY <2>3, <2>7, <1>1, <1>4, <1>5
  <2> QED
    BY <2>3, <2>6, <2>8, <2>9 DEF u, row
<1>7. CASE r.edit = None
  <2>1. n # 0 => s[n].text = r.question.text
    BY <1>7 DEF Conflicts
  <2>2. /\ u \in Seq(StoredRow)
        /\ \/ /\ \A i \in DOMAIN s : Key(s[i]) # Key(row)
              /\ Len(u) = Len(s) + 1
              /\ u[Len(s) + 1] = row
              /\ \A i \in 1..Len(s) : u[i] = s[i]
           \/ \E k \in 1..Len(s) :
                /\ k = Place(s, Key(row)) /\ Key(s[k]) = Key(row)
                /\ Len(u) = Len(s)
                /\ u[k] = row
                /\ \A i \in 1..Len(s) : i # k => u[i] = s[i]
    <3>1. u = Upsert(s, row) /\ row \in StoredRow
      BY <1>1, <1>2, <1>7
    <3>2. CASE Place(s, Key(row)) = 0
      <4>1. \A i \in DOMAIN s : Key(s[i]) # Key(row)
        BY <3>2, <1>3, PlaceIsThere
      <4> QED
        BY <3>1, <3>2, <4>1, UpsertNew
    <3>3. CASE Place(s, Key(row)) # 0
      <4> DEFINE k == Place(s, Key(row))
      <4>1. k \in 1..Len(s) /\ Key(s[k]) = Key(row)
        BY <3>3, <1>3, PlaceIsThere
      <4>2. /\ u \in Seq(StoredRow) /\ Len(u) = Len(s) /\ u[k] = row
            /\ \A i \in 1..Len(s) : i # k => u[i] = s[i]
        BY <3>1, <3>3, UpsertAgain
      <4> QED
        BY <4>1, <4>2
    <3> QED
      BY <3>2, <3>3
  <2>3. CASE /\ \A i \in DOMAIN s : Key(s[i]) # Key(row)
             /\ Len(u) = Len(s) + 1
             /\ u[Len(s) + 1] = row
             /\ \A i \in 1..Len(s) : u[i] = s[i]
    <3>1. TranscriptFits(u, c, saves + 1)
      <4>1. /\ u \in Seq(StoredRow) /\ Len(u) = Len(s) + 1
            /\ u[Len(u)].role = "user" /\ u[Len(u)].chat = c
            /\ u[Len(u)].gen = saves + 1
        BY <2>2, <2>3, <1>1
      <4>2. \A i \in 1..(Len(u) - 1) : i \in DOMAIN s /\ u[i] = s[i]
        BY <2>3, <1>3
      <4>3. \A i \in 1..(Len(u) - 1) : Key(s[i]) # Key(u[Len(u)])
        BY <2>3, <1>3
      <4>4. Len(u) \in 1..(Len(s) + 1)
        BY <4>1, <1>3
      <4> QED
        BY <4>1, <4>2, <4>3, <4>4, CutAtQuestion
    <3>2. \A i \in DOMAIN u : i \in DOMAIN s \/ i = Len(s) + 1
      <4>1. DOMAIN u = 1..(Len(s) + 1)
        BY <2>2, <2>3
      <4> QED
        BY <4>1, <1>3
    <3>3. \A i \in DOMAIN s : u[i] = s[i]
      BY <2>3, <1>3
    <3>4. \A i \in DOMAIN u : u[i] = row \/ \E j \in DOMAIN s : u[i] = s[j]
      BY <2>3, <3>2, <3>3
    <3>5. \A i \in DOMAIN s, j \in DOMAIN u :
             s[i].role = "assistant" /\ Key(s[i]) = Key(u[j]) => u[j] = s[i]
      BY <2>3, <3>2, <3>3, <1>4
    <3> QED
      BY <2>2, <3>1, <3>4, <3>5 DEF u, row
  <2>4. ASSUME NEW k \in 1..Len(s),
               k = Place(s, Key(row)), Key(s[k]) = Key(row),
               Len(u) = Len(s), u[k] = row,
               \A i \in 1..Len(s) : i # k => u[i] = s[i]
        PROVE  /\ TranscriptFits(u, c, saves + 1)
               /\ \A i \in DOMAIN u : u[i] = row \/ \E j \in DOMAIN s : u[i] = s[j]
               /\ \A i \in DOMAIN s, j \in DOMAIN u :
                    s[i].role = "assistant" /\ Key(s[i]) = Key(u[j]) => u[j] = s[i]
    <3>1. DOMAIN u = 1..Len(s)
      BY <2>2, <2>4
    <3>2. s[k].text = row.text /\ s[k].role = "user" /\ s[k].id = row.id
      <4>1. k = n /\ n # 0
        BY <2>4, <1>1, <1>3
      <4>2. s[k].text = row.text
        BY <4>1, <2>1, <1>1
      <4> QED
        BY <4>2, <2>4, <1>1 DEF Key
    <3>3. \A i \in DOMAIN u : Key(u[i]) = Key(s[i]) /\ u[i].role = s[i].role
                              /\ u[i].text = s[i].text /\ u[i].id = s[i].id
      BY <2>4, <3>1, <3>2, <1>1
    <3>4. Of(u, c)
      BY <2>4, <3>1, <1>1, <1>3 DEF TranscriptFits, Of
    <3>5. \A i, j \in DOMAIN u : Key(u[i]) = Key(u[j]) => i = j
      BY <3>1, <3>3, <1>3, <1>4
    <3>6. \A i \in DOMAIN s : s[i].gen \in Nat /\ s[i].gen <= saves
      BY RowsAreRows DEF TranscriptFits
    <3>7. \A i \in DOMAIN u : u[i].gen <= saves + 1
      BY <2>4, <3>1, <3>6, <1>1, <1>3
    <3>8. \A i \in DOMAIN u : AnswerFits(u, i)
      <4>1. SUFFICES ASSUME NEW i \in DOMAIN u, u[i].role = "assistant"
                     PROVE  AnswerFits(u, i)
        BY DEF AnswerFits
      <4>2. i # k /\ u[i] = s[i] /\ i \in DOMAIN s
        BY <4>1, <2>4, <3>1, <1>1, <1>3
      <4>3. AnswerFits(s, i) /\ i > 1 /\ i - 1 \in DOMAIN s
        BY <4>1, <4>2, <1>3 DEF TranscriptFits, AnswerFits
      <4>4. s[i].gen <= s[i - 1].gen /\ s[i - 1].role = "user"
            /\ s[i - 1].id = s[i].id /\ s[i - 1].text = s[i].text
        BY <4>1, <4>2, <4>3 DEF AnswerFits
      <4>5. u[i - 1].gen >= s[i].gen
        BY <4>3, <4>4, <2>4, <3>6, <1>1, <1>3, <4>2
      <4>6. u[i].gen = s[i].gen /\ u[i].gen \in Nat /\ u[i - 1].gen \in Nat
        BY <4>2, <4>3, <3>6, <2>4, <1>1, <1>3
      <4> QED
        BY <4>1, <4>2, <4>3, <4>4, <4>5, <4>6, <3>1, <3>3, <1>3 DEF AnswerFits
    <3>9. \A i \in DOMAIN u : u[i] = row \/ \E j \in DOMAIN s : u[i] = s[j]
      BY <2>4, <3>1, <1>3
    <3>10. \A i \in DOMAIN s, j \in DOMAIN u :
              s[i].role = "assistant" /\ Key(s[i]) = Key(u[j]) => u[j] = s[i]
      BY <2>4, <3>1, <3>2, <3>3, <1>3, <1>4
    <3> QED
      BY <3>4, <3>5, <3>7, <3>8, <3>9, <3>10 DEF TranscriptFits
  <2> QED
    BY <2>2, <2>3, <2>4 DEF u, row
<1> QED
  BY <1>6, <1>7

\* An answer of the last question's own generation.
LEMMA AnsweredFits ==
  ASSUME NEW r \in Request, NEW s \in Seq(StoredRow), NEW n \in Nat,
         TranscriptFits(s, r.question.chat, n), ~Superseded(s, r),
         \A i \in Questions(s) : s[i].gen = r.gen => s[i].text = r.question.text
  PROVE  LET u == Answered(s, r)
         IN  /\ u \in Seq(StoredRow)
             /\ TranscriptFits(u, r.question.chat, n)
             /\ \A i \in DOMAIN u :
                  u[i] = AnswerRow(r) \/ \E j \in DOMAIN s : u[i] = s[j]
             /\ \A i \in DOMAIN s, j \in DOMAIN u :
                  s[i].role = "assistant" /\ Key(s[i]) = Key(u[j])
                     => u[j].gen >= s[i].gen
<1> DEFINE row == AnswerRow(r)
           c == r.question.chat
           u == Answered(s, r)
<1>1. /\ row \in StoredRow /\ row.role = "assistant" /\ row.chat = c
      /\ row.gen = r.gen /\ row.text = r.question.text /\ row.id = r.question.id
      /\ Key(row) = <<"assistant", r.question.id>> /\ r.gen \in Nat
  BY RowTypes DEF AnswerRow, Key, Request
<1>2. u = Upsert(s, row)
  BY DEF Answered, AnswerRow
<1>3. DOMAIN s = 1..Len(s) /\ Len(s) \in Nat
  OBVIOUS
<1>4. \A i, j \in DOMAIN s : Key(s[i]) = Key(s[j]) => i = j
  BY DEF TranscriptFits
<1>5. PICK k \in Questions(s) :
         /\ k \in 1..Len(s) /\ LastQuestion(s) = s[k]
         /\ s[k] \in StoredRow /\ s[k].role = "user"
         /\ \A j \in Questions(s) : j <= k
  BY LastQuestionIsThere DEF Superseded
<1>6. s[k].id = r.question.id /\ s[k].gen = r.gen /\ s[k].text = r.question.text
  BY <1>5 DEF Superseded
<1>7. \A i \in DOMAIN s : /\ s[i].gen \in Nat /\ s[i].gen <= n /\ AnswerFits(s, i)
                          /\ s[i].role \in {"user", "assistant"} /\ s[i].chat = c
  BY RowsAreRows DEF TranscriptFits, Of
<1>8. \A i \in DOMAIN s : s[i].role = "user" => i <= k
  BY <1>5 DEF Questions
<1>9. \A x, y : Key(x) = Key(y) <=> x.role = y.role /\ x.id = y.id
  BY DEF Key
<1>10. \A i \in DOMAIN s : Key(s[i]) = Key(row) => i = k + 1
  <2>1. SUFFICES ASSUME NEW i \in DOMAIN s, Key(s[i]) = Key(row) PROVE i = k + 1
    OBVIOUS
  <2>2. s[i].role = "assistant" /\ s[i].id = s[k].id
    BY <2>1, <1>1, <1>6, <1>9
  <2>3. i > 1 /\ i - 1 \in DOMAIN s /\ s[i - 1].role = "user" /\ s[i - 1].id = s[i].id
    BY <2>1, <2>2, <1>3, <1>7 DEF AnswerFits
  <2>4. i - 1 = k
    BY <2>2, <2>3, <1>3, <1>4, <1>5, <1>9
  <2> QED
    BY <2>1, <2>4, <1>3, <1>5
<1> HIDE DEF row, u
<1>11. CASE Place(s, Key(row)) = 0
  <2>1. \A i \in DOMAIN s : Key(s[i]) # Key(row)
    BY <1>11, <1>3, PlaceIsThere
  <2>2. /\ u \in Seq(StoredRow) /\ Len(u) = Len(s) + 1 /\ u[Len(s) + 1] = row
        /\ \A i \in 1..Len(s) : u[i] = s[i]
    BY <1>1, <1>2, <1>11, UpsertNew
  <2>3. k = Len(s)
    <3>0. k \in Nat /\ Len(s) \in Nat /\ k <= Len(s) /\ k >= 1
      BY <1>5
    <3>1. SUFFICES ASSUME k < Len(s) PROVE FALSE
      BY <3>0
    <3>2. Len(s) \in DOMAIN s /\ s[Len(s)].role = "assistant" /\ Len(s) > 1
      BY <3>1, <1>3, <1>5, <1>7, <1>8
    <3>3. /\ Len(s) - 1 \in DOMAIN s /\ s[Len(s) - 1].role = "user"
          /\ s[Len(s) - 1].id = s[Len(s)].id
      BY <3>2, <1>3, <1>7 DEF AnswerFits
    <3>4. Len(s) - 1 = k
      <4>1. Len(s) - 1 <= k
        BY <3>3, <1>8
      <4> QED
        BY <4>1, <3>0, <3>1
    <3>5. Key(s[Len(s)]) = Key(row)
      BY <3>2, <3>3, <3>4, <1>1, <1>6, <1>9
    <3> QED
      BY <2>1, <3>2, <3>5
  <2>4. \A i \in DOMAIN u : \/ i \in DOMAIN s /\ u[i] = s[i]
                            \/ i = Len(s) + 1 /\ u[i] = row
    <3>1. DOMAIN u = 1..(Len(s) + 1)
      BY <2>2
    <3>2. \A i \in 1..(Len(s) + 1) : i \in 1..Len(s) \/ i = Len(s) + 1
      BY <1>3
    <3> QED
      BY <3>1, <3>2, <2>2, <1>3
  <2>5. Of(u, c)
    BY <2>4, <1>1, <1>7 DEF Of
  <2>6. \A i, j \in DOMAIN u : Key(u[i]) = Key(u[j]) => i = j
    BY <2>1, <2>4, <1>4
  <2>7. \A i \in DOMAIN u : u[i].gen <= n
    BY <2>4, <1>1, <1>5, <1>6, <1>7
  <2>8. \A i \in DOMAIN u : AnswerFits(u, i)
    <3>1. SUFFICES ASSUME NEW i \in DOMAIN u, u[i].role = "assistant"
                   PROVE  AnswerFits(u, i)
      BY DEF AnswerFits
    <3>2. CASE i \in DOMAIN s /\ u[i] = s[i]
      <4>1. /\ i > 1 /\ s[i - 1].role = "user" /\ s[i - 1].id = s[i].id
            /\ s[i - 1].text = s[i].text /\ s[i].gen <= s[i - 1].gen
        BY <3>1, <3>2, <1>7 DEF AnswerFits
      <4>2. u[i - 1] = s[i - 1]
        BY <4>1, <3>2, <2>2, <1>3
      <4> QED
        BY <3>2, <4>1, <4>2 DEF AnswerFits
    <3>3. CASE i = Len(s) + 1 /\ u[i] = row
      <4>1. i > 1 /\ u[i - 1] = s[k]
        BY <3>3, <2>2, <2>3, <1>3, <1>5
      <4>2. s[k].gen \in Nat /\ row.gen = s[k].gen
        BY <1>1, <1>5, <1>6, <1>3, <1>7
      <4> QED
        BY <3>3, <4>1, <4>2, <1>1, <1>5, <1>6 DEF AnswerFits
    <3> QED
      BY <2>4, <3>2, <3>3
  <2>9. \A i \in DOMAIN s, j \in DOMAIN u :
           s[i].role = "assistant" /\ Key(s[i]) = Key(u[j]) => u[j].gen >= s[i].gen
    BY <2>1, <2>4, <1>4, <1>7
  <2>10. \A i \in DOMAIN u : u[i] = row \/ \E j \in DOMAIN s : u[i] = s[j]
    BY <2>4
  <2> QED
    BY <2>2, <2>5, <2>6, <2>7, <2>8, <2>9, <2>10 DEF TranscriptFits, u, row
<1>12. CASE Place(s, Key(row)) # 0
  <2> DEFINE a == Place(s, Key(row))
  <2>1. a \in 1..Len(s) /\ Key(s[a]) = Key(row) /\ a = k + 1
    BY <1>12, <1>3, <1>10, PlaceIsThere
  <2>2. /\ u \in Seq(StoredRow) /\ Len(u) = Len(s) /\ u[a] = row
        /\ \A i \in 1..Len(s) : i # a => u[i] = s[i]
    BY <1>1, <1>2, <1>12, UpsertAgain
  <2> HIDE DEF a
  <2>3. DOMAIN u = DOMAIN s
    BY <2>2, <1>3
  <2>4. s[a].role = "assistant" /\ s[a].id = row.id
    BY <2>1, <1>1, <1>9
  <2>5. \A i \in DOMAIN u : Key(u[i]) = Key(s[i]) /\ u[i].role = s[i].role
    BY <2>1, <2>2, <2>3, <2>4, <1>1, <1>3
  <2>6. Of(u, c)
    BY <2>2, <2>3, <1>1, <1>3, <1>7 DEF Of
  <2>7. \A i, j \in DOMAIN u : Key(u[i]) = Key(u[j]) => i = j
    BY <2>3, <2>5, <1>4
  <2>8. \A i \in DOMAIN u : u[i].gen <= n
    BY <2>2, <2>3, <1>1, <1>3, <1>5, <1>6, <1>7
  <2>9. \A i \in DOMAIN u : AnswerFits(u, i)
    <3>1. SUFFICES ASSUME NEW i \in DOMAIN u, u[i].role = "assistant"
                   PROVE  AnswerFits(u, i)
      BY DEF AnswerFits
    <3>2. CASE i # a
      <4>1. i \in DOMAIN s /\ u[i] = s[i] /\ s[i].role = "assistant"
        BY <3>1, <3>2, <2>2, <2>3, <1>3
      <4>2. /\ i > 1 /\ i - 1 \in DOMAIN s /\ s[i - 1].role = "user"
            /\ s[i - 1].id = s[i].id /\ s[i - 1].text = s[i].text
            /\ s[i].gen <= s[i - 1].gen
        BY <4>1, <1>3, <1>7 DEF AnswerFits
      <4>3. u[i - 1] = s[i - 1]
        BY <4>2, <2>2, <2>4, <1>3
      <4> QED
        BY <4>1, <4>2, <4>3 DEF AnswerFits
    <3>3. CASE i = a
      <4>1. i > 1 /\ i - 1 = k /\ k # a /\ u[i - 1] = s[k]
        BY <3>3, <2>1, <2>2, <1>3, <1>5
      <4>2. s[k].gen \in Nat /\ row.gen = s[k].gen
        BY <1>1, <1>5, <1>6, <1>3, <1>7
      <4> QED
        BY <3>3, <4>1, <4>2, <2>2, <1>1, <1>5, <1>6 DEF AnswerFits
    <3> QED
      BY <3>2, <3>3
  <2>10. s[a].gen <= row.gen
    <3>1. s[a].gen <= s[a - 1].gen /\ a - 1 = k
      BY <2>1, <2>4, <1>3, <1>5, <1>7 DEF AnswerFits
    <3> QED
      BY <3>1, <1>1, <1>6
  <2>11. \A i \in DOMAIN s, j \in DOMAIN u :
            s[i].role = "assistant" /\ Key(s[i]) = Key(u[j]) => u[j].gen >= s[i].gen
    <3>1. SUFFICES ASSUME NEW i \in DOMAIN s, NEW j \in DOMAIN u,
                          Key(s[i]) = Key(u[j])
                   PROVE  u[j].gen >= s[i].gen
      OBVIOUS
    <3>2. i = j
      BY <3>1, <2>3, <2>5, <1>4
    <3>3. CASE i = a
      BY <3>2, <3>3, <2>2, <2>10
    <3>4. CASE i # a
      <4>1. u[j] = s[i]
        BY <3>2, <3>4, <2>2, <1>3
      <4>2. s[i].gen \in Nat
        BY <1>3, <1>7
      <4> QED
        BY <4>1, <4>2
    <3> QED
      BY <3>3, <3>4
  <2>12. \A i \in DOMAIN u : u[i] = row \/ \E j \in DOMAIN s : u[i] = s[j]
    BY <2>2, <2>3, <1>3
  <2> QED
    BY <2>2, <2>6, <2>7, <2>8, <2>9, <2>11, <2>12 DEF TranscriptFits, u, row
<1> QED
  BY <1>11, <1>12

-----------------------------------------------------------------------------
(* The calm steps.                                                          *)

TranscriptsFit ==
    /\ \A c \in Chats : TranscriptFits(stored[c], c, saves)
    /\ \A r \in requests : GenerationTells(r)

\* What AnswersNeverGoBack says of one step.
NoGoingBack ==
    \A c \in Chats : \A i \in DOMAIN stored[c], j \in DOMAIN stored'[c] :
        (stored[c][i].role = "assistant" /\ Key(stored[c][i]) = Key(stored'[c][j]))
            => stored'[c][j].gen >= stored[c][i].gen

\* What RowsStrayOnlyIntoFresh says of one step.
RowsStay ==
    \A w \in DOMAIN win' : Astray(win'[w]) =>
        w \in DOMAIN win /\ (Astray(win[w]) \/ IntoFresh(win[w], win'[w]))

CalmStep == TypeOK' /\ Calm /\ TranscriptsFit' /\ NoGoingBack

LEMMA StoredTypes ==
  ASSUME TurnsInv
  PROVE  /\ \A c \in Chats : /\ stored[c] \in Seq(StoredRow)
                             /\ TranscriptFits(stored[c], c, saves)
         /\ \A w \in DOMAIN win : win[w] \in Provider /\ WindowFits(win[w], sent)
         /\ saves \in Nat /\ sent \in Nat /\ extra \in Nat
  BY Constants DEF TurnsInv, TypeOK

LEMMA ExtraType == TypeOK /\ Extra => extra' \in 0..MaxExtra
  BY Constants DEF TypeOK, Extra

\* Nothing changes in the transcripts but requests that end or begin.
LEMMA TranscriptsStay ==
  ASSUME TurnsInv, UNCHANGED <<stored, saves>>,
         \A r \in requests' : r \in requests \/ r.stage = "asked"
  PROVE  TranscriptsFit' /\ NoGoingBack
<1>1. TranscriptsFit'
  BY DEF TranscriptsFit, TurnsInv, GenerationTells
<1>2. NoGoingBack
  <2>1. \A c \in Chats : \A i \in DOMAIN stored[c] : stored[c][i].gen \in Nat
    BY StoredTypes, RowsAreRows
  <2> QED
    BY <2>1 DEF NoGoingBack, TurnsInv, TranscriptFits
<1> QED
  BY <1>1, <1>2

LEMMA WindowStep ==
  ASSUME TurnsInv, WindowsMove, UNCHANGED <<stored, requests, sent, saves, refused>>,
         minted' \subseteq Chats, extra' \in 0..MaxExtra
  PROVE  CalmStep
<1>1. TypeOK'
  BY DEF TypeOK, TurnsInv, WindowsMove
<1>2. Calm
  BY StoredStays DEF Calm, RequestsMove
<1> QED
  BY <1>1, <1>2, TranscriptsStay DEF CalmStep

LEMMA OpenCalm ==
  ASSUME TurnsInv, NEW w \in Windows, Open(w)
  PROVE  CalmStep
<1>1. \E q \in Provider :
        /\ q.request = 0 /\ q.attempt = None /\ q.status = "ready"
        /\ q.page = <<>> /\ q.drafts = {}
        /\ win' = Opening(w, q) /\ minted' \subseteq Chats
  <2>1. CASE \E c \in Chats \ minted :
               minted' = minted \cup {c} /\ win' = Opening(w, Opened(c))
    BY <2>1, OpenedType DEF TurnsInv, TypeOK
  <2>2. CASE \E c \in Chats : win' = Opening(w, Linked(c)) /\ UNCHANGED minted
    BY <2>2, OpenedType DEF TurnsInv, TypeOK
  <2> QED
    BY <2>1, <2>2 DEF Open
<1>2. PICK q \in Provider :
        /\ q.request = 0 /\ q.attempt = None /\ q.status = "ready"
        /\ q.page = <<>> /\ q.drafts = {}
        /\ win' = Opening(w, q) /\ minted' \subseteq Chats
  BY <1>1
<1>3. w \notin DOMAIN win /\ DOMAIN win \subseteq Windows
  BY DEF Open, TurnsInv, TypeOK
<1>4. win' = [v \in DOMAIN win \cup {w} |-> IF v = w THEN q ELSE win[v]]
  BY <1>2 DEF Opening
<1>5. /\ DOMAIN win' = DOMAIN win \cup {w} /\ win'[w] = q
      /\ \A v \in DOMAIN win : win'[v] = win[v]
  BY <1>3, <1>4
<1>6. win' \in [DOMAIN win' -> Provider]
  <2>1. \A v \in DOMAIN win' : win'[v] \in Provider
    BY <1>2, <1>5, StoredTypes
  <2> QED
    BY <2>1, <1>4
<1>7. \A v \in DOMAIN win' : WindowMoves(v)
  <2>1. \A v \in DOMAIN win : SameTurn(win[v], win'[v])
    BY <1>5 DEF SameTurn
  <2> QED
    BY <2>1, <1>2, <1>3, <1>5 DEF WindowMoves
<1>8. WindowsMove
  BY <1>3, <1>5, <1>6, <1>7 DEF WindowsMove
<1>9. extra' \in 0..MaxExtra
  BY DEF Open, TurnsInv, TypeOK
<1> QED
  BY <1>2, <1>8, <1>9, WindowStep DEF Open

LEMMA StopCalm ==
  ASSUME TurnsInv, NEW w \in DOMAIN win, NEW streamed \in BOOLEAN,
         Stop(w, streamed) \/ Disconnect(w, streamed)
  PROVE  CalmStep
<1>1. TypeOK /\ win[w] \in Provider /\ WindowFits(win[w], sent)
  BY StoredTypes DEF TurnsInv
<1>2. win[w].status = "busy"
  BY DEF Stop, Disconnect
<1>3. /\ Moves(win[w], [Heard(w, streamed) EXCEPT
                          !.status = "ready", !.request = 0, !.attempt = None])
      /\ Moves(win[w], Failed(Heard(w, streamed), "unknown"))
  BY <1>1, <1>2, StopMoves
<1>4. CASE Stop(w, streamed)
  <2>1. WindowsMove
    BY <1>1, <1>3, <1>4, OneWindowMoves DEF Stop
  <2>2. /\ UNCHANGED <<stored, requests, sent, saves, refused>>
        /\ minted' \subseteq Chats /\ extra' \in 0..MaxExtra
    BY <1>1, <1>4 DEF Stop, TypeOK
  <2> QED
    BY <2>1, <2>2, WindowStep
<1>5. CASE Disconnect(w, streamed)
  <2>1. WindowsMove
    <3>1. win' = [win EXCEPT ![w] = Failed(Heard(w, streamed), "unknown")]
      BY <1>5 DEF Disconnect
    <3> QED
      BY <1>1, <1>3, <3>1, OneWindowMoves
  <2>2. /\ UNCHANGED <<stored, requests, sent, saves, refused>>
        /\ minted' \subseteq Chats /\ extra' \in 0..MaxExtra
    BY <1>1, <1>5, ExtraType DEF Disconnect, TypeOK
  <2> QED
    BY <2>1, <2>2, WindowStep
<1> QED
  BY <1>4, <1>5

LEMMA LoadCalm ==
  ASSUME TurnsInv, NEW w \in DOMAIN win, Load(w)
  PROVE  CalmStep
<1> DEFINE p == win[w]
<1>1. TypeOK /\ p \in Provider /\ WindowFits(p, sent) /\ p.chat \in Chats /\ p.loading
  BY StoredTypes DEF TurnsInv, Provider, Load
<1>2. UNCHANGED <<stored, requests, sent, saves, extra, refused>>
  BY DEF Load
<1>3. WindowsMove /\ minted' \subseteq Chats
  <2>1. CASE win' = [win EXCEPT ![w] = Loaded(@)] /\ UNCHANGED minted
    <3>1. Moves(p, Loaded(p))
      BY <1>1, StoredTypes, LoadedMoves
    <3> QED
      BY <1>1, <2>1, <3>1, OneWindowMoves DEF TypeOK
  <2>2. CASE win' = [win EXCEPT ![w] =
                       [p EXCEPT !.loading = FALSE, !.fresh = @ \cup {p.chat}]]
             /\ UNCHANGED minted
    <3>1. Moves(p, [p EXCEPT !.loading = FALSE, !.fresh = @ \cup {p.chat}])
      BY <1>1, FlagsMove
    <3>2. win' = [win EXCEPT ![w] =
                    [p EXCEPT !.loading = FALSE, !.fresh = @ \cup {p.chat}]]
      BY <2>2
    <3> QED
      BY <1>1, <2>2, <3>1, <3>2, OneWindowMoves DEF TypeOK
  <2>3. CASE \E c \in Chats \ minted :
               /\ minted' = minted \cup {c}
               /\ win' = [win EXCEPT ![w] =
                    [Started([p EXCEPT !.loading = FALSE], c) EXCEPT
                       !.remembered = None]]
    <3>1. PICK c \in Chats \ minted :
               /\ minted' = minted \cup {c}
               /\ win' = [win EXCEPT ![w] =
                    [Started([p EXCEPT !.loading = FALSE], c) EXCEPT
                       !.remembered = None]]
      BY <2>3
    <3>2. Moves(p, [Started([p EXCEPT !.loading = FALSE], c) EXCEPT
                      !.remembered = None])
      BY <1>1, ReloadMoves
    <3> QED
      BY <1>1, <3>1, <3>2, OneWindowMoves DEF TypeOK
  <2>4. CASE win' = [win EXCEPT ![w] = [@ EXCEPT !.loading = FALSE, !.failed = TRUE]]
             /\ UNCHANGED minted
    <3>1. Moves(p, [p EXCEPT !.loading = FALSE, !.failed = TRUE])
      BY <1>1, FlagsMove
    <3> QED
      BY <1>1, <2>4, <3>1, OneWindowMoves DEF TypeOK
  <2> QED
    BY <2>1, <2>2, <2>3, <2>4 DEF Load
<1>4. extra' \in 0..MaxExtra
  BY <1>1, <1>2 DEF TypeOK
<1> QED
  BY <1>2, <1>3, <1>4, WindowStep

LEMMA MoveCalm ==
  ASSUME TurnsInv, NEW w \in DOMAIN win,
         \/ LoadFails(w) \/ ReloadConversation(w) \/ Reload(w)
         \/ \E c \in Chats : NewChat(w, c) \/ Select(w, c) \/ LoadLate(w, c)
  PROVE  CalmStep
<1> DEFINE p == win[w]
<1>1. TypeOK /\ p \in Provider /\ p.chat \in Chats
  BY StoredTypes DEF TurnsInv, Provider
<1>2. CASE LoadFails(w)
  <2>1. Moves(p, [p EXCEPT !.loading = FALSE, !.failed = TRUE])
    BY <1>1, FlagsMove
  <2>2. WindowsMove
    BY <1>1, <1>2, <2>1, OneWindowMoves DEF LoadFails
  <2> QED
    BY <1>1, <1>2, <2>2, ExtraType, WindowStep DEF LoadFails, TypeOK
<1>3. CASE ReloadConversation(w)
  <2>1. WindowsMove
    BY <1>1, <1>3, LoadingMoves, OneWindowMoves DEF ReloadConversation
  <2> QED
    BY <1>1, <1>3, <2>1, ExtraType, WindowStep DEF ReloadConversation, TypeOK
<1>4. CASE Reload(w)
  <2>1. Moves(p, [Loading(p, p.chat) EXCEPT
                    !.stale = {}, !.fresh = {}, !.remembered = p.chat,
                    !.drafts = {d \in @ : ~d.edit}])
    BY <1>1, ReloadMoves
  <2>2. WindowsMove
    <3>1. win' = [win EXCEPT ![w] =
                    [Loading(p, p.chat) EXCEPT
                       !.stale = {}, !.fresh = {}, !.remembered = p.chat,
                       !.drafts = {d \in @ : ~d.edit}]]
      BY <1>4 DEF Reload
    <3> QED
      BY <1>1, <2>1, <3>1, OneWindowMoves
  <2> QED
    BY <1>1, <1>4, <2>2, ExtraType, WindowStep DEF Reload, TypeOK
<1>5. ASSUME NEW c \in Chats, NewChat(w, c) PROVE CalmStep
  <2>1. WindowsMove
    BY <1>1, <1>5, StartedMoves, OneWindowMoves DEF NewChat
  <2> QED
    BY <1>1, <1>5, <2>1, ExtraType, WindowStep DEF NewChat, TypeOK
<1>6. ASSUME NEW c \in Chats, Select(w, c) PROVE CalmStep
  <2>1. Moves(p, Chosen(p, c))
    BY <1>1, <1>6, StoredTypes, ChosenMoves DEF Select
  <2>2. WindowsMove
    BY <1>1, <1>6, <2>1, OneWindowMoves DEF Select
  <2> QED
    BY <1>1, <1>6, <2>2, ExtraType, WindowStep DEF Select, TypeOK
<1>7. ASSUME NEW c \in Chats, LoadLate(w, c) PROVE CalmStep
  <2>1. win' = [win EXCEPT ![w] = [p EXCEPT !.stale = @ \ {c}]]
    <3>1. win' = [win EXCEPT ![w] = [LateLoad(win[w], c) EXCEPT !.stale = @ \ {c}]]
      BY <1>7 DEF LoadLate
    <3>2. LateLoad(p, c) = p
      BY DEF LateLoad
    <3> QED
      BY <3>1, <3>2
  <2>2. WindowsMove
    BY <1>1, <2>1, FlagsMove, OneWindowMoves
  <2> QED
    BY <1>1, <1>7, <2>2, WindowStep DEF LoadLate, TypeOK
<1> QED
  BY <1>2, <1>3, <1>4, <1>5, <1>6, <1>7

LEMMA TitledCalm ==
  ASSUME TurnsInv, NEW r \in requests, Titled(r)
  PROVE  CalmStep
<1> DEFINE w == r.window
           p == win[w]
           c == r.question.chat
<1>1. TypeOK /\ w \in DOMAIN win /\ p \in Provider /\ c \in Chats
  BY StoredTypes DEF TurnsInv, TypeOK, RequestsFit, RequestFits, Request, Message
<1>2. Moves(p, [p EXCEPT !.fresh = @ \ {c}])
  BY <1>1, FlagsMove
<1>3. win' = [win EXCEPT ![w] = [p EXCEPT !.fresh = @ \ {c}]]
  BY DEF Titled
<1>4. WindowsMove
  BY <1>1, <1>2, <1>3, OneWindowMoves
<1> QED
  BY <1>1, <1>4, WindowStep DEF Titled, TypeOK

\* A question kept: what the step leaves in the transcripts.
LEMMA KeepFits ==
  ASSUME TurnsInv, NEW r \in requests, r.stage = "asked", Keep(r),
         requests' \subseteq (requests \ {r}) \cup {Keeping(r)}
  PROVE  /\ stored' \in [Chats -> Seq(StoredRow)] /\ saves' \in Nat
         /\ TranscriptsFit' /\ NoGoingBack /\ StoredMoves
<1> DEFINE c == r.question.chat
           s == stored[c]
           u == SavedQuestion(s, r)
           row == QuestionRow(r, saves + 1)
<1>1. /\ r \in Request /\ r.question \in Message /\ c \in Chats
      /\ r.question.role = "user"
  BY DEF TurnsInv, TypeOK, RequestsFit, RequestFits, Request, Message
<1>2. /\ s \in Seq(StoredRow) /\ TranscriptFits(s, c, saves) /\ saves \in Nat
      /\ ~Conflicts(s, r)
  BY <1>1, StoredTypes DEF Keep
<1>3. /\ u \in Seq(StoredRow) /\ TranscriptFits(u, c, saves + 1)
      /\ \A i \in DOMAIN u : u[i] = row \/ \E j \in DOMAIN s : u[i] = s[j]
      /\ \A i \in DOMAIN s, j \in DOMAIN u :
           s[i].role = "assistant" /\ Key(s[i]) = Key(u[j]) => u[j] = s[i]
  BY <1>1, <1>2, SavedFits
<1>4. /\ stored \in [Chats -> Seq(StoredRow)]
      /\ stored' = [stored EXCEPT ![c] = u] /\ saves' = saves + 1
  BY DEF Keep, TurnsInv, TypeOK
<1>5. /\ row.role = "user" /\ row.id = r.question.id /\ row.text = r.question.text
      /\ row.gen = saves + 1
  BY DEF QuestionRow
<1> HIDE DEF u, row
<1>6. /\ stored' \in [Chats -> Seq(StoredRow)] /\ saves' \in Nat
      /\ stored'[c] = u /\ \A d \in Chats : d # c => stored'[d] = stored[d]
  BY <1>1, <1>2, <1>3, <1>4
<1>7. \A d \in Chats : \A i \in DOMAIN stored[d] :
         stored[d][i].gen \in Nat /\ stored[d][i].gen <= saves
  BY StoredTypes, RowsAreRows DEF TranscriptFits
<1>8. \A d \in Chats : TranscriptFits(stored'[d], d, saves')
  <2>1. SUFFICES ASSUME NEW d \in Chats, d # c
                 PROVE  TranscriptFits(stored[d], d, saves + 1)
    BY <1>3, <1>4, <1>6
  <2>2. TranscriptFits(stored[d], d, saves)
    BY StoredTypes
  <2> QED
    BY <2>2, <1>2, <1>7 DEF TranscriptFits
<1>9. \A d \in Chats : \A i \in DOMAIN stored'[d] :
        \/ d = c /\ stored'[d][i] = row
        \/ \E j \in DOMAIN stored[d] : stored'[d][i] = stored[d][j]
  BY <1>3, <1>6
<1>10. \A q \in requests' : GenerationTells(q)'
  <2>1. SUFFICES ASSUME NEW q \in requests', q.stage = "kept"
                 PROVE  /\ q.gen <= saves'
                        /\ \A d \in Chats : \A i \in DOMAIN stored'[d] :
                             stored'[d][i].role = "user" /\ stored'[d][i].gen = q.gen
                                => stored'[d][i].text = q.question.text
    BY DEF GenerationTells, Questions
  <2>2. CASE q \in requests
    <3>1. GenerationTells(q) /\ q.gen \in Nat /\ q.gen <= saves
      BY <2>1, <2>2 DEF TurnsInv, TypeOK, GenerationTells, Request
    <3>2. \A d \in Chats : \A j \in DOMAIN stored[d] :
             stored[d][j].role = "user" /\ stored[d][j].gen = q.gen
                => stored[d][j].text = q.question.text
      BY <3>1, <2>1 DEF GenerationTells, Questions
    <3>3. row.gen # q.gen /\ q.gen <= saves'
      BY <3>1, <1>2, <1>4, <1>5
    <3> QED
      BY <3>2, <3>3, <1>9
  <2>3. CASE q = Keeping(r)
    <3>1. q.gen = saves + 1 /\ q.question = r.question
      BY <2>3, <1>1, <1>2, KeepingFits
    <3>2. q.gen <= saves'
      BY <3>1, <1>2, <1>4
    <3>3. \A d \in Chats : \A j \in DOMAIN stored[d] : stored[d][j].gen # q.gen
      BY <3>1, <1>2, <1>7
    <3> QED
      BY <3>1, <3>2, <3>3, <1>5, <1>9
  <2> QED
    BY <2>2, <2>3
<1>11. NoGoingBack
  <2>1. SUFFICES ASSUME NEW d \in Chats, NEW i \in DOMAIN stored[d],
                        NEW j \in DOMAIN stored'[d],
                        stored[d][i].role = "assistant",
                        Key(stored[d][i]) = Key(stored'[d][j])
                 PROVE  stored'[d][j].gen >= stored[d][i].gen
    BY DEF NoGoingBack
  <2>2. CASE d = c
    BY <2>1, <2>2, <1>3, <1>6, <1>7
  <2>3. CASE d # c
    <3>1. stored'[d] = stored[d] /\ TranscriptFits(stored[d], d, saves)
      BY <2>3, <1>6, StoredTypes
    <3>2. i = j
      BY <2>1, <3>1 DEF TranscriptFits
    <3> QED
      BY <3>1, <3>2, <1>7
  <2> QED
    BY <2>2, <2>3
<1>12. StoredMoves
  <2>1. r \notin requests'
    BY <1>1, <1>2, KeepingFits
  <2>2. SUFFICES ASSUME NEW d \in Chats, NEW id, NEW t, Reads(stored'[d], id, t)
                 PROVE  Reads(stored[d], id, t)
                        \/ (r.question.id = id /\ r.question.text = t)
    BY <2>1 DEF StoredMoves
  <2> QED
    BY <2>2, <1>5, <1>9 DEF Reads
<1> QED
  BY <1>6, <1>8, <1>10, <1>11, <1>12 DEF TranscriptsFit

LEMMA SaveCalm ==
  ASSUME TurnsInv, NEW r \in requests, Save(r)
  PROVE  CalmStep
<1>1. r.stage = "asked" /\ Keep(r) /\ requests' = (requests \ {r}) \cup {Keeping(r)}
  BY DEF Save, Keeping
<1>2. /\ stored' \in [Chats -> Seq(StoredRow)] /\ saves' \in Nat
      /\ TranscriptsFit' /\ NoGoingBack /\ StoredMoves
  BY <1>1, KeepFits
<1>3. UNCHANGED <<win, minted, sent, extra, refused>>
  BY DEF Save
<1>4. TypeOK /\ WindowsMove
  BY <1>3, WindowsStay DEF TurnsInv
<1>5. requests' \subseteq Request
  BY <1>1, <1>4, KeepingFits DEF TypeOK
<1>6. TypeOK'
  BY <1>2, <1>3, <1>4, <1>5 DEF TypeOK
<1>7. Calm
  BY <1>1, <1>2, <1>3, <1>4 DEF Calm, RequestsMove
<1> QED
  BY <1>2, <1>6, <1>7 DEF CalmStep

\* The page that listens to a request hears that it failed.
LEMMA FailureMoves ==
  ASSUME TurnsInv, NEW r \in requests, NEW state, HearsFailure(r, state),
         win[r.window].attempt = None \/ state # "rejected"
  PROVE  WindowsMove
<1>1. r.window \in DOMAIN win /\ TypeOK
  BY DEF TurnsInv, RequestsFit, RequestFits
<1>2. Moves(win[r.window], Failed(win[r.window], state))
  BY <1>1, StoredTypes, FailedMoves
<1> QED
  BY <1>1, <1>2, OneWindowMoves DEF HearsFailure

LEMMA UnheardCalm ==
  ASSUME TurnsInv, NEW r \in requests, SaveUnheard(r)
  PROVE  CalmStep
<1>1. r.stage = "asked" /\ Keep(r) /\ requests' = requests \ {r} /\ Extra
  BY DEF SaveUnheard
<1>2. /\ stored' \in [Chats -> Seq(StoredRow)] /\ saves' \in Nat
      /\ TranscriptsFit' /\ NoGoingBack /\ StoredMoves
  BY <1>1, KeepFits
<1>3. UNCHANGED <<minted, sent, refused>>
  BY DEF SaveUnheard
<1>4. TypeOK /\ WindowsMove
  BY FailureMoves DEF TurnsInv, SaveUnheard
<1>5. TypeOK'
  BY <1>1, <1>2, <1>3, <1>4, ExtraType DEF TypeOK, WindowsMove
<1>6. Calm
  BY <1>1, <1>2, <1>3, <1>4 DEF Calm, RequestsMove
<1> QED
  BY <1>2, <1>5, <1>6 DEF CalmStep

LEMMA UnavailableCalm ==
  ASSUME TurnsInv, NEW r \in requests, Unavailable(r)
  PROVE  CalmStep
<1>1. requests' = requests \ {r} /\ Extra /\ HearsFailure(r, "accepted")
  BY DEF Unavailable, Refusal
<1>2. UNCHANGED <<stored, minted, sent, saves, refused>>
  BY DEF Unavailable
<1>3. TypeOK /\ WindowsMove
  BY <1>1, FailureMoves DEF TurnsInv
<1>4. TypeOK'
  BY <1>1, <1>2, <1>3, ExtraType DEF TypeOK, WindowsMove
<1>5. Calm
  BY <1>1, <1>2, <1>3, StoredStays DEF Calm, RequestsMove
<1> QED
  BY <1>1, <1>2, <1>4, <1>5, TranscriptsStay DEF CalmStep

LEMMA RefuseTypes ==
  ASSUME TurnsInv, NEW r \in requests, Refuse(r) \/ SaveRefused(r)
  PROVE  /\ r \in Request /\ r.stage = "asked" /\ requests' = requests \ {r}
         /\ HearsFailure(r, "rejected") /\ RetryRefused(r)
         /\ UNCHANGED <<stored, minted, sent, saves>>
         /\ extra' \in 0..MaxExtra
         /\ refused \subseteq refused' /\ refused' \subseteq Texts
         /\ r.window \in DOMAIN win
<1>1. /\ r \in Request /\ r.stage = "asked" /\ requests' = requests \ {r}
      /\ HearsFailure(r, "rejected") /\ RetryRefused(r)
      /\ UNCHANGED <<stored, minted, sent, saves>>
      /\ TypeOK /\ r.window \in DOMAIN win
  BY DEF Refuse, SaveRefused, TurnsInv, TypeOK, RequestsFit, RequestFits
<1>2. extra' \in 0..MaxExtra
  BY <1>1, ExtraType DEF Refuse, SaveRefused, TypeOK
<1>3. r.question.text \in Texts
  BY <1>1 DEF Request, Message
<1> QED
  BY <1>1, <1>2, <1>3 DEF RetryRefused, TypeOK

\* A refusal heard by a page that has nothing to give back.
LEMMA RefusedCalm ==
  ASSUME TurnsInv, NEW r \in requests, Refuse(r) \/ SaveRefused(r),
         win[r.window].attempt = None
  PROVE  CalmStep
<1>1. /\ requests' = requests \ {r} /\ UNCHANGED <<stored, minted, sent, saves>>
      /\ extra' \in 0..MaxExtra /\ refused \subseteq refused' /\ refused' \subseteq Texts
      /\ HearsFailure(r, "rejected")
  BY RefuseTypes
<1>2. TypeOK /\ WindowsMove
  BY <1>1, FailureMoves DEF TurnsInv
<1>3. TypeOK'
  BY <1>1, <1>2 DEF TypeOK, WindowsMove
<1>4. Calm
  BY <1>1, <1>2, StoredStays DEF Calm, RequestsMove
<1> QED
  BY <1>1, <1>3, <1>4, TranscriptsStay DEF CalmStep

LEMMA ReplyCalm ==
  ASSUME TurnsInv, NEW r \in requests, NEW well \in BOOLEAN, NEW saved \in BOOLEAN,
         Reply(r, well, saved)
  PROVE  CalmStep
<1> DEFINE c == r.question.chat
           s == stored[c]
           u == Answered(s, r)
<1>1. /\ r \in Request /\ c \in Chats /\ r.stage = "kept" /\ requests' = requests \ {r}
      /\ r.window \in DOMAIN win /\ RequestFits(r) /\ GenerationTells(r)
      /\ r.n >= 1 /\ r.n \in Nat
  BY RequestNumbers DEF Reply, TurnsInv, TypeOK, RequestsFit, RequestFits, Request, Message
<1>2. TypeOK /\ UNCHANGED <<minted, sent, saves, refused>> /\ saves \in Nat
  BY DEF Reply, TurnsInv, TypeOK
<1>3. extra' \in 0..MaxExtra
  BY <1>2, ExtraType DEF Reply, TypeOK
<1>4. WindowsMove
  <2>1. CASE Hears(r)
    <3>1. /\ win[r.window] \in Provider /\ WindowFits(win[r.window], sent)
          /\ win[r.window].request # 0
          /\ win[r.window].page[Len(win[r.window].page)] = r.question
      BY <2>1, <1>1, StoredTypes DEF RequestFits, Hears
    <3>2. Moves(win[r.window], Ended(win[r.window], r, well))
      BY <3>1, <1>1, EndedMoves
    <3>3. win' = [win EXCEPT ![r.window] = Ended(win[r.window], r, well)]
      BY <2>1 DEF Reply
    <3> QED
      BY <1>1, <1>2, <3>2, <3>3, OneWindowMoves
  <2>2. CASE ~Hears(r)
    <3>1. UNCHANGED win
      BY <2>2 DEF Reply
    <3> QED
      BY <3>1, <1>2, WindowsStay
  <2> QED
    BY <2>1, <2>2
<1>5. CASE UNCHANGED stored
  <2>1. TypeOK'
    BY <1>1, <1>2, <1>3, <1>4, <1>5 DEF TypeOK, WindowsMove
  <2>2. Calm
    BY <1>1, <1>2, <1>4, <1>5, StoredStays DEF Calm, RequestsMove
  <2> QED
    BY <1>1, <1>2, <1>5, <2>1, <2>2, TranscriptsStay DEF CalmStep
<1>6. CASE stored' # stored
  <2>1. ~Superseded(s, r) /\ stored' = [stored EXCEPT ![c] = u]
    BY <1>6 DEF Reply
  <2>2. /\ s \in Seq(StoredRow) /\ TranscriptFits(s, c, saves)
        /\ \A i \in Questions(s) : s[i].gen = r.gen => s[i].text = r.question.text
    BY <1>1, StoredTypes DEF GenerationTells
  <2>3. /\ u \in Seq(StoredRow) /\ TranscriptFits(u, c, saves)
        /\ \A i \in DOMAIN u : u[i] = AnswerRow(r) \/ \E j \in DOMAIN s : u[i] = s[j]
        /\ \A i \in DOMAIN s, j \in DOMAIN u :
             s[i].role = "assistant" /\ Key(s[i]) = Key(u[j])
                => u[j].gen >= s[i].gen
    BY <1>1, <1>2, <2>1, <2>2, AnsweredFits
  <2>4. stored \in [Chats -> Seq(StoredRow)] /\ AnswerRow(r).role = "assistant"
    BY <1>2 DEF TypeOK, AnswerRow
  <2> HIDE DEF u
  <2>5. /\ stored' \in [Chats -> Seq(StoredRow)] /\ stored'[c] = u
        /\ \A d \in Chats : d # c => stored'[d] = stored[d]
    BY <1>1, <2>1, <2>3, <2>4
  <2>6. TypeOK'
    BY <1>1, <1>2, <1>3, <1>4, <2>5 DEF TypeOK, WindowsMove
  <2>7. \A d \in Chats : \A i \in DOMAIN stored'[d] :
          stored'[d][i].role = "user" =>
             \E j \in DOMAIN stored[d] : stored'[d][i] = stored[d][j]
    <3>1. SUFFICES ASSUME NEW d \in Chats, NEW i \in DOMAIN stored'[d],
                          stored'[d][i].role = "user"
                   PROVE  \E j \in DOMAIN stored[d] : stored'[d][i] = stored[d][j]
      OBVIOUS
    <3>2. CASE d = c
      <4>1. i \in DOMAIN u /\ stored'[d][i] = u[i] /\ u[i] # AnswerRow(r)
        BY <3>1, <3>2, <2>4, <2>5
      <4> QED
        BY <3>2, <4>1, <2>3
    <3>3. CASE d # c
      BY <3>1, <3>3, <2>5
    <3> QED
      BY <3>2, <3>3
  <2>8. StoredMoves
    BY <2>7 DEF StoredMoves, Reads
  <2>9. Calm
    BY <1>1, <1>2, <1>4, <2>8 DEF Calm, RequestsMove
  <2>10. \A d \in Chats : TranscriptFits(stored'[d], d, saves')
    BY <1>2, <2>3, <2>5, StoredTypes
  <2>11. \A q \in requests' : GenerationTells(q)'
    <3>1. SUFFICES ASSUME NEW q \in requests, q.stage = "kept"
                   PROVE  /\ q.gen <= saves
                          /\ \A d \in Chats : \A i \in DOMAIN stored'[d] :
                               stored'[d][i].role = "user" /\ stored'[d][i].gen = q.gen
                                  => stored'[d][i].text = q.question.text
      BY <1>1, <1>2 DEF GenerationTells, Questions
    <3>2. GenerationTells(q)
      BY DEF TurnsInv
    <3> QED
      BY <3>1, <3>2, <2>7 DEF GenerationTells, Questions
  <2>12. NoGoingBack
    <3>1. SUFFICES ASSUME NEW d \in Chats, NEW i \in DOMAIN stored[d],
                          NEW j \in DOMAIN stored'[d],
                          stored[d][i].role = "assistant",
                          Key(stored[d][i]) = Key(stored'[d][j])
                   PROVE  stored'[d][j].gen >= stored[d][i].gen
      BY DEF NoGoingBack
    <3>2. CASE d = c
      BY <3>1, <3>2, <2>3, <2>5
    <3>3. CASE d # c
      <4>1. stored'[d] = stored[d] /\ TranscriptFits(stored[d], d, saves)
            /\ stored[d][i].gen \in Nat
        BY <3>3, <2>5, StoredTypes, RowsAreRows
      <4>2. i = j
        BY <3>1, <4>1 DEF TranscriptFits
      <4> QED
        BY <4>1, <4>2
    <3> QED
      BY <3>2, <3>3
  <2> QED
    BY <2>6, <2>9, <2>10, <2>11, <2>12 DEF CalmStep, TranscriptsFit
<1> QED
  BY <1>5, <1>6

LEMMA DeleteCalm ==
  ASSUME TurnsInv, NEW w \in DOMAIN win, NEW c \in Chats, Delete(w, c)
  PROVE  CalmStep
<1>1. /\ TypeOK /\ Extra /\ stored' = [stored EXCEPT ![c] = <<>>]
      /\ UNCHANGED <<requests, sent, saves, refused>>
  BY DEF Delete, TurnsInv
<1>2. WindowsMove /\ minted' \subseteq Chats
  <2>1. CASE UNCHANGED <<win, minted>>
    BY <1>1, <2>1, WindowsStay DEF TypeOK
  <2>2. CASE \E d \in Chats \ minted :
               /\ minted' = minted \cup {d}
               /\ win' = [win EXCEPT ![w] = Started(@, d)]
    <3>1. PICK d \in Chats \ minted :
               /\ minted' = minted \cup {d}
               /\ win' = [win EXCEPT ![w] = Started(@, d)]
      BY <2>2
    <3>2. Moves(win[w], Started(win[w], d))
      BY StoredTypes, StartedMoves
    <3> QED
      BY <1>1, <3>1, <3>2, OneWindowMoves DEF TypeOK
  <2> QED
    BY <2>1, <2>2 DEF Delete
<1>3. /\ stored' \in [Chats -> Seq(StoredRow)] /\ stored'[c] = <<>>
      /\ \A d \in Chats : d # c => stored'[d] = stored[d]
  BY <1>1 DEF TypeOK
<1>4. TypeOK'
  BY <1>1, <1>2, <1>3, ExtraType DEF TypeOK, WindowsMove
<1>5. StoredMoves
  BY <1>3 DEF StoredMoves, Reads
<1>6. Calm
  BY <1>1, <1>2, <1>5 DEF Calm, RequestsMove
<1>7. TranscriptsFit'
  <2>1. TranscriptFits(<<>>, c, saves)
    BY DEF TranscriptFits, Of
  <2>2. \A d \in Chats : TranscriptFits(stored'[d], d, saves')
    BY <1>1, <1>3, <2>1, StoredTypes
  <2>3. \A q \in requests : GenerationTells(q)'
    BY <1>1, <1>3 DEF TurnsInv, GenerationTells, Questions
  <2> QED
    BY <1>1, <2>2, <2>3 DEF TranscriptsFit
<1>8. NoGoingBack
  <2>1. \A d \in Chats : \A i \in DOMAIN stored[d] : stored[d][i].gen \in Nat
    BY StoredTypes, RowsAreRows
  <2> QED
    BY <1>3, <2>1 DEF NoGoingBack, TurnsInv, TranscriptFits
<1> QED
  BY <1>4, <1>6, <1>7, <1>8 DEF CalmStep

-----------------------------------------------------------------------------
(* A question posted, and a question given back.                            *)

\* The window w asks q in a request of its own; a is what a definite
\* rejection would give back.
Posting(w, page, q, edit, a, drafts) ==
    /\ \E fresh \in SUBSET Chats : Posted(w, page, q, edit, a, drafts, fresh)
    /\ page \in Seq(Message) /\ q \in Message /\ q.role = "user"
    /\ q.chat = win[w].chat
    /\ Of(win[w].page, win[w].chat) => Of(page, win[w].chat)
    /\ Begins(page)
    /\ page # <<>> /\ page[Len(page)] = q
    /\ edit = None \/ edit \in [text : Texts, last : {"user", "assistant"} \X Id]
    /\ drafts \subseteq win[w].drafts
    /\ a # None => /\ a \in Attempt /\ a.before = win[w].page
                   /\ a.id = q.id /\ a.text = q.text /\ ~(a.edit /\ a.retry)
    /\ a = None \/ a \in Attempt
    /\ Free(win[w])
    /\ \A id, t : Reads(page, id, t) =>
         Reads(win[w].page, id, t) \/ (id = q.id /\ t = q.text)

Asking(w, q, edit) ==
    [n |-> sent + 1, window |-> w, question |-> q, edit |-> edit,
     gen |-> 0, stage |-> "asked"]

LEMMA PostingFits ==
  ASSUME TurnsInv, NEW w \in DOMAIN win, NEW page, NEW q, NEW edit, NEW a, NEW drafts,
         Posting(w, page, q, edit, a, drafts)
  PROVE  /\ TurnsInv' /\ NoGoingBack /\ RowsStay /\ DOMAIN win' = DOMAIN win
         /\ UNCHANGED <<stored, refused>> /\ sent' = sent + 1
         /\ requests' = requests \cup {Asking(w, q, edit)}
         /\ \A v \in DOMAIN win : v # w => win'[v] = win[v]
         /\ win'[w].page = page /\ win'[w].attempt = a /\ win'[w].drafts = drafts
         /\ win'[w].request = sent + 1 /\ win'[w].chat = win[w].chat
<1>a. PICK fresh \in SUBSET Chats : Posted(w, page, q, edit, a, drafts, fresh)
  BY DEF Posting
<1> DEFINE z == [win[w] EXCEPT !.page = page, !.status = "busy", !.request = sent + 1,
                               !.attempt = a, !.fresh = fresh, !.drafts = drafts]
<1>0. PICK r : r = Asking(w, q, edit)
  OBVIOUS
<1>1. /\ TypeOK /\ sent \in Nat /\ sent + 1 \in 1..MaxRequests /\ MaxRequests \in Nat
      /\ win[w] \in Provider /\ WindowFits(win[w], sent) /\ w \in Windows
  BY <1>a, StoredTypes, Constants DEF TurnsInv, TypeOK, Posting, Posted
<1>2. /\ sent' = sent + 1 /\ requests' = requests \cup {r}
      /\ win' = [win EXCEPT ![w] = z]
      /\ UNCHANGED <<stored, minted, saves, extra, refused>>
  BY <1>0, <1>a DEF Posted, Asking
<1>3. /\ page \in Pages /\ sent + 1 \in Numbers /\ a \in Attempts /\ drafts \in DraftSets
  BY <1>1 DEF Pages, Numbers, Attempts, DraftSets, Posting, Provider
<1>4. /\ z \in Provider /\ z.page = page /\ z.attempt = a /\ z.drafts = drafts
      /\ z.request = sent + 1 /\ z.chat = win[w].chat /\ z.status = "busy"
      /\ z.loading = win[w].loading
  BY <1>1, <1>3, ProviderIs
<1> HIDE DEF z
<1>5. /\ r \in Request /\ r.n = sent + 1 /\ r.window = w /\ r.question = q
      /\ r.stage = "asked"
  <2>1. sent + 1 \in Id /\ 0 \in Nat
    BY <1>1 DEF Id
  <2> QED
    BY <1>0, <1>1, <2>1 DEF Asking, Request, Posting
<1>6. /\ DOMAIN win' = DOMAIN win /\ win'[w] = z
      /\ \A v \in DOMAIN win : v # w => win'[v] = win[v]
  BY <1>1, <1>2 DEF TypeOK
<1>7. TypeOK'
  <2>1. win' \in [DOMAIN win -> Provider]
    BY <1>1, <1>2, <1>4 DEF TypeOK
  <2> QED
    BY <1>1, <1>2, <1>5, <1>6, <2>1 DEF TypeOK
<1>8. \A v \in DOMAIN win' : WindowFits(win'[v], sent')
  <2>1. WindowFits(z, sent + 1)
    <3>1. ~win[w].loading
      BY DEF Posting, Free
    <3>2. a # None => /\ a.before = win[w].page
                      /\ Begins(win[w].page)
                      /\ a.id = q.id /\ a.text = q.text /\ ~(a.edit /\ a.retry)
      BY <1>1 DEF Posting, WindowFits
    <3>3. \A d \in drafts : ~(d.edit /\ d.retry)
      BY <1>1 DEF Posting, WindowFits
    <3> QED
      BY <1>1, <1>4, <3>1, <3>2, <3>3 DEF WindowFits, Posting
  <2>2. \A v \in DOMAIN win : v # w => WindowFits(win[v], sent + 1)
    <3>1. \A v \in DOMAIN win : win[v].request \in Nat
      BY <1>1 DEF TypeOK, Provider
    <3> QED
      BY <1>1, <3>1, StoredTypes DEF WindowFits
  <2> QED
    BY <1>2, <1>6, <2>1, <2>2
<1>9. RequestsFit'
  <2>1. \A s \in requests : s \in Request /\ s.n \in Nat /\ s.n <= sent /\ RequestFits(s)
    BY <1>1, RequestNumbers DEF TurnsInv, RequestsFit, RequestFits
  <2>2. \A s, x \in requests' : s.n = x.n => s = x
    BY <1>1, <1>2, <1>5, <2>1 DEF TurnsInv, RequestsFit
  <2>3. RequestFits(r)'
    BY <1>1, <1>2, <1>4, <1>5, <1>6 DEF RequestFits, Hears, Posting
  <2>4. \A s \in requests : RequestFits(s)'
    BY <1>1, <1>2, <1>4, <1>6, <2>1 DEF RequestFits, Hears
  <2> QED
    BY <1>2, <2>2, <2>3, <2>4 DEF RequestsFit
<1>10. TranscriptsFit' /\ NoGoingBack
  BY <1>2, <1>5, TranscriptsStay
<1>11. RowsStay
  <2>1. a # None => a.before = win[w].page
    BY DEF Posting
  <2>2. Clean(win[w]) => Clean(z)
    BY <1>4, <2>1 DEF Clean, Posting
  <2> QED
    BY <1>6, <2>2, CleanIs DEF RowsStay
<1> QED
  BY <1>0, <1>2, <1>4, <1>6, <1>7, <1>8, <1>9, <1>10, <1>11
     DEF TurnsInv, TranscriptsFit

LEMMA UpToPage ==
  ASSUME NEW page \in Seq(Message), NEW c, Begins(page),
         NEW q \in Message, q.role = "user", q.chat = c
  PROVE  LET u == UpTo(page, q)
         IN  /\ u \in Seq(Message) /\ Begins(u)
             /\ Of(page, c) => Of(u, c)
             /\ u # <<>> /\ u[Len(u)] = q
             /\ \A id, t : Reads(u, id, t) =>
                  Reads(page, id, t) \/ (id = q.id /\ t = q.text)
<1> DEFINE u == UpTo(page, q)
<1>1. /\ u \in Seq(Message) /\ Len(u) \in 1..(Len(page) + 1) /\ u[Len(u)] = q
      /\ \A i \in 1..Len(page) : i < Len(u) => u[i] = page[i]
  <2>1. page \in Seq(Message) /\ q \in Message
    OBVIOUS
  <2> HIDE DEF u
  <2>2. /\ UpTo(page, q) \in Seq(Message)
        /\ Len(UpTo(page, q)) \in 1..(Len(page) + 1)
        /\ UpTo(page, q)[Len(UpTo(page, q))] = q
        /\ \A i \in 1..Len(page) :
             i < Len(UpTo(page, q)) => UpTo(page, q)[i] = page[i]
    BY <2>1, UpToShape
  <2> QED
    BY <2>2 DEF u
<1> HIDE DEF u
<1>2. DOMAIN u = 1..Len(u) /\ DOMAIN page = 1..Len(page) /\ Len(page) \in Nat
  BY <1>1
<1>3. \A i \in DOMAIN u : \/ i \in DOMAIN page /\ u[i] = page[i]
                          \/ i = Len(u) /\ u[i] = q
  <2>1. \A i \in DOMAIN u : i = Len(u) \/ (i \in 1..Len(page) /\ i < Len(u))
    BY <1>1, <1>2
  <2> QED
    BY <2>1, <1>1, <1>2
<1>4. Of(page, c) => Of(u, c)
  BY <1>3 DEF Of
<1>5. Begins(u)
  <2>1. 1 \in DOMAIN u
    BY <1>1, <1>2
  <2>2. CASE 1 \in DOMAIN page /\ u[1] = page[1]
    BY <2>2, <1>2 DEF Begins
  <2>3. CASE u[1] = q
    BY <2>3 DEF Begins
  <2> QED
    BY <2>1, <2>2, <2>3, <1>3
<1>6. u # <<>>
  BY <1>1
<1>7. \A id, t : Reads(u, id, t) => Reads(page, id, t) \/ (id = q.id /\ t = q.text)
  BY <1>3 DEF Reads
<1> QED
  BY <1>1, <1>4, <1>5, <1>6, <1>7 DEF u

LEMMA AppendedPage ==
  ASSUME NEW page \in Seq(Message), NEW c, Begins(page),
         NEW q \in Message, q.role = "user", q.chat = c
  PROVE  LET u == Append(page, q)
         IN  /\ u \in Seq(Message) /\ Begins(u)
             /\ Of(page, c) => Of(u, c)
             /\ u # <<>> /\ u[Len(u)] = q
             /\ \A id, t : Reads(u, id, t) =>
                  Reads(page, id, t) \/ (id = q.id /\ t = q.text)
<1> DEFINE u == Append(page, q)
<1>1. /\ u \in Seq(Message) /\ Len(u) = Len(page) + 1 /\ u[Len(page) + 1] = q
      /\ \A i \in 1..Len(page) : u[i] = page[i]
  BY AppendProperties
<1> HIDE DEF u
<1>2. DOMAIN u = 1..(Len(page) + 1) /\ DOMAIN page = 1..Len(page) /\ Len(page) \in Nat
  BY <1>1
<1>3. \A i \in DOMAIN u : \/ i \in DOMAIN page /\ u[i] = page[i]
                          \/ i = Len(u) /\ u[i] = q
  <2>1. \A i \in DOMAIN u : i = Len(u) \/ i \in 1..Len(page)
    BY <1>1, <1>2
  <2> QED
    BY <2>1, <1>1, <1>2
<1>4. Of(page, c) => Of(u, c)
  BY <1>3 DEF Of
<1>5. Begins(u)
  <2>1. 1 \in DOMAIN u
    BY <1>1, <1>2
  <2>2. CASE 1 \in DOMAIN page /\ u[1] = page[1]
    BY <2>2, <1>2 DEF Begins
  <2>3. CASE u[1] = q
    BY <2>3 DEF Begins
  <2> QED
    BY <2>1, <2>2, <2>3, <1>3
<1>6. u # <<>> /\ u[Len(u)] = q
  BY <1>1
<1>7. \A id, t : Reads(u, id, t) => Reads(page, id, t) \/ (id = q.id /\ t = q.text)
  BY <1>3 DEF Reads
<1> QED
  BY <1>1, <1>4, <1>5, <1>6, <1>7 DEF u

LEMMA LastOfPage ==
  ASSUME NEW p \in Provider, NEW n, WindowFits(p, n), Questions(p.page) # {}
  PROVE  LET q == Here(p, LastQuestion(p.page))
         IN  /\ q \in Message /\ q.role = "user" /\ q.chat = p.chat
             /\ q.text = LastQuestion(p.page).text
             /\ Reads(p.page, q.id, q.text)
<1>1. p.page \in Seq(Message)
  BY DEF Provider
<1>2. PICK i \in Questions(p.page) :
        /\ i \in 1..Len(p.page) /\ LastQuestion(p.page) = p.page[i]
        /\ p.page[i] \in Message /\ p.page[i].role = "user"
  BY <1>1, LastQuestionIsThere
<1>3. i \in DOMAIN p.page
  BY <1>1, <1>2
<1>4. Here(p, p.page[i]) \in Message
  BY <1>2 DEF Here, Message, Provider
<1>5. /\ Here(p, p.page[i]).role = "user" /\ Here(p, p.page[i]).chat = p.chat
      /\ Here(p, p.page[i]).id = p.page[i].id
      /\ Here(p, p.page[i]).text = p.page[i].text
  BY <1>2 DEF Here, Message
<1> QED
  BY <1>2, <1>3, <1>4, <1>5 DEF Reads

LEMMA PageTypes ==
  ASSUME TurnsInv, NEW w \in DOMAIN win
  PROVE  /\ win[w] \in Provider /\ WindowFits(win[w], sent)
         /\ win[w].page \in Seq(Message) /\ win[w].chat \in Chats
         /\ Begins(win[w].page) /\ win[w].fresh \subseteq Chats
         /\ win[w].drafts \subseteq Draft
  BY StoredTypes DEF Provider, WindowFits

LEMMA RegeneratePosts ==
  ASSUME TurnsInv, NEW w \in DOMAIN win, Regenerate(w)
  PROVE  \E page, q : /\ Posting(w, page, q, None, None, win[w].drafts)
                      /\ Reads(win[w].page, q.id, q.text)
<1> DEFINE p == win[w]
           q == Here(p, LastQuestion(p.page))
<1>1. /\ p \in Provider /\ WindowFits(p, sent) /\ p.page \in Seq(Message)
      /\ Begins(p.page) /\ p.fresh \subseteq Chats
  BY PageTypes
<1>2. Questions(p.page) # {}
  <2>1. p.page # <<>>
    BY DEF Regenerate
  <2>2. 1 \in DOMAIN p.page /\ p.page[1].role = "user"
    BY <2>1, <1>1 DEF Begins
  <2> QED
    BY <2>2 DEF Questions
<1>3. /\ q \in Message /\ q.role = "user" /\ q.chat = p.chat
      /\ Reads(p.page, q.id, q.text)
  BY <1>1, <1>2, LastOfPage
<1>4. Posted(w, UpTo(p.page, q), q, None, None, p.drafts, p.fresh) /\ Free(p)
  BY DEF Regenerate
<1>5. LET u == UpTo(p.page, q)
      IN  /\ u \in Seq(Message) /\ Begins(u)
          /\ Of(p.page, p.chat) => Of(u, p.chat)
          /\ u # <<>> /\ u[Len(u)] = q
          /\ \A id, t : Reads(u, id, t) =>
               Reads(p.page, id, t) \/ (id = q.id /\ t = q.text)
  BY <1>1, <1>3, UpToPage
<1> HIDE DEF q
<1>6. Posting(w, UpTo(p.page, q), q, None, None, p.drafts)
  BY <1>1, <1>3, <1>4, <1>5 DEF Posting
<1> QED
  BY <1>3, <1>6

\* Sent again under its own id, or under an id no message had.
LEMMA SendPosts ==
  ASSUME TurnsInv, NEW w \in DOMAIN win, NEW t \in Texts, Send(w, t)
  PROVE  \E page, q, a, drafts :
            /\ Posting(w, page, q, None, a, drafts)
            /\ q.text = t /\ ~a.edit
            /\ drafts = {d \in win[w].drafts : d.chat # win[w].chat \/ d.edit}
            /\ \/ LeftInPlace(win[w], t) /\ a.retry /\ Reads(win[w].page, q.id, t)
               \/ ~LeftInPlace(win[w], t) /\ ~a.retry /\ q.id = sent + 1
<1> DEFINE p == win[w]
           retry == LeftInPlace(p, t)
           q == IF retry THEN Here(p, LastQuestion(p.page))
                ELSE [role |-> "user", chat |-> p.chat, id |-> sent + 1, text |-> t]
           page == IF retry THEN UpTo(p.page, q) ELSE Append(p.page, q)
           a == [id |-> q.id, text |-> t, edit |-> FALSE, retry |-> retry,
                 before |-> p.page]
           drafts == {d \in p.drafts : d.chat # p.chat \/ d.edit}
<1>1. /\ p \in Provider /\ WindowFits(p, sent) /\ p.page \in Seq(Message)
      /\ Begins(p.page) /\ p.chat \in Chats /\ p.fresh \subseteq Chats
  BY PageTypes
<1>2. Posted(w, page, q, None, a, drafts, p.fresh \ {p.chat}) /\ Free(p)
  BY DEF Send, IsRetry
<1>3. sent + 1 \in Id
  BY <1>2, StoredTypes, Constants DEF Posted, Id
<1>4. /\ q \in Message /\ q.role = "user" /\ q.chat = p.chat /\ q.text = t
      /\ retry => Reads(p.page, q.id, t)
      /\ ~retry => q.id = sent + 1
  <2>1. CASE retry
    BY <2>1, <1>1, LastOfPage DEF LeftInPlace
  <2>2. CASE ~retry
    BY <2>2, <1>1, <1>3 DEF Message
  <2> QED
    BY <2>1, <2>2
<1> HIDE DEF q
<1>5. /\ page \in Seq(Message) /\ Begins(page)
      /\ Of(p.page, p.chat) => Of(page, p.chat)
      /\ page # <<>> /\ page[Len(page)] = q
      /\ \A id, x : Reads(page, id, x) =>
           Reads(p.page, id, x) \/ (id = q.id /\ x = q.text)
  <2>1. CASE retry
    BY <2>1, <1>1, <1>4, UpToPage
  <2>2. CASE ~retry
    BY <2>2, <1>1, <1>4, AppendedPage
  <2> QED
    BY <2>1, <2>2
<1>6. retry \in BOOLEAN /\ q.id \in Id
  BY <1>4 DEF LeftInPlace, Message
<1>7. /\ a \in Attempt /\ a.before = p.page /\ a.id = q.id /\ a.text = t
      /\ ~a.edit /\ a.retry = retry
  BY <1>1, <1>4, <1>6 DEF Attempt
<1> HIDE DEF page, a
<1>8. Posting(w, page, q, None, a, drafts)
  BY <1>1, <1>2, <1>4, <1>5, <1>7 DEF Posting
<1> QED
  BY <1>4, <1>7, <1>8

\* An edit of a question of the page, for which nothing but what is posted
\* keeps the words it asks with.
LEMMA EditPosts ==
  ASSUME TurnsInv, NEW w \in DOMAIN win, NEW i \in DOMAIN win[w].page,
         NEW t \in Texts, ResendEdit(w, i, t)
  PROVE  \E page, q, edit, a, drafts :
            /\ Posting(w, page, q, edit, a, drafts)
            /\ q.text = t /\ ~a.retry /\ a.edit
            /\ \E x : Reads(win[w].page, q.id, x)
            /\ drafts = {d \in win[w].drafts : ~(d.edit /\ d.id = q.id)}
            /\ Unasked(t) \/ \E d \in win[w].drafts :
                                d.edit /\ d.id = q.id /\ d.text = t
<1> DEFINE p == win[w]
           q == [Here(p, p.page[i]) EXCEPT !.text = t]
           page == UpTo(p.page, q)
           edit == [text |-> p.page[i].text, last |-> Key(p.page[Len(p.page)])]
           a == [id |-> q.id, text |-> t, edit |-> TRUE, retry |-> FALSE,
                 before |-> p.page]
           drafts == {d \in p.drafts : ~(d.edit /\ d.id = q.id)}
<1>1. /\ p \in Provider /\ WindowFits(p, sent) /\ p.page \in Seq(Message)
      /\ Begins(p.page) /\ p.chat \in Chats /\ p.fresh \subseteq Chats
  BY PageTypes
<1>2. /\ Free(p) /\ i \in Questions(p.page)
      /\ Unasked(t) \/ \E d \in p.drafts : d.edit /\ d.id = q.id /\ d.text = t
      /\ Posted(w, page, q, edit, a, drafts, p.fresh \ {p.chat})
  BY DEF ResendEdit
<1>3. /\ p.page[i] \in Message /\ p.page[i].role = "user"
      /\ Len(p.page) \in DOMAIN p.page /\ p.page[Len(p.page)] \in Message
  <2>1. p.page[i] \in Message /\ Len(p.page) \in DOMAIN p.page
    BY <1>1, ElementOfSeq
  <2> QED
    BY <2>1, <1>1, <1>2, ElementOfSeq DEF Questions
<1>4. /\ q \in Message /\ q.role = "user" /\ q.chat = p.chat /\ q.text = t
      /\ q.id = p.page[i].id
  BY <1>1, <1>3 DEF Here, Message
<1>5. Reads(p.page, q.id, p.page[i].text)
  BY <1>3, <1>4 DEF Reads
<1>6. edit \in [text : Texts, last : {"user", "assistant"} \X Id]
  BY <1>3 DEF Key, Message
<1>7. q.id \in Id
  BY <1>4 DEF Message
<1> HIDE DEF q, edit
<1>8. /\ page \in Seq(Message) /\ Begins(page)
      /\ Of(p.page, p.chat) => Of(page, p.chat)
      /\ page # <<>> /\ page[Len(page)] = q
      /\ \A id, x : Reads(page, id, x) =>
           Reads(p.page, id, x) \/ (id = q.id /\ x = q.text)
  BY <1>1, <1>4, UpToPage
<1>9. /\ a \in Attempt /\ a.before = p.page /\ a.id = q.id /\ a.text = t
      /\ a.edit /\ ~a.retry
  BY <1>1, <1>7 DEF Attempt
<1> HIDE DEF page, a
<1>10. Posting(w, page, q, edit, a, drafts)
  BY <1>1, <1>2, <1>4, <1>6, <1>8, <1>9 DEF Posting
<1> QED
  BY <1>2, <1>4, <1>5, <1>9, <1>10

LEMMA GivingBackFits ==
  ASSUME TurnsInv, NEW r \in requests, Refuse(r) \/ SaveRefused(r),
         win[r.window].attempt # None
  PROVE  LET p == win[r.window]
             q == win'[r.window]
             a == p.attempt
             d == [chat |-> p.chat, id |-> a.id, text |-> a.text,
                   edit |-> a.edit, retry |-> a.retry]
         IN  /\ TurnsInv' /\ NoGoingBack /\ RowsStay
             /\ DOMAIN win' = DOMAIN win
             /\ \A v \in DOMAIN win : v # r.window => win'[v] = win[v]
             /\ q.page = a.before /\ q.request = 0 /\ q.attempt = None
             /\ q.drafts = p.drafts \cup {d} /\ d \in Draft
             /\ a.id = r.question.id /\ a.text = r.question.text
             /\ ~(a.edit /\ a.retry)
             /\ requests' = requests \ {r} /\ r.stage = "asked" /\ Hears(r)
             /\ r.window \in DOMAIN win
             /\ UNCHANGED <<stored, sent>>
             /\ refused \subseteq refused'
             /\ a.retry => r.question.text \in refused'
<1> DEFINE w == r.window
           p == win[w]
           a == p.attempt
           d == [chat |-> p.chat, id |-> a.id, text |-> a.text,
                 edit |-> a.edit, retry |-> a.retry]
           q == Failed(p, "rejected")
<1>1. /\ r \in Request /\ r.stage = "asked" /\ requests' = requests \ {r}
      /\ HearsFailure(r, "rejected") /\ RetryRefused(r)
      /\ UNCHANGED <<stored, minted, sent, saves>>
      /\ extra' \in 0..MaxExtra
      /\ refused \subseteq refused' /\ refused' \subseteq Texts
      /\ w \in DOMAIN win
  BY RefuseTypes
<1>2. p \in Provider /\ WindowFits(p, sent) /\ a # None /\ TypeOK
  BY <1>1, StoredTypes DEF TurnsInv
<1>3. /\ q \in Provider /\ a \in Attempt /\ d \in Draft
      /\ q.request = 0 /\ q.attempt = None /\ q.status = "ready"
      /\ q.page = a.before /\ q.chat = p.chat
      /\ q.drafts = p.drafts \cup {d} /\ q.loading = p.loading
  BY <1>2, FailedGivesBack
<1>4. win' = [win EXCEPT ![w] = q] /\ Hears(r)
  BY <1>1 DEF HearsFailure
<1> HIDE DEF q
<1>5. /\ DOMAIN win' = DOMAIN win /\ win'[w] = q
      /\ \A v \in DOMAIN win : v # w => win'[v] = win[v]
  BY <1>1, <1>2, <1>4 DEF TypeOK
<1>6. a.id = r.question.id /\ a.text = r.question.text /\ ~(a.edit /\ a.retry)
  BY <1>1, <1>2, <1>4 DEF TurnsInv, RequestsFit, RequestFits, WindowFits
<1>7. TypeOK'
  <2>1. win' \in [DOMAIN win -> Provider]
    BY <1>2, <1>3, <1>4 DEF TypeOK
  <2> QED
    BY <1>1, <1>2, <1>5, <2>1 DEF TypeOK
<1>8. \A v \in DOMAIN win' : WindowFits(win'[v], sent')
  <2>1. WindowFits(q, sent)
    <3>1. d.edit = a.edit /\ d.retry = a.retry
      OBVIOUS
    <3> HIDE DEF d
    <3> QED
      BY <1>2, <1>3, <1>6, <3>1 DEF WindowFits
  <2> QED
    BY <1>1, <1>5, <2>1, StoredTypes
<1>9. RequestsFit'
  <2>1. \A s \in requests' : RequestFits(s)'
    <3>1. SUFFICES ASSUME NEW s \in requests', s \in requests PROVE RequestFits(s)'
      BY <1>1
    <3>2. RequestFits(s) /\ s.n \in Nat /\ s.n >= 1
      BY <3>1, RequestNumbers DEF TurnsInv, RequestsFit
    <3>3. s.window # w => win'[s.window] = win[s.window]
      BY <3>2, <1>5 DEF RequestFits
    <3>4. s.window = w => win'[s.window].request = 0
      BY <1>3, <1>5
    <3> QED
      BY <1>1, <1>5, <3>2, <3>3, <3>4 DEF RequestFits, Hears
  <2> QED
    BY <1>1, <2>1 DEF RequestsFit, TurnsInv
<1>10. TranscriptsFit' /\ NoGoingBack
  BY <1>1, TranscriptsStay
<1>11. a.retry => r.question.text \in refused'
  BY <1>1, <1>2 DEF RetryRefused
<1>12. TurnsInv'
  BY <1>7, <1>8, <1>9, <1>10 DEF TurnsInv, TranscriptsFit
<1>13. RowsStay
  <2>1. Clean(p) => Clean(q)
    BY <1>2, <1>3 DEF Clean
  <2> QED
    BY <1>1, <1>5, <2>1, CleanIs DEF RowsStay
<1> QED
  BY <1>1, <1>3, <1>4, <1>5, <1>6, <1>10, <1>11, <1>12, <1>13

-----------------------------------------------------------------------------
(* The transcripts and the pages.                                           *)

LEMMA CalmKeepsTurns ==
  ASSUME TurnsInv, CalmStep
  PROVE  TurnsInv' /\ NoGoingBack /\ RowsStay
<1>1. TurnsInv' /\ NoGoingBack
  BY CalmFits DEF CalmStep, TurnsInv, TranscriptsFit
<1>2. RowsStay
  <2>1. SUFFICES ASSUME NEW w \in DOMAIN win', ~Clean(win'[w])
                 PROVE  /\ w \in DOMAIN win
                        /\ ~Clean(win[w]) \/ IntoFresh(win[w], win'[w])
    BY CleanIs DEF RowsStay
  <2>2. WindowMoves(w)
    BY DEF CalmStep, Calm, WindowsMove
  <2>3. w \in DOMAIN win
    BY <2>1, <2>2, EmptyIsClean DEF WindowMoves
  <2>4. CASE SameTurn(win[w], win'[w])
    BY <2>1, <2>3, <2>4 DEF SameTurn, Clean
  <2>5. CASE Rests(win[w], win'[w])
    BY <2>1, <2>3, <2>5 DEF Rests, StaysClean
  <2> QED
    BY <2>2, <2>3, <2>4, <2>5 DEF WindowMoves
<1> QED
  BY <1>1, <1>2

\* Every step is calm, posts a question or gives one back.
LEMMA CalmActions ==
  ASSUME TurnsInv, Next
  PROVE  \/ CalmStep
         \/ \E w \in DOMAIN win :
              \/ Regenerate(w)
              \/ \E t \in Texts :
                   \/ Ask(w, t)
                   \/ AskAgain(w, t)
                   \/ \E i \in DOMAIN win[w].page : ResendEdit(w, i, t)
         \/ \E r \in requests :
              (Refuse(r) \/ SaveRefused(r)) /\ win[r.window].attempt # None
<1>1. ASSUME NEW w \in Windows, Open(w) PROVE CalmStep
  BY <1>1, OpenCalm
<1>2. ASSUME NEW w \in DOMAIN win, NEW streamed \in BOOLEAN,
             Stop(w, streamed) \/ Disconnect(w, streamed)
      PROVE  CalmStep
  BY <1>2, StopCalm
<1>3. ASSUME NEW w \in DOMAIN win, Load(w) PROVE CalmStep
  BY <1>3, LoadCalm
<1>4. ASSUME NEW w \in DOMAIN win,
             \/ LoadFails(w) \/ ReloadConversation(w) \/ Reload(w)
             \/ \E c \in Chats : NewChat(w, c) \/ Select(w, c) \/ LoadLate(w, c)
      PROVE  CalmStep
  BY <1>4, MoveCalm
<1>9. ASSUME NEW r \in requests, Titled(r) PROVE CalmStep
  BY <1>9, TitledCalm
<1>5. ASSUME NEW w \in DOMAIN win, NEW c \in Chats, Delete(w, c) PROVE CalmStep
  BY <1>5, DeleteCalm
<1>6. ASSUME NEW r \in requests, Save(r) \/ SaveUnheard(r) \/ Unavailable(r)
      PROVE  CalmStep
  BY <1>6, SaveCalm, UnheardCalm, UnavailableCalm
<1>7. ASSUME NEW r \in requests, NEW well \in BOOLEAN, NEW saved \in BOOLEAN,
             Reply(r, well, saved)
      PROVE  CalmStep
  BY <1>7, ReplyCalm
<1>8. ASSUME NEW r \in requests, Refuse(r) \/ SaveRefused(r),
             win[r.window].attempt = None
      PROVE  CalmStep
  BY <1>8, RefusedCalm
<1> QED
  BY <1>1, <1>2, <1>3, <1>4, <1>5, <1>6, <1>7, <1>8, <1>9, Zenon DEF Next

LEMMA TurnsInit == Init => TurnsInv
<1> SUFFICES ASSUME Init PROVE TurnsInv
  OBVIOUS
<1>1. /\ stored \in [Chats -> Seq(StoredRow)] /\ DOMAIN win = {}
      /\ win \in [DOMAIN win -> Provider]
      /\ requests = {} /\ minted = {} /\ refused = {}
      /\ sent = 0 /\ saves = 0 /\ extra = 0
  BY DEF Init
<1>2. TypeOK
  BY <1>1, Constants DEF TypeOK
<1>3. \A c \in Chats : TranscriptFits(stored[c], c, saves)
  BY DEF Init, TranscriptFits, Of
<1> QED
  BY <1>1, <1>2, <1>3 DEF TurnsInv, RequestsFit

LEMMA TurnsStep ==
  ASSUME TurnsInv, [Next]_vars
  PROVE  TurnsInv' /\ NoGoingBack /\ RowsStay
<1>1. CASE UNCHANGED vars
  <2>1. WindowsMove
    BY <1>1, WindowsStay DEF vars, TurnsInv
  <2>2. CalmStep
    BY <1>1, <2>1, WindowStep DEF vars, TurnsInv, TypeOK
  <2> QED
    BY <2>2, CalmKeepsTurns
<1>2. CASE CalmStep
  BY <1>2, CalmKeepsTurns
<1>3. ASSUME NEW w \in DOMAIN win, Regenerate(w) PROVE TurnsInv' /\ NoGoingBack /\ RowsStay
  BY <1>3, RegeneratePosts, PostingFits
<1>4. ASSUME NEW w \in DOMAIN win, NEW t \in Texts, Ask(w, t) \/ AskAgain(w, t)
      PROVE  TurnsInv' /\ NoGoingBack /\ RowsStay
  <2>1. Send(w, t)
    BY <1>4 DEF Ask, AskAgain
  <2> QED
    BY <2>1, SendPosts, PostingFits
<1>5. ASSUME NEW w \in DOMAIN win, NEW t \in Texts, NEW i \in DOMAIN win[w].page,
             ResendEdit(w, i, t)
      PROVE  TurnsInv' /\ NoGoingBack /\ RowsStay
  BY <1>5, EditPosts, PostingFits
<1>6. ASSUME NEW r \in requests, Refuse(r) \/ SaveRefused(r),
             win[r.window].attempt # None
      PROVE  TurnsInv' /\ NoGoingBack /\ RowsStay
  BY <1>6, GivingBackFits
<1> QED
  BY <1>1, <1>2, <1>3, <1>4, <1>5, <1>6, CalmActions

\* The transcripts, the pages and the requests fit together.
THEOREM TurnsFit == Spec => []TurnsInv
<1>1. TurnsInv /\ [Next]_vars => TurnsInv'
  BY TurnsStep
<1> QED
  BY <1>1, TurnsInit, PTL DEF Spec

\* Every variable keeps its type.
THEOREM TypeCorrect == Spec => []TypeOK
<1>1. TurnsInv => TypeOK
  BY DEF TurnsInv
<1> QED
  BY <1>1, TurnsFit, PTL

\* Every stored answer comes right after the question it was made for, as
\* that question reads now, for any number of windows, edits, retries,
\* deletions and late generations.
THEOREM AnswersStayWithTheirQuestion == Spec => []AnswersFollowTheirQuestion
<1>1. TurnsInv => AnswersFollowTheirQuestion
  BY DEF TurnsInv, TranscriptFits, AnswerFits, AnswersFollowTheirQuestion
<1> QED
  BY <1>1, TurnsFit, PTL

\* Rows of one conversation come under another only when a stored
\* conversation is chosen that the window still takes for new, for any number
\* of windows, late loads, late answers, rejections, edits and reloads.
THEOREM RowsStrayOnlyThere == Spec => RowsStrayOnlyIntoFresh
<1>1. TurnsInv /\ [Next]_vars =>
        [\A w \in DOMAIN win' : Astray(win'[w]) =>
           /\ w \in DOMAIN win
           /\ \/ Astray(win[w])
              \/ /\ win'[w].chat # win[w].chat
                 /\ win'[w].chat \in win[w].fresh
                 /\ stored[win'[w].chat] # <<>>]_vars
  BY TurnsStep DEF RowsStay, IntoFresh
<1> QED
  BY <1>1, TurnsFit, PTL DEF Spec, RowsStrayOnlyIntoFresh

\* An answer is replaced only by one that was asked for later.
THEOREM AnswersNeverReturn == Spec => AnswersNeverGoBack
<1>1. TurnsInv /\ [Next]_vars =>
        [\A c \in Chats : \A i \in DOMAIN stored[c], j \in DOMAIN stored'[c] :
           (stored[c][i].role = "assistant" /\ Key(stored[c][i]) = Key(stored'[c][j]))
              => stored'[c][j].gen >= stored[c][i].gen]_vars
  BY TurnsStep DEF NoGoingBack
<1> QED
  BY <1>1, TurnsFit, PTL DEF Spec, AnswersNeverGoBack

-----------------------------------------------------------------------------
(* What is asked once.                                                      *)

\* The question id with the words t is stored, on a page or may come back to
\* one, or is being asked.
Seen(id, t) ==
    \/ \E c \in Chats : Reads(stored[c], id, t)
    \/ \E w \in DOMAIN win :
         Reads(win[w].page, id, t) \/ Reads(BeforeOf(win[w]), id, t)
    \/ \E r \in requests : r.question.id = id /\ r.question.text = t

\* The same, but for request r and the page that listens to it.
SeenElsewhere(id, t, r) ==
    \/ \E c \in Chats : Reads(stored[c], id, t)
    \/ \E w \in DOMAIN win :
         \/ w # r.window /\ Reads(win[w].page, id, t)
         \/ Reads(BeforeOf(win[w]), id, t)
    \/ \E s \in requests : s # r /\ s.question.id = id /\ s.question.text = t

\* A request that would give back a question that may not have been kept.
Tries(r) ==
    /\ r.stage = "asked" /\ Hears(r)
    /\ win[r.window].attempt # None /\ ~win[r.window].attempt.retry

IdsAreKnown ==
    /\ \A id, t : Seen(id, t) => id \in 1..sent
    /\ \A w \in DOMAIN win : \A d \in win[w].drafts : d.id \in 1..sent

\* What such a request asks is nowhere else.
TryUnkept(r) ==
    LET q == r.question
    IN  /\ ~SeenElsewhere(q.id, q.text, r)
        /\ \A w \in DOMAIN win : \A d \in win[w].drafts :
             ~(d.edit /\ d.id = q.id /\ d.text = q.text)
        /\ ~win[r.window].attempt.edit =>
             /\ \A t : ~SeenElsewhere(q.id, t, r)
             /\ \A w \in DOMAIN win : \A d \in win[w].drafts : d.id # q.id
TriesUnkept == \A r \in requests : Tries(r) => TryUnkept(r)

\* What was given back, but for a refused retry, is nowhere but there.
DraftsUnkept ==
    \A w \in DOMAIN win : \A d \in win[w].drafts : ~d.retry =>
        /\ ~Seen(d.id, d.text)
        /\ ~d.edit => \A t : ~Seen(d.id, t)
        /\ d.edit =>
             \A v \in DOMAIN win : \A e \in win[v].drafts :
               e.edit /\ e.id = d.id /\ e.text = d.text => v = w

\* While no retry of t was refused, t has one id, or was given back once.
AskedOnce(t) ==
    /\ \A a, b : Seen(a, t) /\ Seen(b, t) => a = b
    /\ \A w \in DOMAIN win : \A d \in win[w].drafts : d.text = t =>
         /\ ~d.retry /\ \A a : ~Seen(a, t)
         /\ \A v \in DOMAIN win : \A e \in win[v].drafts :
              e.text = t => v = w /\ e = d

OnceInv ==
    /\ TurnsInv /\ IdsAreKnown /\ TriesUnkept /\ DraftsUnkept
    /\ \A t \in Texts \ refused : AskedOnce(t)

LEMMA OnceInit == Init => OnceInv
<1> SUFFICES ASSUME Init PROVE OnceInv
  OBVIOUS
<1>1. /\ \A c \in Chats : stored[c] = <<>>
      /\ DOMAIN win = {} /\ requests = {}
  BY DEF Init
<1>2. \A id, t : ~Seen(id, t)
  BY <1>1, EmptyPage DEF Seen
<1>3. IdsAreKnown /\ TriesUnkept /\ DraftsUnkept /\ \A t : AskedOnce(t)
  BY <1>1, <1>2 DEF IdsAreKnown, TriesUnkept, DraftsUnkept, AskedOnce
<1> QED
  BY <1>3, TurnsInit DEF OnceInv

-----------------------------------------------------------------------------
(* Steps that post no question and give none back show none anew.           *)

\* What a window of a calm step reads, it or its transcripts read before.
LEMMA CalmReads ==
  ASSUME Calm, NEW w \in DOMAIN win', NEW id, NEW t
  PROVE  /\ Reads(win'[w].page, id, t) =>
              \/ w \in DOMAIN win /\ Reads(win[w].page, id, t)
              \/ \E c \in Chats : Reads(stored[c], id, t)
         /\ Reads(BeforeOf(win'[w]), id, t) =>
              w \in DOMAIN win /\ Reads(BeforeOf(win[w]), id, t)
         /\ \A d \in win'[w].drafts : w \in DOMAIN win /\ d \in win[w].drafts
<1>1. WindowMoves(w)
  BY DEF Calm, WindowsMove
<1>2. CASE w \notin DOMAIN win
  BY <1>1, <1>2, EmptyPage DEF WindowMoves, BeforeOf
<1>3. CASE w \in DOMAIN win /\ SameTurn(win[w], win'[w])
  BY <1>3 DEF SameTurn, BeforeOf
<1>4. CASE w \in DOMAIN win /\ Rests(win[w], win'[w])
  <2>1. BeforeOf(win'[w]) = <<>>
    BY <1>4 DEF Rests, BeforeOf
  <2> QED
    BY <1>4, <2>1, EmptyPage DEF Rests
<1> QED
  BY <1>1, <1>2, <1>3, <1>4 DEF WindowMoves

\* The requests of a calm step are those before it, and the one that keeps
\* its question is none of those still asked.
LEMMA CalmRequests ==
  ASSUME TurnsInv, Calm
  PROVE  /\ \A r \in requests' : r.stage = "asked" => r \in requests
         /\ \A s \in requests' : \E x \in requests :
              /\ x.question = s.question
              /\ \A r \in requests' : r.stage = "asked" /\ s # r => x # r
<1>1. CASE requests' \subseteq requests
  BY <1>1
<1>2. ASSUME NEW k \in requests, k.stage = "asked",
             requests' = (requests \ {k}) \cup {Keeping(k)}
      PROVE  /\ \A r \in requests' : r.stage = "asked" => r \in requests
             /\ \A s \in requests' : \E x \in requests :
                  /\ x.question = s.question
                  /\ \A r \in requests' : r.stage = "asked" /\ s # r => x # r
  <2>1. Keeping(k).stage = "kept" /\ Keeping(k).question = k.question
    BY KeepingFits DEF TurnsInv, TypeOK
  <2>2. \A r \in requests' : r.stage = "asked" => r \in requests \ {k}
    BY <1>2, <2>1
  <2> QED
    BY <1>2, <2>1, <2>2
<1> QED
  BY <1>1, <1>2 DEF Calm, RequestsMove

LEMMA CalmSeen ==
  ASSUME TurnsInv, Calm, NEW id, NEW t, Seen(id, t)'
  PROVE  Seen(id, t)
<1>1. CASE \E c \in Chats : Reads(stored'[c], id, t)
  BY <1>1 DEF Calm, StoredMoves, Seen
<1>2. CASE \E w \in DOMAIN win' : \/ Reads(win'[w].page, id, t)
                                  \/ Reads(BeforeOf(win'[w]), id, t)
  BY <1>2, CalmReads DEF Seen
<1>3. CASE \E r \in requests' : r.question.id = id /\ r.question.text = t
  BY <1>3, CalmRequests DEF Seen
<1> QED
  BY <1>1, <1>2, <1>3 DEF Seen, BeforeOf

LEMMA CalmTries ==
  ASSUME TurnsInv, Calm, NEW r \in requests', Tries(r)'
  PROVE  /\ r \in requests /\ Tries(r)
         /\ win'[r.window].attempt = win[r.window].attempt
         /\ \A id, t : SeenElsewhere(id, t, r)' => SeenElsewhere(id, t, r)
<1>1. r.stage = "asked" /\ r \in requests
  BY CalmRequests DEF Tries
<1>2. r.window \in DOMAIN win /\ r.n >= 1 /\ r.n \in Nat
  BY <1>1, RequestNumbers DEF TurnsInv, RequestsFit, RequestFits
<1>3. SameTurn(win[r.window], win'[r.window])
  <2>1. win'[r.window].request = r.n
    BY DEF Tries, Hears
  <2>2. win'[r.window].request # 0
    BY <1>2, <2>1
  <2> QED
    BY <1>2, <2>2 DEF Calm, WindowsMove, WindowMoves, Rests
<1>4. Tries(r)
  BY <1>3 DEF SameTurn, Tries, Hears
<1>5. ASSUME NEW id, NEW t, SeenElsewhere(id, t, r)'
      PROVE  SeenElsewhere(id, t, r)
  <2>1. CASE \E c \in Chats : Reads(stored'[c], id, t)
    BY <2>1 DEF Calm, StoredMoves, SeenElsewhere
  <2>2. CASE \E w \in DOMAIN win' : \/ w # r.window /\ Reads(win'[w].page, id, t)
                                    \/ Reads(BeforeOf(win'[w]), id, t)
    BY <2>2, CalmReads DEF SeenElsewhere
  <2>3. CASE \E s \in requests' : s # r /\ s.question.id = id /\ s.question.text = t
    <3>1. PICK s \in requests' : s # r /\ s.question.id = id /\ s.question.text = t
      BY <2>3
    <3>2. PICK x \in requests : x.question = s.question /\ x # r
      BY <1>1, <3>1, CalmRequests
    <3> QED
      BY <3>1, <3>2 DEF SeenElsewhere
  <2> QED
    BY <1>5, <2>1, <2>2, <2>3 DEF SeenElsewhere, BeforeOf
<1> QED
  BY <1>1, <1>3, <1>4, <1>5 DEF SameTurn

LEMMA CalmOnce ==
  ASSUME OnceInv, TurnsInv', Calm
  PROVE  OnceInv'
<1>1. /\ TurnsInv /\ IdsAreKnown /\ TriesUnkept /\ DraftsUnkept
      /\ \A t \in Texts \ refused : AskedOnce(t)
      /\ sent' = sent /\ refused \subseteq refused'
  BY DEF OnceInv, Calm
<1>2. \A id, t : Seen(id, t)' => Seen(id, t)
  BY <1>1, CalmSeen
<1>3. \A w \in DOMAIN win' : \A d \in win'[w].drafts : w \in DOMAIN win /\ d \in win[w].drafts
  BY CalmReads
<1>4. IdsAreKnown'
  BY <1>1, <1>2, <1>3 DEF IdsAreKnown
<1>5. TriesUnkept'
  <2>1. SUFFICES ASSUME NEW r \in requests', Tries(r)' PROVE TryUnkept(r)'
    BY DEF TriesUnkept
  <2>2. /\ r \in requests /\ Tries(r)
        /\ win'[r.window].attempt = win[r.window].attempt
        /\ \A id, t : SeenElsewhere(id, t, r)' => SeenElsewhere(id, t, r)
    BY <1>1, <2>1, CalmTries
  <2>3. TryUnkept(r)
    BY <1>1, <2>2 DEF TriesUnkept
  <2> QED
    BY <1>3, <2>2, <2>3 DEF TryUnkept
<1>6. DraftsUnkept'
  BY <1>1, <1>2, <1>3 DEF DraftsUnkept
<1>7. \A t \in Texts \ refused' : AskedOnce(t)'
  <2>1. SUFFICES ASSUME NEW t \in Texts \ refused' PROVE AskedOnce(t)'
    OBVIOUS
  <2>2. AskedOnce(t)
    BY <1>1
  <2> QED
    BY <1>2, <1>3, <2>2 DEF AskedOnce
<1> QED
  BY <1>4, <1>5, <1>6, <1>7 DEF OnceInv

-----------------------------------------------------------------------------
(* A step that posts a question shows no other anew.                        *)

\* What the step of window w that asks q with request n leaves to be seen.
PostedSeen(w, q, n, a) ==
    /\ \A id, t : Seen(id, t)' => Seen(id, t) \/ (id = q.id /\ t = q.text)
    /\ \A v \in DOMAIN win' : \A d \in win'[v].drafts : d \in win[v].drafts
    /\ DOMAIN win' = DOMAIN win /\ sent' = sent + 1 /\ sent \in Nat
    /\ refused' = refused
    /\ n.question = q /\ n.window = w /\ win'[w].attempt = a
    /\ \A r \in requests' \ {n} : Tries(r)' =>
         /\ r \in requests /\ Tries(r) /\ r.window # w
         /\ win'[r.window].attempt = win[r.window].attempt
         /\ \A id, t : SeenElsewhere(id, t, r)' =>
              SeenElsewhere(id, t, r) \/ (id = q.id /\ t = q.text)
    /\ \A id, t : SeenElsewhere(id, t, n)' => Seen(id, t)

LEMMA PostingSeen ==
  ASSUME TurnsInv, NEW w \in DOMAIN win, NEW page, NEW q, NEW edit, NEW a, NEW drafts,
         Posting(w, page, q, edit, a, drafts), NEW n, n = Asking(w, q, edit)
  PROVE  PostedSeen(w, q, n, a)
<1>1. /\ DOMAIN win' = DOMAIN win
      /\ UNCHANGED <<stored, refused>> /\ sent' = sent + 1
      /\ requests' = requests \cup {n}
      /\ \A v \in DOMAIN win : v # w => win'[v] = win[v]
      /\ win'[w].page = page /\ win'[w].attempt = a /\ win'[w].drafts = drafts
      /\ win'[w].request = sent + 1
  BY PostingFits
<1>2. /\ drafts \subseteq win[w].drafts
      /\ a # None => a.before = win[w].page
      /\ \A id, t : Reads(page, id, t) =>
           Reads(win[w].page, id, t) \/ (id = q.id /\ t = q.text)
  BY DEF Posting
<1>3. n.question = q /\ n.window = w
  BY DEF Asking
<1>4. ASSUME NEW v \in DOMAIN win', NEW id, NEW t
      PROVE  /\ Reads(win'[v].page, id, t) =>
                  \/ Reads(win[v].page, id, t)
                  \/ v = w /\ id = q.id /\ t = q.text
             /\ Reads(BeforeOf(win'[v]), id, t) =>
                  \/ Reads(BeforeOf(win[v]), id, t)
                  \/ v = w /\ Reads(win[w].page, id, t)
  <2>1. CASE v # w
    BY <2>1, <1>1
  <2>2. CASE v = w /\ a = None
    BY <2>2, <1>1, <1>2, EmptyPage DEF BeforeOf
  <2>3. CASE v = w /\ a # None
    BY <2>3, <1>1, <1>2 DEF BeforeOf
  <2> QED
    BY <2>1, <2>2, <2>3
<1>5. ASSUME NEW id, NEW t, Seen(id, t)'
      PROVE  Seen(id, t) \/ (id = q.id /\ t = q.text)
  <2>1. CASE \E c \in Chats : Reads(stored'[c], id, t)
    BY <2>1, <1>1 DEF Seen
  <2>2. CASE \E v \in DOMAIN win' : \/ Reads(win'[v].page, id, t)
                                    \/ Reads(BeforeOf(win'[v]), id, t)
    BY <2>2, <1>1, <1>4 DEF Seen
  <2>3. CASE \E r \in requests' : r.question.id = id /\ r.question.text = t
    BY <2>3, <1>1, <1>3 DEF Seen
  <2> QED
    BY <1>5, <2>1, <2>2, <2>3 DEF Seen, BeforeOf
<1>6. ASSUME NEW r \in requests' \ {n}, Tries(r)'
      PROVE  /\ r \in requests /\ Tries(r) /\ r.window # w
             /\ win'[r.window].attempt = win[r.window].attempt
             /\ \A id, t : SeenElsewhere(id, t, r)' =>
                  SeenElsewhere(id, t, r) \/ (id = q.id /\ t = q.text)
  <2>1. r \in requests /\ r.window \in DOMAIN win /\ r.n <= sent /\ r.n \in Nat
    BY <1>1, <1>6, RequestNumbers DEF TurnsInv, RequestsFit, RequestFits
  <2>2. r.window # w
    <3>1. win'[r.window].request = r.n
      BY <1>6 DEF Tries, Hears
    <3> QED
      BY <1>1, <2>1, <3>1, RequestNumbers DEF TurnsInv
  <2>3. win'[r.window] = win[r.window]
    BY <1>1, <2>1, <2>2
  <2>4. Tries(r)
    BY <1>6, <2>3 DEF Tries, Hears
  <2>5. ASSUME NEW id, NEW t, SeenElsewhere(id, t, r)'
        PROVE  SeenElsewhere(id, t, r) \/ (id = q.id /\ t = q.text)
    <3>1. CASE \E c \in Chats : Reads(stored'[c], id, t)
      BY <3>1, <1>1 DEF SeenElsewhere
    <3>2. CASE \E v \in DOMAIN win' :
                 \/ v # r.window /\ Reads(win'[v].page, id, t)
                 \/ Reads(BeforeOf(win'[v]), id, t)
      BY <3>2, <1>1, <1>4, <2>2 DEF SeenElsewhere
    <3>3. CASE \E s \in requests' :
                 s # r /\ s.question.id = id /\ s.question.text = t
      BY <3>3, <1>1, <1>3 DEF SeenElsewhere
    <3> QED
      BY <2>5, <3>1, <3>2, <3>3 DEF SeenElsewhere, BeforeOf
  <2> QED
    BY <2>1, <2>2, <2>3, <2>4, <2>5
<1>7. ASSUME NEW id, NEW t, SeenElsewhere(id, t, n)'
      PROVE  Seen(id, t)
  <2>1. CASE \E c \in Chats : Reads(stored'[c], id, t)
    BY <2>1, <1>1 DEF Seen
  <2>2. CASE \E v \in DOMAIN win' :
               \/ v # n.window /\ Reads(win'[v].page, id, t)
               \/ Reads(BeforeOf(win'[v]), id, t)
    BY <2>2, <1>1, <1>3, <1>4 DEF Seen
  <2>3. CASE \E s \in requests' :
               s # n /\ s.question.id = id /\ s.question.text = t
    BY <2>3, <1>1 DEF Seen
  <2> QED
    BY <1>7, <2>1, <2>2, <2>3 DEF SeenElsewhere, BeforeOf
<1>8. \A v \in DOMAIN win' : \A d \in win'[v].drafts : d \in win[v].drafts
  BY <1>1, <1>2
<1> QED
  BY <1>1, <1>3, <1>5, <1>6, <1>7, <1>8, StoredTypes DEF PostedSeen

\* A question posted again as it was: Regenerate, and the retry of one that
\* was left in place.
LEMMA PostedAgain ==
  ASSUME OnceInv, TurnsInv', NEW w \in DOMAIN win, NEW q, NEW n, NEW a,
         PostedSeen(w, q, n, a), a = None \/ a.retry,
         Reads(win[w].page, q.id, q.text)
  PROVE  OnceInv'
<1>1. /\ IdsAreKnown /\ TriesUnkept /\ DraftsUnkept
      /\ \A t \in Texts \ refused : AskedOnce(t)
  BY DEF OnceInv
<1>2. \A id, t : Seen(id, t)' => Seen(id, t)
  BY DEF PostedSeen, Seen
<1>3. /\ \A v \in DOMAIN win' : v \in DOMAIN win
      /\ \A v \in DOMAIN win' : \A d \in win'[v].drafts : d \in win[v].drafts
  BY DEF PostedSeen
<1>4. IdsAreKnown'
  <2>1. 1..sent \subseteq 1..sent'
    BY DEF PostedSeen
  <2> QED
    BY <1>1, <1>2, <1>3, <2>1 DEF IdsAreKnown
<1>5. TriesUnkept'
  <2>1. SUFFICES ASSUME NEW r \in requests', Tries(r)' PROVE TryUnkept(r)'
    BY DEF TriesUnkept
  <2>2. r # n
    BY <2>1 DEF Tries, PostedSeen
  <2>3. /\ r \in requests /\ Tries(r) /\ r.window # w
        /\ win'[r.window].attempt = win[r.window].attempt
        /\ \A id, t : SeenElsewhere(id, t, r)' =>
             SeenElsewhere(id, t, r) \/ (id = q.id /\ t = q.text)
    BY <2>1, <2>2 DEF PostedSeen
  <2>4. SeenElsewhere(q.id, q.text, r)
    BY <2>3 DEF SeenElsewhere
  <2>5. TryUnkept(r)
    BY <1>1, <2>3 DEF TriesUnkept
  <2> QED
    BY <1>3, <2>3, <2>4, <2>5 DEF TryUnkept
<1>6. DraftsUnkept'
  BY <1>1, <1>2, <1>3 DEF DraftsUnkept
<1>7. \A t \in Texts \ refused' : AskedOnce(t)'
  <2>1. SUFFICES ASSUME NEW t \in Texts \ refused' PROVE AskedOnce(t)'
    OBVIOUS
  <2>2. AskedOnce(t)
    BY <1>1 DEF PostedSeen
  <2> QED
    BY <1>2, <1>3, <2>2 DEF AskedOnce
<1> QED
  BY <1>4, <1>5, <1>6, <1>7 DEF OnceInv

\* Before q was posted its words were nowhere, or in a draft that is gone.
LEMMA PostedAskedOnce ==
  ASSUME OnceInv, NEW w \in DOMAIN win, NEW q, NEW n, NEW a,
         PostedSeen(w, q, n, a),
         q.text \notin refused =>
           /\ \A id : ~Seen(id, q.text)
           /\ \A v \in DOMAIN win' : \A d \in win'[v].drafts : d.text # q.text
  PROVE  \A t \in Texts \ refused' : AskedOnce(t)'
<1>1. SUFFICES ASSUME NEW t \in Texts \ refused' PROVE AskedOnce(t)'
  OBVIOUS
<1>2. /\ AskedOnce(t) /\ t \notin refused
      /\ \A id, x : Seen(id, x)' => Seen(id, x) \/ (id = q.id /\ x = q.text)
      /\ DOMAIN win' = DOMAIN win
      /\ \A v \in DOMAIN win' : \A d \in win'[v].drafts : d \in win[v].drafts
  BY DEF OnceInv, PostedSeen
<1>3. CASE t # q.text
  <2>1. \A id : Seen(id, t)' => Seen(id, t)
    BY <1>2, <1>3
  <2> QED
    BY <1>2, <2>1 DEF AskedOnce
<1>4. CASE t = q.text
  <2>1. \A id : Seen(id, t)' => id = q.id
    BY <1>2, <1>4
  <2>2. \A v \in DOMAIN win' : \A d \in win'[v].drafts : d.text # t
    BY <1>2, <1>4
  <2> QED
    BY <2>1, <2>2 DEF AskedOnce
<1> QED
  BY <1>3, <1>4

\* A question no message had the id of.
LEMMA PostedAnew ==
  ASSUME OnceInv, TurnsInv', NEW w \in DOMAIN win, NEW q, NEW n, NEW a,
         PostedSeen(w, q, n, a), q.id = sent + 1, ~a.edit,
         q.text \notin refused =>
           /\ \A id : ~Seen(id, q.text)
           /\ \A v \in DOMAIN win' : \A d \in win'[v].drafts : d.text # q.text
  PROVE  OnceInv'
<1>1. /\ IdsAreKnown /\ TriesUnkept /\ DraftsUnkept
      /\ DOMAIN win' = DOMAIN win /\ sent' = sent + 1 /\ sent \in Nat
      /\ n.question = q /\ n.window = w /\ win'[w].attempt = a
  BY DEF OnceInv, PostedSeen
<1>2. \A id, t : Seen(id, t)' => Seen(id, t) \/ (id = q.id /\ t = q.text)
  BY DEF PostedSeen
<1>3. \A v \in DOMAIN win' : \A d \in win'[v].drafts : d \in win[v].drafts
  BY DEF PostedSeen
<1>4. /\ \A id \in 1..sent : id # q.id /\ id \in 1..sent'
      /\ q.id \in 1..sent' /\ q.id \notin 1..sent
  BY <1>1
<1>5. IdsAreKnown'
  BY <1>1, <1>2, <1>3, <1>4 DEF IdsAreKnown
<1>6. TriesUnkept'
  <2>1. SUFFICES ASSUME NEW r \in requests', Tries(r)' PROVE TryUnkept(r)'
    BY DEF TriesUnkept
  <2>2. CASE r = n
    <3>1. \A t : ~SeenElsewhere(q.id, t, n)'
      BY <1>1, <1>4 DEF IdsAreKnown, PostedSeen
    <3>2. \A v \in DOMAIN win' : \A d \in win'[v].drafts : d.id # q.id
      BY <1>1, <1>3, <1>4 DEF IdsAreKnown
    <3> QED
      BY <1>1, <2>2, <3>1, <3>2 DEF TryUnkept
  <2>3. CASE r # n
    <3>1. /\ r \in requests /\ Tries(r)
          /\ win'[r.window].attempt = win[r.window].attempt
          /\ \A id, t : SeenElsewhere(id, t, r)' =>
               SeenElsewhere(id, t, r) \/ (id = q.id /\ t = q.text)
      BY <2>1, <2>3 DEF PostedSeen
    <3>2. r.question.id # q.id
      <4>1. Seen(r.question.id, r.question.text)
        BY <3>1 DEF Seen
      <4> QED
        BY <1>1, <1>4, <4>1 DEF IdsAreKnown
    <3>3. TryUnkept(r)
      BY <1>1, <3>1 DEF TriesUnkept
    <3> QED
      BY <1>1, <1>3, <3>1, <3>2, <3>3 DEF TryUnkept
  <2> QED
    BY <2>2, <2>3
<1>7. DraftsUnkept'
  <2>1. \A v \in DOMAIN win' : \A d \in win'[v].drafts :
          \A t : Seen(d.id, t)' => Seen(d.id, t)
    BY <1>1, <1>2, <1>3, <1>4 DEF IdsAreKnown
  <2> QED
    BY <1>1, <1>3, <2>1 DEF DraftsUnkept
<1>8. \A t \in Texts \ refused' : AskedOnce(t)'
  BY PostedAskedOnce
<1> QED
  BY <1>5, <1>6, <1>7, <1>8 DEF OnceInv

\* An edit of a question the page shows, in words that question never had.
LEMMA PostedEdit ==
  ASSUME OnceInv, TurnsInv', NEW w \in DOMAIN win, NEW q, NEW n, NEW a, NEW y,
         PostedSeen(w, q, n, a), a.edit,
         Reads(win[w].page, q.id, y),
         ~Seen(q.id, q.text),
         \A v \in DOMAIN win' : \A d \in win'[v].drafts :
           ~(d.edit /\ d.id = q.id /\ d.text = q.text),
         q.text \notin refused =>
           /\ \A id : ~Seen(id, q.text)
           /\ \A v \in DOMAIN win' : \A d \in win'[v].drafts : d.text # q.text
  PROVE  OnceInv'
<1>1. /\ IdsAreKnown /\ TriesUnkept /\ DraftsUnkept
      /\ DOMAIN win' = DOMAIN win /\ sent' = sent + 1 /\ sent \in Nat
      /\ n.question = q /\ n.window = w /\ win'[w].attempt = a
  BY DEF OnceInv, PostedSeen
<1>2. \A id, t : Seen(id, t)' => Seen(id, t) \/ (id = q.id /\ t = q.text)
  BY DEF PostedSeen
<1>3. \A v \in DOMAIN win' : \A d \in win'[v].drafts : d \in win[v].drafts
  BY DEF PostedSeen
<1>4. Seen(q.id, y)
  BY DEF Seen
<1>5. IdsAreKnown'
  <2>1. 1..sent \subseteq 1..sent'
    BY <1>1
  <2> QED
    BY <1>1, <1>2, <1>3, <1>4, <2>1 DEF IdsAreKnown
<1>6. TriesUnkept'
  <2>1. SUFFICES ASSUME NEW r \in requests', Tries(r)' PROVE TryUnkept(r)'
    BY DEF TriesUnkept
  <2>2. CASE r = n
    <3>1. ~SeenElsewhere(q.id, q.text, n)'
      BY DEF PostedSeen
    <3> QED
      BY <1>1, <2>2, <3>1 DEF TryUnkept
  <2>3. CASE r # n
    <3>1. /\ r \in requests /\ Tries(r) /\ r.window # w
          /\ win'[r.window].attempt = win[r.window].attempt
          /\ \A id, t : SeenElsewhere(id, t, r)' =>
               SeenElsewhere(id, t, r) \/ (id = q.id /\ t = q.text)
      BY <2>1, <2>3 DEF PostedSeen
    <3>2. TryUnkept(r)
      BY <1>1, <3>1 DEF TriesUnkept
    <3>3. ~(r.question.id = q.id /\ r.question.text = q.text)
      BY <3>1 DEF Seen
    <3>4. ~win[r.window].attempt.edit => r.question.id # q.id
      <4>1. SeenElsewhere(q.id, y, r)
        BY <3>1 DEF SeenElsewhere
      <4> QED
        BY <3>2, <4>1 DEF TryUnkept
    <3> QED
      BY <1>1, <1>3, <3>1, <3>2, <3>3, <3>4 DEF TryUnkept
  <2> QED
    BY <2>2, <2>3
<1>7. DraftsUnkept'
  <2>1. ASSUME NEW v \in DOMAIN win', NEW d \in win'[v].drafts, ~d.retry
        PROVE  /\ ~Seen(d.id, d.text)'
               /\ ~d.edit => \A t : ~Seen(d.id, t)'
    <3>1. /\ d \in win[v].drafts /\ v \in DOMAIN win /\ ~Seen(d.id, d.text)
          /\ ~d.edit => \A t : ~Seen(d.id, t)
      BY <1>1, <1>3, <2>1 DEF DraftsUnkept
    <3>2. ~d.edit => d.id # q.id
      BY <1>4, <3>1
    <3>3. ~(d.id = q.id /\ d.text = q.text)
      BY <3>2
    <3> QED
      BY <1>2, <3>1, <3>2, <3>3
  <2>2. \A v \in DOMAIN win' : \A d \in win'[v].drafts : ~d.retry => (d.edit =>
          \A u \in DOMAIN win' : \A e \in win'[u].drafts :
            e.edit /\ e.id = d.id /\ e.text = d.text => u = v)
    BY <1>1, <1>3 DEF DraftsUnkept
  <2> QED
    BY <2>1, <2>2 DEF DraftsUnkept
<1>8. \A t \in Texts \ refused' : AskedOnce(t)'
  BY PostedAskedOnce
<1> QED
  BY <1>5, <1>6, <1>7, <1>8 DEF OnceInv

\* Words that are asked nowhere are on no page, in no transcript and no draft.
LEMMA UnaskedUnseen ==
  ASSUME TurnsInv, NEW t, Unasked(t)
  PROVE  /\ \A id : ~Seen(id, t)
         /\ \A v \in DOMAIN win : \A d \in win[v].drafts : d.text # t
<1>1. \A v \in DOMAIN win : \A i \in DOMAIN BeforeOf(win[v]) : BeforeOf(win[v])[i].text # t
  BY DEF Unasked, BeforeOf
<1> QED
  BY <1>1 DEF Unasked, Seen, Reads

LEMMA RegenerateOnce ==
  ASSUME OnceInv, NEW w \in DOMAIN win, Regenerate(w)
  PROVE  OnceInv'
<1>1. TurnsInv
  BY DEF OnceInv
<1>2. PICK page, q : /\ Posting(w, page, q, None, None, win[w].drafts)
                     /\ Reads(win[w].page, q.id, q.text)
  BY <1>1, RegeneratePosts
<1>3. PICK n : n = Asking(w, q, None)
  OBVIOUS
<1>4. PostedSeen(w, q, n, None) /\ TurnsInv'
  BY <1>1, <1>2, <1>3, PostingSeen, PostingFits
<1> QED
  BY <1>2, <1>4, PostedAgain

LEMMA AskOnce ==
  ASSUME OnceInv, NEW w \in DOMAIN win, NEW t \in Texts, Ask(w, t) \/ AskAgain(w, t)
  PROVE  OnceInv'
<1>1. TurnsInv /\ Send(w, t)
  BY DEF OnceInv, Ask, AskAgain
<1>2. PICK page, q, a, drafts :
        /\ Posting(w, page, q, None, a, drafts)
        /\ q.text = t /\ ~a.edit
        /\ drafts = {d \in win[w].drafts : d.chat # win[w].chat \/ d.edit}
        /\ \/ LeftInPlace(win[w], t) /\ a.retry /\ Reads(win[w].page, q.id, t)
           \/ ~LeftInPlace(win[w], t) /\ ~a.retry /\ q.id = sent + 1
  BY <1>1, SendPosts
<1>3. PICK n : n = Asking(w, q, None)
  OBVIOUS
<1>4. PostedSeen(w, q, n, a) /\ TurnsInv'
  BY <1>1, <1>2, <1>3, PostingSeen, PostingFits
<1>5. CASE a.retry /\ Reads(win[w].page, q.id, t)
  BY <1>2, <1>4, <1>5, PostedAgain
<1>6. CASE ~LeftInPlace(win[w], t) /\ q.id = sent + 1
  <2>1. /\ DOMAIN win' = DOMAIN win /\ win'[w].drafts = drafts
        /\ \A v \in DOMAIN win : v # w => win'[v] = win[v]
        /\ \A v \in DOMAIN win' : \A d \in win'[v].drafts : d \in win[v].drafts
    BY <1>1, <1>2, <1>4, PostingFits DEF PostedSeen
  <2>2. t \notin refused =>
          /\ \A id : ~Seen(id, t)
          /\ \A v \in DOMAIN win' : \A d \in win'[v].drafts : d.text # t
    <3>1. CASE Unasked(t)
      BY <3>1, <1>1, <2>1, UnaskedUnseen
    <3>2. ASSUME NEW d \in win[w].drafts, d.chat = win[w].chat, ~d.edit, d.text = t,
                 t \notin refused
          PROVE  /\ \A id : ~Seen(id, t)
                 /\ \A v \in DOMAIN win' : \A e \in win'[v].drafts : e.text # t
      <4>1. AskedOnce(t)
        BY <3>2 DEF OnceInv
      <4>2. d \notin win'[w].drafts
        BY <1>2, <2>1, <3>2
      <4> QED
        BY <2>1, <3>2, <4>1, <4>2 DEF AskedOnce
    <3> QED
      BY <1>6, <3>1, <3>2 DEF Ask, AskAgain
  <2> QED
    BY <1>2, <1>4, <1>6, <2>2, PostedAnew
<1> QED
  BY <1>2, <1>5, <1>6

LEMMA EditOnce ==
  ASSUME OnceInv, NEW w \in DOMAIN win, NEW i \in DOMAIN win[w].page,
         NEW t \in Texts, ResendEdit(w, i, t)
  PROVE  OnceInv'
<1>1. TurnsInv /\ WindowFits(win[w], sent)
  BY StoredTypes DEF OnceInv
<1>2. PICK page, q, edit, a, drafts :
        /\ Posting(w, page, q, edit, a, drafts)
        /\ q.text = t /\ ~a.retry /\ a.edit
        /\ \E x : Reads(win[w].page, q.id, x)
        /\ drafts = {d \in win[w].drafts : ~(d.edit /\ d.id = q.id)}
        /\ Unasked(t) \/ \E d \in win[w].drafts :
                            d.edit /\ d.id = q.id /\ d.text = t
  BY <1>1, EditPosts
<1>3. PICK n : n = Asking(w, q, edit)
  OBVIOUS
<1>4. PostedSeen(w, q, n, a) /\ TurnsInv'
  BY <1>1, <1>2, <1>3, PostingSeen, PostingFits
<1>5. /\ DOMAIN win' = DOMAIN win /\ win'[w].drafts = drafts
      /\ \A v \in DOMAIN win : v # w => win'[v] = win[v]
      /\ \A v \in DOMAIN win' : \A d \in win'[v].drafts : d \in win[v].drafts
  BY <1>1, <1>2, <1>4, PostingFits DEF PostedSeen
<1>6. /\ ~Seen(q.id, t)
      /\ \A v \in DOMAIN win' : \A e \in win'[v].drafts :
           ~(e.edit /\ e.id = q.id /\ e.text = t)
      /\ t \notin refused =>
           /\ \A id : ~Seen(id, t)
           /\ \A v \in DOMAIN win' : \A e \in win'[v].drafts : e.text # t
  <2>1. CASE Unasked(t)
    BY <2>1, <1>1, <1>5, UnaskedUnseen
  <2>2. ASSUME NEW d \in win[w].drafts, d.edit, d.id = q.id, d.text = t
        PROVE  /\ ~Seen(q.id, t)
               /\ \A v \in DOMAIN win' : \A e \in win'[v].drafts :
                    ~(e.edit /\ e.id = q.id /\ e.text = t)
               /\ t \notin refused =>
                    /\ \A id : ~Seen(id, t)
                    /\ \A v \in DOMAIN win' : \A e \in win'[v].drafts : e.text # t
    <3>1. ~d.retry
      BY <1>1, <2>2 DEF WindowFits
    <3>2. /\ ~Seen(q.id, t)
          /\ \A v \in DOMAIN win : \A e \in win[v].drafts :
               e.edit /\ e.id = q.id /\ e.text = t => v = w
      BY <2>2, <3>1 DEF OnceInv, DraftsUnkept
    <3>3. \A e \in win'[w].drafts : ~(e.edit /\ e.id = q.id)
      BY <1>2, <1>5
    <3>4. t \notin refused => AskedOnce(t)
      BY DEF OnceInv
    <3>5. d \notin win'[w].drafts
      BY <2>2, <3>3
    <3>6. t \notin refused =>
            /\ \A id : ~Seen(id, t)
            /\ \A v \in DOMAIN win' : \A e \in win'[v].drafts : e.text # t
      BY <1>5, <2>2, <3>4, <3>5 DEF AskedOnce
    <3> QED
      BY <1>5, <3>2, <3>3, <3>6
  <2> QED
    BY <1>2, <2>1, <2>2
<1> QED
  BY <1>2, <1>4, <1>6, PostedEdit

-----------------------------------------------------------------------------
(* A step that gives a question back.                                       *)

\* Request r was refused and its window was given d, its question, back.
GaveBack(r, d) ==
    /\ r.window \in DOMAIN win /\ DOMAIN win' = DOMAIN win
    /\ r.stage = "asked" /\ Hears(r)
    /\ win[r.window].attempt # None
    /\ \A v \in DOMAIN win : v # r.window => win'[v] = win[v]
    /\ win'[r.window].page = win[r.window].attempt.before
    /\ win'[r.window].request = 0 /\ win'[r.window].attempt = None
    /\ win'[r.window].drafts = win[r.window].drafts \cup {d}
    /\ d.id = r.question.id /\ d.text = r.question.text
    /\ d.edit = win[r.window].attempt.edit
    /\ d.retry = win[r.window].attempt.retry
    /\ requests' = requests \ {r}
    /\ UNCHANGED <<stored, sent>>
    /\ refused \subseteq refused'
    /\ d.retry => d.text \in refused'

LEMMA GivingBack ==
  ASSUME TurnsInv, NEW r \in requests, Refuse(r) \/ SaveRefused(r),
         win[r.window].attempt # None
  PROVE  TurnsInv' /\ \E d : GaveBack(r, d)
<1> DEFINE p == win[r.window]
           a == p.attempt
           x == [chat |-> p.chat, id |-> a.id, text |-> a.text,
                 edit |-> a.edit, retry |-> a.retry]
<1>1. PICK d : d = x
  OBVIOUS
<1>2. /\ TurnsInv'
      /\ DOMAIN win' = DOMAIN win
      /\ \A v \in DOMAIN win : v # r.window => win'[v] = win[v]
      /\ win'[r.window].page = a.before
      /\ win'[r.window].request = 0 /\ win'[r.window].attempt = None
      /\ win'[r.window].drafts = p.drafts \cup {d}
      /\ a.id = r.question.id /\ a.text = r.question.text
      /\ requests' = requests \ {r} /\ r.stage = "asked" /\ Hears(r)
      /\ r.window \in DOMAIN win
      /\ UNCHANGED <<stored, sent>>
      /\ refused \subseteq refused'
      /\ a.retry => r.question.text \in refused'
  BY <1>1, GivingBackFits
<1>3. d.id = a.id /\ d.text = a.text /\ d.edit = a.edit /\ d.retry = a.retry
  BY <1>1
<1>4. GaveBack(r, d)
  BY <1>2, <1>3 DEF GaveBack
<1> QED
  BY <1>2, <1>4

LEMMA GaveBackReads ==
  ASSUME NEW r \in requests, NEW d, GaveBack(r, d), NEW v \in DOMAIN win',
         NEW id, NEW t
  PROVE  /\ Reads(win'[v].page, id, t) =>
              \/ v # r.window /\ Reads(win[v].page, id, t)
              \/ Reads(BeforeOf(win[v]), id, t)
         /\ Reads(BeforeOf(win'[v]), id, t) => Reads(BeforeOf(win[v]), id, t)
<1>1. CASE v # r.window
  BY <1>1 DEF GaveBack
<1>2. CASE v = r.window
  BY <1>2, EmptyPage DEF GaveBack, BeforeOf
<1> QED
  BY <1>1, <1>2

LEMMA GaveBackSeen ==
  ASSUME NEW r \in requests, NEW d, GaveBack(r, d), NEW id, NEW t, Seen(id, t)'
  PROVE  SeenElsewhere(id, t, r) /\ Seen(id, t)
<1> SUFFICES SeenElsewhere(id, t, r)
  BY DEF Seen, SeenElsewhere
<1>0. DOMAIN win' = DOMAIN win /\ stored' = stored /\ requests' = requests \ {r}
  BY DEF GaveBack
<1>1. CASE \E c \in Chats : Reads(stored'[c], id, t)
  BY <1>0, <1>1 DEF SeenElsewhere
<1>2. CASE \E v \in DOMAIN win' : \/ Reads(win'[v].page, id, t)
                                  \/ Reads(BeforeOf(win'[v]), id, t)
  BY <1>0, <1>2, GaveBackReads DEF SeenElsewhere
<1>3. CASE \E s \in requests' : s.question.id = id /\ s.question.text = t
  BY <1>0, <1>3 DEF SeenElsewhere
<1> QED
  BY <1>1, <1>2, <1>3 DEF Seen, BeforeOf

LEMMA GaveBackTries ==
  ASSUME TurnsInv, NEW r \in requests, NEW d, GaveBack(r, d),
         NEW s \in requests', Tries(s)'
  PROVE  /\ s \in requests /\ s # r /\ Tries(s)
         /\ win'[s.window].attempt = win[s.window].attempt
         /\ \A id, t : SeenElsewhere(id, t, s)' => SeenElsewhere(id, t, s)
<1>0. DOMAIN win' = DOMAIN win /\ stored' = stored /\ requests' = requests \ {r}
  BY DEF GaveBack
<1>1. /\ s \in requests /\ s # r /\ s.window \in DOMAIN win
      /\ s.n \in Nat /\ s.n >= 1
  BY <1>0, RequestNumbers DEF TurnsInv, RequestsFit, RequestFits
<1>2. s.window # r.window
  <2>1. win'[s.window].request = s.n /\ win'[r.window].request = 0
    BY DEF Tries, Hears, GaveBack
  <2> QED
    BY <1>1, <2>1
<1>3. win'[s.window] = win[s.window]
  BY <1>1, <1>2 DEF GaveBack
<1>4. Tries(s)
  BY <1>3 DEF Tries, Hears
<1>5. ASSUME NEW id, NEW t, SeenElsewhere(id, t, s)'
      PROVE  SeenElsewhere(id, t, s)
  <2>1. CASE \E c \in Chats : Reads(stored'[c], id, t)
    BY <1>0, <2>1 DEF SeenElsewhere
  <2>2. CASE \E v \in DOMAIN win' : \/ v # s.window /\ Reads(win'[v].page, id, t)
                                    \/ Reads(BeforeOf(win'[v]), id, t)
    BY <1>0, <2>2, GaveBackReads DEF SeenElsewhere
  <2>3. CASE \E x \in requests' : x # s /\ x.question.id = id /\ x.question.text = t
    BY <1>0, <2>3 DEF SeenElsewhere
  <2> QED
    BY <1>5, <2>1, <2>2, <2>3 DEF SeenElsewhere, BeforeOf
<1> QED
  BY <1>1, <1>3, <1>4, <1>5

LEMMA GaveBackOnce ==
  ASSUME OnceInv, TurnsInv', NEW r \in requests, NEW d, GaveBack(r, d)
  PROVE  OnceInv'
<1>1. /\ TurnsInv /\ IdsAreKnown /\ TriesUnkept /\ DraftsUnkept
      /\ \A t \in Texts \ refused : AskedOnce(t)
      /\ r.window \in DOMAIN win /\ DOMAIN win' = DOMAIN win
      /\ d.id = r.question.id /\ d.text = r.question.text
      /\ sent' = sent /\ refused \subseteq refused'
      /\ d.retry => d.text \in refused'
  BY DEF OnceInv, GaveBack
<1>2. \A id, t : Seen(id, t)' => Seen(id, t) /\ SeenElsewhere(id, t, r)
  BY GaveBackSeen
<1>3. \A v \in DOMAIN win' : \A e \in win'[v].drafts :
        e \in win[v].drafts \/ (v = r.window /\ e = d)
  BY <1>1 DEF GaveBack
<1>4. Seen(d.id, d.text)
  BY <1>1 DEF Seen
<1>5. ~d.retry =>
        /\ ~Seen(d.id, d.text)'
        /\ ~d.edit => \A t : ~Seen(d.id, t)'
        /\ \A v \in DOMAIN win : \A e \in win[v].drafts :
             ~(e.edit /\ e.id = d.id /\ e.text = d.text)
  <2>1. SUFFICES ASSUME ~d.retry
                 PROVE  /\ ~Seen(d.id, d.text)'
                        /\ ~d.edit => \A t : ~Seen(d.id, t)'
                        /\ \A v \in DOMAIN win : \A e \in win[v].drafts :
                             ~(e.edit /\ e.id = d.id /\ e.text = d.text)
    OBVIOUS
  <2>2. Tries(r) /\ d.edit = win[r.window].attempt.edit
    BY <2>1 DEF GaveBack, Tries
  <2>3. TryUnkept(r)
    BY <1>1, <2>2 DEF TriesUnkept
  <2> QED
    BY <1>1, <1>2, <2>2, <2>3 DEF TryUnkept
<1>6. IdsAreKnown'
  BY <1>1, <1>2, <1>3, <1>4 DEF IdsAreKnown
<1>7. TriesUnkept'
  <2>1. SUFFICES ASSUME NEW s \in requests', Tries(s)' PROVE TryUnkept(s)'
    BY DEF TriesUnkept
  <2>2. /\ s \in requests /\ s # r /\ Tries(s)
        /\ win'[s.window].attempt = win[s.window].attempt
        /\ \A id, t : SeenElsewhere(id, t, s)' => SeenElsewhere(id, t, s)
    BY <1>1, <2>1, GaveBackTries
  <2>3. TryUnkept(s)
    BY <1>1, <2>2 DEF TriesUnkept
  <2>4. SeenElsewhere(d.id, d.text, s)
    BY <1>1, <2>2 DEF SeenElsewhere
  <2>5. /\ ~(d.id = s.question.id /\ d.text = s.question.text)
        /\ ~win[s.window].attempt.edit => d.id # s.question.id
    BY <2>3, <2>4 DEF TryUnkept
  <2> QED
    BY <1>1, <1>3, <2>2, <2>3, <2>5 DEF TryUnkept
<1>8. DraftsUnkept'
  <2>1. ASSUME NEW v \in DOMAIN win', NEW e \in win'[v].drafts, ~e.retry
        PROVE  /\ ~Seen(e.id, e.text)'
               /\ ~e.edit => \A t : ~Seen(e.id, t)'
               /\ e.edit => \A u \in DOMAIN win' : \A f \in win'[u].drafts :
                    f.edit /\ f.id = e.id /\ f.text = e.text => u = v
    <3>1. CASE e \in win[v].drafts
      <4>1. /\ ~Seen(e.id, e.text)
            /\ ~e.edit => \A t : ~Seen(e.id, t)
            /\ e.edit => \A u \in DOMAIN win : \A f \in win[u].drafts :
                 f.edit /\ f.id = e.id /\ f.text = e.text => u = v
        BY <1>1, <2>1, <3>1 DEF DraftsUnkept
      <4>2. ~(d.id = e.id /\ d.text = e.text)
        BY <1>4, <4>1
      <4> QED
        BY <1>1, <1>2, <1>3, <4>1, <4>2
    <3>2. CASE v = r.window /\ e = d
      BY <1>1, <1>3, <1>5, <2>1, <3>2
    <3> QED
      BY <1>3, <3>1, <3>2
  <2> QED
    BY <2>1 DEF DraftsUnkept
<1>9. \A t \in Texts \ refused' : AskedOnce(t)'
  <2>1. SUFFICES ASSUME NEW t \in Texts \ refused' PROVE AskedOnce(t)'
    OBVIOUS
  <2>2. AskedOnce(t)
    BY <1>1
  <2>3. \A a, b : Seen(a, t)' /\ Seen(b, t)' => a = b
    BY <1>2, <2>2 DEF AskedOnce
  <2>4. CASE d.text # t
    <3>1. \A v \in DOMAIN win' : \A e \in win'[v].drafts : e.text = t => e \in win[v].drafts
      BY <1>3, <2>4
    <3> QED
      BY <1>1, <1>2, <2>2, <2>3, <3>1 DEF AskedOnce
  <2>5. CASE d.text = t
    <3>1. \A v \in DOMAIN win : \A e \in win[v].drafts : e.text # t
      BY <1>4, <2>2, <2>5 DEF AskedOnce
    <3>2. ~d.retry
      BY <1>1, <2>1, <2>5
    <3>3. \A a : ~Seen(a, t)'
      BY <1>2, <1>4, <1>5, <2>2, <2>5, <3>2 DEF AskedOnce
    <3>4. \A v \in DOMAIN win' : \A e \in win'[v].drafts :
            e.text = t => v = r.window /\ e = d
      BY <1>1, <1>3, <3>1
    <3> QED
      BY <2>3, <3>2, <3>3, <3>4 DEF AskedOnce
  <2> QED
    BY <2>4, <2>5
<1> QED
  BY <1>6, <1>7, <1>8, <1>9 DEF OnceInv

-----------------------------------------------------------------------------
(* What is asked again, and what is given back.                             *)

LEMMA OnceStep ==
  ASSUME OnceInv, [Next]_vars
  PROVE  OnceInv'
<1>0. TurnsInv /\ TurnsInv'
  BY TurnsStep DEF OnceInv
<1>1. CASE UNCHANGED vars
  <2>1. WindowsMove
    BY <1>0, <1>1, WindowsStay DEF vars, TurnsInv
  <2>2. CalmStep
    BY <1>0, <1>1, <2>1, WindowStep DEF vars, TurnsInv, TypeOK
  <2> QED
    BY <1>0, <2>2, CalmOnce DEF CalmStep
<1>2. CASE CalmStep
  BY <1>0, <1>2, CalmOnce DEF CalmStep
<1>3. ASSUME NEW w \in DOMAIN win, Regenerate(w) PROVE OnceInv'
  BY <1>3, RegenerateOnce
<1>4. ASSUME NEW w \in DOMAIN win, NEW t \in Texts, Ask(w, t) \/ AskAgain(w, t)
      PROVE  OnceInv'
  BY <1>4, AskOnce
<1>5. ASSUME NEW w \in DOMAIN win, NEW t \in Texts, NEW i \in DOMAIN win[w].page,
             ResendEdit(w, i, t)
      PROVE  OnceInv'
  BY <1>5, EditOnce
<1>6. ASSUME NEW r \in requests, Refuse(r) \/ SaveRefused(r),
             win[r.window].attempt # None
      PROVE  OnceInv'
  BY <1>0, <1>6, GivingBack, GaveBackOnce
<1> QED
  BY <1>0, <1>1, <1>2, <1>3, <1>4, <1>5, <1>6, CalmActions

\* A question has one id for as long as its retry was not refused, and what
\* was given back or may yet be is nowhere but there.
THEOREM AskedAndGivenBackOnce == Spec => []OnceInv
<1>1. OnceInv /\ [Next]_vars => OnceInv'
  BY OnceStep
<1> QED
  BY <1>1, OnceInit, PTL DEF Spec

\* What the composer or the inline editor was given back is not kept in its
\* conversation, unless it was the retry of a question that may have been.
THEOREM OnlyUnkeptIsGivenBack == Spec => []GivenBackOnlyIfNotKept
<1>1. ASSUME OnceInv PROVE GivenBackOnlyIfNotKept
  <2>1. SUFFICES ASSUME NEW w \in DOMAIN win, NEW d \in win[w].drafts, ~d.retry,
                        NEW i \in DOMAIN stored[d.chat],
                        Key(stored[d.chat][i]) = <<"user", d.id>>,
                        stored[d.chat][i].text = d.text
                 PROVE  FALSE
    BY DEF GivenBackOnlyIfNotKept
  <2>2. d.chat \in Chats
    BY <1>1, PageTypes DEF OnceInv, Draft
  <2>3. Reads(stored[d.chat], d.id, d.text)
    BY <2>1 DEF Reads, Key
  <2> QED
    BY <1>1, <2>1, <2>2, <2>3 DEF OnceInv, DraftsUnkept, Seen
<1> QED
  BY <1>1, AskedAndGivenBackOnce, PTL

\* No transcript holds the same question twice, in a window or between
\* windows, but one whose retry was refused.
THEOREM OnlyRefusedRetriesAskTwice == Spec => []AskedTwiceOnlyAfterRefusedRetry
<1>1. ASSUME OnceInv PROVE AskedTwiceOnlyAfterRefusedRetry
  <2>1. SUFFICES ASSUME NEW c \in Chats,
                        NEW i \in Questions(stored[c]), NEW j \in Questions(stored[c]),
                        i # j, stored[c][i].text = stored[c][j].text,
                        stored[c][i].text \notin refused
                 PROVE  FALSE
    BY DEF AskedTwiceOnlyAfterRefusedRetry
  <2>2. /\ i \in DOMAIN stored[c] /\ j \in DOMAIN stored[c]
        /\ stored[c][i].role = "user" /\ stored[c][j].role = "user"
        /\ stored[c] \in Seq(StoredRow) /\ TranscriptFits(stored[c], c, saves)
    BY <1>1, StoredTypes DEF OnceInv, Questions
  <2>3. stored[c][i].text \in Texts
    BY <2>2, RowsAreRows DEF StoredRow
  <2>4. Seen(stored[c][i].id, stored[c][i].text) /\ Seen(stored[c][j].id, stored[c][i].text)
    BY <2>1, <2>2 DEF Seen, Reads
  <2>5. stored[c][i].id = stored[c][j].id
    BY <1>1, <2>1, <2>3, <2>4 DEF OnceInv, AskedOnce
  <2>6. Key(stored[c][i]) = Key(stored[c][j])
    BY <2>2, <2>5 DEF Key
  <2> QED
    BY <2>1, <2>2, <2>6 DEF TranscriptFits
<1> QED
  BY <1>1, AskedAndGivenBackOnce, PTL

=============================================================================
