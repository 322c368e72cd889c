---------------------------- MODULE PrimoTurns ----------------------------
(***************************************************************************)
(* Questions asked of Primo in several windows of one user: the provider   *)
(* of each window (components/primo/primo-provider.tsx), the chat route    *)
(* (app/api/primo/chat/route.ts) and the transcripts the API keeps         *)
(* (primo-save-turn, primo-delete-conversation).                           *)
(*                                                                         *)
(* A question is its id and its text; attachments and mentions are left    *)
(* out, a title is only the moment it comes, and an answer is the question *)
(* it was made for, as it read then.  A route request asks, saves its question, streams and saves its  *)
(* answer, whether or not the page that sent it still listens.  The AI SDK *)
(* is modelled by what the provider relies on: a message sent again        *)
(* replaces its row and drops the rows after it, regenerate drops the last *)
(* answer, and stop ends the page's part in the request at once.           *)
(***************************************************************************)
EXTENDS Naturals, Sequences, FiniteSets

CONSTANTS
    Windows,        \* browser windows of one user
    Chats,          \* conversation ids the windows can mint
    Texts,          \* what the user has to ask, each once
    None,           \* null
    MaxRequests,    \* bound: requests made of the chat route
    MaxExtra,       \* bound: failures, and conversations chosen, started,
                    \* deleted or loaded again, together
    MaxTogether     \* bound: those and the requests, together

ASSUME PrimoAssumption ==
    /\ None \notin Chats
    /\ {MaxRequests, MaxExtra, MaxTogether} \subseteq Nat

VARIABLES
    stored,     \* each conversation's rows, oldest first; none before its first
    win,        \* the provider of each open window
    requests,   \* requests the route is working on
    minted,     \* conversation ids in use
    sent,       \* requests made so far
    saves,      \* questions saved so far: each save is a generation
    extra,      \* failures and moves so far
    refused     \* history: texts whose retry was refused

vars ==
    <<stored, win, requests, minted, sent, saves, extra, refused>>

Id == 1..MaxRequests
Message ==
    [role : {"user", "assistant"}, chat : Chats, id : Id, text : Texts]
StoredRow ==
    [role : {"user", "assistant"}, chat : Chats, id : Id, text : Texts, gen : Nat]
Key(row) == <<row.role, row.id>>

\* An answer's id is a digest of its question's: one answer to a question.
AnswerTo(row) == [row EXCEPT !.role = "assistant"]
PageRow(row) ==
    [role |-> row.role, chat |-> row.chat, id |-> row.id, text |-> row.text]

\* Where a row with the key of r stands in s, 0 when it does not.
Place(s, key) ==
    IF \E i \in DOMAIN s : Key(s[i]) = key
    THEN CHOOSE i \in DOMAIN s : Key(s[i]) = key ELSE 0
Upsert(s, row) ==
    IF Place(s, Key(row)) = 0 THEN Append(s, row)
    ELSE [s EXCEPT ![Place(s, Key(row))] = row]

\* The last question of a page or of a conversation.
Questions(s) == {i \in DOMAIN s : s[i].role = "user"}
LastQuestion(s) == s[CHOOSE i \in Questions(s) : \A j \in Questions(s) : j <= i]

---------------------------------------------------------------------------
(* A window's provider.                                                    *)

Draft == [chat : Chats, id : Id, text : Texts, edit : BOOLEAN, retry : BOOLEAN]
Attempt ==
    [id : Id, text : Texts, edit : BOOLEAN, retry : BOOLEAN, before : Seq(Message)]
Provider ==
    [chat : Chats, page : Seq(Message), status : {"ready", "busy", "error"},
     request : 0..MaxRequests, attempt : Attempt \cup {None},
     loading : BOOLEAN, failed : BOOLEAN, stale : SUBSET Chats,
     fresh : SUBSET Chats, unsent : Chats \cup {None}, remembered : Chats \cup {None},
     drafts : SUBSET Draft]

\* A tab that opens without a link starts a conversation of its own.
Opened(c) ==
    [chat |-> c, page |-> <<>>, status |-> "ready", request |-> 0,
     attempt |-> None, loading |-> FALSE, failed |-> FALSE, stale |-> {},
     fresh |-> {c}, unsent |-> c, remembered |-> None, drafts |-> {}]

\* newChat, and the effect that follows it: nothing to load.
Started(p, c) ==
    [p EXCEPT !.chat = c, !.page = <<>>, !.status = "ready", !.request = 0,
              !.attempt = None, !.loading = FALSE, !.failed = FALSE,
              !.stale = IF p.loading THEN @ \cup {p.chat} ELSE @,
              !.fresh = @ \cup {c}, !.unsent = c]

\* The load effect: stop, clear the page, ask for the conversation.
Loading(p, c) ==
    [p EXCEPT !.chat = c, !.page = <<>>, !.status = "ready", !.request = 0,
              !.attempt = None, !.loading = TRUE, !.failed = FALSE,
              !.stale = IF p.loading THEN @ \cup {p.chat} ELSE @]

\* A chosen conversation that the provider takes for a new one of its own: the
\* effect returns at once, and the rows and the load error on the page stay.
\* (The part of an answer streamed by then stays too: Stop, then this step.)
Kept(p, c) ==
    [p EXCEPT !.chat = c, !.status = "ready", !.request = 0, !.attempt = None,
              !.loading = FALSE, !.unsent = c,
              !.stale = IF p.loading THEN @ \cup {p.chat} ELSE @]

\* What a response that is an error leaves: a definite rejection gives the
\* text back, anything else leaves the turn in place for a retry.
Failed(p, state) ==
    IF p.attempt # None /\ state = "rejected"
    THEN [p EXCEPT
            !.page = p.attempt.before, !.status = "ready",
            !.request = 0, !.attempt = None,
            !.drafts = @ \cup {[chat |-> p.chat, id |-> p.attempt.id,
                                text |-> p.attempt.text, edit |-> p.attempt.edit,
                                retry |-> p.attempt.retry]}]
    ELSE [p EXCEPT !.status = "error", !.request = 0, !.attempt = None]

\* A tab that opens with a link to a conversation (/?c=) loads it.
Linked(c) ==
    [Opened(c) EXCEPT !.loading = TRUE, !.fresh = {}, !.unsent = None,
                      !.remembered = c]

Hears(r) == win[r.window].request = r.n
HearsFailure(r, state) ==
    Hears(r) /\ win' = [win EXCEPT ![r.window] = Failed(@, state)]
\* A retry of a turn left in place that is now refused.
RetryRefused(r) ==
    refused' = IF win[r.window].attempt # None /\ win[r.window].attempt.retry
               THEN refused \cup {r.question.text} ELSE refused
Extra ==
    /\ extra < MaxExtra /\ sent + extra < MaxTogether
    /\ extra' = extra + 1

---------------------------------------------------------------------------
(* Asking.                                                                 *)

Request ==
    [n : Id, window : Windows, question : Message,
     edit : [text : Texts, last : {"user", "assistant"} \X Id] \cup {None},
     gen : Nat, stage : {"asked", "kept"}]

Posted(w, page, q, edit, attempt, drafts, fresh) ==
    /\ sent < MaxRequests /\ sent + extra < MaxTogether
    /\ sent' = sent + 1
    /\ requests' = requests \cup
         {[n |-> sent + 1, window |-> w, question |-> q, edit |-> edit,
           gen |-> 0, stage |-> "asked"]}
    /\ win' = [win EXCEPT ![w] =
         [win[w] EXCEPT !.page = page, !.status = "busy", !.request = sent + 1,
                        !.attempt = attempt, !.fresh = fresh,
                        !.drafts = drafts]]
    /\ UNCHANGED <<stored, minted, saves, extra, refused>>

\* send refuses while the conversation loads, failed to, or is being answered.
Free(p) == p.status # "busy" /\ ~p.loading /\ ~p.failed

\* A question the page shows failed, which its user may ask again.
LeftInPlace(p, t) ==
    /\ p.status = "error" /\ Questions(p.page) # {}
    /\ LastQuestion(p.page).text = t

\* Mutant: asking again mints an id.
IsRetryNever(p, t) == FALSE

\* A row sent again is asked in the selected conversation, whatever
\* conversation it was loaded from.
Here(p, row) == [row EXCEPT !.chat = p.chat]

\* Asked again in its own words, it keeps its id (retryId).
IsRetry(p, t) == LeftInPlace(p, t)

UpTo(page, q) == Append(SubSeq(page, 1, Place(page, Key(q)) - 1), q)

Send(w, t) ==
    LET p     == win[w]
        retry == IsRetry(p, t)
        q     == IF retry THEN Here(p, LastQuestion(p.page))
                 ELSE [role |-> "user", chat |-> p.chat, id |-> sent + 1, text |-> t]
    IN  /\ Free(p)
        /\ Posted(w, IF retry THEN UpTo(p.page, q) ELSE Append(p.page, q), q, None,
                  [id |-> q.id, text |-> t, edit |-> FALSE, retry |-> retry,
                   before |-> p.page],
                  {d \in p.drafts : d.chat # p.chat \/ d.edit},
                  p.fresh \ {p.chat})

\* Texts are asked once: again only while the page shows the question failed
\* or the composer was given it back.
Unasked(t) ==
    /\ \A c \in Chats : \A i \in DOMAIN stored[c] : stored[c][i].text # t
    /\ \A w \in DOMAIN win :
         /\ \A i \in DOMAIN win[w].page : win[w].page[i].text # t
         /\ win[w].attempt # None =>
              \A i \in DOMAIN win[w].attempt.before :
                win[w].attempt.before[i].text # t
         /\ \A d \in win[w].drafts : d.text # t
    /\ \A r \in requests : r.question.text # t

Ask(w, t) == Unasked(t) /\ Send(w, t)
AskAgain(w, t) ==
    /\ \/ LeftInPlace(win[w], t)
       \/ \E d \in win[w].drafts :
            d.chat = win[w].chat /\ ~d.edit /\ d.text = t
    /\ Send(w, t)

\* Save and resend of a question on the page, which drops what follows it.
ResendEdit(w, i, t) ==
    LET p == win[w]
        q == [Here(p, p.page[i]) EXCEPT !.text = t]
    IN  /\ Free(p) /\ i \in Questions(p.page)
        /\ Unasked(t) \/ \E d \in p.drafts : d.edit /\ d.id = q.id /\ d.text = t
        /\ Posted(w, UpTo(p.page, q), q,
                  [text |-> p.page[i].text, last |-> Key(p.page[Len(p.page)])],
                  [id |-> q.id, text |-> t, edit |-> TRUE, retry |-> FALSE,
                   before |-> p.page],
                  {d \in p.drafts : ~(d.edit /\ d.id = q.id)},
                  p.fresh \ {p.chat})

\* Retry under a failed question, or Regenerate under the last answer: the
\* SDK's own, without the provider's delivery cell or its send.
Regenerate(w) ==
    LET p == win[w]
        q == Here(p, LastQuestion(p.page))
    IN  /\ Free(p) /\ p.page # <<>>
        /\ p.status = "error" \/ p.page[Len(p.page)].role = "assistant"
        /\ Posted(w, UpTo(p.page, q), q, None, None, p.drafts, p.fresh)

\* The page with the part of its answer that came before w stopped hearing.
Heard(w, streamed) ==
    LET p == win[w]
    IN  IF streamed
        THEN [p EXCEPT !.page = Append(@, AnswerTo(LastQuestion(p.page)))] ELSE p
MayHaveStreamed(w) == \E r \in requests : r.n = win[w].request /\ r.stage = "kept"

Stop(w, streamed) ==
    /\ win[w].status = "busy"
    /\ streamed => MayHaveStreamed(w)
    /\ win' = [win EXCEPT ![w] =
                 [Heard(w, streamed) EXCEPT !.status = "ready", !.request = 0,
                                            !.attempt = None]]
    /\ UNCHANGED <<stored, requests, minted, sent, saves, extra, refused>>

---------------------------------------------------------------------------
(* The chat route and the transcript.                                      *)

\* A request lost on its way is one that takes no step, and so is one that
\* fails once nobody hears it: only the failures a page hears are steps.

\* Refused before the transcript is touched: no session, no plan, a bad body.
Refuse(r) ==
    /\ r.stage = "asked" /\ Extra
    /\ requests' = requests \ {r} /\ HearsFailure(r, "rejected") /\ RetryRefused(r)
    /\ UNCHANGED <<stored, minted, sent, saves>>

\* Mutant: a question saved again may read otherwise.
ConflictsOfEditOnly(s, r) ==
    LET i == Place(s, Key(r.question))
    IN  /\ r.edit # None
        /\ ~(i # 0 /\ s[i].text = r.edit.text /\ Key(s[Len(s)]) = r.edit.last)

\* An edit must name the page's last row and the text it replaces; a question
\* saved again must still read as it did.
Conflicts(s, r) ==
    LET i == Place(s, Key(r.question))
    IN  IF r.edit # None
        THEN ~(i # 0 /\ s[i].text = r.edit.text /\ Key(s[Len(s)]) = r.edit.last)
        ELSE i # 0 /\ s[i].text # r.question.text

SavedQuestion(s, r) ==
    LET row == [role |-> "user", chat |-> r.question.chat, id |-> r.question.id,
                text |-> r.question.text, gen |-> saves + 1]
    IN  IF r.edit # None THEN UpTo(s, row) ELSE Upsert(s, row)

Keep(r) ==
    LET c == r.question.chat
    IN  /\ ~Conflicts(stored[c], r)
        /\ stored' = [stored EXCEPT ![c] = SavedQuestion(@, r)]
        /\ saves' = saves + 1

Save(r) ==
    /\ r.stage = "asked" /\ Keep(r)
    /\ requests' = (requests \ {r}) \cup
                     {[r EXCEPT !.stage = "kept", !.gen = saves + 1]}
    /\ UNCHANGED <<win, minted, sent, extra, refused>>

SaveRefused(r) ==
    /\ r.stage = "asked" /\ Conflicts(stored[r.question.chat], r)
    /\ requests' = requests \ {r} /\ HearsFailure(r, "rejected") /\ RetryRefused(r)
    /\ UNCHANGED <<stored, minted, sent, saves, extra>>

\* The API's answer to the save never reaches the route: a 502.
SaveUnheard(r) ==
    /\ r.stage = "asked" /\ Extra /\ Keep(r)
    /\ requests' = requests \ {r} /\ HearsFailure(r, "unknown")
    /\ UNCHANGED <<minted, sent, refused>>

\* Mutant: the error does not carry the acknowledgement.
RefusalUnacknowledged == "rejected"

\* Saved, but generation cannot start: an error that says it was accepted.
Refusal == "accepted"
Unavailable(r) ==
    /\ r.stage = "kept" /\ Extra
    /\ requests' = requests \ {r} /\ HearsFailure(r, Refusal)
    /\ UNCHANGED <<stored, minted, sent, saves, refused>>

\* Mutant: any answer to the last question is taken.
SupersededByQuestion(s, r) ==
    Questions(s) = {} \/ LastQuestion(s).id # r.question.id

\* The answer of a generation that is no longer its conversation's last.
Superseded(s, r) ==
    \/ Questions(s) = {}
    \/ LastQuestion(s).id # r.question.id
    \/ LastQuestion(s).gen # r.gen

Answered(s, r) ==
    Upsert(s, [role |-> "assistant", chat |-> r.question.chat,
               id |-> r.question.id, text |-> r.question.text, gen |-> r.gen])

\* The title of a conversation comes with the stream of an answer.
Titled(r) ==
    /\ r.stage = "kept" /\ Hears(r)
    /\ win' = [win EXCEPT ![r.window].fresh = @ \ {r.question.chat}]
    /\ UNCHANGED <<stored, requests, minted, sent, saves, extra, refused>>

\* The stream ends, well or not, and the route saves what there is of the
\* answer, or logs that it could not; then the page hears the end.
Ended(p, r, well) ==
    LET q == [p EXCEPT !.page = Append(@, AnswerTo(r.question))]
    IN  IF well THEN [q EXCEPT !.status = "ready", !.request = 0, !.attempt = None]
        ELSE Failed(q, "accepted")

Reply(r, well, saved) ==
    LET c == r.question.chat
    IN  /\ r.stage = "kept"
        /\ saved \/ Hears(r)
        /\ IF well /\ saved THEN UNCHANGED extra ELSE Extra
        /\ stored' = IF saved /\ ~Superseded(stored[c], r)
                     THEN [stored EXCEPT ![c] = Answered(@, r)] ELSE stored
        /\ requests' = requests \ {r}
        /\ win' = IF Hears(r)
                  THEN [win EXCEPT ![r.window] = Ended(@, r, well)] ELSE win
        /\ UNCHANGED <<minted, sent, saves, refused>>

\* The connection breaks at any moment of the request, which goes on.
Disconnect(w, streamed) ==
    /\ win[w].status = "busy" /\ Extra
    /\ streamed => MayHaveStreamed(w)
    /\ win' = [win EXCEPT ![w] = Failed(Heard(w, streamed), "unknown")]
    /\ UNCHANGED <<stored, requests, minted, sent, saves, refused>>

---------------------------------------------------------------------------
(* Choosing, loading and deleting conversations.                           *)

Opening(w, p) == [v \in DOMAIN win \cup {w} |-> IF v = w THEN p ELSE win[v]]

Open(w) ==
    /\ w \notin DOMAIN win
    /\ \/ \E c \in Chats \ minted :
            /\ minted' = minted \cup {c}
            /\ win' = Opening(w, Opened(c))
       \/ \E c \in Chats :
            /\ stored[c] # <<>>
            /\ win' = Opening(w, Linked(c))
            /\ UNCHANGED minted
    /\ UNCHANGED <<stored, requests, sent, saves, extra, refused>>

NewChat(w, c) ==
    /\ c \notin minted /\ Extra
    /\ minted' = minted \cup {c}
    /\ win' = [win EXCEPT ![w] = Started(@, c)]
    /\ UNCHANGED <<stored, requests, sent, saves, refused>>

Chosen(p, c) == IF c \in p.fresh THEN Kept(p, c) ELSE Loading(p, c)

Select(w, c) ==
    /\ stored[c] # <<>> /\ c # win[w].chat /\ Extra
    /\ win' = [win EXCEPT ![w] = Chosen(@, c)]
    /\ UNCHANGED <<stored, requests, minted, sent, saves, refused>>

\* The answer to the load the page waits for.  A conversation that is not
\* there is the tab's own unsent one, or one it remembered and now forgets.
Loaded(p) ==
    [p EXCEPT !.loading = FALSE,
              !.page = [i \in DOMAIN stored[p.chat] |-> PageRow(stored[p.chat][i])],
              !.unsent = IF @ = p.chat THEN None ELSE @]

Load(w) ==
    LET p == win[w]
    IN  /\ p.loading
        /\ \/ /\ stored[p.chat] # <<>>
              /\ win' = [win EXCEPT ![w] = Loaded(@)]
              /\ UNCHANGED minted
           \/ /\ stored[p.chat] = <<>> /\ p.unsent = p.chat
              /\ win' = [win EXCEPT ![w] =
                           [p EXCEPT !.loading = FALSE, !.fresh = @ \cup {p.chat}]]
              /\ UNCHANGED minted
           \/ /\ stored[p.chat] = <<>> /\ p.unsent # p.chat /\ p.remembered = p.chat
              /\ \E c \in Chats \ minted :
                   /\ minted' = minted \cup {c}
                   /\ win' = [win EXCEPT ![w] =
                       [Started([p EXCEPT !.loading = FALSE], c) EXCEPT
                          !.remembered = None]]
           \/ /\ stored[p.chat] = <<>> /\ p.unsent # p.chat /\ p.remembered # p.chat
              /\ win' = [win EXCEPT ![w] = [@ EXCEPT !.loading = FALSE, !.failed = TRUE]]
              /\ UNCHANGED minted
        /\ UNCHANGED <<stored, requests, sent, saves, extra, refused>>

LoadFails(w) ==
    /\ win[w].loading /\ Extra
    /\ win' = [win EXCEPT ![w] = [@ EXCEPT !.loading = FALSE, !.failed = TRUE]]
    /\ UNCHANGED <<stored, requests, minted, sent, saves, refused>>

\* Mutant: a late load is shown.
LateLoadShown(p, c) ==
    [p EXCEPT !.page = [i \in DOMAIN stored[c] |-> PageRow(stored[c][i])]]

\* The answer to a load of a conversation the page has since left.
LateLoad(p, c) == p
LoadLate(w, c) ==
    /\ c \in win[w].stale
    /\ win' = [win EXCEPT ![w] = [LateLoad(win[w], c) EXCEPT !.stale = @ \ {c}]]
    /\ UNCHANGED <<stored, requests, minted, sent, saves, extra, refused>>

\* The Retry under a load's error; of a conversation taken for new, nothing.
ReloadConversation(w) ==
    /\ win[w].failed /\ win[w].chat \notin win[w].fresh /\ Extra
    /\ win' = [win EXCEPT ![w] = Loading(@, win[w].chat)]
    /\ UNCHANGED <<stored, requests, minted, sent, saves, refused>>

\* The window itself is reloaded: session storage keeps its selection, its
\* unsent conversation and its composer drafts.
Reload(w) ==
    /\ Extra
    /\ win' = [win EXCEPT ![w] =
         [Loading(win[w], win[w].chat) EXCEPT
            !.stale = {}, !.fresh = {}, !.remembered = win[w].chat,
            !.drafts = {d \in @ : ~d.edit}]]
    /\ UNCHANGED <<stored, requests, minted, sent, saves, refused>>

Delete(w, c) ==
    /\ stored[c] # <<>> /\ Extra
    /\ stored' = [stored EXCEPT ![c] = <<>>]
    /\ IF c # win[w].chat THEN UNCHANGED <<win, minted>>
       ELSE \E d \in Chats \ minted :
              /\ minted' = minted \cup {d}
              /\ win' = [win EXCEPT ![w] = Started(@, d)]
    /\ UNCHANGED <<requests, sent, saves, refused>>

---------------------------------------------------------------------------
Init ==
    /\ stored = [c \in Chats |-> <<>>]
    /\ win = <<>> /\ minted = {}
    /\ requests = {} /\ refused = {}
    /\ sent = 0 /\ saves = 0 /\ extra = 0

Next ==
    \/ \E w \in Windows : Open(w)
    \/ \E w \in DOMAIN win :
         \/ \E t \in Texts :
              \/ Ask(w, t)
              \/ AskAgain(w, t)
              \/ \E i \in DOMAIN win[w].page : ResendEdit(w, i, t)
         \/ Regenerate(w)
         \/ \E streamed \in BOOLEAN : Stop(w, streamed) \/ Disconnect(w, streamed)
         \/ Load(w)
         \/ LoadFails(w)
         \/ ReloadConversation(w)
         \/ Reload(w)
         \/ \E c \in Chats :
              \/ NewChat(w, c)
              \/ Select(w, c)
              \/ LoadLate(w, c)
              \/ Delete(w, c)
    \/ \E r \in requests :
         \/ Refuse(r)
         \/ Save(r)
         \/ SaveRefused(r)
         \/ SaveUnheard(r)
         \/ Unavailable(r)
         \/ Titled(r)
         \/ \E well, saved \in BOOLEAN : Reply(r, well, saved)

Spec == Init /\ [][Next]_vars

---------------------------------------------------------------------------
(* Properties.                                                             *)

\* Every variable has its type.
TypeOK ==
    /\ stored \in [Chats -> Seq(StoredRow)]
    /\ DOMAIN win \subseteq Windows /\ win \in [DOMAIN win -> Provider]
    /\ requests \subseteq Request
    /\ minted \subseteq Chats /\ refused \subseteq Texts
    /\ sent \in 0..MaxRequests /\ extra \in 0..MaxExtra /\ saves \in Nat

\* primo-save-turn keeps a transcript a reader can trust: every stored answer
\* comes right after the question it answers, and was made for the words that
\* question has now, whatever edits, retries, other windows' questions and
\* deletions met its generation.
AnswersFollowTheirQuestion ==
    \A c \in Chats : \A i \in DOMAIN stored[c] :
        stored[c][i].role = "assistant" =>
            /\ i > 1
            /\ stored[c][i - 1].role = "user"
            /\ stored[c][i - 1].id = stored[c][i].id
            /\ stored[c][i - 1].text = stored[c][i].text

\* An answer that replaces another was asked for after it: a generation that
\* ends late never brings back what was regenerated since (CONTRACT.md:
\* "loading history does not resurrect the replaced answer").
AnswersNeverGoBack ==
    [][\A c \in Chats : \A i \in DOMAIN stored[c], j \in DOMAIN stored'[c] :
         (stored[c][i].role = "assistant" /\ Key(stored[c][i]) = Key(stored'[c][j]))
            => stored'[c][j].gen >= stored[c][i].gen]_vars

\* A question given back to the composer or the inline editor was not kept,
\* unless it was the retry of one that may have been ("Only a definite
\* rejection restores the composer").
GivenBackOnlyIfNotKept ==
    \A w \in DOMAIN win : \A d \in win[w].drafts :
        d.retry \/ \A i \in DOMAIN stored[d.chat] :
            ~(Key(stored[d.chat][i]) = <<"user", d.id>>
              /\ stored[d.chat][i].text = d.text)

\* A question is kept twice only when its retry was refused: the refusal
\* clears the error that makes asking again a retry.  That is for questions
\* nobody types anew while a request that asked them may still land (Unasked).
AskedTwiceOnlyAfterRefusedRetry ==
    \A c \in Chats : \A i, j \in Questions(stored[c]) :
        (i # j /\ stored[c][i].text = stored[c][j].text)
            => stored[c][i].text \in refused

\* A window shows rows of the conversation it has selected and no other.  The
\* code does not keep this (PrimoStray.cfg has the trace); what it does keep is
\* RowsStrayOnlyIntoFresh.
PageShowsItsChat ==
    \A w \in DOMAIN win : \A i \in DOMAIN win[w].page :
        win[w].page[i].chat = win[w].chat

\* Rows of another conversation on the page, or on the page a rejection would
\* put back.
Astray(p) ==
    \/ \E i \in DOMAIN p.page : p.page[i].chat # p.chat
    \/ p.attempt # None /\
         \E i \in DOMAIN p.attempt.before : p.attempt.before[i].chat # p.chat

\* Late loads and answers, rejections that put the page back, edits, retries
\* and new chats never bring rows of one conversation under another (CONTRACT.md:
\* "stale loads cannot replace the selected chat").  One step
\* does: choosing a stored conversation the provider still takes for new, as
\* after a reload that came before its first question was kept.
RowsStrayOnlyIntoFresh ==
    [][\A w \in DOMAIN win' : Astray(win'[w]) =>
         /\ w \in DOMAIN win
         /\ \/ Astray(win[w])
            \/ /\ win'[w].chat # win[w].chat
               /\ win'[w].chat \in win[w].fresh
               /\ stored[win'[w].chat] # <<>>]_vars

=============================================================================
