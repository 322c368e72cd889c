---------------------------- MODULE DocumentSave ----------------------------
(***************************************************************************)
(* Editor windows saving documents: the save queue, the document           *)
(* controller over it (useDocumentSave), the explicit form (useFormSave),  *)
(* the navigation guard, the recovery copies every window of one browser   *)
(* shares, and the server's versioned rows.                                *)
(*                                                                         *)
(* What is typed is an edit number; a form also has a shape ("half" holds  *)
(* a pair with one side missing, which a save leaves behind: the row then  *)
(* holds "part" of it; "invalid" fails the client's validation) and the    *)
(* line, which an editor's save restates as it was loaded and another      *)
(* screen's commit writes too.  A row is the sequence of what it has held: *)
(* its edit_version is one less than its length.  React renders after      *)
(* every step, so a step ends with the render's effects; only the queue's  *)
(* second save runs before one, with the closures of the render before it. *)
(***************************************************************************)
EXTENDS Naturals, Sequences, FiniteSets

CONSTANTS
    Windows,        \* browser windows of one user
    Rows,           \* record ids the server can give out
    Kinds,          \* kinds of document to start with
    Starts,         \* the row that exists and is open at the start, 0 for none
    None,           \* null
    MaxEdits,       \* bound: edits typed
    MaxExtra        \* bound: failures, pages loaded, and forms typed back or
                    \* saved as the row already holds them, together

ASSUME DocumentAssumption ==
    /\ Rows \subseteq Nat \ {0}
    /\ Starts \subseteq Rows \cup {0}
    /\ Kinds \subseteq {"recipe", "invoice", "menu", "form"}
    /\ None \notin Rows
    /\ {MaxEdits, MaxExtra} \subseteq Nat

VARIABLES
    kind,       \* the kind every window edits
    edits,      \* edits typed so far
    faults,     \* failures so far
    loads,      \* pages loaded so far
    repeats,    \* forms so far typed back, or saved as the row held them
    rows,       \* what each row has held, oldest first
    win,        \* each window's editor
    orphan,     \* a request whose page no longer hears its answer
    draft,      \* the browser's recovery copies, by slot
    created     \* history: rows created by the page each window shows

vars ==
    <<kind, edits, faults, loads, repeats, rows, win, orphan, draft, created>>

Shapes(k) == CASE k = "recipe" -> {"whole", "half"}
               [] OTHER        -> {"whole", "invalid"}
Form == [n : Nat, shape : {"whole", "half", "part", "invalid"}, line : Nat]
Blank == [n |-> 0, shape |-> "whole", line |-> 0]

\* A new form, which only a recipe can save before anything is typed.
Fresh(k) == IF k = "recipe" THEN Blank ELSE [Blank EXCEPT !.shape = "invalid"]

\* A save on its way: what it sends, the version it expects, and its answer.
Request ==
    [id : Rows \cup {0}, seen : Nat, form : Form, leaving : BOOLEAN,
     recovered : BOOLEAN,
     stage : {"sent", "landed", "stale"}, row : Rows \cup {0}, at : Nat]

ASSUME NoneAssumption == None \notin Request /\ None \notin Form

Editor ==
    [page : {"open", "moving", "closed"}, id : Rows \cup {0},
     url : Rows \cup {0}, form : Form, base : Form, version : Nat,
     pill : {"saved", "saving", "error", "conflict"},
     req : Request \cup {None}, queued : BOOLEAN,
     leave : {"no", "saving", "asking"}, owed : Nat,
     offered : Form \cup {None}, recovered : BOOLEAN,
     behind : BOOLEAN]

\* The loop of a page that is gone goes on: its request, and the save queued.
Orphan == [req : Request, next : Form \cup {None}, recovered : BOOLEAN]

\* draftKey: the row's id, or a uuid of the window's own before the first save.
Slots == Rows \cup Windows

Version(r) == Len(rows[r]) - 1
Held(r) == rows[r][Len(rows[r])]
Dirty(x) == x.form # x.base
Running(x) == x.req # None
Drafting == kind # "form"

\* Mutant: a recipe's save reads its id from the render.
ClosesOverEveryId == kind \in {"menu", "recipe"}

\* The rendered id goes stale inside the queue's loop for these editors; the
\* others keep it in a ref.
ClosesOverId == kind = "menu"

\* What the row keeps of a form: the save sends a half-typed pair not at all.
Stored(form) == IF form.shape = "half" THEN [form EXCEPT !.shape = "part"]
                ELSE form

TypeOK ==
    /\ kind \in Kinds
    /\ {edits, faults, loads, repeats} \subseteq Nat
    /\ rows \in [Rows -> Seq(Form)]
    /\ win \in [Windows -> Editor]
    /\ orphan \in [Windows -> Orphan \cup {None}]
    /\ draft \in [Slots -> Form \cup {None}]
    /\ created \in [Windows -> Nat]

-----------------------------------------------------------------------------
(* Pages.                                                                   *)

Closed ==
    [page |-> "closed", id |-> 0, url |-> 0, form |-> Blank, base |-> Blank,
     version |-> 0, pill |-> "saved", req |-> None, queued |-> FALSE,
     leave |-> "no", owed |-> 0, offered |-> None, recovered |-> FALSE,
     behind |-> FALSE]

\* The editor as its page mounts it: what the server holds, and the recovery
\* copy of its slot when that says something else.
Loaded(w, r) ==
    LET held == IF r = 0 THEN Fresh(kind) ELSE Held(r)
        copy == draft[IF r = 0 THEN w ELSE r]
    IN  [Closed EXCEPT !.page = "open", !.id = r, !.url = r,
                       !.form = held, !.base = held,
                       !.version = IF r = 0 THEN 0 ELSE Version(r),
                       !.offered = IF Drafting /\ copy # held THEN copy
                                   ELSE None]

MayHappen == faults + loads + repeats < MaxExtra

Slot(w, x) == IF x.id = 0 THEN w ELSE x.id

\* Mutant: the throttle also skips the first copy of a slot.
DirtyCopiesLate(moved, slot, form) == {[moved EXCEPT ![slot] = form], moved}

\* A dirty form is copied, at most once in five seconds while a copy is there.
DirtyCopies(moved, slot, form) ==
    {[moved EXCEPT ![slot] = form]} \cup
    (IF moved[slot] = None THEN {} ELSE {moved})

\* The effects after a render.  The copy under the old slot goes when the slot
\* moves; a clean saved form, with no copy on offer, has nothing to recover.
Copies(w, before, y) ==
    LET slot == Slot(w, y)
        moved == IF before = slot THEN draft
                 ELSE [draft EXCEPT ![before] = None]
    IN  IF ~Drafting \/ y.page = "closed" THEN {draft}
        ELSE IF Dirty(y)
        THEN DirtyCopies(moved, slot, y.form)
        ELSE IF y.pill = "saved" /\ y.offered = None
        THEN {[moved EXCEPT ![slot] = None]}
        ELSE {moved}

\* A created recipe's address is swapped in once nothing is unsaved.
Addressed(x) ==
    IF kind = "recipe" /\ x.id # 0 /\ ~Dirty(x) /\ x.pill = "saved"
    THEN [x EXCEPT !.url = x.id] ELSE x

\* One step of window w's editor: its new state, then the render's effects.
Becomes(w, x) ==
    LET y == Addressed(x)
    IN  /\ win' = [win EXCEPT ![w] = y]
        /\ draft' \in Copies(w, Slot(w, win[w]), y)

\* Window w mounts a page of its own.
Mounts(w, x) ==
    /\ win' = [win EXCEPT ![w] = x]
    /\ draft' \in Copies(w, Slot(w, x), x)

\* One window at a new document, or every window at the same record.
Opened(k, r) ==
    [Closed EXCEPT !.page = "open", !.id = r, !.url = r,
                   !.form = IF r = 0 THEN Fresh(k) ELSE Blank,
                   !.base = IF r = 0 THEN Fresh(k) ELSE Blank]

Init ==
    /\ kind \in Kinds
    /\ edits = 0
    /\ faults = 0
    /\ loads = 0
    /\ repeats = 0
    /\ \E r \in Starts :
          /\ rows = [s \in Rows |-> IF s = r THEN <<Blank>> ELSE <<>>]
          /\ \E first \in Windows :
                win = [w \in Windows |-> IF r # 0 \/ w = first
                                        THEN Opened(kind, r) ELSE Closed]
    /\ orphan = [w \in Windows |-> None]
    /\ draft = [s \in Slots |-> None]
    /\ created = [w \in Windows |-> 0]

-----------------------------------------------------------------------------
(* The queue's loop.                                                        *)

\* The loop ended: a save asked for by the navigation guard leaves when it
\* landed and asks when it did not.
Ended(x, ok) ==
    CASE x.leave # "saving" -> x
      [] x.leave = "saving" /\ ok -> Closed
      [] OTHER -> [x EXCEPT !.leave = "asking"]

\* run(): one save of the form as it is, sent for the record id.  Validation
\* stops it before the request and leaves the form a draft.
Sent(x, id, leaving) ==
    IF x.form.shape = "invalid"
    THEN Ended([x EXCEPT !.req = None, !.queued = FALSE,
                         !.pill = IF Drafting THEN "saved" ELSE @], FALSE)
    ELSE [x EXCEPT !.pill = "saving", !.queued = FALSE,
             !.req = [id |-> id, seen |-> x.version, form |-> x.form,
                      leaving |-> leaving, recovered |-> x.recovered,
                      stage |-> "sent", row |-> 0, at |-> 0]]

\* Mutant: a save asked for while one is on its way rides along.
RidesAlong(x) == FALSE

\* What is on the page differs from what is on its way.
OutranRequest(x) == x.form # x.req.form

\* saveNow().  A conflict is answered with itself; a form asked for again
\* while it is on its way rides along, a newer one queues one more save.
SaveAsked(x, leaving) ==
    CASE Drafting /\ x.pill = "conflict" -> Ended(x, FALSE)
      [] Drafting /\ x.pill # "conflict" /\ Running(x) ->
            [x EXCEPT !.queued = @ \/ OutranRequest(x)]
      [] ~Drafting /\ (Running(x) \/ (x.id # 0 /\ ~Dirty(x))) -> x
      [] OTHER -> Sent(x, x.id, leaving)

\* After an answer: the queued save, or the end of the loop.
Drained(x, ok, id) ==
    IF x.queued THEN Sent(x, id, x.leave = "saving")
    ELSE Ended([x EXCEPT !.req = None], ok)

\* Mutant: the baseline becomes what is on the page.
BaselineOfPage(x) == x.form

\* The baseline after a save: what was sent, unless the page now holds a
\* half-typed pair.
Baseline(x) == IF x.form.shape = "half" THEN x.base ELSE x.req.form

\* A save that landed.  A create that is not on its way out opens the record's
\* own page; a recipe stays where it is.
Landed(x) ==
    LET q == x.req
        creating == q.id = 0
        y == [x EXCEPT
                !.id = q.row,
                !.version = q.at,
                !.base = Baseline(x),
                !.behind = "half" \in {x.form.shape, q.form.shape},
                !.url = IF creating /\ (q.leaving \/ kind # "recipe")
                        THEN q.row ELSE @,
                !.page = IF creating /\ ~q.leaving /\ kind # "recipe"
                         THEN "moving" ELSE @,
                !.pill = "saved"]
    IN  Drained(y, TRUE, IF ClosesOverId THEN x.id ELSE q.row)

\* The server refused a stale version: the loop stops where it is.
Refused(x) ==
    Ended([x EXCEPT !.pill = "conflict", !.req = None, !.queued = FALSE], FALSE)

\* Any other failure: the form is not saved, and a queued save still runs.
Failed(x) == Drained([x EXCEPT !.pill = "error"], FALSE, x.id)

-----------------------------------------------------------------------------
(* What the cook does.                                                      *)

Here(w) == win[w].page # "closed"
Same == UNCHANGED <<kind, faults, loads, rows, orphan, created>>
OnlyHere == Same /\ UNCHANGED <<edits, repeats>>

\* The form says again what it said before; owed is what a save on the way out
\* still has to carry.
PutBack(x, form) ==
    [x EXCEPT !.form = form, !.owed = IF @ <= form.n THEN @ ELSE form.n]

\* A change to the form, or one typed back to what it was.
Type(w) ==
    /\ Here(w)
    /\ win[w].leave # "asking"
    /\ \/ /\ edits < MaxEdits
          /\ edits' = edits + 1
          /\ \E s \in Shapes(kind) :
                Becomes(w, [win[w] EXCEPT !.form.n = edits', !.form.shape = s])
          /\ UNCHANGED repeats
       \/ /\ Dirty(win[w])
          /\ edits' = edits
          /\ MayHappen
          /\ repeats' = repeats + 1
          /\ Becomes(w, PutBack(win[w], win[w].base))
    /\ Same

\* Bound: how often a save that its row already holds is sent against the
\* row's version.
Repeats(x) ==
    IF x.id # 0 /\ x.version = Version(x.id) /\ Stored(x.form) = Held(x.id)
    THEN MayHappen /\ repeats' = repeats + 1
    ELSE repeats' = repeats

\* Save in the header, Enter in the form; Cmd+S, which the navigation dialog
\* does not stop.
Save(w) ==
    /\ Here(w)
    /\ Becomes(w, SaveAsked(win[w], FALSE))
    /\ Repeats(win[w])
    /\ Same /\ UNCHANGED edits

\* Mutant: a failed save disarms the timers.
AutosaveOnceDue(x) == Dirty(x) /\ x.pill \notin {"conflict", "error"}

\* When a timer saves.  Of a new recipe an edit here is one that makes it
\* worth a row (a name, a line or a step), by a cook who may edit: the editor's
\* timer waits for both.
AutosaveDue(x) == Dirty(x) /\ x.pill # "conflict"

\* The quiet timer, and the one that fires every minute: recipes only.
Autosave(w) ==
    /\ kind = "recipe"
    /\ Here(w)
    /\ AutosaveDue(win[w])
    /\ Becomes(w, SaveAsked(win[w], win[w].leave = "saving"))
    /\ Repeats(win[w])
    /\ Same /\ UNCHANGED edits

\* A page that goes leaves its loop behind, with the save it has queued.
Abandoned(w) ==
    IF Running(win[w])
    THEN [orphan EXCEPT ![w] =
             [req |-> win[w].req,
              next |-> IF win[w].queued THEN win[w].form ELSE None,
              recovered |-> win[w].recovered]]
    ELSE orphan

\* The request alone, when its loop is gone too.
Alone(x) == [req |-> x.req, next |-> None, recovered |-> FALSE]

\* Bound: one orphaned request a window.
MayAbandon(w) == Running(win[w]) => orphan[w] = None

\* A link: a dirty document saves on the way out, a dirty form asks.
Leave(w) ==
    /\ Here(w)
    /\ win[w].leave = "no"
    /\ IF Dirty(win[w])
       THEN /\ Becomes(w, IF ~Drafting THEN [win[w] EXCEPT !.leave = "asking"]
                          ELSE SaveAsked([win[w] EXCEPT !.leave = "saving",
                                             !.owed = win[w].form.n], TRUE))
            /\ UNCHANGED orphan
       ELSE /\ MayAbandon(w)
            /\ Becomes(w, Closed)
            /\ orphan' = Abandoned(w)
    /\ UNCHANGED <<kind, edits, faults, loads, repeats, rows, created>>

\* The dialog's two answers.
Stay(w) ==
    /\ win[w].leave = "asking"
    /\ Becomes(w, [win[w] EXCEPT !.leave = "no"])
    /\ OnlyHere

LeaveWithout(w) ==
    /\ win[w].leave = "asking"
    /\ MayAbandon(w)
    /\ Becomes(w, Closed)
    /\ orphan' = Abandoned(w)
    /\ UNCHANGED <<kind, edits, faults, loads, repeats, rows, created>>

\* The restore banner: the copy goes into the form, or is dropped.
Restore(w) ==
    /\ win[w].offered # None
    /\ win[w].leave # "asking"
    /\ Becomes(w, [PutBack(win[w], win[w].offered)
                      EXCEPT !.offered = None, !.recovered = TRUE])
    /\ OnlyHere

Discard(w) ==
    /\ win[w].offered # None
    /\ win[w].leave # "asking"
    /\ win' = [win EXCEPT ![w].offered = None]
    /\ draft' = [draft EXCEPT ![Slot(w, win[w])] =
                    IF Dirty(win[w]) THEN win[w].form ELSE None]
    /\ OnlyHere

\* "Discard my changes", in the conflict banner: the copy goes, unless hiding
\* an offer renders the dirty form again.  The reload it asks for is Reload's,
\* which the cook may refuse at the browser's prompt.
DiscardMine(w) ==
    /\ Here(w)
    /\ Drafting
    /\ win[w].pill = "conflict"
    /\ win[w].leave # "asking"
    /\ win' = [win EXCEPT ![w].offered = None]
    /\ draft' = [draft EXCEPT ![Slot(w, win[w])] =
                    IF win[w].offered # None /\ Dirty(win[w])
                    THEN win[w].form ELSE None]
    /\ OnlyHere

-----------------------------------------------------------------------------
(* Pages that load.                                                         *)

Load(w, r) ==
    /\ MayHappen
    /\ loads' = loads + 1
    /\ Mounts(w, Loaded(w, r))
    /\ created' = [created EXCEPT ![w] = 0]
    /\ UNCHANGED <<kind, edits, faults, repeats, rows>>

\* A closed window opens a record.
Open(w) ==
    /\ win[w].page = "closed"
    /\ \E r \in Rows : rows[r] # <<>> /\ Load(w, r)
    /\ UNCHANGED orphan

\* A reload, a crash or a restarted browser: the page's loop goes with it,
\* but not the request already sent.
Reload(w) ==
    /\ Here(w)
    /\ MayAbandon(w)
    /\ Load(w, win[w].url)
    /\ orphan' = IF Running(win[w])
                 THEN [orphan EXCEPT ![w] = Alone(win[w])]
                 ELSE orphan

\* The page of the record just created mounts in the editor's place.
Arrive(w) ==
    /\ win[w].page = "moving"
    /\ MayAbandon(w)
    /\ Mounts(w, Loaded(w, win[w].url))
    /\ orphan' = Abandoned(w)
    /\ created' = [created EXCEPT ![w] = 0]
    /\ UNCHANGED <<kind, edits, faults, loads, repeats, rows>>

\* A form's screen re-renders from a fresh payload: its version becomes the
\* server's, what is typed survives.
Refresh(w) ==
    /\ kind = "form"
    /\ win[w].page = "open"
    /\ win[w].id # 0
    /\ win[w].version # Version(win[w].id)
    /\ Becomes(w, [win[w] EXCEPT !.version = Version(win[w].id)])
    /\ OnlyHere

-----------------------------------------------------------------------------
(* Requests.                                                                *)

\* The save action: the row is locked, a stale version refused, and the row
\* rewritten with its version bumped.  A create checks nothing.
Put(r, form) == rows' = [rows EXCEPT ![r] = Append(@, Stored(form))]

\* Mutant: the expected version goes unchecked.
NeverStale(q) == FALSE
Stale(q) == q.seen # Version(q.id)

Served(q) ==
    IF q.id = 0
    THEN LET free == {r \in Rows : rows[r] = <<>>}
             r == CHOOSE f \in free : TRUE
         IN  IF free = {} THEN {}      \* bound: no more rows
             ELSE {[q EXCEPT !.stage = "landed", !.row = r, !.at = 0]}
    ELSE IF Stale(q) THEN {[q EXCEPT !.stage = "stale"]}
    ELSE {[q EXCEPT !.stage = "landed", !.row = q.id,
                    !.at = Version(q.id) + 1]}

Writes(q) ==
    IF q.stage = "landed" THEN Put(q.row, q.form) ELSE UNCHANGED rows

Serve(w) ==
    /\ Running(win[w])
    /\ win[w].req.stage = "sent"
    /\ \E q \in Served(win[w].req) :
          /\ Writes(q)
          /\ win' = [win EXCEPT ![w].req = q]
          /\ created' = IF q.stage = "landed" /\ q.id = 0
                        THEN [created EXCEPT ![w] = @ + 1] ELSE created
    /\ UNCHANGED <<kind, edits, faults, loads, repeats, orphan, draft>>

\* The answer arrives: the rest of run() and of the queue's loop.
Answer(w) ==
    /\ Running(win[w])
    /\ \/ win[w].req.stage = "landed" /\ Becomes(w, Landed(win[w]))
       \/ win[w].req.stage = "stale" /\ Becomes(w, Refused(win[w]))
    /\ OnlyHere

\* The save answers with an error or throws, its answer is lost, or it times
\* out and the server may run it yet.
Fail(w) ==
    /\ Running(win[w])
    /\ MayHappen
    /\ faults' = faults + 1
    /\ Becomes(w, Failed(win[w]))
    /\ \/ UNCHANGED orphan
       \/ /\ win[w].req.stage = "sent"
          /\ orphan[w] = None
          /\ orphan' = [orphan EXCEPT ![w] = Alone(win[w])]
    /\ UNCHANGED <<kind, edits, loads, repeats, rows, created>>

\* A request whose page is gone runs, and the loop behind it sends the save
\* it has queued; or it never reaches the server.
ServeOrphan(w) ==
    /\ orphan[w] # None
    /\ \E q \in IF orphan[w].req.stage = "sent" THEN Served(orphan[w].req)
                 ELSE {orphan[w].req} :
          /\ IF orphan[w].req.stage = "sent" THEN Writes(q)
             ELSE UNCHANGED rows
          /\ orphan' = [orphan EXCEPT ![w] =
                IF q.stage = "stale" \/ orphan[w].next = None THEN None
                ELSE [req |-> [q EXCEPT !.stage = "sent",
                                        !.id = IF ClosesOverId THEN q.id ELSE q.row,
                                        !.seen = q.at,
                                        !.form = orphan[w].next,
                                        !.recovered = orphan[w].recovered],
                      next |-> None, recovered |-> FALSE]]
    /\ UNCHANGED <<kind, edits, faults, loads, repeats, win, draft, created>>

LoseOrphan(w) ==
    /\ orphan[w] # None
    /\ orphan' = [orphan EXCEPT ![w] = None]
    /\ UNCHANGED <<kind, edits, faults, loads, repeats, rows, win, draft, created>>

Step(w) ==
    \/ Type(w) \/ Save(w) \/ Autosave(w)
    \/ Leave(w) \/ Stay(w) \/ LeaveWithout(w)
    \/ Restore(w) \/ Discard(w)
    \/ Open(w) \/ Reload(w) \/ DiscardMine(w) \/ Arrive(w) \/ Refresh(w)
    \/ Serve(w) \/ Answer(w) \/ Fail(w)
    \/ ServeOrphan(w) \/ LoseOrphan(w)

Next == \E w \in Windows : Step(w)

\* A recipe's minute timer, the server, and the continuation of an answer.
Fairness ==
    \A w \in Windows :
        /\ WF_vars(Autosave(w))
        /\ WF_vars(Serve(w) \/ Fail(w))
        /\ WF_vars(Answer(w))

Spec == Init /\ [][Next]_vars /\ Fairness

-----------------------------------------------------------------------------
\* What the window's pill reads when nothing is wrong and nothing is dirty.
ReadsSaved(x) ==
    x.page # "closed" /\ x.id # 0 /\ x.pill = "saved" /\ ~Dirty(x)

\* What the window knows of its row: what that held at the version it holds.
Known(x) == rows[x.id][x.version + 1]

\* "Saved" is the visible state persisted (SAVE_SYSTEM.md 1): a window that
\* reads Saved shows what its row held at the version the window would save
\* against, whatever was typed, queued, refused or lost on the way.  Not so
\* once a half-typed form was sent or met an answer (see SavedMeansPersisted), nor for an
\* explicit form, which takes a version it has not read (see NoLostUpdate).
SavedIsStored ==
    \A w \in Windows :
        LET x == win[w]
        IN  ReadsSaved(x) /\ ~x.behind /\ kind # "form" => Known(x) = x.form

\* A save replaces only what its page had itself loaded or stored
\* (check_and_bump, SAVE_SYSTEM.md 8).  With the same two exceptions, and
\* that of a page that created two rows and now mixes them up.
ReplacesOnlyWhatItKnew ==
    [][\A w \in Windows :
          LET q == win'[w].req
          IN  /\ Running(win[w]) /\ win[w].req.stage = "sent"
              /\ q # None /\ q.stage = "landed" /\ q.id # 0
              /\ kind # "form" /\ created[w] <= 1 /\ ~win[w].behind
              => Held(q.id) = win[w].base]_vars

\* A link that saves on the way out leaves only once the form as it was when
\* the link was pressed, or a newer one, has reached its row (beforeLeaveRef).
LeavesOnlySaved ==
    [][\A w \in Windows :
          win[w].leave = "saving" /\ win'[w].page = "closed"
              => win[w].req.form.n >= win[w].owed]_vars

\* A dirty document has a copy to recover (draft-store.ts), however its slot
\* moves and its saves end: only another window on the same slot can take it,
\* or the cook who discards it and stays.
Recoverable(w) ==
    Drafting /\ win[w].page # "closed" /\ Dirty(win[w])
        => draft[Slot(w, win[w])] # None
CopyKept ==
    [][\A w \in Windows :
          win'[w] # win[w] /\ Recoverable(w) => Recoverable(w)']_vars

\* One page creates one row, unless an answer was lost: a save queued behind
\* the create sends the id the create came back with.  Menus and comparisons
\* do not; see NeverCreatesTwice.
OneRowPerPage ==
    kind # "menu" /\ faults = 0 => \A w \in Windows : created[w] <= 1

\* A dirty recipe is saved in the end, or the cook is told it conflicts, or
\* it holds a half-typed pair, or is gone.
RecipesSettle ==
    \A w \in Windows :
        kind = "recipe" /\ win[w].page # "closed" /\ Dirty(win[w])
            ~> \/ win[w].page = "closed"
               \/ ~Dirty(win[w])
               \/ win[w].pill = "conflict"
               \/ win[w].form.shape = "half"

\* A save never replaces what its window has not read (SAVE_SYSTEM.md 8).
NoLostUpdate ==
    [][\A w \in Windows :
          LET q == win'[w].req
          IN  /\ Running(win[w]) /\ win[w].req.stage = "sent"
              /\ q # None /\ q.stage = "landed" /\ q.id # 0
              => Held(q.id) = win[w].base]_vars

\* A recipe that reads Saved is persisted as it is (SAVE_SYSTEM.md 1).
SavedMeansPersisted ==
    \A w \in Windows : ReadsSaved(win[w]) => Known(win[w]) = win[w].form

\* Typing on while a create is in flight never makes a second record
\* (recipe-editor.tsx, use-edit-chrome.ts).
NeverCreatesTwice == faults = 0 => \A w \in Windows : created[w] <= 1
=============================================================================
